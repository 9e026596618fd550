----------------------------- MODULE CommandPool -----------------------------
(***************************************************************************)
(* The heart of the compute node (CN): one Run thread per client pushes    *)
(* commands on that client's CommandQueue, one DevScheduler thread per     *)
(* OpenCL device takes a token from the pool's semaphore, picks a queue    *)
(* under the scheduler's lock, executes the command at its front and pops  *)
(* it.  Source: src/cn/cn.cc (Run, DevScheduler), src/cn/command.{h,cc}    *)
(* (CommandPool, CommandQueue), src/cn/VMAFS_N_Scheduler.cc, handler.cc    *)
(* (HandlerFinish).                                                        *)
(*                                                                         *)
(* A thread's program counter stops where another thread can observe or    *)
(* change what it uses next.  skip_ and the list inside a queue are read   *)
(* by check(), InOrderSchedule() and WaitForFinishing() WITHOUT the        *)
(* queue's mutex, so every write to them is a step of its own.             *)
(* A client is one connection: a program that connects again is another    *)
(* member of Clients.                                                      *)
(***************************************************************************)
EXTENDS Integers, Sequences, FiniteSets, SequencesExt

CONSTANTS
    Clients,     \* the connections accepted by the CN, one Run thread each
    Devices,     \* the OpenCL devices, one DevScheduler thread each
    FirstDev,    \* queues[switcher]: switcher is a static that stays 0
    None,        \* nullptr: no device, no queue, no command
    Kinds,       \* the kinds of commands clients push
    MaxCmds,     \* bound: commands one client pushes
    ReadTimes    \* bound: profiled execution times of a CommandRead

ASSUME DevicesAssumption == FirstDev \in Devices /\ None \notin Devices
ASSUME ClientsAssumption == None \notin Clients
ASSUME KindsAssumption   == Kinds \subseteq {"task", "read", "finish"}
ASSUME FiniteAssumption  == IsFiniteSet(Clients) /\ IsFiniteSet(Devices)
ASSUME BoundsAssumption  == MaxCmds \in Nat /\ ReadTimes \subseteq Nat

VARIABLES
    \* class CommandPool
    sem,         \* sem_: the tokens
    queues,      \* queues_: the clients' queues in creation order
    \* class CommandQueue, one per client
    queue,       \* queue_: the pending commands
    skip,        \* skip_: a device is serving this queue
    bindingDev,  \* binding_dev_
    \* class VMAFS_N_Scheduler and VMInfo
    schedLock,   \* proc_lock_, as far as a DevScheduler holds it
    basedInner, weightLeng, timeLeng,  \* based_inner_product_, {weight,time}_leng_square_
    VMs,         \* VMs_
    used, refs,  \* total_used_time and reference_count of each client's VMInfo
    \* the threads' locals
    dpc, dqueue, dcomm,   \* DevScheduler: where it is, client_queue, comm
    rpc, isIncrease,      \* Run: where it is, Push's is_increase
    finSem,               \* CommandFinish::sem of the client's outstanding clFinish
    \* history
    pushed, executed      \* number of commands pushed, number executed

poolVars  == <<sem, queues>>
queueVars == <<queue, skip, bindingDev>>
sums == <<basedInner, weightLeng, timeLeng>>
vmVars == <<VMs, used, refs>>
schedVars == <<schedLock, sums, vmVars>>
devVars   == <<dpc, dqueue, dcomm>>
runVars   == <<rpc, isIncrease, finSem>>
history   == <<pushed, executed>>
vars == <<poolVars, queueVars, schedVars, devVars, runVars, history>>

-----------------------------------------------------------------------------
(* Commands: n numbers a client's commands in the order it pushed them.    *)
(* "task" stands for every command whose Exec leaves exec_time_ at 1.      *)
Cmd == [n : 1..MaxCmds, kind : Kinds]

Weight      == 1    \* CreateVM(1.f)
EstExecTime == 1    \* Command::est_exec_time_

\* Command::exec_time(): only CommandRead replaces the initial 1 by a measurement.
ExecTimes(kind) == IF kind = "read" THEN ReadTimes ELSE {1}

\* The mutex_ of c's queue is held across steps only by c's own Run thread, inside Push.
QueueLocked(c) == rpc[c] = "push"

\* Variant: nobody respects proc_lock_.
SchedFreeAlways == TRUE

SchedFree == schedLock = None

\* A queue that check() and InOrderSchedule() do not pass over.
Eligible(c) == ~skip[c] /\ queue[c] # <<>>

-----------------------------------------------------------------------------
(* VMAFS_N_Scheduler::InOrderSchedule: the queue whose next command brings *)
(* the vector of used times closest to the vector of weights.  Cosines of  *)
(* two candidates are compared by their squares, multiplied out; the       *)
(* common factor sqrt(weight_leng_square_) cancels.                        *)
InnerProduct(c) == basedInner + EstExecTime * Weight
TimeLeng(c) == timeLeng + 2 * used[c] * EstExecTime + EstExecTime * EstExecTime

\* Variant: the used time left out of the comparison, so the first candidate wins.
CosLessNoLag(b, c) == InnerProduct(b) < InnerProduct(c)

CosLess(b, c) ==
    InnerProduct(b) * InnerProduct(b) * TimeLeng(c) < InnerProduct(c) * InnerProduct(c) * TimeLeng(b)


\* q is the queue the loop ends with: a later queue replaces it only when strictly better.
Chosen(q) ==
    \E i \in DOMAIN queues :
        /\ queues[i] = q
        /\ Eligible(q)
        /\ \A j \in DOMAIN queues : Eligible(queues[j]) =>
              /\ ~CosLess(q, queues[j])
              /\ j < i => CosLess(queues[j], q)

\* Variant: any device takes any queue.
CheckAnyDevice(d) == \E i \in DOMAIN queues : Eligible(queues[i])

\* CommandPool::check, which reads the list and the queues without any lock.
Check(d) == \E i \in DOMAIN queues : Eligible(queues[i]) /\ bindingDev[queues[i]] \in {None, d}

-----------------------------------------------------------------------------
Init ==
    /\ sem = 0
    /\ queues = <<>>
    /\ queue = [c \in Clients |-> <<>>]
    /\ skip = [c \in Clients |-> FALSE]
    /\ bindingDev = [c \in Clients |-> None]
    /\ schedLock = None
    /\ basedInner = 0 /\ weightLeng = 0 /\ timeLeng = 0
    /\ VMs = {}
    /\ used = [c \in Clients |-> 0]
    /\ refs = [c \in Clients |-> 0]
    /\ dpc = [d \in Devices |-> "take"]
    /\ dqueue = [d \in Devices |-> None]
    /\ dcomm = [d \in Devices |-> None]
    /\ rpc = [c \in Clients |-> "new"]
    /\ isIncrease = [c \in Clients |-> FALSE]
    /\ finSem = [c \in Clients |-> 0]
    /\ pushed = [c \in Clients |-> 0]
    /\ executed = [c \in Clients |-> 0]

-----------------------------------------------------------------------------
(* The Run thread of client c.                                             *)

Goto(c, from, to) == rpc[c] = from /\ rpc' = [rpc EXCEPT ![c] = to]

\* CreateVM(1.f), under the scheduler's lock.
CreateVM(c) ==
    /\ SchedFree
    /\ Goto(c, "new", "queue")
    /\ VMs' = VMs \cup {c}
    /\ weightLeng' = weightLeng + Weight * Weight
    /\ UNCHANGED <<poolVars, queueVars, schedLock, basedInner, timeLeng, used, refs, devVars, isIncrease, finSem, history>>

\* CommandPool::CreateQueue, under the scheduler's lock.
CreateQueue(c) ==
    /\ SchedFree
    /\ Goto(c, "queue", "bind")
    /\ refs' = [refs EXCEPT ![c] = @ + 1]
    /\ queues' = Append(queues, c)
    /\ UNCHANGED <<sem, queueVars, schedLock, sums, VMs, used, devVars, isIncrease, finSem, history>>

\* set_binding_dev(queues[switcher]).
BindDevice(c) ==
    /\ Goto(c, "bind", "serve")
    /\ bindingDev' = [bindingDev EXCEPT ![c] = FirstDev]
    /\ UNCHANGED <<poolVars, queue, skip, schedVars, devVars, isIncrease, finSem, history>>

\* CommandQueue::IsEmpty; the variants make WaitForFinishing's wait a no-op, and turn its
\* condition round.
NothingLeft(c) == TRUE
SomethingLeft(c) == queue[c] # <<>>
IsEmpty(c) == queue[c] = <<>>

\* queue_.push_back(command); the variant pushes at the other end.
PushedFront(c, comm) == <<comm>> \o queue[c]
PushedBack(c, comm) == Append(queue[c], comm)

\* CommandQueue::Push up to push_back: the mutex stays held.
PushBack(c, kind) ==
    /\ pushed[c] < MaxCmds
    /\ Goto(c, "serve", "push")
    /\ isIncrease' = [isIncrease EXCEPT ![c] = IsEmpty(c)]
    /\ queue' = [queue EXCEPT ![c] = PushedBack(c, [n |-> pushed[c] + 1, kind |-> kind])]
    /\ pushed' = [pushed EXCEPT ![c] = @ + 1]
    /\ UNCHANGED <<poolVars, skip, bindingDev, schedVars, devVars, finSem, executed>>

\* What handler c's Run thread is in once Push returns: HandlerFinish waits for its command.
AfterPush(c) == IF Last(queue[c]).kind = "finish" THEN "finish" ELSE "serve"

\* Push posts a token; the variant does so for every command.
PostsForAny(c) == ~skip[c]
PostsForFirst(c) == isIncrease[c] /\ ~skip[c]

\* The rest of Push: a token for a queue that was empty and is not being served.
PushToken(c) ==
    /\ rpc[c] = "push"
    /\ sem' = IF PostsForFirst(c) THEN sem + 1 ELSE sem
    /\ rpc' = [rpc EXCEPT ![c] = AfterPush(c)]
    /\ isIncrease' = [isIncrease EXCEPT ![c] = FALSE]
    /\ UNCHANGED <<queues, queueVars, schedVars, devVars, finSem, history>>

\* comm_finish->Wait() returns; the variant does not wait.
FinishAssumed(c) == TRUE
FinishSignalled(c) == finSem[c] > 0

\* HandlerFinish after Push: comm_finish->Wait() returns and the client is acknowledged.
FinishAck(c) ==
    /\ FinishSignalled(c)
    /\ Goto(c, "finish", "serve")
    /\ finSem' = [finSem EXCEPT ![c] = @ - 1]
    /\ UNCHANGED <<poolVars, queueVars, schedVars, devVars, isIncrease, history>>

\* The client closed its connection: recv returns 0 and the loop of Run ends.
Disconnect(c) ==
    /\ Goto(c, "serve", "drain")
    /\ UNCHANGED <<poolVars, queueVars, schedVars, devVars, isIncrease, finSem, history>>

\* WaitForFinishing finds the queue empty (its list is read without mutex_).
Drained(c) ==
    /\ IsEmpty(c)
    /\ Goto(c, "drain", "destroy")
    /\ UNCHANGED <<poolVars, queueVars, schedVars, devVars, isIncrease, finSem, history>>

\* WaitForFinishing finds a command and sleeps on cond_is_finish_.
DrainWait(c) ==
    /\ ~IsEmpty(c)
    /\ Goto(c, "drain", "asleep")
    /\ UNCHANGED <<poolVars, queueVars, schedVars, devVars, isIncrease, finSem, history>>

\* Nothing signals cond_is_finish_ (NotifyFinish is empty); POSIX lets the wait return anyway.
SpuriousWakeup(c) ==
    /\ Goto(c, "asleep", "drain")
    /\ UNCHANGED <<poolVars, queueVars, schedVars, devVars, isIncrease, finSem, history>>

\* Position of c's queue in the pool's list.
IndexOfQueue(c) == CHOOSE i \in DOMAIN queues : queues[i] = c

\* The sums lose c's share; the variant forgets the squared time.
SumsButTimeRelease(c) ==
    /\ basedInner' = basedInner - Weight * used[c]
    /\ weightLeng' = weightLeng - Weight * Weight
    /\ UNCHANGED timeLeng
SumsRelease(c) ==
    /\ basedInner' = basedInner - Weight * used[c]
    /\ weightLeng' = weightLeng - Weight * Weight
    /\ timeLeng' = timeLeng - used[c] * used[c]

\* DestroyQueue, then DestroyVM (which keeps a VM that still has a queue), under the
\* scheduler's lock.
DestroyQueueAndVM(c) ==
    /\ SchedFree
    /\ Goto(c, "destroy", "gone")
    /\ queues' = RemoveAt(queues, IndexOfQueue(c))
    /\ refs' = [refs EXCEPT ![c] = @ - 1]
    /\ IF refs'[c] # 0
       THEN UNCHANGED <<VMs, sums>>
       ELSE VMs' = VMs \ {c} /\ SumsRelease(c)
    /\ UNCHANGED <<sem, queueVars, schedLock, used, devVars, isIncrease, finSem, history>>

-----------------------------------------------------------------------------
(* The DevScheduler thread of device d.                                    *)

Step(d, from, to) == dpc[d] = from /\ dpc' = [dpc EXCEPT ![d] = to]

\* WaitAndDecrease.
Take(d) ==
    /\ sem > 0
    /\ Step(d, "take", "check")
    /\ sem' = sem - 1
    /\ UNCHANGED <<queues, queueVars, schedVars, dqueue, dcomm, runVars, history>>

CheckPasses(d) ==
    /\ Check(d)
    /\ Step(d, "check", "schedule")
    /\ UNCHANGED <<poolVars, queueVars, schedVars, dqueue, dcomm, runVars, history>>

\* Variant: the device keeps the token it cannot use.
CheckFailsKeepingToken(d) ==
    /\ ~Check(d)
    /\ Step(d, "check", "take")
    /\ UNCHANGED <<poolVars, queueVars, schedVars, dqueue, dcomm, runVars, history>>

\* Increase, pthread_yield, continue.
CheckFails(d) ==
    /\ ~Check(d)
    /\ Step(d, "check", "take")
    /\ sem' = sem + 1
    /\ UNCHANGED <<queues, queueVars, schedVars, dqueue, dcomm, runVars, history>>

\* set_skip(true) on the chosen queue; the variant forgets it.
NotSkipped(q) == skip
Skipped(q) == [skip EXCEPT ![q] = TRUE]

\* client_queue->front().
Oldest(q) == Head(queue[q])

\* The first critical section.  It has no step when InOrderSchedule returns nullptr: the
\* thread would abort there, and invariant ScheduleFindsWork says it never does.
Schedule(d) ==
    /\ SchedFree
    /\ Step(d, "schedule", "exec")
    /\ \E q \in Clients :
          /\ Chosen(q)
          /\ skip' = Skipped(q)
          /\ dqueue' = [dqueue EXCEPT ![d] = q]
          /\ dcomm' = [dcomm EXCEPT ![d] = Oldest(q)]
    /\ UNCHANGED <<poolVars, queue, bindingDev, schedVars, runVars, history>>

\* CommandFinish::Exec posts its semaphore, no other Exec does; the variant never posts.
PostsNever(comm) == FALSE
PostsFinish(comm) == comm.kind = "finish"

\* comm->Exec(dev_queue).
Exec(d) ==
    /\ Step(d, "exec", "account")
    /\ executed' = [executed EXCEPT ![dqueue[d]] = @ + 1]
    /\ finSem' = IF PostsFinish(dcomm[d]) THEN [finSem EXCEPT ![dqueue[d]] = @ + 1] ELSE finSem
    /\ UNCHANGED <<poolVars, queueVars, schedVars, dqueue, dcomm, rpc, isIncrease, pushed>>

\* The second critical section begins: account the time the command used to its VM.
Account(d) ==
    /\ SchedFree
    /\ Step(d, "account", "pop")
    /\ schedLock' = d
    /\ \E u \in ExecTimes(dcomm[d].kind) :
          LET q == dqueue[d] IN
          /\ basedInner' = basedInner + u * Weight
          /\ timeLeng' = timeLeng + (2 * used[q] * u + u * u)
          /\ used' = [used EXCEPT ![q] = @ + u]
    /\ UNCHANGED <<poolVars, queueVars, weightLeng, VMs, refs, dqueue, dcomm, runVars, history>>

\* client_queue->Pop().
Pop(d) ==
    /\ Step(d, "pop", "reload")
    /\ ~QueueLocked(dqueue[d])
    /\ queue' = [queue EXCEPT ![dqueue[d]] = IF @ = <<>> THEN @ ELSE Tail(@)]
    /\ UNCHANGED <<poolVars, skip, bindingDev, schedVars, dqueue, dcomm, runVars, history>>

\* Under the queue's mutex: a token for what is left in the queue.
Reload(d) ==
    /\ Step(d, "reload", "unskip")
    /\ ~QueueLocked(dqueue[d])
    /\ sem' = IF queue[dqueue[d]] # <<>> THEN sem + 1 ELSE sem
    /\ UNCHANGED <<queues, queueVars, schedVars, dqueue, dcomm, runVars, history>>

\* set_skip(false) and Unlock; the locals of the iteration go out of scope.
Unskip(d) ==
    /\ Step(d, "unskip", "take")
    /\ skip' = [skip EXCEPT ![dqueue[d]] = FALSE]
    /\ schedLock' = None
    /\ dqueue' = [dqueue EXCEPT ![d] = None]
    /\ dcomm' = [dcomm EXCEPT ![d] = None]
    /\ UNCHANGED <<poolVars, queue, bindingDev, sums, vmVars, runVars, history>>

-----------------------------------------------------------------------------
\* What the Run thread does by itself; pushing and closing are the client's choice.
RunInternal(c) ==
    \/ CreateVM(c) \/ CreateQueue(c) \/ BindDevice(c)
    \/ PushToken(c) \/ FinishAck(c)
    \/ Drained(c) \/ DrainWait(c) \/ DestroyQueueAndVM(c)

DevInternal(d) ==
    \/ CheckPasses(d) \/ CheckFails(d) \/ Schedule(d) \/ Exec(d)
    \/ Account(d) \/ Pop(d) \/ Reload(d) \/ Unskip(d)

Next ==
    \/ \E c \in Clients :
          \/ RunInternal(c)
          \/ \E kind \in Kinds : PushBack(c, kind)
          \/ Disconnect(c)
          \/ SpuriousWakeup(c)
    \/ \E d \in Devices : Take(d) \/ DevInternal(d)

Spec == Init /\ [][Next]_vars

(* Every thread keeps running.  sem_wait is strongly fair: a device that   *)
(* only takes tokens it cannot use (it yields after giving one back) does  *)
(* not win every race for them.  No fairness for the clients' choices, nor *)
(* for a spurious wakeup.                                                  *)
Fairness ==
    /\ \A c \in Clients : WF_vars(RunInternal(c))
    /\ \A d \in Devices : WF_vars(DevInternal(d)) /\ SF_vars(Take(d))

FairSpec == Spec /\ Fairness
-----------------------------------------------------------------------------
(* Properties.                                                             *)

DevPC == {"take", "check", "schedule", "exec", "account", "pop", "reload", "unskip"}
RunPC == {"new", "queue", "bind", "serve", "push", "finish", "drain", "asleep", "destroy", "gone"}

InService(d) == dpc[d] \in {"exec", "account", "pop", "reload", "unskip"}

TypeOK ==
    /\ sem \in Nat
    /\ queues \in Seq(Clients)
    /\ queue \in [Clients -> Seq(Cmd)]
    /\ skip \in [Clients -> BOOLEAN]
    /\ bindingDev \in [Clients -> {None, FirstDev}]
    /\ schedLock \in Devices \cup {None}
    /\ basedInner \in Int /\ weightLeng \in Int /\ timeLeng \in Int
    /\ VMs \subseteq Clients
    /\ used \in [Clients -> Nat]
    /\ refs \in [Clients -> Int]
    /\ dpc \in [Devices -> DevPC]
    /\ dqueue \in [Devices -> Clients \cup {None}]
    /\ dcomm \in [Devices -> Cmd \cup {None}]
    /\ rpc \in [Clients -> RunPC]
    /\ isIncrease \in [Clients -> BOOLEAN]
    /\ finSem \in [Clients -> Nat]
    /\ pushed \in [Clients -> Nat]
    /\ executed \in [Clients -> Nat]

\* skip_ is the ownership mark of a queue: it is set exactly while one device serves the
\* queue, so two devices never serve one client at once (cn.cc:69 to cn.cc:101).
SkipMarksOwner ==
    /\ \A c \in Clients : skip[c] <=> \E d \in Devices : InService(d) /\ dqueue[d] = c
    /\ \A d, e \in Devices : InService(d) /\ InService(e) /\ dqueue[d] = dqueue[e] => d = e

\* The command a device fetched with front() before it gave up the scheduler's lock is still
\* at the front when Pop, which names no command, removes it: the client's pushes and the
\* other threads never make Pop remove another one (cn.cc:71, 78, 93).
FrontIsRunning ==
    \A d \in Devices : dpc[d] \in {"exec", "account", "pop"} =>
        /\ queue[dqueue[d]] # <<>>
        /\ Head(queue[dqueue[d]]) = dcomm[d]

\* assert(client_queue != nullptr) (cn.cc:70): what the unlocked check() saw is still there
\* when InOrderSchedule looks under the lock, although clients pushed, disconnected and were
\* destroyed in between.  A cosine is never below 0 and the loop starts from -1, so one
\* eligible queue is enough for InOrderSchedule to return a queue.
ScheduleFindsWork ==
    \A d \in Devices : dpc[d] = "schedule" => \E i \in DOMAIN queues : Eligible(queues[i])

\* A command runs on the device its queue is bound to (command.h:277).
RunsOnBindingDev ==
    \A d \in Devices : InService(d) => bindingDev[dqueue[d]] = d

\* A destroyed queue is empty and no device still works on it: WaitForFinishing reads the
\* list without its mutex, and Pop empties it before the device is done with the queue
\* (cn.cc:93 to 101, 394 to 412).
DestroyedIsIdle ==
    \A c \in Clients : rpc[c] = "gone" =>
        /\ queue[c] = <<>>
        /\ \A d \in Devices : dqueue[d] # c

\* clFinish is acknowledged only after every command the client pushed before it was
\* executed (handler.cc:54 to 72).
FinishMeansDone ==
    \A c \in Clients : rpc[c] = "finish" /\ finSem[c] > 0 => executed[c] = pushed[c]

\* A client's commands are executed once each, in the order it pushed them: the n-th
\* execution on a client's behalf is that of its n-th command (command.cc:326, cn.cc:71, 93).
ExecutedInOrder ==
    \A d \in Devices : dpc[d] = "exec" => dcomm[d].n = executed[dqueue[d]] + 1

\* The three running sums the scheduler steers by are those of the live VMs, whatever
\* clients came, went and executed (VMAFS_N_Scheduler.cc:41, 53 to 55, cn.cc:87 to 90).
SumsMatchVMs ==
    /\ basedInner = SumFunctionOnSet([c \in Clients |-> Weight * used[c]], VMs)
    /\ weightLeng = SumFunctionOnSet([c \in Clients |-> Weight * Weight], VMs)
    /\ timeLeng   = SumFunctionOnSet([c \in Clients |-> used[c] * used[c]], VMs)

\* With the equal weights Run gives every VM, the cosine rule serves a client that has used
\* the least time among those with work to do.
LeastUsedFirst ==
    [][\A d \in Devices : dpc[d] = "schedule" /\ dpc'[d] = "exec" =>
          \A c \in Clients : Eligible(c) => used[dqueue'[d]] <= used[c]]_vars

\* Tokens of the pool's semaphore, those the devices have taken and not yet used included.
Tokens == sem + Cardinality({d \in Devices : dpc[d] \in {"check", "schedule"}})

\* Queues a token may stand for: work no device has, or work left by one about to let go.
Claims == {c \in Clients : queue[c] # <<>>
                            /\ (~skip[c] \/ \E d \in Devices : dpc[d] = "unskip" /\ dqueue[d] = c)}

\* There are never more tokens than queues with work, so devices do not spin on an idle pool
\* and the semaphore does not creep up (command.cc:332, cn.cc:59, 96).
NoSurplusToken == Tokens <= Cardinality(Claims)

\* A token is missing for a queue with work that no device has and no Push is about to post.
TokenLost ==
    Tokens < Cardinality({c \in Clients : Eligible(c) /\ ~(rpc[c] = "push" /\ isIncrease[c])})

\* A token that was posted gets a command executed, also when a device that has no queue of
\* its own keeps taking it.
TokenIsUsed == (sem > 0) ~> (\E d \in Devices : dpc[d] = "exec")

\* clFinish returns: the handler that prints "starting waiting finishing" comes to print
\* "ending waiting finishing" (handler.cc:53, 55), as the programs under test/ rely on.
FinishReturns == \A c \in Clients : (rpc[c] = "finish") ~> (rpc[c] # "finish")

\* The only thing that keeps clFinish from returning is a lost token.
StuckOnlyByLostToken == [](~TokenLost) => FinishReturns

\* A client that closes its connection when its commands are done is cleaned up: its queue and
\* its VM are destroyed.  With commands pending it sleeps in WaitForFinishing (command.cc:357),
\* which nothing signals.
DisconnectCleansUp == \A c \in Clients : (rpc[c] = "drain" /\ queue[c] = <<>>) ~> (rpc[c] = "gone")

-----------------------------------------------------------------------------
(* The inductive invariant behind the safety properties.                   *)

\* A device's locals are set exactly while it serves a queue.
LocalsInScope ==
    \A d \in Devices : IF InService(d) THEN dqueue[d] \in Clients /\ dcomm[d] \in Cmd
                                       ELSE dqueue[d] = None /\ dcomm[d] = None

\* The scheduler's lock is held across steps only in the second critical section.
LockHolder == \A d \in Devices : schedLock = d <=> dpc[d] \in {"pop", "reload", "unskip"}

\* Only the first device gets past check(): every queue that ever held a command is bound to it.
OnlyFirstDev ==
    /\ \A d \in Devices : InService(d) \/ dpc[d] = "schedule" => d = FirstDev
    /\ \A c \in Clients : rpc[c] \notin {"new", "queue", "bind"} => bindingDev[c] = FirstDev
    /\ \A c \in Clients : rpc[c] \in {"new", "queue", "bind", "destroy", "gone"} => queue[c] = <<>>

\* The pool lists a client's queue from CreateQueue to DestroyQueue, once.
ListedOnce ==
    /\ \A c \in Clients : (\E i \in DOMAIN queues : queues[i] = c) <=> rpc[c] \notin {"new", "queue", "gone"}
    /\ \A i, j \in DOMAIN queues : queues[i] = queues[j] => i = j

\* A device executed the command at the front of c's queue and has not popped it yet.
FrontServed(c) == \E d \in Devices : dqueue[d] = c /\ dpc[d] \in {"account", "pop"}

\* A queue holds the last commands its client pushed, in order.
QueueWindow ==
    \A c \in Clients :
        /\ executed[c] + Len(queue[c]) = pushed[c] + (IF FrontServed(c) THEN 1 ELSE 0)
        /\ \A i \in DOMAIN queue[c] : queue[c][i].n = pushed[c] - Len(queue[c]) + i

\* c's handler is in clFinish, or about to be.
Finishing(c) == rpc[c] = "finish" \/ (rpc[c] = "push" /\ AfterPush(c) = "finish")

\* A clFinish is the last command of its client until it is acknowledged.
FinishIsLast ==
    \A c \in Clients :
        /\ finSem[c] > 0 => Finishing(c) /\ executed[c] = pushed[c]
        /\ finSem[c] <= 1
        /\ \A i \in DOMAIN queue[c] : queue[c][i].kind = "finish" =>
              \/ i = 1 /\ FrontServed(c)
              \/ i = Len(queue[c]) /\ Finishing(c)

\* The scheduler keeps a VM, with one reference, from CreateVM and CreateQueue to the end.
VMsLive ==
    \A c \in Clients :
        /\ c \in VMs <=> rpc[c] \notin {"new", "gone"}
        /\ refs[c] = IF rpc[c] \in {"new", "queue", "gone"} THEN 0 ELSE 1
        /\ rpc[c] = "new" => used[c] = 0

\* No token stands yet for a queue whose Push is to post one.
Posting == {c \in Clients : rpc[c] = "push" /\ isIncrease[c]}
TokensCovered ==
    /\ Tokens <= Cardinality(Claims \ Posting)
    /\ \A c \in Clients : rpc[c] = "push" => queue[c] # <<>>

\* Everything a step needs to know about the step before it.
PoolInv ==
    /\ TypeOK
    /\ LocalsInScope /\ LockHolder /\ OnlyFirstDev /\ ListedOnce
    /\ SkipMarksOwner /\ FrontIsRunning /\ ScheduleFindsWork /\ DestroyedIsIdle
    /\ RunsOnBindingDev /\ QueueWindow /\ FinishIsLast
    /\ VMsLive /\ SumsMatchVMs /\ TokensCovered

-----------------------------------------------------------------------------
(* What a client is promised: its commands are served one at a time, in    *)
(* order.  A command has been served once Exec returned, before it leaves  *)
(* the queue.                                                              *)
Unserved(c) ==
    IF FrontServed(c) THEN Tail(queue[c]) ELSE queue[c]

Phase(c) ==
    CASE rpc[c] \in {"new", "queue", "bind"} -> "new"
      [] rpc[c] = "push"                     -> AfterPush(c)
      [] rpc[c] = "gone"                     -> "gone"
      [] rpc[c] = "finish"                   -> "finish"
      [] OTHER                               -> "serve"

Service == INSTANCE ClientService WITH
               Commands <- Cmd,
               phase    <- [c \in Clients |-> Phase(c)],
               pending  <- [c \in Clients |-> Unserved(c)]

\* The command pool implements the service.
ImplementsService == Service!Spec
=============================================================================
