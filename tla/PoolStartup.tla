----------------------------- MODULE PoolStartup -----------------------------
(***************************************************************************)
(* How the command pool and the scheduler come into being.  Instance()     *)
(* creates each on first use behind a flag that it tests before it takes   *)
(* the mutex and does not test again, so two threads may both create one;  *)
(* the second destroys the first, with the semaphore a device thread may   *)
(* already sleep on, or the lock another thread holds.  Device threads and *)
(* the first clients' Run threads call both Instance() at the same time.   *)
(* Source: src/cn/command.cc (CommandPool::Instance),                      *)
(* src/cn/VMAFS_N_Scheduler.cc (Instance, Lock, CreateVM), src/cn/cn.cc    *)
(* (DevScheduler, Run, main).                                              *)
(*                                                                         *)
(* Each client pushes one command, bound to the device BoundDev.  The      *)
(* queues are those of CommandPool; here only the tokens and the           *)
(* scheduler's lock matter, which live in the objects Instance returned.   *)
(***************************************************************************)
EXTENDS Integers, FiniteSets

CONSTANTS
    Devices,     \* device threads
    Clients,     \* Run threads, one command each
    BoundDev     \* the device the queues are bound to

ASSUME BoundDevAssumption == BoundDev \in Devices
ASSUME ThreadsAssumption == Devices \cap Clients = {}
ASSUME FiniteAssumption == IsFiniteSet(Devices) /\ IsFiniteSet(Clients)

VARIABLES
    isInit, holder,  \* flag and mutex of each Instance()
    instance,        \* the current object of each, by number; 0 is nullptr
    pc, calls,       \* what each thread does next, and whose Instance() it called last
    sem,             \* sem_ of every pool object ever created
    procLock,        \* proc_lock_ of every scheduler object: the thread that locked it
    uses,            \* the object whose semaphore or lock a thread waits for, or in which it runs
                     \* a member function; 0 is none
    queued           \* clients whose command is queued and not executed

vars == <<isInit, holder, instance, pc, calls, sem, procLock, uses, queued>>

Threads == Devices \cup Clients
Singletons == {"sched", "pool"}
None == "none"
ASSUME NoneAssumption == None \notin Threads

\* Bound: a thread creates one object at most, since it sets the flag before it tests again.
MaxObjects == Cardinality(Threads)
Objects == 1 .. MaxObjects

Init ==
    /\ isInit = [s \in Singletons |-> FALSE] /\ holder = [s \in Singletons |-> None]
    /\ instance = [s \in Singletons |-> 0]
    /\ pc = [t \in Threads |-> IF t \in Devices THEN "test" ELSE "connect"]
    /\ calls = [t \in Threads |-> "sched"]
    /\ sem = [p \in Objects |-> 0] /\ procLock = [o \in Objects |-> None]
    /\ uses = [t \in Threads |-> 0]
    /\ queued = {}

Goto(t, to) == pc' = [pc EXCEPT ![t] = to]
CallInstance(t, s) == Goto(t, "test") /\ calls' = [calls EXCEPT ![t] = s]

-----------------------------------------------------------------------------
(* Instance().                                                             *)

\* if (!is_init)
TestFlag(t) ==
    /\ pc[t] = "test"
    /\ Goto(t, IF isInit[calls[t]] THEN "use" ELSE "create")
    /\ UNCHANGED <<isInit, holder, instance, calls, sem, procLock, uses, queued>>

\* pthread_mutex_lock waits.
MutexFree(s) == holder[s] = None

\* Lock the mutex and move a new object into the static unique_ptr, which destroys the one it
\* held.
Create(t) ==
    /\ pc[t] = "create" /\ MutexFree(calls[t])
    /\ holder' = [holder EXCEPT ![calls[t]] = t]
    /\ instance' = [instance EXCEPT ![calls[t]] = @ + 1]
    /\ Goto(t, "setFlag")
    /\ UNCHANGED <<isInit, calls, sem, procLock, uses, queued>>

\* Unlock the mutex and set the flag.  Whoever is waiting for the mutex is past the test, so
\* that the two are one step.
SetFlag(t) ==
    /\ pc[t] = "setFlag"
    /\ holder' = [holder EXCEPT ![calls[t]] = None]
    /\ isInit' = [isInit EXCEPT ![calls[t]] = TRUE]
    /\ Goto(t, "use")
    /\ UNCHANGED <<instance, calls, sem, procLock, uses, queued>>

-----------------------------------------------------------------------------
(* The scheduler's lock.  A device has a reference to the unique_ptr, so   *)
(* that its Lock and Unlock each go to the object that is current then; a  *)
(* client is in CreateVM, whose Lock and Unlock are those of one object.   *)

\* A client in CreateVM, a device about to schedule.  CreateQueue and a device's second critical
\* section take the same lock as a device does here.
NeedsLock(t) == pc[t] = "schedule" \/ (t \in Clients /\ pc[t] = "use" /\ calls[t] = "sched")

WaitForLock(t) ==
    /\ NeedsLock(t)
    /\ uses' = [uses EXCEPT ![t] = instance["sched"]]
    /\ Goto(t, "waitLock")
    /\ UNCHANGED <<isInit, holder, instance, calls, sem, procLock, queued>>

\* proc_lock_ is a mutex; the variant lets everybody in.
LockIgnored(o) == TRUE
LockFree(o) == procLock[o] = None

EnterSched(t) ==
    /\ pc[t] = "waitLock" /\ LockFree(uses[t])
    /\ procLock' = [procLock EXCEPT ![uses[t]] = t]
    /\ uses' = IF t \in Clients THEN uses ELSE [uses EXCEPT ![t] = 0]
    /\ Goto(t, "inSched")
    /\ UNCHANGED <<isInit, holder, instance, calls, sem, queued>>

Locked(t) == IF t \in Clients THEN uses[t] ELSE instance["sched"]

\* A client asks for the pool next; a device executes a command and starts over.
LeaveSched(t) ==
    /\ pc[t] = "inSched"
    /\ procLock' = [procLock EXCEPT ![Locked(t)] = None]
    /\ uses' = [uses EXCEPT ![t] = 0]
    /\ IF t \in Devices THEN \E c \in queued : queued' = queued \ {c} ELSE UNCHANGED queued
    /\ CallInstance(t, "pool")
    /\ UNCHANGED <<isInit, holder, instance, sem>>

-----------------------------------------------------------------------------
(* The callers.                                                            *)

\* A client connects and its Run thread calls the scheduler's Instance.
Connect(c) ==
    /\ pc[c] = "connect"
    /\ Goto(c, "test")
    /\ UNCHANGED <<isInit, holder, instance, calls, sem, procLock, uses, queued>>

\* Push: queue the command and post a token; the variant posts none.
TokensForgotten == 0
TokensPosted == 1

Push(c) ==
    /\ pc[c] = "use" /\ calls[c] = "pool"
    /\ queued' = queued \cup {c}
    /\ sem' = [sem EXCEPT ![instance["pool"]] = @ + TokensPosted]
    /\ Goto(c, "done")
    /\ UNCHANGED <<isInit, holder, instance, calls, procLock, uses>>

\* DevScheduler has the scheduler and begins its loop.
BeginLoop(d) ==
    /\ pc[d] = "use" /\ calls[d] = "sched"
    /\ CallInstance(d, "pool")
    /\ UNCHANGED <<isInit, holder, instance, sem, procLock, uses, queued>>

\* WaitAndDecrease: from here the device sleeps on this object's semaphore.
StartWaiting(d) ==
    /\ pc[d] = "use" /\ calls[d] = "pool"
    /\ uses' = [uses EXCEPT ![d] = instance["pool"]]
    /\ Goto(d, "wait")
    /\ UNCHANGED <<isInit, holder, instance, calls, sem, procLock, queued>>

\* A semaphore that has been destroyed wakes nobody.
TokenThere(d) == pc[d] = "wait" /\ uses[d] = instance["pool"] /\ sem[uses[d]] > 0

\* The bound device takes the token and goes to schedule the command.
Take(d) ==
    /\ d = BoundDev /\ TokenThere(d)
    /\ sem' = [sem EXCEPT ![uses[d]] = @ - 1]
    /\ uses' = [uses EXCEPT ![d] = 0]
    /\ Goto(d, "schedule")
    /\ UNCHANGED <<isInit, holder, instance, calls, procLock, queued>>

\* Any other device gives the token back: check() finds nothing bound to it.
TakeAndGiveBack(d) ==
    /\ d # BoundDev /\ TokenThere(d)
    /\ uses' = [uses EXCEPT ![d] = 0]
    /\ CallInstance(d, "pool")
    /\ UNCHANGED <<isInit, holder, instance, sem, procLock, queued>>

-----------------------------------------------------------------------------
InstanceStep(t) == TestFlag(t) \/ Create(t) \/ SetFlag(t)
SchedStep(t) == WaitForLock(t) \/ EnterSched(t) \/ LeaveSched(t)
DevStep(d) == BeginLoop(d) \/ StartWaiting(d) \/ Take(d) \/ TakeAndGiveBack(d)

Next ==
    \/ \E t \in Threads : InstanceStep(t) \/ SchedStep(t)
    \/ \E c \in Clients : Connect(c) \/ Push(c)
    \/ \E d \in Devices : DevStep(d)

Spec == Init /\ [][Next]_vars

(* Every thread goes on once a client has connected; a mutex or sem_wait   *)
(* does not pass one waiter over for ever while it keeps coming free or    *)
(* tokens keep coming.  A thread has one step to take at a time.           *)
Fairness ==
    /\ \A c \in Clients : SF_vars(InstanceStep(c) \/ SchedStep(c) \/ Push(c))
    /\ \A d \in Devices : SF_vars(InstanceStep(d) \/ SchedStep(d) \/ DevStep(d))

FairSpec == Spec /\ Fairness

-----------------------------------------------------------------------------
(* Properties.                                                             *)

\* Types.  That no object's number exceeds MaxObjects says a thread creates one of each at most.
TypeOK ==
    /\ isInit \in [Singletons -> BOOLEAN] /\ holder \in [Singletons -> Threads \cup {None}]
    /\ instance \in [Singletons -> 0 .. MaxObjects]
    /\ sem \in [Objects -> Nat] /\ procLock \in [Objects -> Threads \cup {None}]
    /\ pc \in [Threads -> {"connect", "test", "create", "setFlag", "use", "waitLock", "inSched", "wait",
                            "schedule", "done"}]
    /\ calls \in [Threads -> Singletons]
    /\ uses \in [Threads -> 0 .. MaxObjects] /\ queued \subseteq Clients

\* As long as no thread has created a second pool, a token is there for every queued command the
\* bound device is not about to execute, whoever is still on the way through Instance().
TokensMatchCommands ==
    LET taken == IF pc[BoundDev] \in {"schedule", "waitLock", "inSched"} THEN 1 ELSE 0
    IN instance["pool"] = 1 => sem[1] + taken = Cardinality(queued)

\* proc_lock_ keeps apart the threads that read and change the scheduler, although a device may
\* unlock another object than it locked: never are more in it at once than schedulers were created.
InSched == {t \in Threads : pc[t] = "inSched"}
SchedulerExclusive == Cardinality(InSched) <= instance["sched"]

-----------------------------------------------------------------------------
(* What makes those properties inductive.                                  *)

\* The thread that has created an object and not set the flag holds the mutex.
CreatorHolds ==
    \A s \in Singletons, t \in Threads : holder[s] = t <=> pc[t] = "setFlag" /\ calls[t] = s

\* An object exists from the moment a thread creates one under the mutex; the flag follows.
FlagAfterFirst == \A s \in Singletons : instance[s] >= 1 <=> isInit[s] \/ holder[s] # None

\* Threads that found the flag unset and will create one more object.
Creating(s) == {t \in Threads : pc[t] = "create" /\ calls[t] = s}
CreatorsCounted ==
    \A s \in Singletons :
        /\ instance[s] + Cardinality(Creating(s)) <= MaxObjects
        /\ ~isInit[s] => instance[s] <= 1

\* Where each thread may be, and that what it uses has been created.
StagesInScope ==
    /\ \A t \in Threads :
        /\ pc[t] \notin {"connect", "test", "create"} => instance[calls[t]] >= 1
        /\ calls[t] = "pool" => instance["sched"] >= 1
        /\ pc[t] = "waitLock" \/ (pc[t] = "inSched" /\ t \in Clients) => uses[t] \in 1 .. instance["sched"]
    /\ \A d \in Devices :
        /\ pc[d] \in {"wait", "schedule", "waitLock", "inSched"} => calls[d] = "pool"
        /\ pc[d] \in {"schedule", "waitLock", "inSched"} => d = BoundDev
    /\ \A c \in Clients :
        /\ pc[c] = "done" => calls[c] = "pool"
        /\ c \in queued => pc[c] = "done"

\* Nobody has posted a token to a pool that is not created yet.
UnusedAreEmpty == \A p \in Objects : p > instance["pool"] => sem[p] = 0

\* A lock is held for each thread in the scheduler, though not always by it, and none of an object
\* that is not there yet.
HeldLocks == {o \in Objects : procLock[o] # None}
LocksHeld ==
    /\ Cardinality(InSched) <= Cardinality(HeldLocks)
    /\ HeldLocks \subseteq 1 .. instance["sched"]

\* The inductive invariant: both singletons while threads are still on their way through
\* Instance(), the pool's tokens and the scheduler's lock.
StartupInv ==
    /\ TypeOK
    /\ CreatorHolds /\ FlagAfterFirst /\ CreatorsCounted
    /\ StagesInScope /\ UnusedAreEmpty /\ LocksHeld
    /\ TokensMatchCommands /\ SchedulerExclusive

\* A queued command is executed, so that its clFinish returns; one is left queued only if an
\* object was created twice.
StuckOnlyByRace ==
    \A c \in Clients : (c \in queued) ~> (c \notin queued \/ \E s \in Singletons : instance[s] > 1)
=============================================================================
