------------------------------- MODULE Requests -------------------------------
(***************************************************************************)
(* The requests of one application's threads, which share its connection   *)
(* to a compute node: how buffers get their ids on both sides, what the    *)
(* session makes of the requests, what the device executes, and which      *)
(* thread gets which reply.                                                *)
(* Source: src/client/elastic.cc and newscl.cc (CreateBuffer,              *)
(* CreateProgramWithSource, EnqueueWriteBuffer, EnqueueReadBuffer,         *)
(* clEnqueueCopyBuffer, clReleaseMemObject), src/cn/handler.cc (their      *)
(* handlers), src/cn/command.cc and command.h (Exec).                      *)
(*                                                                         *)
(* A connection delivers messages whole and in order (Wire).  The handler  *)
(* of a blocking write pushes its command and only then waits for it, and  *)
(* the device may be at the end of its work on the queue meanwhile: either *)
(* may miss the other.  How the data of a read that does not block gets    *)
(* back is in BufferTransfer, devices and tokens are in CommandPool.       *)
(* "program" stands for CreateKernel too, and "build" is a build without   *)
(* options.  Reads are those that do not block: no other read returns      *)
(* (BufferTransfer).                                                       *)
(***************************************************************************)
EXTENDS Naturals, FiniteSets, SequencesExt

CONSTANTS
    Threads,     \* threads of the application
    MaxBuffers,  \* bound: buffers created
    MaxCalls     \* bound: calls of all threads

ASSUME BoundsAssumption == {MaxBuffers, MaxCalls} \subseteq Nat
ASSUME FiniteAssumption == IsFiniteSet(Threads)

Creates == {"create", "createFrom"}              \* without and with CL_MEM_COPY_HOST_PTR
Writes == {"write", "blockingWrite"}
Queued == Writes \cup {"read", "copy", "release"}     \* those that become a command
Kinds == Creates \cup Queued \cup {"program", "build"}
WithData == Writes \cup {"createFrom", "program"}      \* a second message follows
Waited == {"program", "build", "blockingWrite"}       \* the caller waits for a reply

Buffers == 1 .. MaxBuffers  \* in the order of their requests
None == 0
NoId == MaxBuffers

VARIABLES
    pc,         \* each thread: "idle", "data" (to send), "count", "store", "wait"
    call,       \* the request it is making
    seen,       \* the value of mem_id it read
    mem_id,     \* CreateBuffer's static counter
    ids,        \* the ids the application knows
    dropped,    \* buffers it has released
    main,       \* messages on the connection
    replies,    \* and the replies on it, each with the number of its call
    session,    \* "up", "garbled" (it reads other bytes than were meant), "aborted"
    blockedOn,  \* the call whose command the handler waits for
    handler,    \* "ready", or where it is in that wait: "pushed", "asleep", "missed" (the signal
                \* came before it slept), "woken"
    mems,       \* the session's vector: which buffer is at which place
    capacity,   \* of that vector
    storage,    \* which allocation it uses
    commands,   \* the session's queue
    device,     \* "ready" for it, "leaving" (skip_ is still set), "stalled" (no token announces it)
    contents,   \* of each buffer: the call that wrote it
    released,   \* buffers the device has released
    \* history
    sent,       \* calls so far
    expect,     \* of each buffer: what the calls so far should have left in it
    lastRead,   \* what the last read got and what it should have got
    crossed,    \* has a thread taken the reply of another?
    races       \* what the application did that the code does not stand

clientVars == <<pc, call, seen, mem_id, ids, dropped>>
sessionVars == <<mems, capacity, storage>>
queueVars == <<commands, device>>
waitVars == <<blockedOn, handler>>
deviceVars == <<contents, released, lastRead>>
vars == <<clientVars, main, replies, session, waitVars, sessionVars, queueVars, deviceVars,
          sent, expect, crossed, races>>

NoCall == [n |-> 0, kind |-> "none", src |-> None, dst |-> None, want |-> 0]

Init ==
    /\ pc = [t \in Threads |-> "idle"] /\ call = [t \in Threads |-> NoCall]
    /\ seen = [t \in Threads |-> 0] /\ mem_id = 0
    /\ ids = [b \in Buffers |-> NoId] /\ dropped = {}
    /\ main = <<>> /\ replies = <<>> /\ session = "up" /\ blockedOn = 0 /\ handler = "ready"
    /\ mems = <<>> /\ capacity = 0 /\ storage = 0 /\ commands = <<>> /\ device = "ready"
    /\ contents = [b \in Buffers |-> 0] /\ released = {}
    /\ sent = 0 /\ expect = [b \in Buffers |-> 0]
    /\ lastRead = [got |-> 0, want |-> 0] /\ crossed = FALSE /\ races = {}

-----------------------------------------------------------------------------
(* The client.                                                             *)

Numbered == {b \in Buffers : ids[b] # NoId}
Creating == {t \in Threads : pc[t] # "idle" /\ call[t].kind \in Creates}
Known == Numbered \ dropped

CreatesSent == Cardinality(Numbered) + Cardinality(Creating)

\* The buffers a request names; a new one gets the next number.
Operands(k) ==
    CASE k = "read" -> [src : Known, dst : {None}]
      [] k \in Writes \cup {"release"} -> [src : {None}, dst : Known]
      [] k = "copy" -> {o \in [src : Known, dst : Known] : o.src # o.dst}
      [] k \in Creates -> [src : {None}, dst : Buffers \cap {CreatesSent + 1}]
      [] OTHER -> [src : {None}, dst : {None}]

\* What the calls so far, and this one, should leave in the buffers.
Expected(k, n, o) ==
    CASE k \in Writes \cup {"createFrom"} -> [expect EXCEPT ![o.dst] = n]
      [] k = "copy" -> [expect EXCEPT ![o.dst] = expect[o.src]]
      [] OTHER -> expect

\* The request names ids, except for the new buffer of a create.
Request(k, n, o) ==
    [n |-> n, kind |-> k,
     src |-> IF o.src = None THEN None ELSE ids[o.src],
     dst |-> IF k \in Creates \/ o.dst = None THEN o.dst ELSE ids[o.dst],
     want |-> IF k \in {"read", "copy"} THEN expect[o.src] ELSE 0]

Others(t, pcs) == {u \in Threads \ {t} : pc[u] \in pcs}

\* Two creates at once; a request between a header and its data; two calls that wait; a buffer
\* created while reads or writes are on their way.
RacesOf(t, k) ==
    {r \in {"creates", "split", "waits", "created late"} :
        \/ r = "creates" /\ k \in Creates /\ \E u \in Others(t, {"data", "count", "store"}) : call[u].kind \in Creates
        \/ r = "split" /\ Others(t, {"data"}) # {}
        \/ r = "waits" /\ k \in Waited /\ \E u \in Others(t, {"data", "wait"}) : call[u].kind \in Waited
        \/ /\ r = "created late" /\ k \in Creates
           /\ \E i \in DOMAIN main \cup DOMAIN commands :
               \/ i \in DOMAIN main /\ main[i].kind \in Writes \cup {"read"}
               \/ i \in DOMAIN commands /\ commands[i].kind \in Writes \cup {"read"}}

AfterHeader(k) ==
    IF k \in WithData THEN "data" ELSE IF k \in Creates THEN "count" ELSE IF k \in Waited THEN "wait" ELSE "idle"

SendHeader(t, k) ==
    /\ session = "up" /\ pc[t] = "idle" /\ sent < MaxCalls
    /\ \E o \in Operands(k) :
        LET m == Request(k, sent + 1, o)
        IN /\ main' = Append(main, m)
           /\ call' = [call EXCEPT ![t] = m]
           /\ expect' = Expected(k, sent + 1, o)
           /\ dropped' = IF k = "release" THEN dropped \cup {o.dst} ELSE dropped
    /\ pc' = [pc EXCEPT ![t] = AfterHeader(k)]
    /\ sent' = sent + 1
    /\ races' = races \cup RacesOf(t, k)
    /\ UNCHANGED <<seen, mem_id, ids, replies, session, waitVars, sessionVars, queueVars, deviceVars, crossed>>

SendData(t) ==
    /\ session = "up" /\ pc[t] = "data"
    /\ main' = Append(main, [call[t] EXCEPT !.kind = "data"])
    /\ pc' = [pc EXCEPT ![t] = IF call[t].kind \in Creates THEN "count"
                               ELSE IF call[t].kind \in Waited THEN "wait" ELSE "idle"]
    /\ UNCHANGED <<call, seen, mem_id, ids, dropped, replies, session, waitVars, sessionVars,
                   queueVars, deviceVars, sent, expect, crossed, races>>

\* mem->id = mem_id++ reads the counter ...
ReadCounter(t) ==
    /\ session = "up" /\ pc[t] = "count"
    /\ seen' = [seen EXCEPT ![t] = mem_id]
    /\ pc' = [pc EXCEPT ![t] = "store"]
    /\ UNCHANGED <<call, mem_id, ids, dropped, main, replies, session, waitVars, sessionVars,
                   queueVars, deviceVars, sent, expect, crossed, races>>

\* ... and writes it.  The variant counts before it takes the id.
NewIdAfter(t) == seen[t] + 1
NewId(t) == seen[t]

WriteCounter(t) ==
    /\ session = "up" /\ pc[t] = "store"
    /\ mem_id' = seen[t] + 1
    /\ ids' = [ids EXCEPT ![call[t].dst] = NewId(t)]
    /\ pc' = [pc EXCEPT ![t] = "idle"]
    /\ UNCHANGED <<call, seen, dropped, main, replies, session, waitVars, sessionVars, queueVars,
                   deviceVars, sent, expect, crossed, races>>

\* Whoever receives takes the oldest reply.
RecvReply(t) ==
    /\ session = "up" /\ pc[t] = "wait" /\ replies # <<>>
    /\ replies' = Tail(replies)
    /\ crossed' = (crossed \/ Head(replies) # call[t].n)
    /\ pc' = [pc EXCEPT ![t] = "idle"]
    /\ UNCHANGED <<call, seen, mem_id, ids, dropped, main, session, waitVars, sessionVars,
                   queueVars, deviceVars, sent, expect, races>>

-----------------------------------------------------------------------------
(* The session.                                                            *)

\* Is the data that was received the data of this request?
InStep(m) == m.kind \in WithData => main[2].kind = "data" /\ main[2].n = m.n

Rest == SubSeq(main, IF Head(main).kind \in WithData THEN 3 ELSE 2, Len(main))

\* The handler of m can run: all it receives is there.
Handling(m) ==
    /\ session = "up" /\ blockedOn = 0
    /\ main # <<>> /\ m = Head(main)
    /\ m.kind \in WithData => Len(main) > 1

\* What it replies to before it takes the next request.  The variant answers a create, as the
\* code once did.
AnswersCreate(m) == m.kind \in {"program", "build", "createFrom"}
Answers(m) == m.kind \in {"program", "build"}

Answered(m) == IF Answers(m) THEN Append(replies, m.n) ELSE replies

\* push_back moves the vector when it is full; libstdc++ doubles its capacity.
HandlerCreateBuffer(m) ==
    /\ Handling(m) /\ m.kind \in Creates /\ InStep(m)
    /\ mems' = Append(mems, m.dst)
    /\ contents' = [contents EXCEPT ![m.dst] = IF m.kind = "createFrom" THEN m.n ELSE 0]
    /\ IF Len(mems) = capacity
       THEN capacity' = (IF capacity = 0 THEN 1 ELSE 2 * capacity) /\ storage' = storage + 1
       ELSE UNCHANGED <<capacity, storage>>
    /\ replies' = Answered(m) /\ main' = Rest
    /\ UNCHANGED <<clientVars, session, waitVars, queueVars, released, lastRead, sent, expect, crossed, races>>

HandlerCreateProgramWithSource(m) ==
    /\ Handling(m) /\ m.kind \in {"program", "build"} /\ InStep(m)
    /\ replies' = Answered(m) /\ main' = Rest
    /\ UNCHANGED <<clientVars, session, waitVars, sessionVars, queueVars, deviceVars, sent, expect, crossed, races>>

\* A read and a write keep &mems[id]; a write, a copy and a release the cl_mem that is there now.
CommandFor(m) ==
    [n |-> m.n, kind |-> m.kind, want |-> m.want, storage |-> storage,
     slot |-> IF m.kind = "read" THEN m.src + 1 ELSE 0,
     src |-> IF m.kind = "copy" THEN mems[m.src + 1] ELSE None,
     dst |-> IF m.kind = "read" THEN None ELSE mems[m.dst + 1]]

\* Push; the variant puts a release in front.
PushedFirst(c) == IF c.kind = "release" THEN <<c>> \o commands ELSE Append(commands, c)
Pushed(c) == Append(commands, c)

\* A command for an empty queue that a device has not left yet gets no token, unless the device
\* looks at the queue once more.
Announced == IF device = "leaving" THEN {"ready", "stalled"} ELSE {device}

HandlerEnqueue(m) ==
    /\ Handling(m) /\ m.kind \in Queued /\ InStep(m)
    /\ commands' = Pushed(CommandFor(m)) /\ device' \in Announced
    /\ IF m.kind \in Waited
       THEN blockedOn' = m.n /\ handler' = "pushed"
       ELSE UNCHANGED waitVars
    /\ main' = Rest
    /\ UNCHANGED <<clientVars, replies, session, sessionVars, deviceVars, sent, expect, crossed, races>>

\* Blocking: after the push, the wait for a signal that nothing records.
HandlerSleep ==
    /\ session = "up" /\ handler = "pushed"
    /\ handler' = "asleep"
    /\ UNCHANGED <<clientVars, main, replies, session, blockedOn, sessionVars, queueVars, deviceVars,
                   sent, expect, crossed, races>>

\* A wait may also end for no reason.
HandlerWake ==
    /\ session = "up" /\ handler \in {"asleep", "missed"}
    /\ handler' = "woken"
    /\ UNCHANGED <<clientVars, main, replies, session, blockedOn, sessionVars, queueVars, deviceVars,
                   sent, expect, crossed, races>>

HandlerReply ==
    /\ session = "up" /\ handler = "woken"
    /\ replies' = Append(replies, blockedOn)
    /\ blockedOn' = 0 /\ handler' = "ready"
    /\ UNCHANGED <<clientVars, main, session, sessionVars, queueVars, deviceVars, sent, expect, crossed, races>>

\* It receives another thread's header as its data.
HandlerGarbled(m) ==
    /\ Handling(m) /\ ~InStep(m)
    /\ session' = "garbled"
    /\ UNCHANGED <<clientVars, main, replies, waitVars, sessionVars, queueVars, deviceVars, sent, expect, crossed, races>>

-----------------------------------------------------------------------------
(* The device.                                                             *)

Stale(c) == c.storage # storage /\ c.kind \in Writes \cup {"read"}

\* The variant forgets to copy.
CopiedNot(c) == contents
Copied(c) == [contents EXCEPT ![c.dst] = contents[c.src]]

\* What the command finds in the entry it points to, which may be one that was left behind.
Found(c) == IF Stale(c) THEN {contents[b] : b \in Buffers} ELSE {contents[mems[c.slot]]}

Signalled(c) == blockedOn = c.n

\* The command is done: its handler is woken if it sleeps already.  A device that leaves no command
\* behind leaves the queue.
Done(c) ==
    /\ commands' = Tail(commands)
    /\ device' = IF Tail(commands) = <<>> THEN "leaving" ELSE "ready"
    /\ IF Signalled(c)
       THEN handler' = (IF handler = "asleep" THEN "woken" ELSE IF handler = "pushed" THEN "missed" ELSE handler)
       ELSE UNCHANGED handler
    /\ UNCHANGED <<clientVars, main, replies, blockedOn, sessionVars, sent, expect, crossed, races>>

Touches(c) == (IF c.kind = "read" THEN {mems[c.slot]} ELSE {c.src, c.dst}) \ {None}

Exec(c) ==
    /\ session = "up" /\ device # "leaving" /\ commands # <<>> /\ c = Head(commands)
    /\ Touches(c) \cap released = {}
    /\ \/ c.kind = "read" /\ \E v \in Found(c) : lastRead' = [got |-> v, want |-> c.want]
          /\ UNCHANGED <<contents, released>>
       \/ c.kind \in Writes /\ contents' = [contents EXCEPT ![c.dst] = c.n] /\ UNCHANGED <<released, lastRead>>
       \/ c.kind = "copy" /\ contents' = Copied(c) /\ UNCHANGED <<released, lastRead>>
       \/ c.kind = "release" /\ released' = released \cup {c.dst} /\ UNCHANGED <<contents, lastRead>>
    /\ Done(c) /\ UNCHANGED session

\* A released buffer, or an entry whose memory is gone.
ExecFails(c) ==
    /\ session = "up" /\ device # "leaving" /\ commands # <<>> /\ c = Head(commands)
    /\ Stale(c) \/ Touches(c) \cap released # {}
    /\ session' = "aborted"
    /\ Done(c) /\ UNCHANGED deviceVars

\* set_skip(false)
Unskip ==
    /\ session = "up" /\ device = "leaving"
    /\ device' = "ready"
    /\ UNCHANGED <<clientVars, main, replies, session, waitVars, sessionVars, commands, deviceVars,
                   sent, expect, crossed, races>>

-----------------------------------------------------------------------------
ThreadStep(t) == SendData(t) \/ ReadCounter(t) \/ WriteCounter(t) \/ RecvReply(t)

SessionStep ==
    \/ HandlerSleep \/ HandlerReply
    \/ \E m \in ToSet(main) :
        HandlerCreateBuffer(m) \/ HandlerCreateProgramWithSource(m) \/ HandlerEnqueue(m) \/ HandlerGarbled(m)

DeviceStep == Unskip \/ \E c \in ToSet(commands) : Exec(c) \/ ExecFails(c)

Next ==
    \/ \E t \in Threads : ThreadStep(t) \/ \E k \in Kinds : SendHeader(t, k)
    \/ SessionStep \/ HandlerWake \/ DeviceStep

Spec == Init /\ [][Next]_vars

\* A queue that no token announces is served only if a device comes to it with the token of another.
FairSpec ==
    /\ Spec /\ WF_vars(SessionStep) /\ WF_vars(device # "stalled" /\ DeviceStep)
    /\ \A t \in Threads : WF_vars(ThreadStep(t))

-----------------------------------------------------------------------------
(* Properties.                                                             *)

\* No reply tells the client which place in the session's vector a buffer got: it counts for
\* itself.  The two agree while the session is up, unless two threads created buffers at the same
\* time.
IdsMatch ==
    session = "up" =>
        \A b \in Known : \A i \in DOMAIN mems : (i = ids[b] + 1 <=> mems[i] = b) \/ "creates" \in races

\* A read gets what the calls before it left in its buffer, though writes, copies and reads are
\* only queued; not if a buffer was created while reads were on their way, which may move the
\* entries they point to.
ReadsSeeWrites ==
    session = "up" => lastRead.got = lastRead.want \/ races \cap {"creates", "created late"} # {}

\* A thread takes the reply to its own call, unless another waits at the same time.
RepliesToCaller == crossed => "waits" \in races

\* No command works on a buffer that was released before it, or on an entry that is gone, under the
\* same conditions, and no handler takes a header for data, unless one comes between the two.
SessionStaysUp ==
    /\ session = "aborted" => races \cap {"creates", "created late"} # {}
    /\ session = "garbled" => "split" \in races

-----------------------------------------------------------------------------
(* What these rest on.                                                     *)

Message == [n : Nat, kind : Kinds \cup {"data", "none"}, src : Nat, dst : Nat, want : Nat]
Command == [n : Nat, kind : Queued, want : Nat, storage : Nat, slot : Nat, src : Nat, dst : Nat]

TypeOK ==
    /\ pc \in [Threads -> {"idle", "data", "count", "store", "wait"}] /\ call \in [Threads -> Message]
    /\ seen \in [Threads -> Nat] /\ mem_id \in Nat /\ ids \in [Buffers -> 0 .. MaxBuffers]
    /\ dropped \subseteq Numbered
    /\ main \in Seq(Message) /\ replies \in Seq(Nat) /\ session \in {"up", "garbled", "aborted"}
    /\ blockedOn \in Nat /\ handler \in {"ready", "pushed", "asleep", "missed", "woken"}
    /\ device \in {"ready", "leaving", "stalled"} /\ mems \in Seq(Nat) /\ capacity \in Nat /\ storage \in Nat
    /\ Len(mems) <= capacity /\ commands \in Seq(Command)
    /\ contents \in [Buffers -> Nat] /\ released \subseteq Buffers
    /\ sent \in 0 .. MaxCalls /\ expect \in [Buffers -> Nat]
    /\ lastRead \in [got : Nat, want : Nat] /\ crossed \in BOOLEAN

\* Where the threads are in their calls, each of which has its own number.
CallsMatch ==
    /\ \A t \in Threads :
        /\ pc[t] = "data" => call[t].kind \in WithData
        /\ pc[t] \in {"count", "store"} => call[t].kind \in Creates
        /\ pc[t] = "wait" => call[t].kind \in Waited
        /\ call[t].n <= sent /\ (pc[t] # "idle" => call[t].n > 0)
    /\ \A t, u \in Threads : t # u /\ pc[t] # "idle" => call[t].n # call[u].n

\* Buffers are numbered as their requests are sent; the counter is never ahead of them.
NumbersInOrder ==
    /\ \A t \in Creating : call[t].dst \in Buffers \ Numbered
    /\ \A t, u \in Creating : t # u => call[t].dst # call[u].dst
    /\ Numbered \cup {call[t].dst : t \in Creating} = 1 .. CreatesSent
    /\ mem_id <= Cardinality(Numbered)
    /\ \A t \in Threads : pc[t] = "store" => seen[t] <= Cardinality(Numbered)
    /\ \A b \in Numbered : ids[b] < Cardinality(Numbered)

\* Requests on the connection, and commands, by the number of their call, the buffer they read and
\* the buffer they work on.
Sent(m) ==
    [n |-> m.n, kind |-> m.kind, want |-> m.want,
     from |-> IF m.kind \in {"read", "copy"} THEN m.src + 1 ELSE None,
     to |-> IF m.kind \in Creates THEN m.dst ELSE IF m.kind \in Queued \ {"read"} THEN m.dst + 1 ELSE None]

Taken(c) ==
    [n |-> c.n, kind |-> c.kind, want |-> c.want, from |-> IF c.kind = "read" THEN c.slot ELSE c.src, to |-> c.dst]

OnConnection == {Sent(m) : m \in {x \in ToSet(main) : x.kind # "data"}}
InQueue == {Taken(c) : c \in ToSet(commands)}
Pending == OnConnection \cup InQueue

Uses(x) == {x.from, x.to} \ {None}

\* Connection and queue keep the order of the calls, and what waits in the queue was received first.
CallsInOrder ==
    /\ \A x \in Pending : x.n \in 1 .. sent
    /\ \A i, j \in DOMAIN main : i < j /\ main[i].kind # "data" /\ main[j].kind # "data" => main[i].n < main[j].n
    /\ \A i, j \in DOMAIN commands : i < j => commands[i].n < commands[j].n
    /\ \A x \in OnConnection, y \in InQueue : y.n < x.n

\* A handler whose signal is still to come waits for a command in the queue, and a device leaves the
\* queue empty.
WaitsMatch ==
    /\ handler = "ready" <=> blockedOn = 0
    /\ handler \in {"pushed", "asleep"} => \E x \in InQueue : x.n = blockedOn
    /\ device = "leaving" => commands = <<>>

\* The vector holds the buffers in the order of their creates, and the creates that it does not
\* hold are on their way, in that order.
CreatesInOrder ==
    /\ Len(mems) <= CreatesSent /\ \A i \in DOMAIN mems : mems[i] = i
    /\ \A x \in Pending : x.kind \in Creates => x.to \in Len(mems) + 1 .. CreatesSent
    /\ \A x, y \in Pending : {x.kind, y.kind} \subseteq Creates /\ x.n < y.n => x.to < y.to
    /\ \A b \in Len(mems) + 1 .. CreatesSent : \E x \in Pending : x.kind \in Creates /\ x.to = b
    /\ \A b \in Buffers : b > Len(mems) => contents[b] = 0

\* A request names buffers whose creates were sent before it, a command places in the vector.
OperandsThere ==
    /\ \A x \in Pending : Uses(x) \subseteq 1 .. CreatesSent
    /\ \A x, y \in Pending : y.kind \in Creates /\ x.n < y.n => \A b \in Uses(x) : b < y.to
    /\ \A c \in ToSet(commands) :
        /\ c.storage <= storage
        /\ IF c.kind = "read" THEN c.slot \in 1 .. Len(mems) /\ c.dst = None ELSE c.dst \in 1 .. Len(mems)
        /\ IF c.kind = "copy" THEN c.src \in 1 .. Len(mems) ELSE c.src = None

\* Each header is followed by its data, or its thread is about to send it.
Framed ==
    /\ \A i \in DOMAIN main : main[i].kind \in WithData /\ i < Len(main) =>
        main[i + 1].kind = "data" /\ main[i + 1].n = main[i].n
    /\ \A t \in Threads : pc[t] = "data" => main # <<>> /\ main[Len(main)] = call[t]
    /\ main # <<>> /\ main[Len(main)].kind \in WithData => \E t \in Threads : pc[t] = "data" /\ call[t] = main[Len(main)]

\* The client counts as the session does.
IdsInOrder ==
    /\ \A t, u \in Creating : t = u
    /\ \A t \in Creating : call[t].dst = mem_id + 1 /\ (pc[t] = "store" => seen[t] = mem_id)
    /\ \A b \in Buffers : ids[b] = IF b <= mem_id THEN b - 1 ELSE NoId

\* One thread at most waits, and for one of: its request, its command, its reply.
Waiting == {t \in Threads : pc[t] \in {"data", "wait"} /\ call[t].kind \in Waited}
Awaited(n) == \E t \in Waiting : call[t].n = n

OneWaits ==
    /\ \A t, u \in Waiting : t = u
    /\ \A x \in OnConnection : x.kind \in Waited => Awaited(x.n)
    /\ blockedOn # 0 => Awaited(blockedOn)
    /\ \A n \in ToSet(replies) : Awaited(n)
    /\ Len(replies) <= 1
    /\ replies # <<>> => blockedOn = 0
    /\ replies # <<>> \/ blockedOn # 0 => \A x \in OnConnection : x.kind \notin Waited
    /\ ~crossed

\* No entry of the vector moves while a command points to it, and none is to.
EntriesStay ==
    /\ \A c \in ToSet(commands) : ~Stale(c)
    /\ \A x, y \in Pending : y.kind \in Creates /\ x.n < y.n => x.kind \notin Writes \cup {"read"}

\* Nothing uses a buffer after its release.
ReleasedLast ==
    /\ released \subseteq dropped
    /\ \A x \in Pending : x.kind = "release" => x.to \in dropped
    /\ \A x, y \in Pending : x.kind = "release" /\ x.n < y.n => x.to \notin Uses(y)
    /\ \A x \in Pending : Uses(x) \cap released = {}

\* v is in buffer b when, of the requests P, those before the n-th have taken effect on what is there
\* now.
Modifies(x, b) == x.to = b /\ x.kind \in Writes \cup {"createFrom", "copy"}
Value(x) == IF x.kind = "copy" THEN x.want ELSE x.n
Before(P, b, n) == {x \in P : Modifies(x, b) /\ x.n < n}
LeftIn(P, now, b, n, v) ==
    LET earlier == Before(P, b, n)
    IN IF earlier = {} THEN v = now[b]
       ELSE \E x \in earlier : Value(x) = v /\ \A y \in earlier : y.n <= x.n

\* Each read and copy finds what the calls before it left.
ContentsRight ==
    /\ \A b \in Buffers : LeftIn(Pending, contents, b, sent + 1, expect[b])
    /\ \A x \in Pending : x.from # None => LeftIn(Pending, contents, x.from, x.n, x.want)
    /\ lastRead.got = lastRead.want

\* The inductive invariant, with a session that stays up.
RequestsInv ==
    /\ TypeOK /\ CallsMatch /\ NumbersInOrder /\ CallsInOrder /\ WaitsMatch /\ CreatesInOrder /\ OperandsThere
    /\ "split" \notin races => Framed
    /\ "waits" \notin races => OneWaits
    /\ "creates" \notin races => IdsInOrder
    /\ races \cap {"creates", "created late"} = {} => EntriesStay /\ ReleasedLast /\ ContentsRight
    /\ SessionStaysUp

\* The handler waits for a blocking write whose signal came before the wait for it, or whose queue
\* lost its token.
Hangs == handler = "missed" \/ (blockedOn # 0 /\ device = "stalled")

=============================================================================
