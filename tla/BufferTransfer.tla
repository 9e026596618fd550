---------------------------- MODULE BufferTransfer ----------------------------
(***************************************************************************)
(* Moving buffers between one client and its session on the compute node.  *)
(* Client: the application thread, which calls clEnqueueWriteBuffer,       *)
(* clEnqueueReadBuffer and clFinish, and one catcher thread per            *)
(* non-blocking read.  CN: the session's Run thread and the DevScheduler   *)
(* that executes its commands.  Between them three connections: requests   *)
(* and replies on the main one, the data of non-blocking reads and their   *)
(* acknowledgements on the non-blocking one, clFinish's on the third.      *)
(* Source: src/client/elastic.cc (the same calls in src/client/newscl.cc), *)
(* src/cn/handler.cc, src/cn/command.{h,cc}, src/cn/cn.cc.                 *)
(*                                                                         *)
(* The command queue between Run and DevScheduler is the one CommandPool   *)
(* models; here it is a sequence whose commands always come up.  A call is *)
(* identified by its number; of the bytes of a transfer the model keeps    *)
(* which call they belong to.  An OpenCL error ends the CN: _ED asserts    *)
(* (src/cn/common.h:13), so err_code_ never holds anything but CL_SUCCESS  *)
(* and the model leaves it out.                                            *)
(***************************************************************************)
EXTENDS Integers, Sequences, FiniteSets

CONSTANTS
    Kinds,      \* the calls the application makes
    Sizes,      \* bound: sizes of the transfers (cb), in units recv cannot split
    MaxCalls,   \* bound: number of calls
    MaxReads    \* bound: non-blocking reads in flight, each with its catcher thread

ASSUME KindsAssumption == Kinds \subseteq {"write", "blockingWrite", "read", "blockingRead", "finish"}
ASSUME BoundsAssumption == Sizes \subseteq Nat \ {0} /\ MaxCalls \in Nat /\ MaxReads \in Nat

VARIABLES
    \* client
    calls,     \* the calls made so far: kind and size
    app,       \* application thread: "call", which connection it receives from, or "exited"
    catchers,  \* catcher threads by call: still receiving, or about to acknowledge
    got,       \* the units each call received
    \* connections
    requests, replies,      \* main connection
    data, acks,             \* non-blocking connection
    finishes,               \* finish connection: answers to clFinish
    \* CN
    run, cur,               \* Run thread, the call it handles
    queue,                  \* its command queue
    dpc,                    \* DevScheduler, executing Head(queue); "aborted": no CN any more
    executed,               \* transfers OpenCL has done
    finSem,                 \* CommandFinish::sem
    \* history
    early                   \* blocking calls whose wait ended without a signal

clientVars == <<calls, app, catchers, got>>
connVars == <<requests, replies, data, acks, finishes>>
cnVars == <<run, cur, queue, dpc, executed, finSem, early>>
vars == <<clientVars, connVars, cnVars>>

Ids == 1 .. MaxCalls
None == 0

Kind(n) == calls[n].kind
Size(n) == calls[n].size
Units(n) == [i \in 1 .. Size(n) |-> n]
Blocking == {"blockingWrite", "blockingRead"}
InFlight == {n \in Ids : catchers[n] # "none"}

Init ==
    /\ calls = <<>> /\ app = "call" /\ catchers = [n \in Ids |-> "none"]
    /\ got = [n \in Ids |-> <<>>]
    /\ requests = <<>> /\ replies = <<>> /\ data = <<>> /\ acks = 0 /\ finishes = 0
    /\ run = "serve" /\ cur = None /\ queue = <<>> /\ dpc = "take"
    /\ executed = {} /\ finSem = 0 /\ early = {}

-----------------------------------------------------------------------------
(* The client.                                                             *)

\* The connection a call receives from before it returns.
ReceivesFrom(kind) ==
    CASE kind = "blockingWrite" -> "main"
      [] kind = "blockingRead"  -> "nonBlocking"
      [] kind = "finish"        -> "finish"
      [] OTHER                  -> "call"

\* Send the request (for a write with its data); a non-blocking read starts its catcher.
Call(kind, size) ==
    LET n == Len(calls) + 1 IN
    /\ app = "call" /\ n <= MaxCalls
    /\ kind = "read" => Cardinality(InFlight) < MaxReads
    /\ calls' = Append(calls, [kind |-> kind, size |-> size])
    /\ requests' = Append(requests, n)
    /\ app' = ReceivesFrom(kind)
    /\ catchers' = IF kind = "read" THEN [catchers EXCEPT ![n] = "recv"] ELSE catchers
    /\ UNCHANGED <<got, replies, data, acks, finishes, cnVars>>

\* A blocking write receives one message.
RecvReply ==
    /\ app = "main" /\ replies # <<>>
    /\ replies' = Tail(replies)
    /\ app' = "call"
    /\ UNCHANGED <<calls, catchers, got, requests, data, acks, finishes, cnVars>>

\* One recv of call n on the non-blocking connection, and whether SockRecv then has all it
\* asked for.  The variants give up after the first recv, and ask for one unit too many.
Receive(n) ==
    /\ data # <<>>
    /\ got' = [got EXCEPT ![n] = Append(@, Head(data))]
    /\ data' = Tail(data)
LastUnitAny(n) == TRUE
LastUnitTooLate(n) == Len(got[n]) + 1 > Size(n)
LastUnit(n) == Len(got[n]) + 1 = Size(n)

\* A blocking read receives its data on the non-blocking connection itself.
RecvData ==
    /\ app = "nonBlocking"
    /\ Receive(Len(calls))
    /\ app' = IF LastUnit(Len(calls)) THEN "call" ELSE app
    /\ UNCHANGED <<calls, catchers, requests, replies, acks, finishes, cnVars>>

RecvFinish ==
    /\ app = "finish" /\ finishes > 0
    /\ finishes' = finishes - 1
    /\ app' = "call"
    /\ UNCHANGED <<calls, catchers, got, requests, replies, data, acks, cnVars>>

Catch(n) ==
    /\ app # "exited" /\ catchers[n] = "recv"
    /\ Receive(n)
    /\ catchers' = IF LastUnit(n) THEN [catchers EXCEPT ![n] = "ack"] ELSE catchers
    /\ UNCHANGED <<calls, app, requests, replies, acks, finishes, cnVars>>

SendAck(n) ==
    /\ app # "exited" /\ catchers[n] = "ack"
    /\ catchers' = [catchers EXCEPT ![n] = "none"]
    /\ acks' = acks + 1
    /\ UNCHANGED <<calls, app, got, requests, replies, data, finishes, cnVars>>

\* SockRecv and SockSend exit the process when the peer has gone and nothing is left to read.
NothingToRecv ==
    \/ app = "call"
    \/ app = "main" /\ replies = <<>>
    \/ app = "nonBlocking" /\ data = <<>>
    \/ app = "finish" /\ finishes = 0

Exit ==
    /\ dpc = "aborted" /\ NothingToRecv
    /\ app' = "exited"
    /\ UNCHANGED <<calls, catchers, got, connVars, cnVars>>

-----------------------------------------------------------------------------
(* The Run thread.                                                         *)

Up == dpc # "aborted"

\* Where the handler of a request goes on once it pushed the command.  The variant answers
\* without waiting.
AfterPushAtOnce(kind) ==
    CASE kind \in Blocking -> "reply"
      [] kind = "finish"   -> "finish"
      [] OTHER             -> "serve"
AfterPush(kind) ==
    CASE kind \in Blocking -> "block"
      [] kind = "finish"   -> "finish"
      [] OTHER             -> "serve"

\* Receive a request and push its command.
Serve ==
    /\ Up /\ run = "serve" /\ requests # <<>>
    /\ cur' = Head(requests)
    /\ requests' = Tail(requests)
    /\ queue' = Append(queue, Head(requests))
    /\ run' = AfterPush(Kind(Head(requests)))
    /\ UNCHANGED <<clientVars, replies, data, acks, finishes, dpc, executed, finSem, early>>

\* Blocking(): pthread_cond_wait, whatever happened before.
CondWait ==
    /\ Up /\ run = "block"
    /\ run' = "asleep"
    /\ UNCHANGED <<clientVars, connVars, cur, queue, dpc, executed, finSem, early>>

\* POSIX lets the wait return without a signal; Blocking() does not check.
SpuriousWakeup ==
    /\ Up /\ run = "asleep"
    /\ run' = "reply"
    /\ early' = early \cup {cur}
    /\ UNCHANGED <<clientVars, connVars, cur, queue, dpc, executed, finSem>>

\* One message with err_code(); a blocking read's data follows on the same connection.
Answer(n) == IF Kind(n) = "blockingRead" THEN <<n>> \o Units(n) ELSE <<n>>

Reply ==
    /\ Up /\ run = "reply"
    /\ replies' = replies \o Answer(cur)
    /\ run' = "serve"
    /\ UNCHANGED <<clientVars, requests, data, acks, finishes, cur, queue, dpc, executed, finSem, early>>

FinishReply ==
    /\ Up /\ run = "finish" /\ finSem > 0
    /\ finSem' = finSem - 1
    /\ finishes' = finishes + 1
    /\ run' = "serve"
    /\ UNCHANGED <<clientVars, requests, replies, data, acks, cur, queue, dpc, executed, early>>

-----------------------------------------------------------------------------
(* The DevScheduler thread: Exec of the command at the front of the queue. *)
comm == Head(queue)
Taken(kinds) == dpc = "take" /\ queue # <<>> /\ Kind(comm) \in kinds
Transfers == {"write", "blockingWrite", "read", "blockingRead"}

\* Where Exec goes on once OpenCL has done the transfer.
AfterTransfer(kind) ==
    CASE kind \in Blocking -> "signal"
      [] kind = "read"     -> "send"
      [] kind = "write"    -> "pop"

ExecTransfer ==
    /\ Taken(Transfers)
    /\ executed' = executed \cup {comm}
    /\ dpc' = AfterTransfer(Kind(comm))
    /\ UNCHANGED <<clientVars, connVars, run, cur, queue, finSem, early>>

\* The OpenCL call returns an error: assert(false) in _ED ends the whole process.
Abort ==
    /\ Taken(Transfers)
    /\ dpc' = "aborted"
    /\ UNCHANGED <<clientVars, connVars, run, cur, queue, executed, finSem, early>>

ExecFinish ==
    /\ Taken({"finish"})
    /\ finSem' = finSem + 1
    /\ dpc' = "pop"
    /\ UNCHANGED <<clientVars, connVars, run, cur, queue, executed, early>>

\* pthread_cond_signal, without the mutex: it wakes Run only if Run already waits.
Signal ==
    /\ dpc = "signal"
    /\ run' = IF run = "asleep" /\ cur = comm THEN "reply" ELSE run
    /\ dpc' = "pop"
    /\ UNCHANGED <<clientVars, connVars, cur, queue, executed, finSem, early>>

\* SockSend of a non-blocking read's data, then SockRecv of the acknowledgement; the variant
\* goes on without it.
AfterSendNoAck == "pop"
AfterSend == "ack"

SendData ==
    /\ dpc = "send"
    /\ data' = data \o Units(comm)
    /\ dpc' = AfterSend
    /\ UNCHANGED <<clientVars, requests, replies, acks, finishes, run, cur, queue, executed, finSem, early>>

RecvAck ==
    /\ dpc = "ack" /\ acks > 0
    /\ acks' = acks - 1
    /\ dpc' = "pop"
    /\ UNCHANGED <<clientVars, requests, replies, data, finishes, run, cur, queue, executed, finSem, early>>

Pop ==
    /\ dpc = "pop"
    /\ queue' = Tail(queue)
    /\ dpc' = "take"
    /\ UNCHANGED <<clientVars, connVars, run, cur, executed, finSem, early>>

-----------------------------------------------------------------------------
AppReceives == RecvReply \/ RecvData \/ RecvFinish \/ Exit
RunStep == Serve \/ CondWait \/ Reply \/ FinishReply
DevStep == ExecTransfer \/ ExecFinish \/ Signal \/ SendData \/ RecvAck \/ Pop

Next ==
    \/ \E kind \in Kinds, size \in Sizes : Call(kind, size)
    \/ AppReceives
    \/ \E n \in Ids : Catch(n) \/ SendAck(n)
    \/ RunStep \/ SpuriousWakeup
    \/ DevStep \/ Abort

Spec == Init /\ [][Next]_vars

(* Every thread that can go on does.  A wakeup without a signal and an     *)
(* OpenCL error need not happen.  The commands of a session always come up *)
(* (CommandPool shows when they do not), so the device's steps are fair.   *)
Fairness ==
    /\ WF_vars(AppReceives) /\ WF_vars(RunStep) /\ WF_vars(DevStep)
    /\ \A n \in Ids : WF_vars(Catch(n) \/ SendAck(n))

FairSpec == Spec /\ Fairness

-----------------------------------------------------------------------------
(* Properties.                                                             *)

\* Calls that have returned to the application.
Returned == {n \in 1 .. Len(calls) : n < Len(calls) \/ app = "call"}

\* Types; the handler that waits is that of a call of its kind.
TypeOK ==
    /\ calls \in Seq([kind : Kinds, size : Sizes]) /\ Len(calls) <= MaxCalls
    /\ app \in {"call", "main", "nonBlocking", "finish", "exited"}
    /\ catchers \in [Ids -> {"none", "recv", "ack"}]
    /\ got \in [Ids -> Seq(Ids)]
    /\ requests \in Seq(Ids) /\ replies \in Seq(Ids) /\ data \in Seq(Ids)
    /\ acks \in Nat /\ finishes \in Nat
    /\ run \in {"serve", "block", "asleep", "reply", "finish"} /\ cur \in Ids \cup {None}
    /\ run \in {"block", "asleep", "reply"} => Kind(cur) \in Blocking
    /\ run = "finish" => Kind(cur) = "finish"
    /\ queue \in Seq(Ids)
    /\ dpc \in {"take", "signal", "send", "ack", "pop", "aborted"}
    /\ executed \subseteq Ids /\ finSem \in Nat /\ early \subseteq Ids

\* When clFinish has returned, every earlier non-blocking read holds its own data and every
\* earlier write was executed: test programs use the buffer right after clFinish
\* (NDRange.cc:114 to 116).  The device's wait for each acknowledgement makes it hold.
FinishMeansDelivered ==
    \A m \in Returned : Kind(m) = "finish" =>
        \A n \in 1 .. m - 1 :
            /\ Kind(n) = "read" => got[n] = Units(n)
            /\ Kind(n) \in Transfers => n \in executed

\* An acknowledgement under way is for the transfer the device waits on, which has left the
\* connection completely: none is early and none is left over for a later transfer.
AckMatchesTransfer == acks > 0 => acks = 1 /\ dpc = "ack" /\ data = <<>>

\* The application has made no blocking read.  The client expects the data of one on the
\* non-blocking connection (elastic.cc:851), the CN sends code and data on the main one
\* (handler.cc:595 to 597), where later calls take them for their replies.
NoBlockingRead == \A n \in DOMAIN calls : Kind(n) # "blockingRead"

\* A blocking write has been executed when it returns (HandlerEnqueueWriteBuffer replies only
\* after Blocking()), unless its wait ended without a signal.
BlockingMeansExecuted ==
    NoBlockingRead => \A n \in Returned : Kind(n) = "blockingWrite" => n \in executed \cup early

-----------------------------------------------------------------------------
(* What makes those properties inductive.                                  *)

\* Run serves the calls in their order and the device executes them in that order: so many have
\* left the queue, and these are behind the device's Exec.
Popped == cur - Len(queue)
Passed(n) == n <= Popped \/ (n = Popped + 1 /\ dpc = "pop")

CallsInOrder ==
    /\ cur + Len(requests) = Len(calls) /\ \A i \in DOMAIN requests : requests[i] = cur + i
    /\ Len(queue) <= cur /\ \A i \in DOMAIN queue : queue[i] = Popped + i

\* What the application waits for belongs to its last call; what the device and Run are doing
\* fits the call they do it for, and a transfer that is past OpenCL has been executed.
StagesInScope ==
    /\ app \in {"main", "nonBlocking", "finish"} => calls # <<>> /\ ReceivesFrom(Kind(Len(calls))) = app
    /\ run # "serve" => cur # None
    /\ dpc \in {"signal", "send", "ack", "pop"} => queue # <<>>
    /\ dpc = "signal" => Kind(comm) \in Blocking
    /\ dpc \in {"send", "ack"} => Kind(comm) = "read"
    /\ dpc \in {"signal", "send", "ack"} => comm \in executed
    /\ \A n \in 1 .. Len(calls) : Passed(n) /\ Kind(n) \in Transfers => n \in executed

\* An acknowledgement of clFinish is that of the last call, which the device has executed; of
\* every clFinish that returned the same holds.
FinishIsLast ==
    /\ \A n \in Returned : Kind(n) = "finish" => Passed(n)
    /\ finSem + finishes > 0 =>
        /\ finSem + finishes = 1 /\ app \in {"finish", "exited"}
        /\ calls # <<>> /\ Kind(Len(calls)) = "finish" /\ Passed(Len(calls))

\* A reply, and Run's wait for one, is that of the last call, which has not returned.
BlockingIsLast ==
    /\ run = "reply" => cur \in executed \cup early
    /\ NoBlockingRead =>
        /\ \A n \in Returned : Kind(n) = "blockingWrite" =>
            n <= cur /\ n \in executed \cup early /\ (n = cur => run = "serve")
        /\ replies # <<>> =>
            /\ Len(replies) = 1 /\ cur = Len(calls) /\ run = "serve" /\ app # "call"
            /\ Kind(cur) = "blockingWrite" /\ cur \in executed \cup early

\* At most one catcher runs.  A read no data was sent for has received none; the data under way
\* and the acknowledgement are those of the read the device is at; a read behind it is complete.
ReadsInTurn ==
    /\ \A n \in Ids : n > Len(calls) => got[n] = <<>>
    /\ \A m, n \in InFlight : m = n
    /\ \A n \in InFlight :
        /\ n <= Len(calls) /\ Kind(n) = "read" /\ ~Passed(n)
        /\ catchers[n] = "recv" => Len(got[n]) < Size(n) /\ \A i \in DOMAIN got[n] : got[n][i] = n
        /\ catchers[n] = "ack" => got[n] = Units(n) /\ dpc = "ack" /\ comm = n /\ acks = 0 /\ data = <<>>
    /\ \A n \in 1 .. Len(calls) : Kind(n) = "read" =>
        /\ Passed(n) => got[n] = Units(n)
        /\ ~Passed(n) /\ ~(dpc = "ack" /\ n = comm) => catchers[n] = "recv" /\ got[n] = <<>>
    /\ data # <<>> =>
        /\ dpc = "ack" /\ catchers[comm] = "recv"
        /\ Len(got[comm]) + Len(data) <= Size(comm) /\ \A i \in DOMAIN data : data[i] = comm
    /\ acks > 0 => catchers[comm] = "none" /\ got[comm] = Units(comm)
    /\ AckMatchesTransfer

\* The inductive invariant.  With two catchers it is not known whose data the first one gets.
TransferInv ==
    /\ TypeOK
    /\ CallsInOrder /\ StagesInScope
    /\ FinishIsLast /\ BlockingIsLast
    /\ MaxReads <= 1 => ReadsInTurn

\* clFinish returns, or the client exits because the CN has aborted.
FinishReturns == (app = "finish" /\ NoBlockingRead) ~> (app \in {"call", "exited"})

\* A blocking write returns, as test4.cpp:82 expects.
BlockingWriteReturns == (app = "main") ~> (app \in {"call", "exited"})
=============================================================================
