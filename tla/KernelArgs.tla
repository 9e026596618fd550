----------------------------- MODULE KernelArgs -----------------------------
(***************************************************************************)
(* How the arguments of a kernel reach the device.  SetKernelArg only      *)
(* notes the change in the client's kernel object; EnqueueNDRangeKernel    *)
(* sends the changes noted since the last one, split into messages of      *)
(* fixed size, and forgets them; clEnqueueTask sends none.  The CN's       *)
(* handler puts the lists together again and queues a command that carries *)
(* them; the command sets them on the OpenCL kernel, which keeps the older *)
(* ones, when it is executed.                                              *)
(* Source: src/client/elastic.cc (SetKernelArg, EnqueueNDRangeKernel,      *)
(* CreateKernel), newscl.cc (clEnqueueTask), src/cn/handler.cc             *)
(* (HandlerEnqueueNDRangeKernel, HandlerEnqueueTask, HandlerCreateKernel), *)
(* src/cn/command.cc (CommandKernel::Exec).                                *)
(*                                                                         *)
(* One client, its session and its queue.  A request is one element of the *)
(* connection, with the messages it consists of.  Once the handler reads   *)
(* other bytes than the client meant, nothing more is said of the session. *)
(***************************************************************************)
EXTENDS Integers, SequencesExt

CONSTANTS
    PtrArgs,      \* argument indexes declared as pointers
    ConstArgs,    \* the other argument indexes
    SizeOf,       \* their sizes in bytes
    Mems,         \* memory objects
    Null,         \* arg_value == NULL, sent as 2147483247
    Unset,        \* no value yet
    Values,       \* values of constant arguments
    MemsPerMsg,   \* 64 / 5 in the code
    ConstsPerMsg, \* 64 / 9 in the code
    ByteRange,    \* 256 in the code
    MaxKernels, MaxSets, MaxRuns  \* bounds on the client's calls

ASSUME ArgsAssumption == PtrArgs \cap ConstArgs = {} /\ SizeOf \in [ConstArgs -> Nat \ {0}]
ASSUME NullAssumption == {Null, Unset} \cap Mems = {}
ASSUME SizesAssumption == {MemsPerMsg, ConstsPerMsg, ByteRange} \subseteq Nat \ {0}
ASSUME BoundsAssumption == {MaxKernels, MaxSets, MaxRuns} \subseteq Nat

VARIABLES
    pending,   \* of each kernel the client created: changed_mem_id, const_data_info, const_data
    main,      \* requests on the main connection
    cn,        \* is the session "up", "aborted" with the CN, or reading "garbled" requests
    client,    \* "up" or "dead"
    capacity,  \* of the session's vector of kernels
    storage,   \* which allocation that vector uses
    commands,  \* the session's queue
    onDev,     \* the arguments each OpenCL kernel has
    lastRun,   \* what the last executed command got and what it should have got
    asked      \* history of the client's calls; nothing reads it

vars == <<pending, main, cn, client, capacity, storage, commands, onDev, lastRun, asked>>

Args == PtrArgs \cup ConstArgs

NoArgs == [a \in Args |-> Unset]
NothingPending == [mems |-> <<>>, consts |-> <<>>, data |-> <<>>]
Kernels == DOMAIN pending
Bytes(v, n) == [i \in 1 .. n |-> <<v, i>>]
MessagesFor(n, perMsg) == (n + perMsg - 1) \div perMsg
Smaller(a, b) == IF a < b THEN a ELSE b

Init ==
    /\ pending = <<>> /\ main = <<>> /\ commands = <<>>
    /\ cn = "up" /\ client = "up"
    /\ capacity = 0 /\ storage = 0
    /\ onDev = <<>> /\ lastRun = [got |-> NoArgs, want |-> NoArgs]
    /\ asked = [set |-> <<>>, consts |-> <<>>, bytes |-> <<>>, mems |-> <<>>, calls |-> 0, runs |-> 0,
                overLimit |-> FALSE, createdLate |-> FALSE, unsent |-> FALSE]

-----------------------------------------------------------------------------
(* The client.                                                             *)

\* CreateKernel waits for the reply, so everything sent before has been handled.  kernels.resize
\* moves the vector when it is full; libstdc++ doubles its capacity.
CreateKernel ==
    /\ client = "up" /\ cn = "up" /\ main = <<>> /\ Len(pending) < MaxKernels
    /\ pending' = Append(pending, NothingPending)
    /\ onDev' = Append(onDev, NoArgs)
    /\ IF Len(onDev) = capacity
       THEN capacity' = (IF capacity = 0 THEN 1 ELSE 2 * capacity) /\ storage' = storage + 1
       ELSE UNCHANGED <<capacity, storage>>
    /\ asked' = [asked EXCEPT !.set = Append(@, NoArgs), !.consts = Append(@, 0), !.bytes = Append(@, 0),
                              !.mems = Append(@, 0), !.createdLate = @ \/ asked.runs > 0]
    /\ UNCHANGED <<main, cn, client, commands, lastRun>>

SetPointer(k, a, m) ==
    /\ client = "up" /\ asked.calls < MaxSets
    /\ pending' = [pending EXCEPT ![k].mems = Append(@, [arg |-> a, mem |-> m])]
    /\ asked' = [asked EXCEPT !.set[k][a] = m, !.mems[k] = @ + 1, !.calls = @ + 1,
                              !.overLimit = @ \/ m = Null]
    /\ UNCHANGED <<main, cn, client, capacity, storage, commands, onDev, lastRun>>

SetConst(k, a, v) ==
    /\ client = "up" /\ asked.calls < MaxSets
    /\ pending' = [pending EXCEPT ![k].consts = Append(@, [arg |-> a, size |-> SizeOf[a]]),
                                  ![k].data = @ \o Bytes(v, SizeOf[a])]
    /\ asked' = [asked EXCEPT !.set[k][a] = Bytes(v, SizeOf[a]), !.consts[k] = @ + 1,
                              !.bytes[k] = @ + SizeOf[a], !.calls = @ + 1]
    /\ UNCHANGED <<main, cn, client, capacity, storage, commands, onDev, lastRun>>

\* The list cut into messages.  The variant does not start again in each, as the code does not
\* for the constants.
MemMessagesAppended(list) ==
    [i \in 1 .. MessagesFor(Len(list), MemsPerMsg) |-> SubSeq(list, 1, Smaller(MemsPerMsg, Len(list)))]

\* arg_buf_offset starts again in each.
MemMessages(list) ==
    [i \in 1 .. MessagesFor(Len(list), MemsPerMsg) |->
        SubSeq(list, (i - 1) * MemsPerMsg + 1, Smaller(i * MemsPerMsg, Len(list)))]

\* const_buf_offset does not: what follows the first message's entries is written behind them,
\* out of the buffer, and the first entries are sent once more.
ConstMessages(list) ==
    [i \in 1 .. MessagesFor(Len(list) % ByteRange, ConstsPerMsg) |->
        SubSeq(list, 1, Smaller(ConstsPerMsg, Len(list)))]

\* The three clear() calls; the variant leaves out both vectors of constants.
ConstsKept(p) == [p EXCEPT !.mems = <<>>]
Cleared(p) == NothingPending

OverLimit(k) ==
    \/ asked.consts[k] > ConstsPerMsg \/ asked.bytes[k] >= ByteRange \/ asked.mems[k] >= ByteRange

\* The counts are sent as one byte each.
Request(k, l) ==
    [kernel |-> k, memCount |-> Len(l.mems) % ByteRange, constCount |-> Len(l.consts) % ByteRange,
     memMsgs |-> MemMessages(l.mems), data |-> l.data, constMsgs |-> ConstMessages(l.consts),
     want |-> asked.set[k]]

EnqueueNDRangeKernel(k) ==
    /\ client = "up" /\ asked.runs < MaxRuns
    /\ \A a \in Args : asked.set[k][a] # Unset
    /\ main' = Append(main, Request(k, pending[k]))
    /\ pending' = [pending EXCEPT ![k] = Cleared(@)]
    \* A write behind const_send_buf may go unnoticed.
    /\ client' \in IF Len(pending[k].consts) > ConstsPerMsg THEN {"up", "dead"} ELSE {"up"}
    /\ asked' = [asked EXCEPT !.runs = @ + 1, !.overLimit = @ \/ OverLimit(k),
                              !.consts[k] = 0, !.bytes[k] = 0, !.mems[k] = 0]
    /\ UNCHANGED <<cn, capacity, storage, commands, onDev, lastRun>>

\* clEnqueueTask sends the kernel's id only and forgets nothing; HandlerEnqueueTask does with it
\* what the handler below does with empty lists.
EnqueueTask(k) ==
    /\ client = "up" /\ asked.runs < MaxRuns
    /\ \A a \in Args : asked.set[k][a] # Unset
    /\ main' = Append(main, Request(k, NothingPending))
    /\ asked' = [asked EXCEPT !.runs = @ + 1, !.unsent = @ \/ pending[k] # NothingPending]
    /\ UNCHANGED <<pending, cn, client, capacity, storage, commands, onDev, lastRun>>

-----------------------------------------------------------------------------
(* The session.                                                            *)

\* Entry j of a list of n, found by message and place in the message.
Collect(msgs, n, perMsg) ==
    [j \in 1 .. n |-> msgs[(j - 1) \div perMsg + 1][((j - 1) % perMsg) + 1]]

TotalSize(consts) == FoldLeft(LAMBDA sum, c : sum + c.size, 0, consts)

\* const_data_size is sent as four bytes and read as one.
SizeRead(data) == Len(data) % ByteRange

\* Does the handler read exactly the bytes of this request?
InStep(r) ==
    /\ MessagesFor(r.memCount, MemsPerMsg) = Len(r.memMsgs)
    /\ SizeRead(r.data) = Len(r.data)

\* The command takes &kernels[id] and copies of the lists.
CommandFor(r) ==
    [kernel |-> r.kernel, storage |-> storage, data |-> r.data, want |-> r.want,
     mems |-> Collect(r.memMsgs, r.memCount, MemsPerMsg),
     consts |-> Collect(r.constMsgs, r.constCount, ConstsPerMsg)]

\* assert(false) on a null pointer, assert(recv_const_data == const_data_size).
AssertsHold(c) ==
    /\ \A j \in DOMAIN c.mems : c.mems[j].mem # Null
    /\ c.consts # <<>> => TotalSize(c.consts) = Len(c.data)

HandlerEnqueueNDRangeKernel ==
    /\ cn = "up" /\ main # <<>>
    /\ LET r == Head(main)
       IN \/ /\ InStep(r) /\ AssertsHold(CommandFor(r))
             /\ commands' = Append(commands, CommandFor(r))
             /\ UNCHANGED cn
          \/ /\ InStep(r) /\ ~AssertsHold(CommandFor(r))
             /\ cn' = "aborted"
             /\ UNCHANGED commands
          \/ /\ ~InStep(r)
             /\ cn' \in {"aborted", "garbled"}
             /\ UNCHANGED commands
    /\ main' = Tail(main)
    /\ UNCHANGED <<pending, client, capacity, storage, onDev, lastRun, asked>>

-----------------------------------------------------------------------------
(* The device.                                                             *)

\* CommandKernel::Exec sets the memory arguments, then the constant ones from consecutive pieces
\* of const_data; a later entry for an argument replaces an earlier one.
WithMems(args, mems) == FoldLeft(LAMBDA f, c : [f EXCEPT ![c.arg] = c.mem], args, mems)

WithConsts(args, consts, data) ==
    FoldLeft(LAMBDA f, c : [args |-> [f.args EXCEPT ![c.arg] = SubSeq(data, f.offset + 1, f.offset + c.size)],
                            offset |-> f.offset + c.size],
             [args |-> args, offset |-> 0], consts).args

Changed(args, l) == WithConsts(WithMems(args, l.mems), l.consts, l.data)

\* An argument that is not set is an OpenCL error, which ends the CN.
Exec ==
    /\ cn = "up" /\ commands # <<>>
    /\ LET c == Head(commands)
           args == Changed(onDev[c.kernel], c)
       IN \/ /\ \A a \in Args : args[a] # Unset
             /\ onDev' = [onDev EXCEPT ![c.kernel] = args]
             /\ lastRun' = [got |-> args, want |-> c.want]
             /\ UNCHANGED cn
          \/ /\ \E a \in Args : args[a] = Unset
             /\ cn' = "aborted"
             /\ UNCHANGED <<onDev, lastRun>>
    /\ commands' = Tail(commands)
    /\ UNCHANGED <<pending, main, client, capacity, storage, asked>>

\* kernel_ may point into storage the vector has left: what is there may still be the old
\* entry (Exec) or no kernel at all.
ExecStale ==
    /\ cn = "up" /\ commands # <<>> /\ Head(commands).storage # storage
    /\ cn' = "aborted"
    /\ commands' = Tail(commands)
    /\ UNCHANGED <<pending, main, client, capacity, storage, onDev, lastRun, asked>>

-----------------------------------------------------------------------------
Next ==
    \/ CreateKernel
    \/ \E k \in Kernels :
        \/ \E a \in PtrArgs, m \in Mems \cup {Null} : SetPointer(k, a, m)
        \/ \E a \in ConstArgs, v \in Values : SetConst(k, a, v)
        \/ EnqueueNDRangeKernel(k) \/ EnqueueTask(k)
    \/ HandlerEnqueueNDRangeKernel
    \/ Exec \/ ExecStale

Spec == Init /\ [][Next]_vars

-----------------------------------------------------------------------------
(* Properties.                                                             *)

MemEntry == [arg : PtrArgs, mem : Mems \cup {Null}]
ConstEntry == [arg : ConstArgs, size : Nat \ {0}]
Data == Seq(Values \X Nat)
ArgValues == Mems \cup {Null, Unset} \cup Data
ArgLists == [Args -> ArgValues]
Lists == [mems : Seq(MemEntry), consts : Seq(ConstEntry), data : Data]
Requests ==
    [kernel : Kernels, memCount : 0 .. ByteRange - 1, constCount : Nat,
     memMsgs : Seq(Seq(MemEntry)), data : Data, constMsgs : Seq(Seq(ConstEntry)), want : ArgLists]
Commands ==
    [kernel : Kernels, storage : 1 .. storage, data : Data, want : ArgLists,
     mems : Seq(MemEntry), consts : Seq(ConstEntry)]

\* Types; the client and the session agree on how many kernels there are, the vector holds them,
\* what is noted for a kernel belongs to its arguments, and the handler finds an entry wherever it
\* looks for one.
TypeOK ==
    /\ cn \in {"up", "aborted", "garbled"} /\ client \in {"up", "dead"}
    /\ pending \in Seq(Lists)
    /\ \A k \in Kernels : TotalSize(pending[k].consts) = Len(pending[k].data)
    /\ onDev \in Seq(ArgLists) /\ Len(onDev) = Len(pending) /\ Len(pending) <= MaxKernels
    /\ capacity \in Nat /\ Len(pending) <= capacity
    /\ storage \in 0 .. Len(pending) /\ (capacity > 0 => storage > 0)
    /\ main \in Seq(Requests)
    /\ \A i \in DOMAIN main : CommandFor(main[i]) \in Commands
    /\ commands \in Seq(Commands)
    /\ \A i \in DOMAIN commands : AssertsHold(commands[i])

\* asked counts what was set since the last EnqueueNDRangeKernel, and before the first run nothing
\* is under way.
Counted ==
    /\ asked \in [set : Seq(ArgLists), consts : Seq(Nat), bytes : Seq(Nat), mems : Seq(Nat),
                  calls : Nat, runs : Nat, overLimit : BOOLEAN, createdLate : BOOLEAN, unsent : BOOLEAN]
    /\ {DOMAIN asked.set, DOMAIN asked.consts, DOMAIN asked.bytes, DOMAIN asked.mems} = {Kernels}
    /\ \A k \in Kernels :
        /\ asked.consts[k] = Len(pending[k].consts)
        /\ asked.bytes[k] = Len(pending[k].data)
        /\ asked.mems[k] = Len(pending[k].mems)
        /\ Len(pending[k].consts) <= Len(pending[k].data)
    /\ asked.runs = 0 => main = <<>> /\ commands = <<>>

\* A kernel runs with the arguments the application had set when it enqueued it: the last value of
\* each, whether sent now or earlier, and none set since.  That is so for an application that
\* between two enqueues of a kernel sets no more constants than fit one message and one byte,
\* passes no null pointer, creates its kernels first, and enqueues a task only when it has set no
\* argument since the last EnqueueNDRangeKernel.
OutOfLimits == asked.overLimit \/ asked.createdLate \/ asked.unsent
ArgsAsSet == lastRun.got = lastRun.want \/ OutOfLimits

\* Within the same limits the two ends stay in step: no assertion fails, no argument is
\* missing, and neither side reads or writes what is not there.
StaysInStep ==
    cn # "up" \/ client # "up" => OutOfLimits

\* The runs on their way to the device, the next one first.
Flow == [i \in 1 .. Len(commands) + Len(main) |->
            IF i <= Len(commands) THEN commands[i] ELSE CommandFor(main[i - Len(commands)])]

\* i is the last run of kernel k before j; 0 stands for those that are over.
Latest(k, i, j) ==
    /\ i \in 0 .. j - 1
    /\ i = 0 \/ Flow[i].kernel = k
    /\ \A n \in i + 1 .. j - 1 : Flow[n].kernel # k

\* The arguments kernel k has after run i, if all goes well.
ArgsAfter(k, i) == IF i = 0 THEN onDev[k] ELSE Flow[i].want

\* Each run sets what changed since the last one of its kernel, and what is noted for a kernel is
\* what changed since its last run.
ChangesAddUp ==
    /\ \A j \in DOMAIN Flow, i \in 0 .. Len(Flow) :
        Latest(Flow[j].kernel, i, j) => Flow[j].want = Changed(ArgsAfter(Flow[j].kernel, i), Flow[j])
    /\ \A k \in Kernels, i \in 0 .. Len(Flow) :
        Latest(k, i, Len(Flow) + 1) => asked.set[k] = Changed(ArgsAfter(k, i), pending[k])

\* Nothing under way makes either end fail: the handler reads each request to its end, a command's
\* pointer into the vector is good, and no argument is missing or null.
NothingFails ==
    /\ \A k \in Kernels : \A n \in DOMAIN pending[k].mems : pending[k].mems[n].mem # Null
    /\ \A i \in DOMAIN main : InStep(main[i])
    /\ \A i \in DOMAIN Flow :
        /\ Flow[i].storage = storage /\ AssertsHold(Flow[i])
        /\ \A a \in Args : Flow[i].want[a] # Unset

\* Types, counts, and both ends in step.  ArgsAsSet follows from ChangesAddUp.
KernelInv ==
    /\ TypeOK /\ Counted /\ StaysInStep /\ ArgsAsSet
    /\ OutOfLimits \/ (ChangesAddUp /\ NothingFails)
=============================================================================
