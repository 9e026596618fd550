------------------------------- MODULE Session -------------------------------
(***************************************************************************)
(* How a client's session on the compute node comes to be.  A client opens *)
(* three connections one after the other, to the main, the non-blocking    *)
(* and the finish port, and then registers on the first.  The CN's main    *)
(* thread accepts on the main port only and starts a Run thread for each   *)
(* connection; the Run thread accepts whatever connection comes next on    *)
(* each of the other two ports and takes it for its client's.              *)
(* Source: src/common/IO_server.cc (MainLoop), src/cn/cn.cc (Run, main),   *)
(* src/client/elastic.cc (GetDevices, GetConnection and its siblings).     *)
(*                                                                         *)
(* A connection is identified by the client at its other end.  What a      *)
(* session does once it is registered is the business of CommandPool and   *)
(* BufferTransfer.                                                         *)
(***************************************************************************)
EXTENDS Integers, Sequences, FiniteSets

CONSTANTS
    Clients,        \* client processes
    Slots,          \* max_connections_ of the main server: slots for handing over sockets
    MaxConnecting,  \* bound: clients that set up their connections at the same time
    MayDie          \* may a client end while it sets up its connections?

ASSUME FiniteAssumption == IsFiniteSet(Clients)
ASSUME SlotsAssumption == Slots \in Nat \ {0}
ASSUME MaxConnectingAssumption == MaxConnecting \in Nat
ASSUME MayDieAssumption == MayDie \in BOOLEAN

VARIABLES
    client,    \* what each client does next
    backlog,   \* by port: connections not yet accepted
    registers, \* clients whose kReg waits in their main connection
    replies,   \* clients to whom "Reg succeed" has been sent
    tmpSock,   \* MainLoop's slots, from which a thread copies its socket
    counter,   \* the slot for the next connection
    threads,   \* Run threads in the order of their creation
    weight,    \* weight_ of the CN's CNInfo
    happened   \* history: what may upset the wiring of sessions and has happened

vars == <<client, backlog, registers, replies, tmpSock, counter, threads, weight, happened>>

None == "none"
ASSUME NoneAssumption == None \notin Clients
Ports == {"main", "nonBlocking", "finish"}

\* A Run thread: the slot it was given, what it does next, and its three sockets.
Thread == [slot : 0 .. Slots - 1, pc : {"start", "nonBlocking", "finish", "serve", "register", "ended"},
           main : Clients \cup {None}, nonBlocking : Clients \cup {None},
           finish : Clients \cup {None}, sum : 0 .. Cardinality(Clients)]

Init ==
    /\ client = [c \in Clients |-> "main"]
    /\ backlog = [p \in Ports |-> <<>>]
    /\ registers = {} /\ replies = {}
    /\ tmpSock = [s \in 0 .. Slots - 1 |-> None] /\ counter = 0
    /\ threads = <<>> /\ weight = 0 /\ happened = {}

Connecting == {c \in Clients : client[c] \in {"nonBlocking", "finish", "register", "reply"}}

-----------------------------------------------------------------------------
(* The client.                                                             *)

\* The order in which GetDevices opens the connections.
AfterConnect == [main |-> "nonBlocking", nonBlocking |-> "finish", finish |-> "register"]

\* connect() succeeds as soon as the connection is in the port's backlog.
Connect(c) ==
    /\ client[c] \in Ports
    /\ client[c] = "main" => Cardinality(Connecting) < MaxConnecting
    /\ backlog' = [backlog EXCEPT ![client[c]] = Append(@, c)]
    /\ client' = [client EXCEPT ![c] = AfterConnect[client[c]]]
    /\ happened' = happened \cup (IF client[c] = "main" /\ Connecting # {} THEN {"overlap"} ELSE {})
    /\ UNCHANGED <<registers, replies, tmpSock, counter, threads, weight>>

\* GetDevices waits for the answer to kReg; the variant does not.
AfterRegisterAtOnce == "ready"
AfterRegister == "reply"

Register(c) ==
    /\ client[c] = "register"
    /\ registers' = registers \cup {c}
    /\ client' = [client EXCEPT ![c] = AfterRegister]
    /\ UNCHANGED <<backlog, replies, tmpSock, counter, threads, weight, happened>>

RecvReply(c) ==
    /\ client[c] = "reply" /\ c \in replies
    /\ replies' = replies \ {c}
    /\ client' = [client EXCEPT ![c] = "ready"]
    /\ UNCHANGED <<backlog, registers, tmpSock, counter, threads, weight, happened>>

\* The process ends before its session is set up, by a failed connect or otherwise; its
\* connections stay in the backlogs.
Die(c) ==
    /\ MayDie /\ c \in Connecting
    /\ client' = [client EXCEPT ![c] = "dead"]
    /\ happened' = happened \cup {"death"}
    /\ UNCHANGED <<backlog, registers, replies, tmpSock, counter, threads, weight>>

-----------------------------------------------------------------------------
(* MainLoop.                                                               *)

\* The slots are used in turn.
NextSlot(s) == IF s = Slots - 1 THEN 0 ELSE s + 1

\* accept into the slot, pthread_create with a pointer to it, advance the counter.
MainLoop ==
    /\ backlog["main"] # <<>>
    /\ backlog' = [backlog EXCEPT !["main"] = Tail(@)]
    /\ tmpSock' = [tmpSock EXCEPT ![counter] = Head(backlog["main"])]
    /\ threads' = Append(threads, [slot |-> counter, pc |-> "start", main |-> None,
                                   nonBlocking |-> None, finish |-> None, sum |-> 0])
    /\ counter' = NextSlot(counter)
    /\ UNCHANGED <<client, registers, replies, weight, happened>>

-----------------------------------------------------------------------------
(* Run.                                                                    *)

\* The thread starts and copies its socket from the slot it was given a pointer to.
Start(t) ==
    /\ threads[t].pc = "start"
    /\ threads' = [threads EXCEPT ![t].pc = "nonBlocking", ![t].main = tmpSock[threads[t].slot]]
    /\ happened' = happened \cup (IF Len(threads) - t >= Slots THEN {"late start"} ELSE {})
    /\ UNCHANGED <<client, backlog, registers, replies, tmpSock, counter, weight>>

\* accept on the non-blocking port and then on the finish port.
AfterAccept == [nonBlocking |-> "finish", finish |-> "serve"]

\* The thread works on its copy of the socket; the variant reads it through the pointer again.
MainReread(t) == tmpSock[threads[t].slot]
MainCopied(t) == threads[t].main

Accept(t) ==
    LET p == threads[t].pc IN
    /\ p \in {"nonBlocking", "finish"} /\ backlog[p] # <<>>
    /\ threads' = [threads EXCEPT ![t].pc = AfterAccept[p], ![t][p] = Head(backlog[p]),
                                 ![t].main = MainCopied(t)]
    /\ backlog' = [backlog EXCEPT ![p] = Tail(@)]
    /\ UNCHANGED <<client, registers, replies, tmpSock, counter, weight, happened>>

\* HandlerRegister reads the CN's weight and adds the application's, which is 1 here; the
\* variant adds it to nothing.
SumForgotten == 1
Sum == weight + 1

ReadWeight(t) ==
    /\ threads[t].pc = "serve" /\ threads[t].main \in registers
    /\ registers' = registers \ {threads[t].main}
    /\ threads' = [threads EXCEPT ![t].pc = "register", ![t].sum = Sum]
    /\ happened' = happened \cup
                    (IF \E u \in DOMAIN threads : threads[u].pc = "register" THEN {"registers overlap"} ELSE {})
    /\ UNCHANGED <<client, backlog, replies, tmpSock, counter, weight>>

\* set_weight takes the lock again; the answer goes out on the connection the request came from.
HandlerRegister(t) ==
    /\ threads[t].pc = "register"
    /\ weight' = threads[t].sum
    /\ replies' = replies \cup {threads[t].main}
    /\ threads' = [threads EXCEPT ![t].pc = "serve"]
    /\ UNCHANGED <<client, backlog, registers, tmpSock, counter, happened>>

\* recv returns 0: the client is gone.
End(t) ==
    LET c == threads[t].main IN
    /\ threads[t].pc = "serve" /\ client[c] = "dead" /\ c \notin registers
    /\ threads' = [threads EXCEPT ![t].pc = "ended"]
    /\ UNCHANGED <<client, backlog, registers, replies, tmpSock, counter, weight, happened>>

-----------------------------------------------------------------------------
ClientStep(c) == Connect(c) \/ Register(c) \/ RecvReply(c)
RunStep(t) == Start(t) \/ Accept(t) \/ ReadWeight(t) \/ HandlerRegister(t) \/ End(t)

Next ==
    \/ \E c \in Clients : ClientStep(c) \/ Die(c)
    \/ MainLoop
    \/ \E t \in DOMAIN threads : RunStep(t)

Spec == Init /\ [][Next]_vars

(* A client that began goes on, and so do MainLoop and the threads.  Which *)
(* threads exist is known only as they are created.                        *)
Fairness ==
    /\ \A c \in Clients : WF_vars(client[c] # "main" /\ ClientStep(c))
    /\ WF_vars(MainLoop)
    /\ \A t \in 1 .. Cardinality(Clients) : WF_vars(t \in DOMAIN threads /\ RunStep(t))

FairSpec == Spec /\ Fairness

-----------------------------------------------------------------------------
(* Properties.                                                             *)

\* Types; the counter stays within the slots.
TypeOK ==
    /\ client \in [Clients -> Ports \cup {"register", "reply", "ready", "dead"}]
    /\ backlog \in [Ports -> Seq(Clients)]
    /\ registers \subseteq Clients /\ replies \subseteq Clients
    /\ tmpSock \in [0 .. Slots - 1 -> Clients \cup {None}] /\ counter \in 0 .. Slots - 1
    /\ threads \in Seq(Thread) /\ Len(threads) <= Cardinality(Clients)
    /\ happened \subseteq {"overlap", "death", "late start", "registers overlap"}
    /\ weight \in 0 .. Cardinality(Clients)

Serving == {t \in DOMAIN threads : threads[t].pc = "serve"}

\* The three sockets of a session lead to one client (cn.cc:202 "accept the non-blocking
\* connection").
OneClientPerSession ==
    \A t \in Serving : threads[t].nonBlocking = threads[t].main /\ threads[t].finish = threads[t].main

\* Clients that come one by one and do not end half way get sessions of their own: the answer
\* to kReg comes only when the CN has accepted all three connections, so that the next client
\* finds the backlogs empty, and the thread has copied its socket before its slot is used again.
SerialSessionsMatch == happened = {} => OneClientPerSession

\* The clients that have been told, or will be, that they are registered.
Told == {c \in Clients : client[c] = "ready"} \cup replies

\* A client that has been told that it is registered counts in the CN's weight, and nobody
\* counts twice, unless two registrations overlapped: weight() and set_weight() lock one by one
\* (cn/handler.cc:34).
WeightIsSum ==
    "registers overlap" \notin happened => weight = Cardinality(Told)

\* No two sessions share a socket, whatever clients do: each main connection is read by one Run
\* thread, although MainLoop passes it by a pointer to a slot it will use again (unless a thread
\* starts so late that the ring has come round), and no other connection is accepted twice.
OneThreadPerSocket ==
    \A t, u \in DOMAIN threads : \A p \in Ports :
        t # u /\ threads[t][p] # None /\ (p = "main" => "late start" \notin happened)
            => threads[t][p] # threads[u][p]

-----------------------------------------------------------------------------
(* What makes those properties inductive.                                  *)

\* Clients that have connected to a port, or have died.
Connected(p) ==
    {c \in Clients : client[c] \notin
        (CASE p = "main" -> {"main"} [] p = "nonBlocking" -> {"main", "nonBlocking"} [] OTHER -> Ports)}

\* A connection waits at most once, and no longer when it has been accepted.
AcceptedOnce ==
    \A p \in Ports :
        /\ \A i \in DOMAIN backlog[p] :
            /\ backlog[p][i] \in Connected(p)
            /\ \A j \in DOMAIN backlog[p] : i # j => backlog[p][i] # backlog[p][j]
        /\ \A t \in DOMAIN threads : threads[t][p] # None =>
            /\ threads[t][p] \in Connected(p)
            /\ \A i \in DOMAIN backlog[p] : backlog[p][i] # threads[t][p]

\* The threads are the main connections accepted so far.
ThreadsCounted == Len(threads) + Len(backlog["main"]) = Cardinality(Connected("main"))

\* The last Slots threads have the slots before the counter, in turn; each slot holds the socket
\* accepted last into it, which no other slot holds, and no thread but that one has copied.
SlotBefore(k) == IF k <= counter THEN counter - k ELSE counter + Slots - k
SlotsInTurn ==
    /\ \A t \in DOMAIN threads :
        /\ tmpSock[threads[t].slot] # None
        /\ threads[t].pc # "start" => threads[t].main # None
        /\ Len(threads) - t < Slots => threads[t].slot = SlotBefore(Len(threads) - t + 1)
    /\ \A s \in DOMAIN tmpSock : tmpSock[s] # None =>
        /\ tmpSock[s] \in Connected("main")
        /\ \A i \in DOMAIN backlog["main"] : backlog["main"][i] # tmpSock[s]
        /\ \A r \in DOMAIN tmpSock : r # s => tmpSock[r] # tmpSock[s]
        /\ "late start" \notin happened =>
            \A t \in DOMAIN threads : threads[t].main = tmpSock[s] => s = threads[t].slot /\ Len(threads) - t < Slots

\* A kReg is waiting, being handled by one thread, or answered; the weight a thread is about to
\* store counts its client once, and is right if no other thread is at the same.
Registering == {t \in DOMAIN threads : threads[t].pc = "register"}
RegisteredOnce ==
    /\ registers \cap replies = {}
    /\ \A c \in registers \cup replies : client[c] \in {"reply", "dead"}
    /\ \A t \in Registering :
        /\ threads[t].main \notin registers \cup replies /\ client[threads[t].main] \in {"reply", "dead"}
        /\ threads[t].sum <= Cardinality(Told) + 1
        /\ \A u \in Registering : t # u => threads[t].main # threads[u].main
    /\ weight <= Cardinality(Told)
    /\ "registers overlap" \notin happened =>
        /\ \A t \in Registering : threads[t].sum = weight + 1 /\ \A u \in Registering : t = u
        /\ WeightIsSum

\* While clients come one by one, what has not yet led to a session is the one client's that is
\* connecting.
Early == {"start", "nonBlocking", "finish"}
OneByOne ==
    /\ \A c \in Clients : client[c] # "dead"
    /\ \A a, b \in Connecting : a = b
    /\ \A p \in Ports : \A i \in DOMAIN backlog[p] : backlog[p][i] \in Connecting
    /\ \A t \in DOMAIN threads :
        /\ threads[t].pc \in Early => t = Len(threads)
        /\ threads[t].pc = "start" => tmpSock[threads[t].slot] \in Connecting
        /\ threads[t].pc \in {"nonBlocking", "finish"} => threads[t].main \in Connecting
        /\ threads[t].pc \notin {"start", "nonBlocking"} => threads[t].nonBlocking = threads[t].main
        /\ threads[t].pc \notin Early => threads[t].finish = threads[t].main
    /\ \A c \in replies : \E t \in DOMAIN threads : threads[t].pc \notin Early /\ threads[t].main = c

\* The inductive invariant.
SessionInv ==
    /\ TypeOK /\ OneThreadPerSocket
    /\ AcceptedOnce /\ ThreadsCounted /\ SlotsInTurn
    /\ RegisteredOnce
    /\ happened = {} => OneByOne

\* A client that began to connect is told that it has a session, also when several connect at
\* the same time; only a client that ended half way can leave others without one.
GetsSession ==
    \A c \in Clients :
        (client[c] = "nonBlocking") ~> (client[c] = "ready" \/ {"death", "late start"} \cap happened # {})
=============================================================================
