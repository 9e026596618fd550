----------------------------- MODULE SessionProofs -----------------------------
(***************************************************************************)
(* Proofs about Session, for any finite set of clients, any number of      *)
(* slots, and clients that may die.                                        *)
(***************************************************************************)
EXTENDS Session, FiniteSetTheorems, SequenceTheorems, TLAPS

(* Init establishes the inductive invariant.                               *)
LEMMA InitSession == Init => SessionInv
  <1> SUFFICES ASSUME Init PROVE SessionInv
    OBVIOUS
  <1>0. Cardinality(Clients) \in Nat /\ Cardinality({}) = 0
    BY FiniteAssumption, FS_CardinalityType, FS_EmptySet
  <1>1. TypeOK
    BY <1>0, SlotsAssumption DEF Init, TypeOK, Ports
  <1>2. OneThreadPerSocket /\ AcceptedOnce
    BY DEF Init, OneThreadPerSocket, AcceptedOnce, Ports
  <1>3. ThreadsCounted
    <2>1. Connected("main") = {}
      BY DEF Init, Connected
    <2>2. Len(threads) = 0 /\ Len(backlog["main"]) = 0
      BY DEF Init, Ports
    <2> QED BY <1>0, <2>1, <2>2 DEF ThreadsCounted
  <1>4. SlotsInTurn
    BY DEF Init, SlotsInTurn
  <1>5. RegisteredOnce
    <2>1. Told = {}
      BY DEF Init, Told
    <2>2. weight = 0 /\ registers = {} /\ replies = {} /\ Registering = {}
      BY DEF Init, Registering
    <2>3. Cardinality(Told) = 0 /\ registers \cup replies = {} /\ registers \cap replies = {}
      BY <1>0, <2>1, <2>2
    <2> QED BY <2>2, <2>3 DEF RegisteredOnce, WeightIsSum
  <1>6. OneByOne
    BY DEF Init, OneByOne, Connecting, Ports
  <1> QED BY <1>1, <1>2, <1>3, <1>4, <1>5, <1>6 DEF SessionInv

-----------------------------------------------------------------------------
(* Types.                                                                  *)

(* The numbers and records the other facts are about.                      *)
LEMMA Typed ==
    ASSUME TypeOK
    PROVE  /\ Len(threads) \in Nat /\ DOMAIN threads = 1 .. Len(threads) /\ Slots \in Nat /\ Slots > 0
           /\ \A t \in DOMAIN threads : threads[t] \in Thread
           /\ \A p \in Ports : backlog[p] \in Seq(Clients)
           /\ Cardinality(Clients) \in Nat /\ weight \in Nat /\ None \notin Clients
  <1>1. threads \in Seq(Thread) /\ backlog \in [Ports -> Seq(Clients)] /\ weight \in 0 .. Cardinality(Clients)
    BY DEF TypeOK
  <1>2. Len(threads) \in Nat /\ DOMAIN threads = 1 .. Len(threads)
    BY <1>1
  <1>3. \A t \in DOMAIN threads : threads[t] \in Thread
    BY <1>1, <1>2, ElementOfSeq
  <1>4. Cardinality(Clients) \in Nat
    BY FiniteAssumption, FS_CardinalityType
  <1> QED BY <1>1, <1>2, <1>3, <1>4, SlotsAssumption, NoneAssumption

(* What MainLoop does to the threads.                                      *)
LEMMA MainLoopFacts ==
    ASSUME TypeOK, MainLoop
    PROVE  /\ Len(threads') = Len(threads) + 1 /\ DOMAIN threads' = 1 .. Len(threads) + 1
           /\ \A t \in DOMAIN threads : threads'[t] = threads[t]
           /\ threads'[Len(threads) + 1] = [slot |-> counter, pc |-> "start", main |-> None,
                                            nonBlocking |-> None, finish |-> None, sum |-> 0]
           /\ threads' \in Seq(Thread)
           /\ Head(backlog["main"]) \in Clients /\ backlog["main"] # <<>>
           /\ tmpSock' \in [0 .. Slots - 1 -> Clients \cup {None}]
  <1>1. /\ threads' = Append(threads, [slot |-> counter, pc |-> "start", main |-> None,
                                       nonBlocking |-> None, finish |-> None, sum |-> 0])
        /\ tmpSock' = [tmpSock EXCEPT ![counter] = Head(backlog["main"])] /\ backlog["main"] # <<>>
    BY DEF MainLoop
  <1>2. threads \in Seq(Thread) /\ tmpSock \in [0 .. Slots - 1 -> Clients \cup {None}] /\ counter \in 0 .. Slots - 1
    BY DEF TypeOK
  <1>3. [slot |-> counter, pc |-> "start", main |-> None, nonBlocking |-> None, finish |-> None, sum |-> 0] \in Thread
    BY <1>2, Typed DEF Thread
  <1>4. Head(backlog["main"]) \in Clients
    BY <1>1, Typed DEF Ports
  <1> HIDE DEF Thread
  <1>5. /\ Len(threads') = Len(threads) + 1 /\ DOMAIN threads' = 1 .. Len(threads) + 1
        /\ \A t \in DOMAIN threads : threads'[t] = threads[t]
        /\ threads'[Len(threads) + 1] = [slot |-> counter, pc |-> "start", main |-> None,
                                         nonBlocking |-> None, finish |-> None, sum |-> 0]
        /\ threads' \in Seq(Thread)
    BY <1>1, <1>2, <1>3
  <1> QED BY <1>1, <1>2, <1>4, <1>5

(* What each step of a Run thread does to it; the others stay as they are. *)
LEMMA RunFacts ==
    ASSUME TypeOK, NEW t \in DOMAIN threads, RunStep(t)
    PROVE  /\ DOMAIN threads' = DOMAIN threads /\ Len(threads') = Len(threads)
           /\ \A u \in DOMAIN threads : u # t => threads'[u] = threads[u]
           /\ threads'[t].slot = threads[t].slot
           /\ ~Start(t) => threads'[t].main = threads[t].main
           /\ ~Accept(t) => threads'[t].nonBlocking = threads[t].nonBlocking /\ threads'[t].finish = threads[t].finish
           /\ ~ReadWeight(t) => threads'[t].sum = threads[t].sum
           /\ Start(t) => threads'[t].main = tmpSock[threads[t].slot] /\ threads'[t].pc = "nonBlocking"
           /\ Accept(t) =>
                /\ threads[t].pc \in {"nonBlocking", "finish"}
                /\ threads'[t].pc = IF threads[t].pc = "nonBlocking" THEN "finish" ELSE "serve"
                /\ threads'[t].nonBlocking = IF threads[t].pc = "nonBlocking" THEN Head(backlog["nonBlocking"])
                                             ELSE threads[t].nonBlocking
                /\ threads'[t].finish = IF threads[t].pc = "finish" THEN Head(backlog["finish"]) ELSE threads[t].finish
           /\ ReadWeight(t) => threads'[t].sum = weight + 1 /\ threads'[t].pc = "register"
           /\ HandlerRegister(t) => threads'[t].pc = "serve"
           /\ End(t) => threads'[t].pc = "ended"
  <1>0. threads \in Seq(Thread) /\ threads[t] \in Thread
    BY Typed DEF TypeOK
  <1>1. ASSUME NEW r, threads' = [threads EXCEPT ![t] = r]
        PROVE  DOMAIN threads' = DOMAIN threads /\ Len(threads') = Len(threads) /\ threads'[t] = r
               /\ \A u \in DOMAIN threads : u # t => threads'[u] = threads[u]
    BY <1>0, <1>1
  <1>2. CASE Start(t)
    <2>1. threads' = [threads EXCEPT ![t] = [threads[t] EXCEPT !.pc = "nonBlocking", !.main = tmpSock[threads[t].slot]]]
      BY <1>0, <1>2 DEF Start
    <2>2. threads'[t] = [threads[t] EXCEPT !.pc = "nonBlocking", !.main = tmpSock[threads[t].slot]]
      BY <1>1, <2>1
    <2>3. threads[t].pc = "start" /\ ~Accept(t) /\ ~ReadWeight(t) /\ ~HandlerRegister(t) /\ ~End(t)
      BY <1>2 DEF Start, Accept, ReadWeight, HandlerRegister, End
    <2> QED BY <1>0, <1>1, <1>2, <2>1, <2>2, <2>3 DEF Thread
  <1>3. CASE Accept(t)
    <2>1. PICK p : p = threads[t].pc
      OBVIOUS
    <2>2. PICK r : r = [threads[t] EXCEPT !.pc = AfterAccept[p], ![p] = Head(backlog[p]), !.main = threads[t].main]
      OBVIOUS
    <2>3. threads' = [threads EXCEPT ![t] = r] /\ p \in {"nonBlocking", "finish"}
      BY <1>0, <1>3, <2>1, <2>2 DEF Accept, MainCopied
    <2>4. threads'[t] = r
      BY <1>1, <2>3
    <2>5. ~Start(t) /\ ~ReadWeight(t) /\ ~HandlerRegister(t) /\ ~End(t)
      BY <2>1, <2>3 DEF Start, ReadWeight, HandlerRegister, End
    <2>6. /\ r.slot = threads[t].slot /\ r.main = threads[t].main /\ r.sum = threads[t].sum
          /\ r.pc = IF p = "nonBlocking" THEN "finish" ELSE "serve"
          /\ r.nonBlocking = IF p = "nonBlocking" THEN Head(backlog["nonBlocking"]) ELSE threads[t].nonBlocking
          /\ r.finish = IF p = "finish" THEN Head(backlog["finish"]) ELSE threads[t].finish
      <3>1. CASE p = "nonBlocking"
        <4>1. r = [threads[t] EXCEPT !.pc = "finish", !["nonBlocking"] = Head(backlog["nonBlocking"]), !.main = threads[t].main]
          BY <2>2, <3>1 DEF AfterAccept
        <4> QED BY <1>0, <3>1, <4>1 DEF Thread
      <3>2. CASE p = "finish"
        <4>1. r = [threads[t] EXCEPT !.pc = "serve", !["finish"] = Head(backlog["finish"]), !.main = threads[t].main]
          BY <2>2, <3>2 DEF AfterAccept
        <4> QED BY <1>0, <3>2, <4>1 DEF Thread
      <3> QED BY <2>3, <3>1, <3>2
    <2> QED BY <1>1, <1>3, <2>1, <2>3, <2>4, <2>5, <2>6
  <1>4. CASE ReadWeight(t)
    <2>1. threads' = [threads EXCEPT ![t] = [threads[t] EXCEPT !.pc = "register", !.sum = weight + 1]]
      BY <1>0, <1>4 DEF ReadWeight, Sum
    <2>2. threads'[t] = [threads[t] EXCEPT !.pc = "register", !.sum = weight + 1]
      BY <1>1, <2>1
    <2>3. threads[t].pc = "serve" /\ ~Accept(t) /\ ~Start(t) /\ ~HandlerRegister(t)
      BY <1>4 DEF Start, Accept, ReadWeight, HandlerRegister
    <2>4. ~End(t)
      BY <1>4 DEF ReadWeight, End
    <2> QED BY <1>0, <1>1, <1>4, <2>1, <2>2, <2>3, <2>4 DEF Thread
  <1>5. CASE HandlerRegister(t)
    <2>1. threads' = [threads EXCEPT ![t] = [threads[t] EXCEPT !.pc = "serve"]]
      BY <1>0, <1>5 DEF HandlerRegister
    <2>2. threads'[t] = [threads[t] EXCEPT !.pc = "serve"]
      BY <1>1, <2>1
    <2>3. threads[t].pc = "register" /\ ~Accept(t) /\ ~Start(t) /\ ~ReadWeight(t) /\ ~End(t)
      BY <1>5 DEF Start, Accept, ReadWeight, HandlerRegister, End
    <2> QED BY <1>0, <1>1, <1>5, <2>1, <2>2, <2>3 DEF Thread
  <1>6. CASE End(t)
    <2>1. threads' = [threads EXCEPT ![t] = [threads[t] EXCEPT !.pc = "ended"]]
      BY <1>0, <1>6 DEF End
    <2>2. threads'[t] = [threads[t] EXCEPT !.pc = "ended"]
      BY <1>1, <2>1
    <2>3. threads[t].pc = "serve" /\ ~Accept(t) /\ ~Start(t) /\ ~ReadWeight(t) /\ ~HandlerRegister(t)
      BY <1>6 DEF Start, Accept, ReadWeight, HandlerRegister, End
    <2> QED BY <1>0, <1>1, <1>6, <2>1, <2>2, <2>3 DEF Thread
  <1> QED BY <1>2, <1>3, <1>4, <1>5, <1>6 DEF RunStep

(* The steps, and what of the state they touch.                            *)
LEMMA StepCases ==
    ASSUME [Next]_vars
    PROVE  \/ \E c \in Clients : Connect(c) \/ Register(c) \/ RecvReply(c) \/ Die(c)
           \/ MainLoop
           \/ \E t \in DOMAIN threads : Start(t) \/ Accept(t) \/ ReadWeight(t) \/ HandlerRegister(t) \/ End(t)
           \/ UNCHANGED vars
  BY DEF Next, ClientStep, RunStep

(* Who has connected where.                                                *)
LEMMA ConnectFacts ==
    ASSUME TypeOK, NEW c \in Clients, Connect(c)
    PROVE  /\ client[c] \in Ports /\ c \notin Connected(client[c])
           /\ \A p \in Ports : Connected(p)' = IF p = client[c] THEN Connected(p) \cup {c} ELSE Connected(p)
           /\ \A p \in Ports : backlog'[p] = IF p = client[c] THEN Append(backlog[p], c) ELSE backlog[p]
           /\ client'[c] = AfterConnect[client[c]] /\ client'[c] \in {"nonBlocking", "finish", "register"}
           /\ \A d \in Clients : d # c => client'[d] = client[d]
  <1>1. /\ client \in [Clients -> Ports \cup {"register", "reply", "ready", "dead"}]
        /\ backlog \in [Ports -> Seq(Clients)]
    BY DEF TypeOK
  <1>2. /\ client[c] \in Ports /\ client' = [client EXCEPT ![c] = AfterConnect[client[c]]]
        /\ backlog' = [backlog EXCEPT ![client[c]] = Append(@, c)]
    BY DEF Connect
  <1>3. client'[c] = AfterConnect[client[c]] /\ \A d \in Clients : d # c => client'[d] = client[d]
    BY <1>1, <1>2
  <1>4. /\ client[c] = "main" => client'[c] = "nonBlocking"
        /\ client[c] = "nonBlocking" => client'[c] = "finish"
        /\ client[c] = "finish" => client'[c] = "register"
    BY <1>3 DEF AfterConnect
  <1>5. c \notin Connected(client[c])
    BY <1>2 DEF Connected, Ports
  <1>6. Connected("main")' = IF "main" = client[c] THEN Connected("main") \cup {c} ELSE Connected("main")
    BY <1>2, <1>3, <1>4 DEF Connected, Ports
  <1>7. Connected("nonBlocking")' = IF "nonBlocking" = client[c] THEN Connected("nonBlocking") \cup {c}
                                    ELSE Connected("nonBlocking")
    BY <1>2, <1>3, <1>4 DEF Connected, Ports
  <1>8. Connected("finish")' = IF "finish" = client[c] THEN Connected("finish") \cup {c} ELSE Connected("finish")
    BY <1>2, <1>3, <1>4 DEF Connected, Ports
  <1>9. \A p \in Ports : backlog'[p] = IF p = client[c] THEN Append(backlog[p], c) ELSE backlog[p]
    BY <1>1, <1>2
  <1> HIDE DEF Connected
  <1> QED BY <1>2, <1>3, <1>4, <1>5, <1>6, <1>7, <1>8, <1>9 DEF Ports

(* No other step takes a connection away or makes one.                     *)
LEMMA ConnectedSteps ==
    ASSUME TypeOK, [Next]_vars, \A c \in Clients : ~Connect(c)
    PROVE  /\ \A p \in Ports : Connected(p) \subseteq Connected(p)'
           /\ Connected("main")' = Connected("main")
  <1>0. client \in [Clients -> Ports \cup {"register", "reply", "ready", "dead"}]
    BY DEF TypeOK
  <1>1. CASE client' = client
    BY <1>1 DEF Connected
  <1>2. ASSUME NEW c \in Clients, client[c] # "main",
               \/ client[c] \notin Ports /\ client' = [client EXCEPT ![c] = "reply"]
               \/ client[c] \notin Ports /\ client' = [client EXCEPT ![c] = "ready"]
               \/ client' = [client EXCEPT ![c] = "dead"]
        PROVE  /\ \A p \in Ports : Connected(p) \subseteq Connected(p)'
               /\ Connected("main")' = Connected("main")
    <2>1. /\ client'[c] \notin Ports /\ \A d \in Clients : d # c => client'[d] = client[d]
      BY <1>0, <1>2 DEF Ports
    <2> QED BY <1>2, <2>1 DEF Connected, Ports
  <1>3. ASSUME NEW c \in Clients, Register(c) \/ RecvReply(c) \/ Die(c)
        PROVE  /\ \A p \in Ports : Connected(p) \subseteq Connected(p)'
               /\ Connected("main")' = Connected("main")
    <2>1. CASE Register(c)
      BY <1>2, <2>1 DEF Register, AfterRegister, Ports
    <2>2. CASE RecvReply(c)
      BY <1>2, <2>2 DEF RecvReply, Ports
    <2>3. CASE Die(c)
      BY <1>2, <2>3 DEF Die, Connecting
    <2> QED BY <1>3, <2>1, <2>2, <2>3
  <1>4. MainLoop \/ (\E t \in DOMAIN threads : Start(t) \/ Accept(t) \/ ReadWeight(t) \/ HandlerRegister(t) \/ End(t))
          \/ UNCHANGED vars => client' = client
    BY DEF MainLoop, Start, Accept, ReadWeight, HandlerRegister, End, vars
  <1> QED BY <1>1, <1>3, <1>4, StepCases

(* The threads are the main connections accepted so far.                   *)
LEMMA CountStep ==
    ASSUME TypeOK, ThreadsCounted, [Next]_vars
    PROVE  ThreadsCounted'
  <1>0. Len(threads) \in Nat /\ backlog["main"] \in Seq(Clients) /\ backlog \in [Ports -> Seq(Clients)]
    BY Typed DEF Ports, TypeOK
  <1>1. ASSUME NEW c \in Clients, Connect(c)
        PROVE  ThreadsCounted'
    <2>1. threads' = threads
      BY <1>1 DEF Connect
    <2>2. CASE client[c] = "main"
      <3>1. /\ Connected("main")' = Connected("main") \cup {c} /\ c \notin Connected("main")
            /\ backlog'["main"] = Append(backlog["main"], c)
        BY <1>1, <2>2, ConnectFacts DEF Ports
      <3>2. IsFiniteSet(Connected("main"))
        BY FiniteAssumption, FS_Subset DEF Connected
      <3>3. Cardinality(Connected("main") \cup {c}) = Cardinality(Connected("main")) + 1
        BY <3>1, <3>2, FS_AddElement
      <3>4. PICK s : s = backlog["main"]
        OBVIOUS
      <3>5. s \in Seq(Clients) /\ backlog'["main"] = Append(s, c)
        BY <1>0, <3>1, <3>4
      <3>6. Len(backlog'["main"]) = Len(s) + 1 /\ Len(s) \in Nat
        BY <3>5
      <3>7. PICK k : k = Cardinality(Connected("main"))
        OBVIOUS
      <3>8. Cardinality(Connected("main")') = k + 1 /\ Len(threads) + Len(s) = k
        BY <3>1, <3>3, <3>4, <3>7 DEF ThreadsCounted
      <3>9. Len(threads') + Len(backlog'["main"]) = Cardinality(Connected("main")')
        BY <1>0, <2>1, <3>6, <3>8
      <3> QED BY <3>9 DEF ThreadsCounted
    <2>3. CASE client[c] # "main"
      <3>1. Connected("main")' = Connected("main") /\ backlog'["main"] = backlog["main"]
        BY <1>1, <2>3, ConnectFacts DEF Ports
      <3> QED BY <2>1, <3>1 DEF ThreadsCounted
    <2> QED BY <2>2, <2>3
  <1>2. ASSUME MainLoop
        PROVE  ThreadsCounted'
    <2>1. backlog["main"] # <<>> /\ backlog' = [backlog EXCEPT !["main"] = Tail(@)] /\ Len(threads') = Len(threads) + 1
      BY <1>2, MainLoopFacts DEF MainLoop
    <2>2. backlog'["main"] = Tail(backlog["main"])
      BY <1>0, <2>1 DEF Ports
    <2>3. PICK s : s = backlog["main"]
      OBVIOUS
    <2>4. s \in Seq(Clients) /\ s # <<>> /\ backlog'["main"] = Tail(s)
      BY <1>0, <2>1, <2>2, <2>3
    <2>5. Len(backlog'["main"]) = Len(s) - 1 /\ Len(s) \in Nat
      BY <2>4
    <2>6. Connected("main")' = Connected("main")
      BY <1>2 DEF MainLoop, Connected
    <2>7. Len(threads') + Len(backlog'["main"]) = Len(threads) + Len(s)
      <3>1. Len(threads') = Len(threads) + 1 /\ Len(threads) \in Nat
        BY <1>0, <2>1
      <3> QED BY <2>5, <3>1
    <2> QED BY <2>3, <2>6, <2>7 DEF ThreadsCounted
  <1>3. ASSUME NEW t \in DOMAIN threads, RunStep(t)
        PROVE  ThreadsCounted'
    <2>1. Len(threads') = Len(threads) /\ client' = client
      BY <1>3, RunFacts DEF RunStep, Start, Accept, ReadWeight, HandlerRegister, End
    <2>2. backlog'["main"] = backlog["main"]
      <3>1. CASE Accept(t)
        BY <1>0, <3>1 DEF Accept, Ports
      <3> QED BY <1>3, <3>1 DEF RunStep, Start, ReadWeight, HandlerRegister, End
    <2> QED BY <2>1, <2>2 DEF ThreadsCounted, Connected
  <1>4. ASSUME threads' = threads, backlog' = backlog, \A c \in Clients : ~Connect(c)
        PROVE  ThreadsCounted'
    BY <1>4, ConnectedSteps DEF ThreadsCounted
  <1>5. \A c \in Clients : Register(c) \/ RecvReply(c) \/ Die(c) => UNCHANGED <<threads, backlog>>
    BY DEF Register, RecvReply, Die
  <1>6. UNCHANGED vars => UNCHANGED <<threads, backlog>>
    BY DEF vars
  <1> QED BY <1>1, <1>2, <1>3, <1>4, <1>5, <1>6, StepCases DEF RunStep

(* Telling one more client counts one more, and there is room for it.      *)
LEMMA ToldFacts ==
    ASSUME TypeOK
    PROVE  /\ Told \subseteq Clients /\ IsFiniteSet(Told) /\ Cardinality(Told) \in Nat
           /\ Cardinality(Told) <= Cardinality(Clients)
           /\ \A c \in Clients \ Told : /\ Cardinality(Told \cup {c}) = Cardinality(Told) + 1
                                        /\ Cardinality(Told) + 1 <= Cardinality(Clients)
  <1>1. Told \subseteq Clients
    BY DEF Told, TypeOK
  <1> HIDE DEF Told
  <1>2. IsFiniteSet(Told) /\ Cardinality(Told) \in Nat /\ Cardinality(Told) <= Cardinality(Clients)
    BY <1>1, FiniteAssumption, FS_Subset, FS_CardinalityType
  <1>3. ASSUME NEW c \in Clients \ Told
        PROVE  Cardinality(Told \cup {c}) = Cardinality(Told) + 1 /\ Cardinality(Told) + 1 <= Cardinality(Clients)
    <2>1. Cardinality(Told \cup {c}) = Cardinality(Told) + 1
      BY <1>2, <1>3, FS_AddElement
    <2>2. Told \cup {c} \subseteq Clients
      BY <1>1
    <2>3. Cardinality(Told \cup {c}) <= Cardinality(Clients)
      BY <2>2, FiniteAssumption, FS_Subset
    <2> QED BY <2>1, <2>3
  <1> QED BY <1>1, <1>2, <1>3

(* The client of a request or a registration has not been told.            *)
LEMMA NotTold ==
    ASSUME TypeOK, RegisteredOnce
    PROVE  /\ \A c \in registers : c \notin Told
           /\ \A t \in Registering : threads[t].main \notin Told
  BY DEF RegisteredOnce, Told

(* The sockets of the ports.                                               *)
LEMMA BacklogType ==
    ASSUME TypeOK, [Next]_vars
    PROVE  backlog' \in [Ports -> Seq(Clients)]
  <1>0. backlog \in [Ports -> Seq(Clients)]
    BY DEF TypeOK
  <1>1. ASSUME NEW p \in Ports, backlog[p] # <<>>, backlog' = [backlog EXCEPT ![p] = Tail(@)]
        PROVE  backlog' \in [Ports -> Seq(Clients)]
    <2>1. PICK s : s = backlog[p]
      OBVIOUS
    <2>2. s \in Seq(Clients) /\ s # <<>>
      BY <1>0, <1>1, <2>1
    <2>3. Tail(s) \in Seq(Clients)
      BY <2>2
    <2> QED BY <1>0, <1>1, <2>1, <2>3
  <1>2. ASSUME NEW p \in Ports, NEW c \in Clients, backlog' = [backlog EXCEPT ![p] = Append(@, c)]
        PROVE  backlog' \in [Ports -> Seq(Clients)]
    <2>1. PICK s : s = backlog[p]
      OBVIOUS
    <2>2. s \in Seq(Clients)
      BY <1>0, <2>1
    <2>3. Append(s, c) \in Seq(Clients)
      BY <2>2
    <2> QED BY <1>0, <1>2, <2>1, <2>3
  <1>3. \A c \in Clients : Connect(c) => backlog' \in [Ports -> Seq(Clients)]
    BY <1>2 DEF Connect
  <1>4. MainLoop => backlog' \in [Ports -> Seq(Clients)]
    BY <1>1 DEF MainLoop, Ports
  <1>5. \A t \in DOMAIN threads : Accept(t) => backlog' \in [Ports -> Seq(Clients)]
    BY <1>1 DEF Accept, Ports
  <1>6. \A c \in Clients : Register(c) \/ RecvReply(c) \/ Die(c) => backlog' = backlog
    BY DEF Register, RecvReply, Die
  <1>7. \A t \in DOMAIN threads : Start(t) \/ ReadWeight(t) \/ HandlerRegister(t) \/ End(t) => backlog' = backlog
    BY DEF Start, ReadWeight, HandlerRegister, End
  <1>8. UNCHANGED vars => backlog' = backlog
    BY DEF vars
  <1> QED BY <1>0, <1>3, <1>4, <1>5, <1>6, <1>7, <1>8, StepCases

(* The records of the threads.                                             *)
LEMMA ThreadsType ==
    ASSUME TypeOK, RegisteredOnce, [Next]_vars
    PROVE  threads' \in Seq(Thread)
  <1>0. /\ threads \in Seq(Thread) /\ DOMAIN threads = 1 .. Len(threads) /\ Len(threads) \in Nat
        /\ \A t \in DOMAIN threads : threads[t] \in Thread
    BY Typed DEF TypeOK
  <1>1. ASSUME NEW t \in DOMAIN threads, RunStep(t)
        PROVE  threads'[t] \in Thread
    <2>1. \A p \in Ports : backlog[p] # <<>> => Head(backlog[p]) \in Clients
      <3>1. ASSUME NEW p \in Ports, backlog[p] # <<>> PROVE Head(backlog[p]) \in Clients
        <4>1. PICK s : s = backlog[p]
          OBVIOUS
        <4>2. s \in Seq(Clients) /\ s # <<>>
          BY <3>1, <4>1, Typed
        <4> QED BY <4>1, <4>2
      <3> QED BY <3>1
    <2>2. threads[t].slot \in 0 .. Slots - 1 /\ tmpSock[threads[t].slot] \in Clients \cup {None}
      BY <1>0 DEF Thread, TypeOK
    <2>3. CASE Start(t)
      <3>1. threads' = [threads EXCEPT ![t] = [threads[t] EXCEPT !.pc = "nonBlocking", !.main = tmpSock[threads[t].slot]]]
        BY <1>0, <2>3 DEF Start
      <3> QED BY <1>0, <2>2, <3>1 DEF Thread
    <2>4. CASE Accept(t)
      <3>1. PICK p : p = threads[t].pc
        OBVIOUS
      <3>2. PICK r : r = [threads[t] EXCEPT !.pc = AfterAccept[p], ![p] = Head(backlog[p]), !.main = threads[t].main]
        OBVIOUS
      <3>3. threads' = [threads EXCEPT ![t] = r] /\ p \in {"nonBlocking", "finish"} /\ Head(backlog[p]) \in Clients
        BY <1>0, <2>1, <2>4, <3>1, <3>2 DEF Accept, MainCopied, Ports
      <3>4. PICK c : c = Head(backlog[p])
        OBVIOUS
      <3>5. CASE p = "nonBlocking"
        <4>1. r = [threads[t] EXCEPT !.pc = "finish", !["nonBlocking"] = c, !.main = threads[t].main]
          BY <3>2, <3>4, <3>5 DEF AfterAccept
        <4>2. r \in Thread
          BY <1>0, <3>3, <3>4, <4>1 DEF Thread
        <4> QED BY <1>0, <3>3, <4>2
      <3>6. CASE p = "finish"
        <4>1. r = [threads[t] EXCEPT !.pc = "serve", !["finish"] = c, !.main = threads[t].main]
          BY <3>2, <3>4, <3>6 DEF AfterAccept
        <4>2. r \in Thread
          BY <1>0, <3>3, <3>4, <4>1 DEF Thread
        <4> QED BY <1>0, <3>3, <4>2
      <3> QED BY <3>3, <3>5, <3>6
    <2>5. CASE ReadWeight(t)
      <3>1. threads' = [threads EXCEPT ![t] = [threads[t] EXCEPT !.pc = "register", !.sum = weight + 1]]
        BY <1>0, <2>5 DEF ReadWeight, Sum
      <3>2. weight + 1 \in 0 .. Cardinality(Clients)
        <4>1. threads[t].main \in registers /\ threads[t].main \in Clients \ Told
          BY <2>5, NotTold DEF ReadWeight, TypeOK
        <4>2. weight <= Cardinality(Told) /\ Cardinality(Told) + 1 <= Cardinality(Clients)
          BY <4>1, ToldFacts DEF RegisteredOnce
        <4> QED BY <4>2, Typed, ToldFacts
      <3>3. PICK w : w = weight + 1
        OBVIOUS
      <3> QED BY <1>0, <3>1, <3>2, <3>3 DEF Thread
    <2>6. CASE HandlerRegister(t)
      <3>1. threads' = [threads EXCEPT ![t] = [threads[t] EXCEPT !.pc = "serve"]]
        BY <1>0, <2>6 DEF HandlerRegister
      <3> QED BY <1>0, <3>1 DEF Thread
    <2>7. CASE End(t)
      <3>1. threads' = [threads EXCEPT ![t] = [threads[t] EXCEPT !.pc = "ended"]]
        BY <1>0, <2>7 DEF End
      <3> QED BY <1>0, <3>1 DEF Thread
    <2> QED BY <1>1, <2>3, <2>4, <2>5, <2>6, <2>7 DEF RunStep
  <1>2. ASSUME NEW t \in DOMAIN threads, RunStep(t)
        PROVE  threads' \in Seq(Thread)
    <2>1. \E r \in Thread : threads' = [threads EXCEPT ![t] = r]
      <3>1. \E r : threads' = [threads EXCEPT ![t] = r]
        BY <1>0, <1>2 DEF RunStep, Start, Accept, ReadWeight, HandlerRegister, End
      <3>2. PICK r : threads' = [threads EXCEPT ![t] = r]
        BY <3>1
      <3>3. threads'[t] = r
        BY <1>0, <3>2
      <3> QED BY <1>1, <1>2, <3>2, <3>3
    <2> QED BY <1>0, <2>1
  <1>3. MainLoop => threads' \in Seq(Thread)
    BY MainLoopFacts
  <1>4. \A c \in Clients : Connect(c) \/ Register(c) \/ RecvReply(c) \/ Die(c) => threads' = threads
    BY DEF Connect, Register, RecvReply, Die
  <1>5. UNCHANGED vars => threads' = threads
    BY DEF vars
  <1> QED BY <1>0, <1>2, <1>3, <1>4, <1>5, StepCases DEF RunStep

(* Every step keeps the types.                                             *)
LEMMA TypeStep ==
    ASSUME TypeOK, ThreadsCounted, SlotsInTurn, RegisteredOnce, [Next]_vars
    PROVE  TypeOK'
  <1>0. /\ client \in [Clients -> Ports \cup {"register", "reply", "ready", "dead"}]
        /\ registers \subseteq Clients /\ replies \subseteq Clients
        /\ tmpSock \in [0 .. Slots - 1 -> Clients \cup {None}] /\ counter \in 0 .. Slots - 1 /\ Slots \in Nat
        /\ weight \in 0 .. Cardinality(Clients) /\ Cardinality(Clients) \in Nat
        /\ happened \subseteq {"overlap", "death", "late start", "registers overlap"}
    BY Typed DEF TypeOK
  <1>1. threads' \in Seq(Thread) /\ backlog' \in [Ports -> Seq(Clients)]
    BY ThreadsType, BacklogType
  <1>2. Len(threads') <= Cardinality(Clients)
    <2>1. ThreadsCounted'
      BY CountStep
    <2>2. PICK k : k = Cardinality(Connected("main")')
      OBVIOUS
    <2>3. k <= Cardinality(Clients) /\ k \in Nat
      <3>1. Connected("main")' \subseteq Clients
        BY DEF Connected
      <3> QED BY <2>2, <3>1, FiniteAssumption, FS_Subset, FS_CardinalityType
    <2>4. PICK s : s = backlog'["main"]
      OBVIOUS
    <2>5. Len(threads') \in Nat /\ s \in Seq(Clients)
      BY <1>1, <2>4 DEF Ports
    <2>6. Len(threads') + Len(s) = k
      BY <2>1, <2>2, <2>4 DEF ThreadsCounted
    <2>7. PICK m, n : m = Len(threads') /\ n = Len(s)
      OBVIOUS
    <2>8. m \in Nat /\ n \in Nat /\ m + n = k
      BY <2>5, <2>6, <2>7
    <2>9. PICK b \in Nat : b = Cardinality(Clients)
      BY Typed
    <2>10. k <= b /\ k \in Nat
      BY <2>3, <2>9
    <2>11. m <= b
      BY <2>8, <2>10
    <2> QED BY <2>7, <2>9, <2>11
  <1>3. client' \in [Clients -> Ports \cup {"register", "reply", "ready", "dead"}]
    <2>1. ASSUME NEW c \in Clients, Connect(c)
          PROVE  client' \in [Clients -> Ports \cup {"register", "reply", "ready", "dead"}]
      <3>1. client'[c] \in {"nonBlocking", "finish", "register"} /\ client'[c] = AfterConnect[client[c]]
        BY <2>1, ConnectFacts
      <3>2. client' = [client EXCEPT ![c] = AfterConnect[client[c]]]
        BY <2>1 DEF Connect
      <3> QED BY <1>0, <3>1, <3>2 DEF Ports
    <2>2. \A c \in Clients : Register(c) \/ RecvReply(c) \/ Die(c) =>
            client' \in [Clients -> Ports \cup {"register", "reply", "ready", "dead"}]
      BY <1>0 DEF Register, RecvReply, Die, AfterRegister
    <2>3. client' = client \/ \E c \in Clients : Connect(c) \/ Register(c) \/ RecvReply(c) \/ Die(c)
      BY StepCases DEF MainLoop, Start, Accept, ReadWeight, HandlerRegister, End, vars
    <2> QED BY <1>0, <2>1, <2>2, <2>3
  <1>4. tmpSock' \in [0 .. Slots - 1 -> Clients \cup {None}] /\ counter' \in 0 .. Slots - 1
    <2>1. MainLoop => tmpSock' \in [0 .. Slots - 1 -> Clients \cup {None}] /\ counter' = NextSlot(counter)
      BY MainLoopFacts DEF MainLoop
    <2>2. NextSlot(counter) \in 0 .. Slots - 1
      <3>1. counter \in 0 .. Slots - 1 /\ Slots \in Nat
        BY <1>0
      <3> QED BY <3>1 DEF NextSlot
    <2>3. MainLoop \/ UNCHANGED <<tmpSock, counter>>
      BY StepCases DEF Connect, Register, RecvReply, Die, Start, Accept, ReadWeight, HandlerRegister, End, vars
    <2> QED BY <1>0, <2>1, <2>2, <2>3
  <1>5. registers' \subseteq Clients
    BY <1>0, StepCases DEF Connect, Register, RecvReply, Die, MainLoop, Start, Accept, ReadWeight, HandlerRegister, End, vars
  <1>6. ASSUME NEW t \in DOMAIN threads, HandlerRegister(t)
        PROVE  replies' \subseteq Clients /\ weight' \in 0 .. Cardinality(Clients)
    <2>1. threads[t].pc = "register" /\ weight' = threads[t].sum /\ replies' = replies \cup {threads[t].main}
      BY <1>6 DEF HandlerRegister
    <2>2. threads[t].main # None /\ threads[t] \in Thread
      BY <2>1, Typed DEF SlotsInTurn
    <2> QED BY <1>0, <2>1, <2>2 DEF Thread
  <1>7. (\E t \in DOMAIN threads : HandlerRegister(t)) \/ (weight' = weight /\ replies' \subseteq replies)
    BY StepCases DEF Connect, Register, RecvReply, Die, MainLoop, Start, Accept, ReadWeight, End, vars
  <1>8. happened' \subseteq {"overlap", "death", "late start", "registers overlap"}
    BY <1>0, StepCases DEF Connect, Register, RecvReply, Die, MainLoop, Start, Accept, ReadWeight, HandlerRegister, End, vars
  <1> QED BY <1>0, <1>1, <1>2, <1>3, <1>4, <1>5, <1>6, <1>7, <1>8 DEF TypeOK

-----------------------------------------------------------------------------
(* Sockets.                                                                *)

(* What is taken from a port, and what comes to it.                        *)
LEMMA BacklogSteps ==
    ASSUME TypeOK, [Next]_vars, NEW p \in Ports
    PROVE  \/ backlog'[p] = backlog[p]
           \/ \E c \in Clients : Connect(c) /\ client[c] = p /\ backlog'[p] = Append(backlog[p], c)
           \/ /\ backlog[p] # <<>> /\ backlog'[p] = Tail(backlog[p])
              /\ \/ MainLoop /\ p = "main"
                 \/ \E t \in DOMAIN threads : Accept(t) /\ threads[t].pc = p
  <1>0. backlog \in [Ports -> Seq(Clients)]
    BY DEF TypeOK
  <1>1. CASE \E c \in Clients : Connect(c)
    BY <1>1, ConnectFacts
  <1>2. CASE MainLoop
    <2>1. backlog["main"] # <<>> /\ backlog' = [backlog EXCEPT !["main"] = Tail(@)]
      BY <1>2 DEF MainLoop
    <2> QED BY <1>0, <1>2, <2>1
  <1>3. ASSUME NEW t \in DOMAIN threads, Accept(t)
        PROVE  \/ backlog'[p] = backlog[p]
               \/ backlog[p] # <<>> /\ backlog'[p] = Tail(backlog[p]) /\ threads[t].pc = p
    <2>1. PICK q : q = threads[t].pc
      OBVIOUS
    <2>2. backlog[q] # <<>> /\ backlog' = [backlog EXCEPT ![q] = Tail(@)] /\ q \in {"nonBlocking", "finish"}
      BY <1>3, <2>1 DEF Accept
    <2> QED BY <1>0, <2>1, <2>2 DEF Ports
  <1>4. backlog' = backlog \/ (\E c \in Clients : Connect(c)) \/ MainLoop \/ \E t \in DOMAIN threads : Accept(t)
    BY StepCases DEF Register, RecvReply, Die, Start, ReadWeight, HandlerRegister, End, vars
  <1> QED BY <1>1, <1>2, <1>3, <1>4

(* What a thread's sockets become.                                         *)
LEMMA SocketSteps ==
    ASSUME TypeOK, [Next]_vars, NEW p \in Ports, NEW u \in DOMAIN threads'
    PROVE  \/ u \in DOMAIN threads /\ threads'[u][p] = threads[u][p]
           \/ MainLoop /\ u \notin DOMAIN threads /\ threads'[u][p] = None
           \/ Start(u) /\ u \in DOMAIN threads /\ p = "main" /\ threads'[u][p] = tmpSock[threads[u].slot]
           \/ /\ Accept(u) /\ u \in DOMAIN threads /\ threads[u].pc = p /\ p # "main"
              /\ backlog[p] # <<>> /\ threads'[u][p] = Head(backlog[p])
  <1>1. CASE MainLoop
    <2>1. /\ DOMAIN threads' = 1 .. Len(threads) + 1 /\ DOMAIN threads = 1 .. Len(threads) /\ Len(threads) \in Nat
          /\ \A t \in DOMAIN threads : threads'[t] = threads[t]
          /\ threads'[Len(threads) + 1] = [slot |-> counter, pc |-> "start", main |-> None,
                                           nonBlocking |-> None, finish |-> None, sum |-> 0]
      BY <1>1, MainLoopFacts, Typed
    <2>2. CASE u \in DOMAIN threads
      BY <2>1, <2>2
    <2>3. CASE u = Len(threads) + 1
      BY <1>1, <2>1, <2>3 DEF Ports
    <2> QED BY <2>1, <2>2, <2>3
  <1>2. ASSUME NEW t \in DOMAIN threads, RunStep(t)
        PROVE  \/ u \in DOMAIN threads /\ threads'[u][p] = threads[u][p]
               \/ Start(u) /\ u \in DOMAIN threads /\ p = "main" /\ threads'[u][p] = tmpSock[threads[u].slot]
               \/ /\ Accept(u) /\ u \in DOMAIN threads /\ threads[u].pc = p /\ p # "main"
                  /\ backlog[p] # <<>> /\ threads'[u][p] = Head(backlog[p])
    <2>1. u \in DOMAIN threads /\ (u # t => threads'[u] = threads[u])
      BY <1>2, RunFacts
    <2>2. CASE u # t
      BY <2>1, <2>2
    <2>3. CASE u = t /\ Start(t)
      <3>1. threads[t].pc = "start" /\ ~Accept(t)
        BY <2>3 DEF Start, Accept
      <3> QED BY <1>2, <2>1, <2>3, <3>1, RunFacts DEF Ports
    <2>4. CASE u = t /\ Accept(t)
      <3>1. threads[t].pc \in {"nonBlocking", "finish"} /\ ~Start(t) /\ backlog[threads[t].pc] # <<>>
        BY <2>4 DEF Start, Accept
      <3> QED BY <1>2, <2>1, <2>4, <3>1, RunFacts DEF Ports
    <2>5. CASE u = t /\ ~Start(t) /\ ~Accept(t)
      BY <1>2, <2>1, <2>5, RunFacts DEF Ports
    <2> QED BY <2>1, <2>2, <2>3, <2>4, <2>5
  <1>3. threads' = threads \/ MainLoop \/ \E t \in DOMAIN threads : RunStep(t)
    BY StepCases DEF Connect, Register, RecvReply, Die, RunStep, vars
  <1> QED BY <1>1, <1>2, <1>3

(* Whoever has connected to a port stays so.                               *)
LEMMA ConnectedGrows ==
    ASSUME TypeOK, [Next]_vars, NEW p \in Ports
    PROVE  Connected(p) \subseteq Connected(p)'
  <1>1. ASSUME NEW c \in Clients, Connect(c)
        PROVE  Connected(p) \subseteq Connected(p)'
    BY <1>1, ConnectFacts
  <1> QED BY <1>1, ConnectedSteps

(* What waits at a port after a step: what waited there, or a client that  *)
(* has just connected; not the connection that was accepted.               *)
LEMMA WaitingSteps ==
    ASSUME TypeOK, [Next]_vars, NEW p \in Ports, NEW i \in DOMAIN backlog'[p]
    PROVE  \/ /\ i \in DOMAIN backlog[p] /\ backlog'[p][i] = backlog[p][i]
              /\ backlog'[p] = backlog[p] \/ (\E c \in Clients : Connect(c) /\ client[c] = p)
           \/ /\ i \in Int /\ i + 1 \in DOMAIN backlog[p] /\ backlog'[p][i] = backlog[p][i + 1] /\ i + 1 # 1
              /\ Head(backlog[p]) = backlog[p][1] /\ 1 \in DOMAIN backlog[p]
              /\ backlog'[p] = Tail(backlog[p]) /\ ~(\E c \in Clients : Connect(c) /\ client[c] = p)
           \/ i \notin DOMAIN backlog[p] /\ i = Len(backlog[p]) + 1 /\ \E c \in Clients : Connect(c) /\ client[c] = p /\ backlog'[p][i] = c
  <1>1. PICK s : s = backlog[p]
    OBVIOUS
  <1>2. s \in Seq(Clients)
    BY <1>1, Typed
  <1>3. CASE backlog'[p] = s
    BY <1>1, <1>3
  <1>4. ASSUME NEW c \in Clients, backlog'[p] = Append(s, c), Connect(c), client[c] = p
        PROVE  \/ i \in DOMAIN s /\ backlog'[p][i] = s[i]
               \/ i \notin DOMAIN s /\ i = Len(s) + 1 /\ backlog'[p][i] = c
    BY <1>2, <1>4
  <1>5. ASSUME s # <<>>, backlog'[p] = Tail(s)
        PROVE  /\ i \in Int /\ i + 1 \in DOMAIN s /\ backlog'[p][i] = s[i + 1] /\ i + 1 # 1
               /\ Head(s) = s[1] /\ 1 \in DOMAIN s
    BY <1>2, <1>5
  <1>6. ASSUME s # <<>>, backlog'[p] = Tail(s), NEW c \in Clients, Connect(c), client[c] = p
        PROVE  FALSE
    <2>1. backlog'[p] = Append(s, c)
      BY <1>1, <1>6, ConnectFacts
    <2>2. Len(Append(s, c)) = Len(s) + 1 /\ Len(Tail(s)) = Len(s) - 1 /\ Len(s) \in Nat
      BY <1>2, <1>6
    <2> QED BY <1>6, <2>1, <2>2
  <1> QED BY <1>1, <1>3, <1>4, <1>5, <1>6, BacklogSteps

(* Each connection waits once, and not after it has been accepted.         *)
LEMMA AcceptedStep ==
    ASSUME TypeOK, AcceptedOnce, SlotsInTurn, [Next]_vars
    PROVE  AcceptedOnce'
  <1> SUFFICES ASSUME NEW p \in Ports
               PROVE  /\ \A i \in DOMAIN backlog'[p] :
                           /\ backlog'[p][i] \in Connected(p)'
                           /\ \A j \in DOMAIN backlog'[p] : i # j => backlog'[p][i] # backlog'[p][j]
                      /\ \A t \in DOMAIN threads' : threads'[t][p] # None =>
                           /\ threads'[t][p] \in Connected(p)'
                           /\ \A i \in DOMAIN backlog'[p] : backlog'[p][i] # threads'[t][p]
    BY DEF AcceptedOnce
  <1>1. Connected(p) \subseteq Connected(p)'
    BY ConnectedGrows
  <1>2. \A c \in Clients : Connect(c) /\ client[c] = p => c \notin Connected(p) /\ c \in Connected(p)'
    BY ConnectFacts
  <1>3. \A i \in DOMAIN backlog[p] : backlog[p][i] \in Connected(p)
    BY DEF AcceptedOnce
  <1>4. \A i, j \in DOMAIN backlog[p] : i # j => backlog[p][i] # backlog[p][j]
    BY DEF AcceptedOnce
  <1>5. ASSUME NEW i \in DOMAIN backlog'[p]
        PROVE  backlog'[p][i] \in Connected(p)'
    BY <1>1, <1>2, <1>3, WaitingSteps
  <1>6. ASSUME NEW i \in DOMAIN backlog'[p], NEW j \in DOMAIN backlog'[p], i # j
        PROVE  backlog'[p][i] # backlog'[p][j]
    <2> DEFINE New == \E c \in Clients : Connect(c) /\ client[c] = p
    <2>1. CASE New
      <3>1. ASSUME NEW k \in DOMAIN backlog'[p]
            PROVE  \/ k \in DOMAIN backlog[p] /\ backlog'[p][k] = backlog[p][k]
                   \/ k = Len(backlog[p]) + 1 /\ backlog'[p][k] \notin Connected(p)
        BY <1>2, <2>1, WaitingSteps
      <3> QED BY <1>3, <1>4, <1>6, <3>1
    <2>2. CASE ~New
      <3>1. CASE backlog'[p] = backlog[p]
        BY <1>4, <1>6, <3>1
      <3>2. CASE backlog'[p] # backlog[p]
        <4>1. /\ i \in Int /\ i + 1 \in DOMAIN backlog[p] /\ backlog'[p][i] = backlog[p][i + 1]
              /\ j \in Int /\ j + 1 \in DOMAIN backlog[p] /\ backlog'[p][j] = backlog[p][j + 1]
          BY <2>2, <3>2, WaitingSteps
        <4>2. i + 1 # j + 1
          BY <1>6, <4>1
        <4> QED BY <1>4, <4>1, <4>2
      <3> QED BY <3>1, <3>2
    <2> QED BY <2>1, <2>2
  <1>7. ASSUME NEW t \in DOMAIN threads', threads'[t][p] # None
        PROVE  /\ threads'[t][p] \in Connected(p)'
               /\ \A i \in DOMAIN backlog'[p] : backlog'[p][i] # threads'[t][p]
    <2>1. CASE t \in DOMAIN threads /\ threads'[t][p] = threads[t][p]
      <3>1. threads[t][p] \in Connected(p) /\ \A i \in DOMAIN backlog[p] : backlog[p][i] # threads[t][p]
        BY <1>7, <2>1 DEF AcceptedOnce
      <3>2. ASSUME NEW i \in DOMAIN backlog'[p]
            PROVE  (\E j \in DOMAIN backlog[p] : backlog'[p][i] = backlog[p][j]) \/ backlog'[p][i] \notin Connected(p)
        BY <1>2, WaitingSteps
      <3> QED BY <1>1, <2>1, <3>1, <3>2
    <2>2. CASE Start(t) /\ t \in DOMAIN threads /\ p = "main" /\ threads'[t][p] = tmpSock[threads[t].slot]
      <3>1. threads[t].slot \in DOMAIN tmpSock
        <4>1. threads[t] \in Thread /\ DOMAIN tmpSock = 0 .. Slots - 1
          BY <2>2, Typed DEF TypeOK
        <4> QED BY <4>1 DEF Thread
      <3>2. backlog' = backlog
        BY <2>2 DEF Start
      <3>3. PICK s : s = threads[t].slot
        OBVIOUS
      <3>4. s \in DOMAIN tmpSock /\ tmpSock[s] # None
        BY <1>7, <2>2, <3>1, <3>3
      <3>5. tmpSock[s] \in Connected("main") /\ \A i \in DOMAIN backlog["main"] : backlog["main"][i] # tmpSock[s]
        BY <3>4 DEF SlotsInTurn
      <3> QED BY <1>1, <2>2, <3>2, <3>3, <3>5
    <2>3. CASE /\ Accept(t) /\ t \in DOMAIN threads /\ threads[t].pc = p /\ p # "main"
               /\ backlog[p] # <<>> /\ threads'[t][p] = Head(backlog[p])
      <3>1. PICK s : s = backlog[p]
        OBVIOUS
      <3>2. s \in Seq(Clients) /\ s # <<>>
        BY <2>3, <3>1, Typed
      <3>3. backlog'[p] = Tail(s)
        <4>1. backlog \in [Ports -> Seq(Clients)]
          BY DEF TypeOK
        <4> QED BY <2>3, <3>1, <4>1 DEF Accept
      <3>4. 1 \in DOMAIN s /\ Head(s) = s[1] /\ \A i \in DOMAIN Tail(s) : i + 1 \in DOMAIN s /\ i + 1 # 1 /\ Tail(s)[i] = s[i + 1]
        BY <3>2
      <3> QED BY <1>1, <1>3, <1>4, <2>3, <3>1, <3>3, <3>4
    <2> QED BY <1>7, <2>1, <2>2, <2>3, SocketSteps
  <1> QED BY <1>5, <1>6, <1>7

(* History is never forgotten.                                             *)
LEMMA HappenedGrows ==
    ASSUME [Next]_vars
    PROVE  happened \subseteq happened'
  BY StepCases DEF Connect, Register, RecvReply, Die, MainLoop, Start, Accept, ReadWeight, HandlerRegister, End, vars

(* The last Slots threads have slots of their own.                         *)
LEMMA OwnSlots ==
    ASSUME TypeOK, SlotsInTurn, NEW t \in DOMAIN threads, NEW u \in DOMAIN threads,
           Len(threads) - t < Slots, Len(threads) - u < Slots, threads[t].slot = threads[u].slot
    PROVE  t = u
  <1>1. PICK n \in Nat : n = Len(threads)
    BY Typed
  <1>2. t \in 1 .. n /\ u \in 1 .. n /\ Slots \in Nat /\ counter \in 0 .. Slots - 1
    BY <1>1, Typed DEF TypeOK
  <1>3. SlotBefore(n - t + 1) = SlotBefore(n - u + 1)
    BY <1>1 DEF SlotsInTurn
  <1>4. PICK j, k \in Nat : j = n - t + 1 /\ k = n - u + 1
    BY <1>1, <1>2
  <1>5. j \in 1 .. Slots /\ k \in 1 .. Slots
    BY <1>1, <1>2, <1>4
  <1>6. /\ SlotBefore(j) = IF j <= counter THEN counter - j ELSE counter + Slots - j
        /\ SlotBefore(k) = IF k <= counter THEN counter - k ELSE counter + Slots - k
    BY DEF SlotBefore
  <1>7. j = k
    <2>1. PICK c \in Nat : c = counter
      BY <1>2
    <2>2. (IF j <= c THEN c - j ELSE c + Slots - j) = IF k <= c THEN c - k ELSE c + Slots - k
      BY <1>3, <1>4, <1>6, <2>1
    <2>3. CASE j <= c /\ k <= c
      BY <2>2, <2>3
    <2>4. CASE j <= c /\ ~(k <= c)
      BY <1>2, <1>5, <2>2, <2>4
    <2>5. CASE ~(j <= c) /\ k <= c
      BY <1>2, <1>5, <2>2, <2>5
    <2>6. CASE ~(j <= c) /\ ~(k <= c)
      BY <1>2, <2>2, <2>6
    <2> QED BY <2>3, <2>4, <2>5, <2>6
  <1> QED BY <1>1, <1>2, <1>4, <1>7

(* A new connection gets the next slot, over the oldest one.               *)
LEMMA SlotsMain ==
    ASSUME TypeOK, AcceptedOnce, SlotsInTurn, [Next]_vars, MainLoop
    PROVE  SlotsInTurn'
  <1>0. PICK n, h : n = Len(threads) /\ h = Head(backlog["main"])
    OBVIOUS
  <1>1. /\ n \in Nat /\ DOMAIN threads = 1 .. n /\ DOMAIN threads' = 1 .. n + 1 /\ Len(threads') = n + 1
        /\ \A t \in DOMAIN threads : threads'[t] = threads[t]
        /\ threads'[n + 1] = [slot |-> counter, pc |-> "start", main |-> None,
                              nonBlocking |-> None, finish |-> None, sum |-> 0]
    BY <1>0, MainLoopFacts, Typed
  <1>2. /\ tmpSock \in [0 .. Slots - 1 -> Clients \cup {None}] /\ counter \in 0 .. Slots - 1 /\ Slots \in Nat
        /\ tmpSock' = [tmpSock EXCEPT ![counter] = h] /\ counter' = NextSlot(counter) /\ happened' = happened
    BY <1>0, Typed DEF TypeOK, MainLoop
  <1>3. tmpSock'[counter] = h /\ \A s \in 0 .. Slots - 1 : s # counter => tmpSock'[s] = tmpSock[s]
    BY <1>2
  <1>4. h \in Connected("main") /\ h # None /\ \A t \in DOMAIN threads : threads[t].main # h
    <2>1. PICK b : b = backlog["main"]
      OBVIOUS
    <2>2. b \in Seq(Clients) /\ b # <<>>
      BY <2>1, Typed, MainLoopFacts DEF Ports
    <2>3. h = b[1] /\ 1 \in DOMAIN b
      BY <1>0, <2>1, <2>2
    <2>4. h \in Connected("main")
      BY <2>1, <2>3 DEF AcceptedOnce, Ports
    <2>5. h # None
      BY <2>4, NoneAssumption DEF Connected
    <2>6. \A t \in DOMAIN threads : threads[t]["main"] # None => threads[t]["main"] # h
      BY <2>1, <2>3 DEF AcceptedOnce, Ports
    <2> QED BY <2>4, <2>5, <2>6
  <1>5. \A s \in 0 .. Slots - 1 : tmpSock[s] # None => tmpSock[s] # h
    <2>1. PICK b : b = backlog["main"]
      OBVIOUS
    <2>2. b \in Seq(Clients) /\ b # <<>>
      BY <2>1, Typed, MainLoopFacts DEF Ports
    <2>3. h = b[1] /\ 1 \in DOMAIN b
      BY <1>0, <2>1, <2>2
    <2> QED BY <1>2, <2>1, <2>3 DEF SlotsInTurn
  <1>6. \A i \in DOMAIN backlog'["main"] : \E j \in DOMAIN backlog["main"] :
            backlog'["main"][i] = backlog["main"][j] /\ backlog["main"][j] # h
    <2>1. PICK b : b = backlog["main"]
      OBVIOUS
    <2>2. b \in Seq(Clients) /\ b # <<>> /\ backlog'["main"] = Tail(b)
      BY <2>1, Typed, MainLoopFacts DEF Ports, MainLoop, TypeOK
    <2>3. h = b[1] /\ 1 \in DOMAIN b /\ \A i \in DOMAIN Tail(b) : i + 1 \in DOMAIN b /\ i + 1 # 1 /\ Tail(b)[i] = b[i + 1]
      BY <1>0, <2>1, <2>2
    <2>4. \A i, j \in DOMAIN b : i # j => b[i] # b[j]
      BY <2>1 DEF AcceptedOnce, Ports
    <2> QED BY <2>1, <2>2, <2>3, <2>4
  <1>7. Connected("main") \subseteq Connected("main")'
    BY ConnectedGrows DEF Ports
  <1>8. ASSUME NEW t \in DOMAIN threads'
        PROVE  /\ tmpSock'[threads'[t].slot] # None
               /\ threads'[t].pc # "start" => threads'[t].main # None
               /\ Len(threads') - t < Slots => threads'[t].slot = SlotBefore(Len(threads) - t + 1)'
    <2>1. CASE t = n + 1
      <3>1. threads'[t].slot = counter /\ threads'[t].pc = "start"
        BY <1>1, <2>1
      <3>2. SlotBefore(Len(threads) - t + 1)' = counter
        BY <1>1, <1>2, <2>1 DEF SlotBefore, NextSlot
      <3> QED BY <1>3, <1>4, <3>1, <3>2
    <2>2. CASE t # n + 1
      <3>1. t \in DOMAIN threads /\ t \in 1 .. n /\ threads'[t] = threads[t] /\ threads[t].slot \in 0 .. Slots - 1
        BY <1>1, <2>2, Typed DEF Thread
      <3>2. tmpSock'[threads[t].slot] # None /\ (threads[t].pc # "start" => threads[t].main # None)
        BY <1>3, <1>4, <3>1 DEF SlotsInTurn
      <3>3. ASSUME Len(threads') - t < Slots
            PROVE  threads'[t].slot = SlotBefore(Len(threads) - t + 1)'
        <4>1. n - t + 1 < Slots
          BY <1>1, <3>1, <3>3
        <4>2. n - t < Slots
          BY <1>1, <1>2, <3>1, <4>1
        <4>3. threads[t].slot = SlotBefore(n - t + 1)
          BY <1>0, <3>1, <4>2 DEF SlotsInTurn
        <4>4. PICK k : k = n - t + 1
          OBVIOUS
        <4>5. k \in 1 .. Slots - 1 /\ Len(threads') - t + 1 = k + 1 /\ k + 1 \in Nat
          BY <1>1, <1>2, <3>1, <4>1, <4>4
        <4>6. threads[t].slot = IF k <= counter THEN counter - k ELSE counter + Slots - k
          BY <4>3, <4>4 DEF SlotBefore
        <4>7. SlotBefore(Len(threads) - t + 1)' = IF k + 1 <= counter' THEN counter' - (k + 1) ELSE counter' + Slots - (k + 1)
          BY <4>5 DEF SlotBefore
        <4>8. counter' = IF counter = Slots - 1 THEN 0 ELSE counter + 1
          BY <1>2 DEF NextSlot
        <4>9. counter \in 0 .. Slots - 1 /\ Slots \in Nat
          BY <1>2
        <4>10. threads[t].slot = SlotBefore(Len(threads) - t + 1)'
          BY <4>5, <4>6, <4>7, <4>8, <4>9
        <4> QED BY <3>1, <4>10
      <3> QED BY <3>1, <3>2, <3>3
    <2> QED BY <2>1, <2>2
  <1>9. ASSUME NEW s \in 0 .. Slots - 1, tmpSock'[s] # None
        PROVE  /\ tmpSock'[s] \in Connected("main")'
               /\ \A i \in DOMAIN backlog'["main"] : backlog'["main"][i] # tmpSock'[s]
               /\ \A r \in 0 .. Slots - 1 : r # s => tmpSock'[r] # tmpSock'[s]
               /\ "late start" \notin happened' =>
                    \A t \in DOMAIN threads' : threads'[t].main = tmpSock'[s] =>
                        s = threads'[t].slot /\ Len(threads') - t < Slots
    <2>1. CASE s = counter
      <3>1. \A t \in DOMAIN threads' : threads'[t].main # h
        BY <1>1, <1>4
      <3>2. tmpSock'[s] = h
        BY <1>3, <2>1
      <3>3. h \in Connected("main")'
        BY <1>4, <1>7
      <3>4. \A i \in DOMAIN backlog'["main"] : backlog'["main"][i] # h
        BY <1>6
      <3>5. \A r \in 0 .. Slots - 1 : r # s => tmpSock'[r] # h
        BY <1>3, <1>4, <1>5, <2>1
      <3> QED BY <3>1, <3>2, <3>3, <3>4, <3>5
    <2>2. CASE s # counter
      <3>1. tmpSock'[s] = tmpSock[s] /\ tmpSock[s] # None /\ s \in DOMAIN tmpSock
        BY <1>2, <1>3, <1>9, <2>2
      <3>2. /\ tmpSock[s] \in Connected("main") /\ \A i \in DOMAIN backlog["main"] : backlog["main"][i] # tmpSock[s]
            /\ \A r \in 0 .. Slots - 1 : r # s => tmpSock[r] # tmpSock[s]
        BY <1>2, <3>1 DEF SlotsInTurn
      <3>3. ASSUME "late start" \notin happened, NEW t \in DOMAIN threads', threads'[t].main = tmpSock[s]
            PROVE  s = threads'[t].slot /\ Len(threads') - t < Slots
        <4>1. t \in DOMAIN threads /\ t \in 1 .. n /\ threads'[t] = threads[t]
          <5>1. t # n + 1
            <6>1. threads'[n + 1].main = None
              BY <1>1
            <6>2. threads'[t].main # None
              BY <3>1, <3>3
            <6> QED BY <6>1, <6>2
          <5>2. t \in 1 .. n + 1 /\ n \in Nat
            BY <1>1, <3>3
          <5>3. t \in 1 .. n
            BY <5>1, <5>2
          <5> QED BY <1>1, <5>3
        <4>2. s = threads[t].slot /\ n - t < Slots
          BY <1>0, <3>1, <3>3, <4>1 DEF SlotsInTurn
        <4>3. n - t # Slots - 1
          <5>1. threads[t].slot = SlotBefore(n - t + 1)
            BY <1>0, <4>1, <4>2 DEF SlotsInTurn
          <5> QED BY <1>2, <2>2, <4>1, <4>2, <5>1 DEF SlotBefore
        <4>4. n + 1 - t < Slots
          <5>1. n \in Nat /\ t \in Nat /\ Slots \in Nat
            BY <1>1, <1>2, <4>1
          <5> QED BY <4>2, <4>3, <5>1
        <4> QED BY <1>1, <4>1, <4>2, <4>4
      <3>4. tmpSock'[s] \in Connected("main")'
        BY <1>7, <3>1, <3>2
      <3>5. \A i \in DOMAIN backlog'["main"] : backlog'["main"][i] # tmpSock'[s]
        BY <1>6, <3>1, <3>2
      <3>6. \A r \in 0 .. Slots - 1 : r # s => tmpSock'[r] # tmpSock'[s]
        <4>1. h # tmpSock[s]
          BY <1>5, <3>1
        <4> QED BY <1>3, <3>1, <3>2, <4>1
      <3>7. happened' = happened
        BY <1>2
      <3> QED BY <3>1, <3>3, <3>4, <3>5, <3>6, <3>7
    <2> QED BY <2>1, <2>2
  <1>10. DOMAIN tmpSock' = 0 .. Slots - 1
    BY <1>2
  <1> QED BY <1>8, <1>9, <1>10 DEF SlotsInTurn

(* Every step keeps the slots in turn.                                     *)
LEMMA SlotsStep ==
    ASSUME TypeOK, AcceptedOnce, SlotsInTurn, [Next]_vars
    PROVE  SlotsInTurn'
  <1>0. happened \subseteq happened' /\ Connected("main") \subseteq Connected("main")' /\ Len(threads) \in Nat
    BY HappenedGrows, ConnectedGrows, Typed DEF Ports
  <1>1. ASSUME UNCHANGED <<tmpSock, counter>>, DOMAIN threads' = DOMAIN threads, Len(threads') = Len(threads),
               \A t \in DOMAIN threads : /\ threads'[t].slot = threads[t].slot
                                         /\ threads'[t].pc # "start" => threads'[t].main # None,
               \A i \in DOMAIN backlog'["main"] :
                    (\E j \in DOMAIN backlog["main"] : backlog'["main"][i] = backlog["main"][j])
                        \/ backlog'["main"][i] \notin Connected("main"),
               "late start" \notin happened' => \A t \in DOMAIN threads, s \in DOMAIN tmpSock :
                    tmpSock[s] # None /\ threads'[t].main = tmpSock[s] => s = threads[t].slot /\ Len(threads) - t < Slots
        PROVE  SlotsInTurn'
    <2>1. \A k : SlotBefore(k)' = SlotBefore(k)
      BY <1>1 DEF SlotBefore
    <2>2. ASSUME NEW t \in DOMAIN threads'
          PROVE  /\ tmpSock'[threads'[t].slot] # None
                 /\ threads'[t].pc # "start" => threads'[t].main # None
                 /\ Len(threads') - t < Slots => threads'[t].slot = SlotBefore(Len(threads) - t + 1)'
      <3>1. SlotBefore(Len(threads) - t + 1)' = SlotBefore(Len(threads) - t + 1)
        BY <1>1 DEF SlotBefore
      <3> QED BY <1>1, <2>2, <3>1 DEF SlotsInTurn
    <2>3. ASSUME NEW s \in DOMAIN tmpSock', tmpSock'[s] # None
          PROVE  /\ tmpSock'[s] \in Connected("main")'
                 /\ \A i \in DOMAIN backlog'["main"] : backlog'["main"][i] # tmpSock'[s]
                 /\ \A r \in DOMAIN tmpSock' : r # s => tmpSock'[r] # tmpSock'[s]
                 /\ "late start" \notin happened' =>
                      \A t \in DOMAIN threads' : threads'[t].main = tmpSock'[s] =>
                          s = threads'[t].slot /\ Len(threads') - t < Slots
      <3>1. /\ tmpSock[s] \in Connected("main") /\ \A i \in DOMAIN backlog["main"] : backlog["main"][i] # tmpSock[s]
            /\ \A r \in DOMAIN tmpSock : r # s => tmpSock[r] # tmpSock[s]
        BY <1>1, <2>3 DEF SlotsInTurn
      <3> QED BY <1>0, <1>1, <2>3, <3>1
    <2> QED BY <2>2, <2>3 DEF SlotsInTurn
  <1>2. ASSUME ~MainLoop
        PROVE  \A i \in DOMAIN backlog'["main"] :
                    (\E j \in DOMAIN backlog["main"] : backlog'["main"][i] = backlog["main"][j])
                        \/ backlog'["main"][i] \notin Connected("main")
    BY ConnectFacts, WaitingSteps DEF Ports
  <1>3. ASSUME NEW t \in DOMAIN threads, Start(t)
        PROVE  SlotsInTurn'
    <2>1. RunStep(t) /\ UNCHANGED <<tmpSock, counter>> /\ ~MainLoop
      BY <1>3, MainLoopFacts, RunFacts DEF RunStep, Start
    <2>2. /\ threads[t].slot \in DOMAIN tmpSock /\ tmpSock[threads[t].slot] # None
          /\ threads'[t].main = tmpSock[threads[t].slot]
      <3>1. threads[t].slot \in 0 .. Slots - 1 /\ DOMAIN tmpSock = 0 .. Slots - 1
        BY Typed DEF Thread, TypeOK
      <3>2. threads'[t].main = tmpSock[threads[t].slot]
        BY <1>3, <2>1, RunFacts
      <3> QED BY <3>1, <3>2 DEF SlotsInTurn
    <2>3. "late start" \notin happened' => "late start" \notin happened /\ Len(threads) - t < Slots
      <3>1. happened' = happened \cup (IF Len(threads) - t >= Slots THEN {"late start"} ELSE {})
        BY <1>3 DEF Start
      <3>2. PICK n \in Nat : n = Len(threads)
        BY <1>0
      <3>3. t \in Nat /\ Slots \in Nat
        BY <3>2, Typed
      <3>4. n - t >= Slots \/ n - t < Slots
        BY <3>3
      <3> QED BY <3>1, <3>2, <3>4
    <2>4. ASSUME "late start" \notin happened', NEW u \in DOMAIN threads, NEW s \in DOMAIN tmpSock,
                 tmpSock[s] # None, threads'[u].main = tmpSock[s]
          PROVE  s = threads[u].slot /\ Len(threads) - u < Slots
      <3>1. CASE u = t
        <4>1. PICK r : r = threads[t].slot
          OBVIOUS
        <4>2. threads'[u].main = tmpSock[r] /\ tmpSock[s] = tmpSock[r] /\ r \in DOMAIN tmpSock
          BY <2>2, <2>4, <3>1, <4>1
        <4>3. r = s
          BY <2>4, <4>2 DEF SlotsInTurn
        <4> QED BY <2>3, <2>4, <3>1, <4>1, <4>3
      <3>2. CASE u # t
        <4>1. threads'[u] = threads[u]
          BY <2>1, <3>2, RunFacts
        <4> QED BY <2>3, <2>4, <4>1 DEF SlotsInTurn
      <3> QED BY <3>1, <3>2
    <2>5. \A u \in DOMAIN threads : /\ threads'[u].slot = threads[u].slot
                                    /\ threads'[u].pc # "start" => threads'[u].main # None
      <3>1. ASSUME NEW u \in DOMAIN threads, u # t
            PROVE  threads'[u] = threads[u]
        BY <2>1, <3>1, RunFacts
      <3>2. threads'[t].slot = threads[t].slot
        BY <2>1, RunFacts
      <3> QED BY <2>2, <3>1, <3>2 DEF SlotsInTurn
    <2> QED BY <1>1, <1>2, <2>1, <2>4, <2>5, RunFacts
  <1>4. ASSUME ~MainLoop, \A t \in DOMAIN threads : ~Start(t)
        PROVE  SlotsInTurn'
    <2>1. UNCHANGED <<tmpSock, counter>>
      BY <1>4, StepCases DEF Connect, Register, RecvReply, Die, Accept, ReadWeight, HandlerRegister, End, vars
    <2>2. /\ DOMAIN threads' = DOMAIN threads /\ Len(threads') = Len(threads)
          /\ \A t \in DOMAIN threads : /\ threads'[t].slot = threads[t].slot /\ threads'[t].main = threads[t].main
                                       /\ threads'[t].pc # "start" => threads[t].pc # "start"
      <3>1. ASSUME NEW u \in DOMAIN threads, RunStep(u)
            PROVE  /\ DOMAIN threads' = DOMAIN threads /\ Len(threads') = Len(threads)
                   /\ \A t \in DOMAIN threads : /\ threads'[t].slot = threads[t].slot /\ threads'[t].main = threads[t].main
                                                /\ threads'[t].pc # "start" => threads[t].pc # "start"
        <4>1. threads[u].pc # "start"
          BY <1>4, <3>1 DEF RunStep, Accept, ReadWeight, HandlerRegister, End
        <4> QED BY <1>4, <3>1, <4>1, RunFacts
      <3>2. threads' = threads \/ \E u \in DOMAIN threads : RunStep(u)
        BY <1>4, StepCases DEF Connect, Register, RecvReply, Die, RunStep, vars
      <3> QED BY <3>1, <3>2
    <2>3. "late start" \notin happened' => \A t \in DOMAIN threads, s \in DOMAIN tmpSock :
                    tmpSock[s] # None /\ threads'[t].main = tmpSock[s] => s = threads[t].slot /\ Len(threads) - t < Slots
      BY <1>0, <2>2 DEF SlotsInTurn
    <2>4. \A t \in DOMAIN threads : threads'[t].pc # "start" => threads'[t].main # None
      BY <2>2 DEF SlotsInTurn
    <2> QED BY <1>1, <1>2, <1>4, <2>1, <2>2, <2>3, <2>4
  <1> QED BY <1>3, <1>4, SlotsMain

(* A step works on one thread.                                             *)
LEMMA OneThread ==
    ASSUME TypeOK, NEW t \in DOMAIN threads, NEW u \in DOMAIN threads,
           Start(t) \/ Accept(t), Start(u) \/ Accept(u)
    PROVE  t = u
  <1> SUFFICES ASSUME t # u PROVE FALSE
    OBVIOUS
  <1>1. threads'[u] = threads[u]
    BY RunFacts DEF RunStep
  <1>2. threads'[u].pc # threads[u].pc
    <2>1. Start(u) => threads[u].pc = "start"
      BY DEF Start
    <2> QED BY <2>1, RunFacts DEF RunStep
  <1> QED BY <1>1, <1>2

(* No socket gets a second reader.                                         *)
LEMMA OneReaderStep ==
    ASSUME TypeOK, OneThreadPerSocket, AcceptedOnce, SlotsInTurn, [Next]_vars
    PROVE  OneThreadPerSocket'
  <1>1. ASSUME NEW p \in Ports, NEW t \in DOMAIN threads, NEW u \in DOMAIN threads, t # u,
               Start(u) \/ Accept(u), threads'[t][p] = threads[t][p], threads'[u][p] # threads[u][p],
               p = "main" => "late start" \notin happened', threads[t][p] # None
        PROVE  threads'[t][p] # threads'[u][p]
    <2>1. CASE Start(u)
      <3>1. p = "main" /\ threads'[u][p] = tmpSock[threads[u].slot]
        <4>1. ~Accept(u) /\ RunStep(u)
          BY <2>1 DEF Start, Accept, RunStep
        <4> QED BY <1>1, <2>1, <4>1, RunFacts DEF Ports
      <3>2. Len(threads) - u < Slots
        <4>1. happened' = happened \cup (IF Len(threads) - u >= Slots THEN {"late start"} ELSE {})
          BY <2>1 DEF Start
        <4>2. PICK n \in Nat : n = Len(threads)
          BY Typed
        <4>3. u \in Nat /\ Slots \in Nat
          BY <4>2, Typed
        <4>4. n - u >= Slots \/ n - u < Slots
          BY <4>3
        <4> QED BY <1>1, <3>1, <4>1, <4>2, <4>4
      <3>3. threads[u].slot \in DOMAIN tmpSock
        BY Typed DEF Thread, TypeOK
      <3>4. "late start" \notin happened
        BY <1>1, <3>1, HappenedGrows
      <3> SUFFICES ASSUME threads[t].main = tmpSock[threads[u].slot] PROVE FALSE
        BY <1>1, <3>1
      <3>5. threads[u].slot = threads[t].slot /\ Len(threads) - t < Slots
        BY <1>1, <3>1, <3>3, <3>4 DEF SlotsInTurn
      <3> QED BY <1>1, <3>2, <3>5, OwnSlots
    <2>2. CASE Accept(u)
      <3>1. u \in DOMAIN threads'
        BY <2>2, RunFacts DEF RunStep
      <3>2. backlog[p] # <<>> /\ threads'[u][p] = Head(backlog[p])
        <4>1. ~MainLoop /\ ~Start(u)
          <5>1. Len(threads') = Len(threads) /\ Len(threads) \in Nat
            BY <2>2, RunFacts, Typed DEF RunStep
          <5>2. ~MainLoop
            BY <5>1, MainLoopFacts
          <5> QED BY <2>2, <5>2 DEF Accept, Start
        <4> QED BY <1>1, <3>1, <4>1, SocketSteps
      <3>3. PICK b : b = backlog[p]
        OBVIOUS
      <3>4. b \in Seq(Clients) /\ b # <<>>
        BY <3>2, <3>3, Typed
      <3>5. Head(b) = b[1] /\ 1 \in DOMAIN b
        BY <3>4
      <3> QED BY <1>1, <3>2, <3>3, <3>5 DEF AcceptedOnce
    <2> QED BY <1>1, <2>1, <2>2
  <1> SUFFICES ASSUME NEW t \in DOMAIN threads', NEW u \in DOMAIN threads', NEW p \in Ports, t # u,
                      threads'[t][p] # None, p = "main" => "late start" \notin happened'
               PROVE  threads'[t][p] # threads'[u][p]
    BY DEF OneThreadPerSocket
  <1>2. CASE threads'[u][p] = None
    BY <1>2
  <1>3. CASE threads'[u][p] # None
    <2>1. t \in DOMAIN threads /\ (threads'[t][p] = threads[t][p] \/ Start(t) \/ Accept(t))
      BY SocketSteps
    <2>2. u \in DOMAIN threads /\ (threads'[u][p] = threads[u][p] \/ Start(u) \/ Accept(u))
      BY <1>3, SocketSteps
    <2>3. CASE threads'[t][p] = threads[t][p] /\ threads'[u][p] = threads[u][p]
      <3>1. p = "main" => "late start" \notin happened
        BY HappenedGrows
      <3> QED BY <2>1, <2>2, <2>3, <3>1 DEF OneThreadPerSocket
    <2>4. CASE threads'[t][p] = threads[t][p] /\ threads'[u][p] # threads[u][p]
      BY <1>1, <2>1, <2>2, <2>4
    <2>5. CASE threads'[t][p] # threads[t][p] /\ threads'[u][p] = threads[u][p]
      BY <1>1, <1>3, <2>1, <2>2, <2>5
    <2>6. CASE threads'[t][p] # threads[t][p] /\ threads'[u][p] # threads[u][p]
      BY <2>1, <2>2, <2>6, OneThread
    <2> QED BY <2>3, <2>4, <2>5, <2>6
  <1> QED BY <1>2, <1>3

-----------------------------------------------------------------------------
(* Registrations.                                                          *)

(* The steps of a client leave the registrations as they are.              *)
LEMMA RegisterClient ==
    ASSUME TypeOK, SlotsInTurn, RegisteredOnce,
           NEW c \in Clients, Connect(c) \/ Register(c) \/ RecvReply(c) \/ Die(c)
    PROVE  RegisteredOnce'
  <1>0. client \in [Clients -> Ports \cup {"register", "reply", "ready", "dead"}] /\ registers \subseteq Clients /\ replies \subseteq Clients
    BY DEF TypeOK
  <1>1. UNCHANGED <<threads, weight>> /\ happened \subseteq happened'
    BY DEF Connect, Register, RecvReply, Die
  <1>2. Registering' = Registering
    BY <1>1 DEF Registering
  <1>3. \A t \in Registering : threads[t].main \in Clients /\ client[threads[t].main] \in {"reply", "dead"}
    BY Typed DEF Registering, SlotsInTurn, Thread, RegisteredOnce
  <1>4. \A d \in Clients : d # c => client'[d] = client[d]
    BY <1>0 DEF Connect, Register, RecvReply, Die
  <1>5. /\ Connect(c) => client[c] \in Ports /\ client'[c] \in {"nonBlocking", "finish", "register"} /\ UNCHANGED <<registers, replies>>
        /\ Register(c) => /\ client[c] = "register" /\ client'[c] = "reply" /\ registers' = registers \cup {c} /\ replies' = replies
        /\ RecvReply(c) => /\ client[c] = "reply" /\ client'[c] = "ready" /\ c \in replies /\ replies' = replies \ {c}
                           /\ registers' = registers
        /\ Die(c) => client[c] # "ready" /\ client'[c] = "dead" /\ UNCHANGED <<registers, replies>>
    <2>1. Connect(c) => client[c] \in Ports /\ client'[c] \in {"nonBlocking", "finish", "register"} /\ UNCHANGED <<registers, replies>>
      BY ConnectFacts DEF Connect
    <2>2. Register(c) \/ RecvReply(c) \/ Die(c) =>
            /\ Register(c) => /\ client[c] = "register" /\ client'[c] = "reply" /\ registers' = registers \cup {c} /\ replies' = replies
            /\ RecvReply(c) => /\ client[c] = "reply" /\ client'[c] = "ready" /\ c \in replies /\ replies' = replies \ {c}
                               /\ registers' = registers
            /\ Die(c) => client[c] # "ready" /\ client'[c] = "dead" /\ UNCHANGED <<registers, replies>>
      BY <1>0 DEF Register, AfterRegister, RecvReply, Die, Connecting
    <2> QED BY <2>1, <2>2
  <1>6. client[c] # "ready"
    BY <1>5 DEF Ports
  <1>7. Told' = Told
    <2>1. CASE RecvReply(c)
      BY <1>0, <1>4, <1>5, <2>1 DEF Told
    <2>2. CASE ~RecvReply(c)
      <3>1. client'[c] # "ready" /\ replies' = replies
        BY <1>5, <2>2
      <3> QED BY <1>4, <1>6, <3>1 DEF Told
    <2> QED BY <2>1, <2>2
  <1>8. registers' \cap replies' = {} /\ \A d \in registers' \cup replies' : client'[d] \in {"reply", "dead"}
    <2>1. registers \cap replies = {} /\ \A d \in registers \cup replies : client[d] \in {"reply", "dead"}
      BY DEF RegisteredOnce
    <2> QED BY <1>0, <1>4, <1>5, <2>1 DEF Ports
  <1>9. \A t \in Registering : threads[t].main \notin registers' \cup replies' /\ client'[threads[t].main] \in {"reply", "dead"}
    <2>1. \A t \in Registering : threads[t].main \notin registers \cup replies
      BY DEF RegisteredOnce
    <2> QED BY <1>3, <1>4, <1>5, <2>1 DEF Ports
  <1>10. /\ \A t \in Registering : /\ threads[t].sum <= Cardinality(Told) + 1
                                   /\ \A u \in Registering : t # u => threads[t].main # threads[u].main
         /\ weight <= Cardinality(Told)
         /\ "registers overlap" \notin happened' =>
              /\ \A t \in Registering : threads[t].sum = weight + 1 /\ \A u \in Registering : t = u
              /\ "registers overlap" \notin happened' => weight = Cardinality(Told)
    BY <1>1 DEF RegisteredOnce, WeightIsSum
  <1> HIDE DEF Registering, Told
  <1>11. \A t \in Registering' :
            threads'[t].main \notin registers' \cup replies' /\ client'[threads'[t].main] \in {"reply", "dead"}
    BY <1>1, <1>2, <1>9
  <1>12. \A t \in Registering' :
            /\ threads'[t].sum <= Cardinality(Told') + 1
            /\ \A u \in Registering' : t # u => threads'[t].main # threads'[u].main
    BY <1>1, <1>2, <1>7, <1>10
  <1>13. weight' <= Cardinality(Told')
    BY <1>1, <1>7, <1>10
  <1>14. "registers overlap" \notin happened' =>
            /\ \A t \in Registering' : threads'[t].sum = weight' + 1 /\ \A u \in Registering' : t = u
            /\ WeightIsSum'
    BY <1>1, <1>2, <1>7, <1>10 DEF WeightIsSum
  <1> QED BY <1>8, <1>11, <1>12, <1>13, <1>14 DEF RegisteredOnce

(* Nor do threads that are coming up, or ending.                           *)
LEMMA RegisterThread ==
    ASSUME TypeOK, RegisteredOnce, happened \subseteq happened', UNCHANGED <<client, registers, replies, weight>>,
           \A t \in DOMAIN threads' : threads'[t].pc = "register" =>
                t \in DOMAIN threads /\ threads[t].pc = "register" /\ threads'[t] = threads[t]
    PROVE  RegisteredOnce'
  <1>1. Registering' \subseteq Registering /\ \A t \in Registering' : threads'[t] = threads[t]
    BY DEF Registering
  <1>2. Told' = Told /\ Cardinality(Told') = Cardinality(Told)
    BY DEF Told
  <1> HIDE DEF Registering, Told
  <1>3. registers' \cap replies' = {} /\ \A c \in registers' \cup replies' : client'[c] \in {"reply", "dead"}
    BY DEF RegisteredOnce
  <1>4. ASSUME NEW t \in Registering'
        PROVE  /\ threads'[t].main \notin registers' \cup replies' /\ client'[threads'[t].main] \in {"reply", "dead"}
               /\ threads'[t].sum <= Cardinality(Told') + 1
               /\ \A u \in Registering' : t # u => threads'[t].main # threads'[u].main
    <2>1. t \in Registering /\ threads'[t] = threads[t]
      BY <1>1
    <2>2. /\ threads[t].main \notin registers \cup replies /\ client[threads[t].main] \in {"reply", "dead"}
          /\ threads[t].sum <= Cardinality(Told) + 1
          /\ \A u \in Registering : t # u => threads[t].main # threads[u].main
      BY <2>1 DEF RegisteredOnce
    <2>3. \A u \in Registering' : t # u => threads'[t].main # threads'[u].main
      BY <1>1, <2>1, <2>2
    <2> QED BY <1>2, <2>1, <2>2, <2>3
  <1>5. weight' <= Cardinality(Told')
    BY <1>2 DEF RegisteredOnce
  <1>6. ASSUME "registers overlap" \notin happened'
        PROVE  /\ \A t \in Registering' : threads'[t].sum = weight' + 1 /\ \A u \in Registering' : t = u
               /\ weight' = Cardinality(Told')
    <2>1. "registers overlap" \notin happened
      BY <1>6
    <2>2. /\ \A t \in Registering : threads[t].sum = weight + 1 /\ \A u \in Registering : t = u
          /\ weight = Cardinality(Told)
      BY <2>1 DEF RegisteredOnce, WeightIsSum
    <2> QED BY <1>1, <1>2, <2>2
  <1> QED BY <1>3, <1>4, <1>5, <1>6 DEF RegisteredOnce, WeightIsSum

(* A thread takes a kReg.                                                  *)
LEMMA RegisterRead ==
    ASSUME TypeOK, RegisteredOnce, NEW t \in DOMAIN threads, ReadWeight(t)
    PROVE  RegisteredOnce'
  <1>1. PICK c : c = threads[t].main
    OBVIOUS
  <1>2. /\ threads[t].pc = "serve" /\ c \in registers /\ registers' = registers \ {c}
        /\ UNCHANGED <<client, replies, weight>> /\ happened \subseteq happened'
        /\ "registers overlap" \notin happened' => Registering = {}
    BY <1>1 DEF ReadWeight, Registering
  <1>3. /\ DOMAIN threads' = DOMAIN threads /\ threads'[t].main = c /\ threads'[t].sum = weight + 1 /\ threads'[t].pc = "register"
        /\ \A u \in DOMAIN threads : u # t => threads'[u] = threads[u]
    <2>1. RunStep(t) /\ ~Start(t)
      BY <1>2 DEF RunStep, Start
    <2> QED BY <1>1, <2>1, RunFacts
  <1>4. Registering' = Registering \cup {t} /\ t \notin Registering /\ \A u \in Registering : threads'[u] = threads[u]
    BY <1>2, <1>3 DEF Registering
  <1>5. Told' = Told /\ Cardinality(Told) \in Nat /\ weight \in Nat
    BY <1>2, ToldFacts, Typed DEF Told
  <1> HIDE DEF Registering, Told
  <1>6. registers' \cap replies' = {} /\ \A d \in registers' \cup replies' : client'[d] \in {"reply", "dead"}
    BY <1>2 DEF RegisteredOnce
  <1>7. c \notin registers' \cup replies' /\ client'[c] \in {"reply", "dead"} /\ threads'[t].sum <= Cardinality(Told) + 1
    <2>1. weight <= Cardinality(Told)
      BY DEF RegisteredOnce
    <2>2. threads'[t].sum <= Cardinality(Told) + 1
      BY <1>3, <1>5, <2>1
    <2> QED BY <1>2, <2>2 DEF RegisteredOnce
  <1>8. ASSUME NEW u \in Registering
        PROVE  /\ threads'[u].main \notin registers' \cup replies' /\ client'[threads'[u].main] \in {"reply", "dead"}
               /\ threads'[u].sum <= Cardinality(Told) + 1 /\ threads'[u].main # c
               /\ \A v \in Registering : u # v => threads'[u].main # threads'[v].main
    <2>1. threads'[u] = threads[u] /\ \A v \in Registering : threads'[v] = threads[v]
      BY <1>4
    <2>2. /\ threads[u].main \notin registers \cup replies /\ client[threads[u].main] \in {"reply", "dead"}
          /\ threads[u].sum <= Cardinality(Told) + 1
          /\ \A v \in Registering : u # v => threads[u].main # threads[v].main
      BY <1>8 DEF RegisteredOnce
    <2>3. \A v \in Registering : u # v => threads'[u].main # threads'[v].main
      BY <2>1, <2>2
    <2> QED BY <1>2, <2>1, <2>2, <2>3
  <1>9. weight <= Cardinality(Told)
    BY DEF RegisteredOnce
  <1>10. ASSUME NEW u \in Registering'
         PROVE  /\ threads'[u].main \notin registers' \cup replies' /\ client'[threads'[u].main] \in {"reply", "dead"}
                /\ threads'[u].sum <= Cardinality(Told') + 1
                /\ \A v \in Registering' : u # v => threads'[u].main # threads'[v].main
    <2>1. CASE u = t
      BY <1>3, <1>4, <1>5, <1>7, <1>8, <2>1
    <2>2. CASE u \in Registering
      BY <1>3, <1>4, <1>5, <1>8, <2>2
    <2> QED BY <1>4, <2>1, <2>2
  <1>11. weight' <= Cardinality(Told')
    BY <1>2, <1>5, <1>9
  <1>12. ASSUME "registers overlap" \notin happened'
         PROVE  /\ \A u \in Registering' : threads'[u].sum = weight' + 1 /\ \A v \in Registering' : u = v
                /\ weight' = Cardinality(Told')
    <2>1. "registers overlap" \notin happened /\ Registering' = {t}
      BY <1>2, <1>4, <1>12
    <2>2. weight = Cardinality(Told)
      BY <2>1 DEF RegisteredOnce, WeightIsSum
    <2> QED BY <1>2, <1>3, <1>5, <2>1, <2>2
  <1> QED BY <1>6, <1>10, <1>11, <1>12 DEF RegisteredOnce, WeightIsSum

(* It stores the sum and answers.                                          *)
LEMMA RegisterAnswer ==
    ASSUME TypeOK, SlotsInTurn, RegisteredOnce, NEW t \in DOMAIN threads, HandlerRegister(t)
    PROVE  RegisteredOnce'
  <1>1. PICK c : c = threads[t].main
    OBVIOUS
  <1>2. /\ threads[t].pc = "register" /\ weight' = threads[t].sum /\ replies' = replies \cup {c}
        /\ UNCHANGED <<client, registers, happened>>
    BY <1>1 DEF HandlerRegister
  <1>3. /\ DOMAIN threads' = DOMAIN threads /\ threads'[t].pc = "serve"
        /\ \A u \in DOMAIN threads : u # t => threads'[u] = threads[u]
    BY RunFacts DEF RunStep
  <1>4. t \in Registering /\ Registering' = Registering \ {t} /\ \A u \in Registering' : threads'[u] = threads[u]
    BY <1>2, <1>3 DEF Registering
  <1>5. c \in Clients \ Told
    <2>1. c \in Clients
      BY <1>1, <1>2, Typed DEF SlotsInTurn, Thread
    <2> QED BY <1>1, <1>4, <2>1, NotTold
  <1>6. Told' = Told \cup {c}
    BY <1>2 DEF Told
  <1>7. Cardinality(Told') = Cardinality(Told) + 1 /\ Cardinality(Told) \in Nat
    BY <1>5, <1>6, ToldFacts
  <1> HIDE DEF Registering, Told
  <1>8. registers' \cap replies' = {} /\ \A d \in registers' \cup replies' : client'[d] \in {"reply", "dead"}
    BY <1>1, <1>2, <1>4 DEF RegisteredOnce
  <1>9. ASSUME NEW u \in Registering'
        PROVE  /\ threads'[u].main \notin registers' \cup replies' /\ client'[threads'[u].main] \in {"reply", "dead"}
               /\ threads'[u].sum <= Cardinality(Told) + 1
               /\ \A v \in Registering' : u # v => threads'[u].main # threads'[v].main
    <2>1. u \in Registering /\ u # t /\ threads'[u] = threads[u]
      BY <1>4, <1>9
    <2>2. /\ threads[u].main \notin registers \cup replies /\ client[threads[u].main] \in {"reply", "dead"}
          /\ threads[u].sum <= Cardinality(Told) + 1
          /\ \A v \in Registering : u # v => threads[u].main # threads[v].main
      BY <2>1 DEF RegisteredOnce
    <2>3. threads'[u].main \notin registers' \cup replies' /\ client'[threads'[u].main] \in {"reply", "dead"}
      BY <1>1, <1>2, <1>4, <2>1, <2>2
    <2>4. \A v \in Registering' : u # v => threads'[u].main # threads'[v].main
      BY <1>4, <2>1, <2>2
    <2> QED BY <2>1, <2>2, <2>3, <2>4
  <1>11. threads[t].sum <= Cardinality(Told) + 1
    BY <1>4 DEF RegisteredOnce
  <1>12. "registers overlap" \notin happened => threads[t].sum = weight + 1 /\ weight = Cardinality(Told) /\ Registering' = {}
    BY <1>4 DEF RegisteredOnce, WeightIsSum
  <1>13. \A u \in Registering' : threads'[u].sum \in Nat
    <2>1. \A u \in Registering' : u \in DOMAIN threads
      BY <1>4 DEF Registering
    <2> QED BY <1>4, <2>1, Typed, FiniteAssumption DEF Thread
  <1>14. \A u \in Registering' : threads'[u].sum <= Cardinality(Told') + 1
    <2>1. PICK k \in Nat : k = Cardinality(Told)
      BY <1>7
    <2>2. Cardinality(Told') = k + 1
      BY <1>7, <2>1
    <2> QED BY <1>9, <1>13, <2>1, <2>2
  <1> QED BY <1>2, <1>7, <1>8, <1>9, <1>11, <1>12, <1>14 DEF RegisteredOnce, WeightIsSum

(* Every step counts each registration once.                               *)
LEMMA RegisterStep ==
    ASSUME TypeOK, SlotsInTurn, RegisteredOnce, [Next]_vars
    PROVE  RegisteredOnce'
  <1>1. CASE MainLoop
    <2>1. /\ DOMAIN threads' = 1 .. Len(threads) + 1 /\ DOMAIN threads = 1 .. Len(threads) /\ Len(threads) \in Nat
          /\ \A t \in DOMAIN threads : threads'[t] = threads[t]
          /\ threads'[Len(threads) + 1].pc = "start"
      BY <1>1, MainLoopFacts, Typed
    <2>2. UNCHANGED <<client, registers, replies, weight>> /\ happened \subseteq happened'
      BY <1>1 DEF MainLoop
    <2>3. \A t \in DOMAIN threads' : t \in DOMAIN threads \/ t = Len(threads) + 1
      BY <2>1
    <2> QED BY <2>1, <2>2, <2>3, RegisterThread
  <1>2. ASSUME NEW t \in DOMAIN threads, Start(t) \/ Accept(t) \/ End(t)
        PROVE  RegisteredOnce'
    <2>1. UNCHANGED <<client, registers, replies, weight>> /\ happened \subseteq happened'
      BY <1>2 DEF Start, Accept, End
    <2>2. DOMAIN threads' = DOMAIN threads /\ \A u \in DOMAIN threads : u # t => threads'[u] = threads[u]
      BY <1>2, RunFacts DEF RunStep
    <2>3. threads'[t].pc # "register"
      BY <1>2, RunFacts DEF RunStep
    <2> QED BY <2>1, <2>2, <2>3, RegisterThread
  <1>3. CASE UNCHANGED vars
    <2>1. UNCHANGED <<client, registers, replies, weight, threads>> /\ happened \subseteq happened'
      BY <1>3 DEF vars
    <2> QED BY <2>1, RegisterThread
  <1> QED BY <1>1, <1>2, <1>3, StepCases, RegisterClient, RegisterRead, RegisterAnswer

-----------------------------------------------------------------------------
(* Clients that come one by one.                                           *)

(* The wiring of one thread, as OneByOne states it.                        *)
LEMMA OneByOneThread ==
    ASSUME OneByOne, NEW t \in DOMAIN threads
    PROVE  /\ threads[t].pc \in Early => t = Len(threads)
           /\ threads[t].pc = "start" => tmpSock[threads[t].slot] \in Connecting
           /\ threads[t].pc \in {"nonBlocking", "finish"} => threads[t].main \in Connecting
           /\ threads[t].pc \notin {"start", "nonBlocking"} => threads[t].nonBlocking = threads[t].main
           /\ threads[t].pc \notin Early => threads[t].finish = threads[t].main
  BY DEF OneByOne

(* Nobody else is connecting when a client begins.                         *)
LEMMA OneConnect ==
    ASSUME TypeOK, OneByOne, NEW c \in Clients, Connect(c), happened' = {}
    PROVE  OneByOne'
  <1>1. /\ UNCHANGED <<threads, tmpSock, replies>> /\ client[c] \in Ports
        /\ client'[c] \in {"nonBlocking", "finish", "register"}
        /\ \A d \in Clients : d # c => client'[d] = client[d]
        /\ client[c] = "main" => Connecting = {}
    BY ConnectFacts DEF Connect
  <1>2. Connecting \subseteq Connecting' /\ c \in Connecting' /\ \A d \in Connecting' : d = c \/ d \in Connecting
    BY <1>1 DEF Connecting, Ports
  <1>3. client[c] # "main" => c \in Connecting
    BY <1>1 DEF Connecting, Ports
  <1>4. \A d \in Clients : client'[d] # "dead"
    BY <1>1 DEF OneByOne
  <1> HIDE DEF Connecting
  <1>5. \A a, b \in Connecting : a = b
    BY DEF OneByOne
  <1>6. \A a, b \in Connecting' : a = b
    <2>1. \A d \in Connecting' : d = c
      BY <1>1, <1>2, <1>3, <1>5
    <2> QED BY <2>1
  <1>7. ASSUME NEW p \in Ports, NEW i \in DOMAIN backlog'[p]
        PROVE  backlog'[p][i] \in Connecting'
    <2>1. \A j \in DOMAIN backlog[p] : backlog[p][j] \in Connecting
      BY DEF OneByOne
    <2>2. [Next]_vars
      BY DEF Next, ClientStep
    <2>3. \A d \in Clients : Connect(d) => d = c
      <3>1. ASSUME NEW d \in Clients, Connect(d), d # c PROVE FALSE
        <4>1. client'[d] = client[d] /\ d \notin Connected(client[d]) /\ client[d] \in Ports /\ client'[d] = AfterConnect[client[d]]
          BY <1>1, <3>1, ConnectFacts
        <4> QED BY <4>1 DEF AfterConnect, Ports
      <3> QED BY <3>1
    <2>4. backlog'[p][i] \in Connecting \/ backlog'[p][i] = c
      BY <2>1, <2>2, <2>3, WaitingSteps
    <2> QED BY <1>2, <2>4
  <1>8. \A t \in DOMAIN threads' :
          /\ threads'[t].pc \in Early => t = Len(threads')
          /\ threads'[t].pc = "start" => tmpSock'[threads'[t].slot] \in Connecting'
          /\ threads'[t].pc \in {"nonBlocking", "finish"} => threads'[t].main \in Connecting'
          /\ threads'[t].pc \notin {"start", "nonBlocking"} => threads'[t].nonBlocking = threads'[t].main
          /\ threads'[t].pc \notin Early => threads'[t].finish = threads'[t].main
    BY <1>1, <1>2, OneByOneThread
  <1>9. \A d \in replies' : \E t \in DOMAIN threads' : threads'[t].pc \notin Early /\ threads'[t].main = d
    BY <1>1 DEF OneByOne
  <1> QED BY <1>4, <1>6, <1>7, <1>8, <1>9 DEF OneByOne

(* The client whose answer arrives has all its connections in one session. *)
LEMMA OneReply ==
    ASSUME TypeOK, OneThreadPerSocket, AcceptedOnce, SlotsInTurn, OneByOne, happened = {},
           NEW c \in Clients, RecvReply(c)
    PROVE  OneByOne'
  <1>1. /\ UNCHANGED <<threads, tmpSock, backlog>> /\ c \in replies /\ replies' = replies \ {c}
        /\ client[c] = "reply" /\ client' = [client EXCEPT ![c] = "ready"]
    BY DEF RecvReply
  <1>2. client'[c] = "ready" /\ \A d \in Clients : d # c => client'[d] = client[d]
    BY <1>1 DEF TypeOK
  <1>3. c \in Connecting /\ Connecting' = Connecting \ {c}
    BY <1>1, <1>2 DEF Connecting
  <1>4. \A d \in Clients : client'[d] # "dead"
    BY <1>2 DEF OneByOne
  <1> HIDE DEF Connecting
  <1>5. Connecting = {c} /\ Connecting' = {}
    BY <1>3 DEF OneByOne
  <1>6. PICK t \in DOMAIN threads : threads[t].pc \notin Early /\ threads[t].main = c
    BY <1>1 DEF OneByOne
  <1>7. threads[t].nonBlocking = c /\ threads[t].finish = c /\ c # None
    BY <1>6, OneByOneThread, Typed DEF Early
  <1>8. \A p \in Ports : \A i \in DOMAIN backlog[p] : FALSE
    <2>1. ASSUME NEW p \in Ports, NEW i \in DOMAIN backlog[p] PROVE FALSE
      <3>1. backlog[p][i] = c
        BY <1>5 DEF OneByOne
      <3>2. threads[t][p] = c
        BY <1>6, <1>7 DEF Ports
      <3> QED BY <1>7, <3>1, <3>2 DEF AcceptedOnce
    <2> QED BY <2>1
  <1>9. ASSUME NEW u \in DOMAIN threads, threads[u].pc \in Early PROVE FALSE
    <2>1. u = Len(threads) /\ u # t
      BY <1>6, <1>9, OneByOneThread
    <2>2. CASE threads[u].pc = "start"
      <3>1. tmpSock[threads[u].slot] = c
        BY <1>5, <2>2, OneByOneThread
      <3>2. threads[u].slot \in DOMAIN tmpSock
        BY Typed DEF Thread, TypeOK
      <3>3. threads[u].slot = threads[t].slot /\ Len(threads) - t < Slots
        BY <1>6, <1>7, <3>1, <3>2 DEF SlotsInTurn
      <3>4. Len(threads) - u < Slots
        <4>1. PICK n \in Nat : n = Len(threads)
          BY Typed
        <4>2. u = n /\ Slots \in Nat /\ Slots > 0
          BY <2>1, <4>1, Typed
        <4>3. n - u < Slots
          BY <4>2
        <4> QED BY <4>1, <4>3
      <3> QED BY <2>1, <3>3, <3>4, OwnSlots
    <2>3. CASE threads[u].pc \in {"nonBlocking", "finish"}
      <3>1. threads[u].main = c
        BY <1>5, <2>3, OneByOneThread
      <3>2. threads[t]["main"] # threads[u]["main"]
        BY <1>6, <1>7, <2>1 DEF OneThreadPerSocket, Ports
      <3> QED BY <1>6, <3>1, <3>2
    <2> QED BY <1>9, <2>2, <2>3 DEF Early
  <1>10. \A u \in DOMAIN threads : threads[u].nonBlocking = threads[u].main /\ threads[u].finish = threads[u].main
    BY <1>9, OneByOneThread DEF Early
  <1>11. \A d \in replies' : \E u \in DOMAIN threads' : threads'[u].pc \notin Early /\ threads'[u].main = d
    BY <1>1 DEF OneByOne
  <1> QED BY <1>1, <1>4, <1>5, <1>8, <1>9, <1>10, <1>11 DEF OneByOne, Early

(* The connection that MainLoop accepts is the connecting client's, which  *)
(* no thread has yet.                                                      *)
LEMMA OneMainLoop ==
    ASSUME TypeOK, AcceptedOnce, SlotsInTurn, OneByOne, MainLoop
    PROVE  OneByOne'
  <1>1. PICK h : h = Head(backlog["main"])
    OBVIOUS
  <1>2. PICK b : b = backlog["main"]
    OBVIOUS
  <1>3. b \in Seq(Clients) /\ b # <<>> /\ h = b[1] /\ 1 \in DOMAIN b
    <2>1. b \in Seq(Clients) /\ b # <<>> /\ h = Head(b)
      BY <1>1, <1>2, Typed DEF MainLoop, Ports
    <2> QED BY <2>1
  <1>4. h \in Connecting
    BY <1>2, <1>3 DEF OneByOne, Ports
  <1>5. UNCHANGED <<client, replies>> /\ Connecting' = Connecting
    BY DEF MainLoop, Connecting
  <1> HIDE DEF Connecting
  <1>6. \A a \in Connecting : a = h
    BY <1>4 DEF OneByOne
  <1>7. ASSUME NEW u \in DOMAIN threads, threads[u].pc \in Early PROVE FALSE
    <2>1. CASE threads[u].pc = "start"
      <3>1. tmpSock[threads[u].slot] = h
        BY <1>6, <2>1, OneByOneThread
      <3>2. threads[u].slot \in DOMAIN tmpSock /\ tmpSock[threads[u].slot] # None
        <4>1. threads[u] \in Thread /\ DOMAIN tmpSock = 0 .. Slots - 1
          BY Typed DEF TypeOK
        <4>2. threads[u].slot \in DOMAIN tmpSock
          BY <4>1 DEF Thread
        <4>3. tmpSock[threads[u].slot] # None
          BY DEF SlotsInTurn
        <4> QED BY <4>2, <4>3
      <3>3. \A i \in DOMAIN backlog["main"] : backlog["main"][i] # tmpSock[threads[u].slot]
        BY <3>2 DEF SlotsInTurn
      <3>4. \A i \in DOMAIN b : b[i] # h
        BY <1>2, <3>1, <3>3
      <3> QED BY <1>3, <3>4
    <2>2. CASE threads[u].pc \in {"nonBlocking", "finish"}
      <3>1. threads[u]["main"] = h /\ h \in Clients /\ h # None
        BY <1>3, <1>6, <2>2, OneByOneThread, Typed
      <3> QED BY <1>2, <1>3, <3>1 DEF AcceptedOnce, Ports
    <2> QED BY <1>7, <2>1, <2>2 DEF Early
  <1>8. /\ DOMAIN threads' = 1 .. Len(threads) + 1 /\ DOMAIN threads = 1 .. Len(threads) /\ Len(threads) \in Nat
        /\ Len(threads') = Len(threads) + 1
        /\ \A t \in DOMAIN threads : threads'[t] = threads[t]
        /\ threads'[Len(threads) + 1] = [slot |-> counter, pc |-> "start", main |-> None,
                                         nonBlocking |-> None, finish |-> None, sum |-> 0]
    BY MainLoopFacts, Typed
  <1>9. tmpSock'[counter] = h
    BY <1>1 DEF MainLoop, TypeOK
  <1>10. ASSUME NEW u \in DOMAIN threads'
         PROVE  /\ threads'[u].pc \in Early => u = Len(threads')
                /\ threads'[u].pc = "start" => tmpSock'[threads'[u].slot] \in Connecting'
                /\ threads'[u].pc \in {"nonBlocking", "finish"} => threads'[u].main \in Connecting'
                /\ threads'[u].pc \notin {"start", "nonBlocking"} => threads'[u].nonBlocking = threads'[u].main
                /\ threads'[u].pc \notin Early => threads'[u].finish = threads'[u].main
    <2>1. CASE u \in DOMAIN threads
      <3>1. threads'[u] = threads[u] /\ threads[u].pc \notin Early
        BY <1>7, <1>8, <2>1
      <3> QED BY <2>1, <3>1, OneByOneThread DEF Early
    <2>2. CASE u = Len(threads) + 1
      <3>1. threads'[u].pc = "start" /\ threads'[u].slot = counter /\ u = Len(threads')
        BY <1>8, <2>2
      <3> QED BY <1>4, <1>5, <1>9, <3>1 DEF Early
    <2> QED BY <1>8, <2>1, <2>2
  <1>11. ASSUME NEW p \in Ports, NEW i \in DOMAIN backlog'[p]
         PROVE  backlog'[p][i] \in Connecting'
    <2>1. \A j \in DOMAIN backlog[p] : backlog[p][j] \in Connecting
      BY DEF OneByOne
    <2>2. [Next]_vars
      BY DEF Next
    <2>3. \A d \in Clients : ~Connect(d)
      <3>1. \A d \in Clients : Connect(d) => UNCHANGED threads
        BY DEF Connect
      <3>2. Len(threads) + 1 # Len(threads)
        <4>1. PICK n \in Nat : n = Len(threads)
          BY Typed
        <4>2. n + 1 # n
          OBVIOUS
        <4> QED BY <4>1, <4>2
      <3> QED BY <1>8, <3>1, <3>2
    <2> QED BY <1>5, <2>1, <2>2, <2>3, WaitingSteps
  <1>12. \A d \in replies' : \E u \in DOMAIN threads' : threads'[u].pc \notin Early /\ threads'[u].main = d
    <2>1. ASSUME NEW d \in replies' PROVE \E u \in DOMAIN threads' : threads'[u].pc \notin Early /\ threads'[u].main = d
      <3>1. PICK u \in DOMAIN threads : threads[u].pc \notin Early /\ threads[u].main = d
        BY <1>5, <2>1 DEF OneByOne
      <3>2. u \in DOMAIN threads' /\ threads'[u] = threads[u]
        BY <1>8
      <3> QED BY <3>1, <3>2
    <2> QED BY <2>1
  <1> QED BY <1>5, <1>10, <1>11, <1>12 DEF OneByOne

(* A thread that comes up takes its client's sockets, one after another.   *)
LEMMA OneRun ==
    ASSUME TypeOK, AcceptedOnce, SlotsInTurn, RegisteredOnce, OneByOne, NEW t \in DOMAIN threads, RunStep(t)
    PROVE  OneByOne'
  <1>1. /\ DOMAIN threads' = DOMAIN threads /\ Len(threads') = Len(threads)
        /\ \A u \in DOMAIN threads : u # t => threads'[u] = threads[u]
        /\ UNCHANGED <<client, tmpSock>> /\ Connecting' = Connecting
    BY RunFacts DEF RunStep, Start, Accept, ReadWeight, HandlerRegister, End, Connecting
  <1> HIDE DEF Connecting
  <1>2. /\ threads'[t].pc \in Early => t = Len(threads')
        /\ threads'[t].pc # "start"
        /\ threads'[t].pc \in {"nonBlocking", "finish"} => threads'[t].main \in Connecting'
        /\ threads'[t].pc \notin {"start", "nonBlocking"} => threads'[t].nonBlocking = threads'[t].main
        /\ threads'[t].pc \notin Early => threads'[t].finish = threads'[t].main
        /\ threads[t].pc \notin Early => threads'[t].pc \notin Early /\ threads'[t].main = threads[t].main
        /\ HandlerRegister(t) => threads'[t].pc \notin Early /\ threads'[t].main = threads[t].main
    <2>1. CASE Start(t)
      <3>1. threads[t].pc = "start" /\ ~HandlerRegister(t)
        BY <2>1 DEF Start, HandlerRegister
      <3>2. threads'[t].main = tmpSock[threads[t].slot] /\ threads'[t].pc = "nonBlocking"
        BY <2>1, RunFacts
      <3>3. t = Len(threads) /\ tmpSock[threads[t].slot] \in Connecting
        BY <3>1, OneByOneThread DEF Early
      <3> QED BY <1>1, <3>1, <3>2, <3>3 DEF Early
    <2>2. CASE Accept(t)
      <3>1. PICK p : p = threads[t].pc
        OBVIOUS
      <3>2. p \in {"nonBlocking", "finish"} /\ backlog[p] # <<>> /\ ~Start(t) /\ ~HandlerRegister(t)
        BY <2>2, <3>1 DEF Accept, Start, HandlerRegister
      <3>3. Head(backlog[p]) \in Connecting
        <4>1. PICK b : b = backlog[p]
          OBVIOUS
        <4>2. b \in Seq(Clients) /\ b # <<>> /\ p \in Ports
          BY <3>2, <4>1, Typed DEF Ports
        <4>3. Head(b) = b[1] /\ 1 \in DOMAIN b
          BY <4>2
        <4> QED BY <4>1, <4>2, <4>3 DEF OneByOne
      <3>4. threads[t].main \in Connecting /\ t = Len(threads)
        BY <3>1, <3>2, OneByOneThread DEF Early
      <3>5. Head(backlog[p]) = threads[t].main
        BY <3>3, <3>4 DEF OneByOne
      <3>6. threads'[t].main = threads[t].main
        BY <3>2, RunFacts
      <3>7. CASE p = "nonBlocking"
        <4>1. threads'[t].pc = "finish" /\ threads'[t].nonBlocking = Head(backlog["nonBlocking"])
          BY <2>2, <3>1, <3>7, RunFacts
        <4> QED BY <1>1, <3>1, <3>2, <3>4, <3>5, <3>6, <3>7, <4>1 DEF Early
      <3>8. CASE p = "finish"
        <4>1. /\ threads'[t].pc = "serve" /\ threads'[t].finish = Head(backlog["finish"])
              /\ threads'[t].nonBlocking = threads[t].nonBlocking
          BY <2>2, <3>1, <3>8, RunFacts
        <4>2. threads[t].nonBlocking = threads[t].main
          BY <3>1, <3>8, OneByOneThread
        <4> QED BY <1>1, <3>1, <3>2, <3>4, <3>5, <3>6, <3>8, <4>1, <4>2 DEF Early
      <3> QED BY <3>2, <3>7, <3>8
    <2>3. CASE ReadWeight(t) \/ HandlerRegister(t) \/ End(t)
      <3>1. threads[t].pc \in {"serve", "register"} /\ ~Start(t) /\ ~Accept(t)
        BY <2>3 DEF ReadWeight, HandlerRegister, End, Start, Accept
      <3>2. /\ threads'[t].main = threads[t].main /\ threads'[t].pc \in {"register", "serve", "ended"}
            /\ threads'[t].nonBlocking = threads[t].nonBlocking /\ threads'[t].finish = threads[t].finish
        BY <2>3, <3>1, RunFacts
      <3>3. threads[t].nonBlocking = threads[t].main /\ threads[t].finish = threads[t].main
        BY <3>1, OneByOneThread DEF Early
      <3> QED BY <3>1, <3>2, <3>3 DEF Early
    <2> QED BY <2>1, <2>2, <2>3 DEF RunStep
  <1>3. ASSUME NEW u \in DOMAIN threads'
        PROVE  /\ threads'[u].pc \in Early => u = Len(threads')
               /\ threads'[u].pc = "start" => tmpSock'[threads'[u].slot] \in Connecting'
               /\ threads'[u].pc \in {"nonBlocking", "finish"} => threads'[u].main \in Connecting'
               /\ threads'[u].pc \notin {"start", "nonBlocking"} => threads'[u].nonBlocking = threads'[u].main
               /\ threads'[u].pc \notin Early => threads'[u].finish = threads'[u].main
    <2>1. CASE u = t
      BY <1>2, <2>1
    <2>2. CASE u # t
      <3>1. u \in DOMAIN threads /\ threads'[u] = threads[u]
        BY <1>1, <2>2
      <3> QED BY <1>1, <3>1, OneByOneThread
    <2> QED BY <2>1, <2>2
  <1>4. ASSUME NEW p \in Ports, NEW i \in DOMAIN backlog'[p]
        PROVE  backlog'[p][i] \in Connecting'
    <2>1. \A j \in DOMAIN backlog[p] : backlog[p][j] \in Connecting
      BY DEF OneByOne
    <2>2. [Next]_vars
      BY DEF Next
    <2>3. \A d \in Clients : ~Connect(d)
      <3>1. \A d \in Clients : Connect(d) => client'[d] # client[d]
        BY ConnectFacts DEF AfterConnect, Ports
      <3> QED BY <1>1, <3>1
    <2> QED BY <1>1, <2>1, <2>2, <2>3, WaitingSteps
  <1>5. ASSUME NEW d \in replies'
        PROVE  \E u \in DOMAIN threads' : threads'[u].pc \notin Early /\ threads'[u].main = d
    <2>1. d \in replies \/ (HandlerRegister(t) /\ d = threads[t].main)
      BY <1>5 DEF RunStep, Start, Accept, ReadWeight, HandlerRegister, End
    <2>2. CASE d \in replies
      <3>1. PICK u \in DOMAIN threads : threads[u].pc \notin Early /\ threads[u].main = d
        BY <2>2 DEF OneByOne
      <3>2. u \in DOMAIN threads' /\ threads'[u].pc \notin Early /\ threads'[u].main = d
        BY <1>1, <1>2, <3>1
      <3> QED BY <3>2
    <2>3. CASE HandlerRegister(t) /\ d = threads[t].main
      BY <1>1, <1>2, <2>3
    <2> QED BY <2>1, <2>2, <2>3
  <1> QED BY <1>1, <1>3, <1>4, <1>5 DEF OneByOne

(* As long as nothing upsets the order, the next client finds nothing of   *)
(* the one before.                                                         *)
LEMMA OneByOneStep ==
    ASSUME TypeOK, OneThreadPerSocket, AcceptedOnce, SlotsInTurn, RegisteredOnce, happened = {} => OneByOne,
           [Next]_vars, happened' = {}
    PROVE  OneByOne'
  <1>1. happened = {}
    BY HappenedGrows
  <1>2. ASSUME NEW c \in Clients, Register(c)
        PROVE  OneByOne'
    <2>1. UNCHANGED <<threads, tmpSock, replies, backlog>> /\ client[c] = "register" /\ client' = [client EXCEPT ![c] = "reply"]
      BY <1>2 DEF Register, AfterRegister
    <2>2. client'[c] = "reply" /\ \A d \in Clients : d # c => client'[d] = client[d]
      BY <2>1 DEF TypeOK
    <2>3. Connecting' = Connecting
      BY <2>1, <2>2 DEF Connecting
    <2>4. \A d \in Clients : client'[d] # "dead"
      BY <1>1, <2>2 DEF OneByOne
    <2> HIDE DEF Connecting
    <2> QED BY <1>1, <2>1, <2>3, <2>4 DEF OneByOne
  <1>3. \A c \in Clients : ~Die(c)
    BY DEF Die
  <1>4. CASE UNCHANGED vars
    BY <1>1, <1>4 DEF vars, OneByOne, Connecting
  <1> QED BY <1>1, <1>2, <1>3, <1>4, StepCases, OneConnect, OneReply, OneMainLoop, OneRun DEF RunStep

-----------------------------------------------------------------------------
(* The theorems.                                                           *)

(* The inductive invariant of session setup.  Every main connection is     *)
(* accepted once and read by one Run thread, the ring of slots hands it to *)
(* the thread created for it, a registration counts once.                  *)
THEOREM SessionInvariant == Spec => []SessionInv
  <1>1. SessionInv /\ [Next]_vars => SessionInv'
    <2> SUFFICES ASSUME SessionInv, [Next]_vars PROVE SessionInv'
      OBVIOUS
    <2>1. /\ TypeOK /\ OneThreadPerSocket /\ AcceptedOnce /\ ThreadsCounted /\ SlotsInTurn /\ RegisteredOnce
          /\ happened = {} => OneByOne
      BY DEF SessionInv
    <2>2. TypeOK' /\ OneThreadPerSocket' /\ AcceptedOnce' /\ ThreadsCounted' /\ SlotsInTurn' /\ RegisteredOnce'
      BY <2>1, TypeStep, OneReaderStep, AcceptedStep, CountStep, SlotsStep, RegisterStep
    <2>3. happened' = {} => OneByOne'
      BY <2>1, OneByOneStep
    <2> QED BY <2>2, <2>3 DEF SessionInv
  <1> QED BY InitSession, <1>1, PTL DEF Spec

(* Clients that come one by one, do not end half way and whose threads     *)
(* start in time get sessions of their own: the three sockets that a Run   *)
(* thread serves lead to one client, for any number of clients and slots.  *)
THEOREM SerialMatch == Spec => []SerialSessionsMatch
  <1>1. SessionInv => SerialSessionsMatch
    <2> SUFFICES ASSUME SessionInv, happened = {}, NEW t \in Serving
                 PROVE  threads[t].nonBlocking = threads[t].main /\ threads[t].finish = threads[t].main
      BY DEF SerialSessionsMatch, OneClientPerSession
    <2>1. OneByOne /\ t \in DOMAIN threads /\ threads[t].pc = "serve"
      BY DEF SessionInv, Serving
    <2> QED BY <2>1, OneByOneThread DEF Early
  <1> QED BY <1>1, SessionInvariant, PTL

(* As long as no two registrations overlap, the CN's weight counts each    *)
(* client that was told that it is registered, and nobody twice.           *)
THEOREM WeightRight == Spec => []WeightIsSum
  <1>1. SessionInv => WeightIsSum
    BY DEF SessionInv, RegisteredOnce, WeightIsSum
  <1> QED BY <1>1, SessionInvariant, PTL

(* Whatever clients do, no two Run threads read one connection, although   *)
(* MainLoop hands sockets over through a pointer into a ring it reuses;    *)
(* for main connections, unless a thread starts after its slot was reused. *)
THEOREM SocketsApart == Spec => []OneThreadPerSocket
  <1>1. SessionInv => OneThreadPerSocket
    BY DEF SessionInv
  <1> QED BY <1>1, SessionInvariant, PTL
=============================================================================
