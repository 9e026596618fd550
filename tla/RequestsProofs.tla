----------------------------- MODULE RequestsProofs -----------------------------
(***************************************************************************)
(* Proofs about Requests, for any finite set of threads and any number of  *)
(* buffers and calls.                                                      *)
(***************************************************************************)
EXTENDS Requests, FiniteSetTheorems, SequenceTheorems, TLAPS

(* The messages, commands and numbers the other facts are about.           *)
LEMMA Typed ==
    ASSUME TypeOK
    PROVE  /\ Len(main) \in Nat /\ DOMAIN main = 1 .. Len(main)
           /\ Len(commands) \in Nat /\ DOMAIN commands = 1 .. Len(commands)
           /\ Len(mems) \in Nat /\ DOMAIN mems = 1 .. Len(mems)
           /\ Len(replies) \in Nat /\ DOMAIN replies = 1 .. Len(replies)
           /\ \A i \in DOMAIN main : main[i] \in Message
           /\ \A i \in DOMAIN commands : commands[i] \in Command
           /\ \A i \in DOMAIN mems : mems[i] \in Nat
           /\ \A i \in DOMAIN replies : replies[i] \in Nat
           /\ MaxBuffers \in Nat /\ MaxCalls \in Nat /\ sent \in Nat
  <1>1. main \in Seq(Message) /\ commands \in Seq(Command) /\ mems \in Seq(Nat) /\ replies \in Seq(Nat) /\ sent \in 0 .. MaxCalls
    BY DEF TypeOK
  <1>2. \A i \in DOMAIN main : main[i] \in Message
    BY <1>1, ElementOfSeq
  <1>3. \A i \in DOMAIN commands : commands[i] \in Command
    BY <1>1, ElementOfSeq
  <1> QED BY <1>1, <1>2, <1>3, BoundsAssumption

(* What is on the connection and in the queue.                             *)
LEMMA Members ==
    ASSUME TypeOK
    PROVE  /\ \A x \in OnConnection : \E i \in DOMAIN main : main[i].kind # "data" /\ x = Sent(main[i])
           /\ \A i \in DOMAIN main : main[i].kind # "data" => Sent(main[i]) \in OnConnection
           /\ \A x \in InQueue : \E i \in DOMAIN commands : x = Taken(commands[i])
           /\ \A i \in DOMAIN commands : Taken(commands[i]) \in InQueue /\ commands[i] \in ToSet(commands)
           /\ \A c \in ToSet(commands) : \E i \in DOMAIN commands : c = commands[i]
  BY DEF OnConnection, InQueue, ToSet

(* The fields of what is on its way.                                       *)
LEMMA Fields ==
    /\ \A m : /\ Sent(m).n = m.n /\ Sent(m).kind = m.kind /\ Sent(m).want = m.want
              /\ Sent(m).from = IF m.kind \in {"read", "copy"} THEN m.src + 1 ELSE None
              /\ Sent(m).to = IF m.kind \in Creates THEN m.dst
                              ELSE IF m.kind \in Queued \ {"read"} THEN m.dst + 1 ELSE None
    /\ \A c : /\ Taken(c).n = c.n /\ Taken(c).kind = c.kind /\ Taken(c).want = c.want
              /\ Taken(c).from = (IF c.kind = "read" THEN c.slot ELSE c.src) /\ Taken(c).to = c.dst
  BY DEF Sent, Taken

(* Types of what is on its way.                                            *)
Item(x) == x.n \in Nat /\ x.kind \in Kinds \cup {"none"} /\ x.want \in Nat /\ x.from \in Nat /\ x.to \in Nat

(* Requests and commands on their way have these types.                    *)
LEMMA Items == ASSUME TypeOK PROVE \A x \in Pending : Item(x)
  <1>1. \A m \in Message : m.kind # "data" => Item(Sent(m))
    <2> SUFFICES ASSUME NEW m \in Message, m.kind # "data" PROVE Item(Sent(m))
      OBVIOUS
    <2>1. m.n \in Nat /\ m.kind \in Kinds \cup {"none"} /\ m.want \in Nat /\ m.src \in Nat /\ m.dst \in Nat
      BY DEF Message
    <2>2. m.src + 1 \in Nat /\ m.dst + 1 \in Nat /\ None \in Nat
      BY <2>1 DEF None
    <2>3. Sent(m).n = m.n /\ Sent(m).kind = m.kind /\ Sent(m).want = m.want
      BY Fields
    <2>4. Sent(m).from \in {m.src + 1, None} /\ Sent(m).to \in {m.dst, m.dst + 1, None}
      BY Fields
    <2> QED BY <2>1, <2>2, <2>3, <2>4 DEF Item
  <1>2. \A c \in Command : Item(Taken(c))
    BY Fields DEF Command, Item, Kinds
  <1> QED BY <1>1, <1>2, Typed, Members DEF Pending

(* Nothing is on its way twice.                                            *)
LEMMA Unique ==
    ASSUME TypeOK, CallsInOrder
    PROVE  \A x, y \in Pending : x.n = y.n => x = y
  <1> SUFFICES ASSUME NEW x \in Pending, NEW y \in Pending, x.n = y.n PROVE x = y
    OBVIOUS
  <1>0. x.n \in Nat /\ y.n \in Nat
    BY Items DEF Item
  <1>1. CASE x \in OnConnection /\ y \in OnConnection
    <2>1. PICK i \in DOMAIN main : main[i].kind # "data" /\ x = Sent(main[i])
      BY <1>1, Members
    <2>2. PICK j \in DOMAIN main : main[j].kind # "data" /\ y = Sent(main[j])
      BY <1>1, Members
    <2>3. main[i].n = x.n /\ main[j].n = y.n
      BY <2>1, <2>2, Fields
    <2>4. ~(i < j) /\ ~(j < i)
      BY <1>0, <2>1, <2>2, <2>3 DEF CallsInOrder
    <2>5. i = j
      BY <2>4, Typed
    <2> QED BY <2>1, <2>2, <2>5
  <1>2. CASE x \in InQueue /\ y \in InQueue
    <2>1. PICK i \in DOMAIN commands : x = Taken(commands[i])
      BY <1>2, Members
    <2>2. PICK j \in DOMAIN commands : y = Taken(commands[j])
      BY <1>2, Members
    <2>3. commands[i].n = x.n /\ commands[j].n = y.n
      BY <2>1, <2>2, Fields
    <2>4. ~(i < j) /\ ~(j < i)
      BY <1>0, <2>1, <2>2, <2>3 DEF CallsInOrder
    <2>5. i = j
      BY <2>4, Typed
    <2> QED BY <2>1, <2>2, <2>5
  <1> QED BY <1>0, <1>1, <1>2 DEF Pending, CallsInOrder

-----------------------------------------------------------------------------
(* What the steps do to connection and queue.                              *)

(* A message is sent.                                                      *)
LEMMA Appended ==
    ASSUME TypeOK, NEW m \in Message, main' = Append(main, m)
    PROVE  /\ main' \in Seq(Message) /\ Len(main') = Len(main) + 1 /\ DOMAIN main' = 1 .. Len(main) + 1
           /\ \A i \in DOMAIN main : main'[i] = main[i]
           /\ main'[Len(main) + 1] = m
           /\ OnConnection' = OnConnection \cup (IF m.kind = "data" THEN {} ELSE {Sent(m)})
  <1>1. main \in Seq(Message) /\ Len(main) \in Nat /\ DOMAIN main = 1 .. Len(main)
    BY Typed DEF TypeOK
  <1>2. /\ main' \in Seq(Message) /\ Len(main') = Len(main) + 1 /\ DOMAIN main' = 1 .. Len(main) + 1
        /\ \A i \in DOMAIN main : main'[i] = main[i]
        /\ main'[Len(main) + 1] = m
    BY <1>1, AppendProperties
  <1>3. ToSet(main') = ToSet(main) \cup {m}
    BY <1>1, <1>2 DEF ToSet
  <1> QED BY <1>2, <1>3 DEF OnConnection

(* What is at the front of the connection.                                 *)
LEMMA AtHead ==
    ASSUME TypeOK, NEW m, Handling(m)
    PROVE  /\ m = main[1] /\ m \in Message /\ 1 \in DOMAIN main /\ Len(main) > 0 /\ session = "up" /\ blockedOn = 0
           /\ m.kind \in WithData => Len(main) > 1
  <1>1. main # <<>> /\ m = Head(main)
    BY DEF Handling
  <1>2. main \in Seq(Message)
    BY DEF TypeOK
  <1>3. Len(main) \in Nat /\ Len(main) > 0
    BY <1>1, <1>2, EmptySeq
  <1>4. 1 \in DOMAIN main /\ m = main[1]
    BY <1>1, <1>2, <1>3
  <1> QED BY <1>3, <1>4, Typed DEF Handling

(* A request is taken from the connection, with its data.                  *)
LEMMA Removed ==
    ASSUME TypeOK, CallsInOrder, NEW m, Handling(m), InStep(m), m.kind # "data", main' = Rest
    PROVE  \E k \in {1, 2} :
           /\ k = (IF m.kind \in WithData THEN 2 ELSE 1) /\ k <= Len(main)
           /\ main' \in Seq(Message) /\ Len(main') = Len(main) - k /\ DOMAIN main' = 1 .. Len(main) - k
           /\ \A i \in 1 .. Len(main) - k : main'[i] = main[i + k]
           /\ k = 2 => main[2].kind = "data"
  <1> DEFINE k == IF m.kind \in WithData THEN 2 ELSE 1
  <1>0. k \in {1, 2}
    OBVIOUS
  <1>1. main \in Seq(Message) /\ Len(main) \in Nat /\ DOMAIN main = 1 .. Len(main)
    BY Typed DEF TypeOK
  <1>2. m = Head(main) /\ Len(main) > 0 /\ (m.kind \in WithData => Len(main) > 1)
    BY AtHead DEF Handling
  <1>3. main' = SubSeq(main, k + 1, Len(main)) /\ k <= Len(main)
    BY <1>1, <1>2 DEF Rest
  <1>4. k = 2 => main[2].kind = "data"
    BY DEF InStep
  <1> HIDE DEF k
  <1>5. /\ main' \in Seq(Message) /\ Len(main') = Len(main) - k /\ DOMAIN main' = 1 .. Len(main) - k
        /\ \A i \in 1 .. Len(main) - k : main'[i] = main[i + k]
    BY <1>0, <1>1, <1>3, SubSeqProperties
  <1> QED BY <1>0, <1>3, <1>4, <1>5 DEF k

(* What is left then: the requests that were sent later.                   *)
LEMMA Received ==
    ASSUME TypeOK, CallsInOrder, NEW m, Handling(m), InStep(m), m.kind # "data", main' = Rest
    PROVE  /\ Sent(m) \in OnConnection
           /\ OnConnection' = OnConnection \ {Sent(m)}
           /\ \A x \in OnConnection' : m.n < x.n
  <1>1. PICK k \in {1, 2} :
           /\ k = (IF m.kind \in WithData THEN 2 ELSE 1) /\ k <= Len(main)
           /\ main' \in Seq(Message) /\ Len(main') = Len(main) - k /\ DOMAIN main' = 1 .. Len(main) - k
           /\ \A i \in 1 .. Len(main) - k : main'[i] = main[i + k]
           /\ k = 2 => main[2].kind = "data"
    BY Removed
  <1>2. m = main[1] /\ 1 \in DOMAIN main /\ Len(main) \in Nat /\ DOMAIN main = 1 .. Len(main)
    BY AtHead, Typed
  <1>3. Sent(m) \in OnConnection
    BY <1>2, Members
  <1>4. \A x \in OnConnection' : x \in OnConnection /\ m.n < x.n /\ x.n \in Nat
    <2> SUFFICES ASSUME NEW x \in OnConnection' PROVE x \in OnConnection /\ m.n < x.n /\ x.n \in Nat
      OBVIOUS
    <2>1. PICK i \in DOMAIN main' : main'[i].kind # "data" /\ x = Sent(main'[i])
      BY DEF OnConnection, ToSet
    <2>0. i \in 1 .. Len(main) - k /\ main'[i] = main[i + k]
      BY <1>1, <2>1
    <2>2. i + k \in DOMAIN main /\ main'[i] = main[i + k] /\ 1 < i + k
      BY <1>2, <2>0
    <2>3. x \in OnConnection
      BY <2>1, <2>2, Members
    <2>4. main[1].n < main[i + k].n
      BY <1>2, <2>1, <2>2 DEF CallsInOrder
    <2>5. x.n = main[i + k].n /\ x.n \in Nat
      BY <2>1, <2>2, <2>3, Fields, Items DEF Pending, Item
    <2> QED BY <1>2, <2>3, <2>4, <2>5
  <1>5. \A x \in OnConnection \ {Sent(m)} : x \in OnConnection'
    <2> SUFFICES ASSUME NEW x \in OnConnection, x # Sent(m) PROVE x \in OnConnection'
      OBVIOUS
    <2>1. PICK j \in DOMAIN main : main[j].kind # "data" /\ x = Sent(main[j])
      BY Members
    <2>2. j # 1 /\ (k = 2 => j # 2)
      <3>1. k = 2 => main[2].kind = "data"
        BY <1>1
      <3> QED BY <3>1, <1>2, <2>1
    <2>3. j - k \in 1 .. Len(main) - k /\ (j - k) + k = j
      BY <1>2, <2>1, <2>2
    <2>4. main'[j - k] = main[j] /\ j - k \in DOMAIN main'
      BY <1>1, <2>3
    <2> QED BY <2>1, <2>4 DEF OnConnection, ToSet
  <1>6. Sent(m) \notin OnConnection'
    <2>1. Sent(m).n = m.n
      BY Fields
    <2> QED BY <1>4, <2>1
  <1> QED BY <1>3, <1>4, <1>5, <1>6

(* A command joins the queue.                                              *)
LEMMA Joined ==
    ASSUME TypeOK, NEW c \in Command, commands' = Append(commands, c)
    PROVE  /\ commands' \in Seq(Command) /\ Len(commands') = Len(commands) + 1
           /\ DOMAIN commands' = 1 .. Len(commands) + 1
           /\ \A i \in DOMAIN commands : commands'[i] = commands[i]
           /\ commands'[Len(commands) + 1] = c
           /\ ToSet(commands') = ToSet(commands) \cup {c}
           /\ InQueue' = InQueue \cup {Taken(c)}
  <1>1. commands \in Seq(Command) /\ Len(commands) \in Nat /\ DOMAIN commands = 1 .. Len(commands)
    BY Typed DEF TypeOK
  <1>2. /\ commands' \in Seq(Command) /\ Len(commands') = Len(commands) + 1
        /\ DOMAIN commands' = 1 .. Len(commands) + 1
        /\ \A i \in DOMAIN commands : commands'[i] = commands[i]
        /\ commands'[Len(commands) + 1] = c
    BY <1>1, AppendProperties
  <1>3. ToSet(commands') = ToSet(commands) \cup {c}
    BY <1>1, <1>2 DEF ToSet
  <1> QED BY <1>2, <1>3 DEF InQueue

(* A command leaves it.                                                    *)
LEMMA Left ==
    ASSUME TypeOK, CallsInOrder, NEW c, commands # <<>>, c = Head(commands), commands' = Tail(commands)
    PROVE  /\ c = commands[1] /\ 1 \in DOMAIN commands /\ c \in Command /\ c \in ToSet(commands)
           /\ commands' \in Seq(Command) /\ Len(commands') = Len(commands) - 1
           /\ DOMAIN commands' = 1 .. Len(commands) - 1
           /\ \A i \in DOMAIN commands' : i + 1 \in DOMAIN commands /\ commands'[i] = commands[i + 1]
           /\ ToSet(commands') \subseteq ToSet(commands)
           /\ Taken(c) \in InQueue /\ InQueue' = InQueue \ {Taken(c)}
           /\ \A x \in InQueue' : c.n < x.n
  <1>1. commands \in Seq(Command) /\ Len(commands) \in Nat /\ DOMAIN commands = 1 .. Len(commands)
    BY Typed DEF TypeOK
  <1>2. Len(commands) > 0 /\ c = commands[1] /\ 1 \in DOMAIN commands
    BY <1>1, EmptySeq
  <1>3. c \in Command /\ c \in ToSet(commands) /\ Taken(c) \in InQueue
    BY <1>2, Typed, Members
  <1>4. /\ commands' \in Seq(Command) /\ Len(commands') = Len(commands) - 1
        /\ DOMAIN commands' = 1 .. Len(commands) - 1
    BY <1>1, <1>2, HeadTailProperties
  <1>5. \A i \in DOMAIN commands' : i + 1 \in DOMAIN commands /\ commands'[i] = commands[i + 1]
    BY <1>1, <1>2, <1>4, HeadTailProperties
  <1>6. ToSet(commands') \subseteq ToSet(commands)
    BY <1>5 DEF ToSet
  <1>7. \A x \in InQueue' : x \in InQueue /\ c.n < x.n /\ x.n \in Nat
    <2> SUFFICES ASSUME NEW x \in InQueue' PROVE x \in InQueue /\ c.n < x.n /\ x.n \in Nat
      OBVIOUS
    <2>1. PICK i \in DOMAIN commands' : x = Taken(commands'[i])
      BY DEF InQueue, ToSet
    <2>2. i + 1 \in DOMAIN commands /\ commands'[i] = commands[i + 1] /\ 1 < i + 1
      BY <1>4, <1>5, <2>1
    <2>3. x \in InQueue
      BY <2>1, <2>2, Members
    <2>4. commands[1].n < commands[i + 1].n
      BY <1>2, <2>2 DEF CallsInOrder
    <2> QED BY <1>2, <2>1, <2>2, <2>3, <2>4, Fields, Items DEF Pending, Item
  <1>8. \A x \in InQueue \ {Taken(c)} : x \in InQueue'
    <2> SUFFICES ASSUME NEW x \in InQueue, x # Taken(c) PROVE x \in InQueue'
      OBVIOUS
    <2>1. PICK j \in DOMAIN commands : x = Taken(commands[j])
      BY Members
    <2>2. j # 1
      BY <1>2, <2>1
    <2>3. j - 1 \in DOMAIN commands' /\ (j - 1) + 1 = j
      BY <1>1, <1>4, <2>1, <2>2
    <2>4. commands'[j - 1] = commands[j]
      BY <1>5, <2>3
    <2> QED BY <2>1, <2>3, <2>4 DEF InQueue, ToSet
  <1>9. Taken(c) \notin InQueue'
    <2>1. Taken(c).n = c.n
      BY Fields
    <2> QED BY <1>7, <2>1
  <1> QED BY <1>2, <1>3, <1>4, <1>5, <1>6, <1>7, <1>8, <1>9

-----------------------------------------------------------------------------
(* Numbers of buffers.                                                     *)

(* The buffers whose creates were sent.                                    *)
LEMMA Counts ==
    ASSUME TypeOK, NumbersInOrder
    PROVE  /\ IsFiniteSet(Numbered) /\ IsFiniteSet(Creating)
           /\ Cardinality(Numbered) \in Nat /\ Cardinality(Creating) \in Nat
           /\ CreatesSent \in Nat /\ CreatesSent <= MaxBuffers /\ Numbered \subseteq 1 .. CreatesSent
           /\ Cardinality(Numbered) <= CreatesSent
           /\ \A b \in Numbered : ids[b] \in Nat /\ ids[b] + 1 \in 1 .. CreatesSent
  <1>1. IsFiniteSet(Numbered)
    <2>1. IsFiniteSet(1 .. MaxBuffers)
      BY BoundsAssumption, FS_Interval
    <2> QED BY <2>1, FS_Subset DEF Numbered, Buffers
  <1>2. IsFiniteSet(Creating)
    BY FiniteAssumption, FS_Subset DEF Creating
  <1>3. Cardinality(Numbered) \in Nat /\ Cardinality(Creating) \in Nat
    BY <1>1, <1>2, FS_CardinalityType
  <1>4. CreatesSent \in Nat /\ Cardinality(Numbered) <= CreatesSent
    BY <1>3 DEF CreatesSent
  <1>5. Numbered \cup {call[t].dst : t \in Creating} = 1 .. CreatesSent
    BY DEF NumbersInOrder
  <1>6. Numbered \cup {call[t].dst : t \in Creating} \subseteq 1 .. MaxBuffers
    BY DEF NumbersInOrder, Numbered, Buffers
  <1>7. CreatesSent <= MaxBuffers
    BY <1>4, <1>5, <1>6, BoundsAssumption
  <1>8. \A b \in Numbered : ids[b] \in Nat /\ ids[b] < Cardinality(Numbered)
    BY BoundsAssumption DEF TypeOK, NumbersInOrder, Numbered
  <1> QED BY <1>1, <1>2, <1>3, <1>4, <1>5, <1>7, <1>8

(* The buffers a request names.                                            *)
LEMMA OperandCases ==
    ASSUME NEW k \in Kinds, NEW o \in Operands(k)
    PROVE  /\ k = "read" => o.src \in Known /\ o.dst = None
           /\ k \in Writes \cup {"release"} => o.src = None /\ o.dst \in Known
           /\ k = "copy" => o.src \in Known /\ o.dst \in Known /\ o.src # o.dst
           /\ k \in Creates => o.src = None /\ o.dst \in Buffers /\ o.dst = CreatesSent + 1
           /\ k \in {"program", "build"} => o.src = None /\ o.dst = None
  BY DEF Operands, Kinds, Writes, Creates, Queued

(* What a request says, and what its place among the pending ones is.      *)
LEMMA RequestFields ==
    ASSUME TypeOK, NumbersInOrder, NEW k \in Kinds, NEW o \in Operands(k), NEW n \in Nat
    PROVE  /\ Request(k, n, o) \in Message
           /\ Request(k, n, o).n = n /\ Request(k, n, o).kind = k
           /\ k \in Creates => Request(k, n, o).dst = o.dst
           /\ Request(k, n, o).want = IF k \in {"read", "copy"} THEN expect[o.src] ELSE 0
           /\ Sent(Request(k, n, o)).from = IF k \in {"read", "copy"} THEN ids[o.src] + 1 ELSE None
           /\ Sent(Request(k, n, o)).to = IF k \in Creates THEN o.dst
                                          ELSE IF k \in Queued \ {"read"} THEN ids[o.dst] + 1 ELSE None
  <1> DEFINE m == Request(k, n, o)
  <1>1. /\ m.n = n /\ m.kind = k
        /\ m.src = IF o.src = None THEN None ELSE ids[o.src]
        /\ m.dst = IF k \in Creates \/ o.dst = None THEN o.dst ELSE ids[o.dst]
        /\ m.want = IF k \in {"read", "copy"} THEN expect[o.src] ELSE 0
    BY DEF Request
  <1>2. Known \subseteq Buffers /\ \A b \in Known : b # None /\ b \in Nat /\ ids[b] \in Nat /\ expect[b] \in Nat
    <2>1. Known \subseteq Buffers /\ Known \subseteq Numbered
      BY DEF Known, Numbered
    <2>2. \A b \in Buffers : b # None /\ b \in Nat
      BY DEF Buffers, None
    <2>3. \A b \in Buffers : expect[b] \in Nat
      BY DEF TypeOK
    <2> QED BY <2>1, <2>2, <2>3, Counts
  <1>3. o.src \in Known \cup {None} /\ o.dst \in Known \cup {None} \cup Buffers
    BY OperandCases DEF Kinds, Queued, Writes
  <1>4. k \in {"read", "copy"} => o.src \in Known
    BY OperandCases
  <1>5. k \in Queued \ {"read"} => o.dst \in Known
    BY OperandCases DEF Queued, Writes
  <1>6. m.src \in Nat /\ m.want \in Nat
    BY <1>1, <1>2, <1>3, <1>4 DEF None
  <1>7. m.dst \in Nat
    <2>1. CASE k \in Creates
      BY <1>1, <2>1, OperandCases DEF Buffers
    <2>2. CASE k \notin Creates
      <3>1. o.dst \in Known \cup {None}
        BY <2>2, OperandCases DEF Kinds, Queued, Writes
      <3> QED BY <1>1, <1>2, <3>1 DEF None
    <2> QED BY <2>1, <2>2
  <1>8. m \in Message
    BY <1>1, <1>6, <1>7 DEF Message, Request
  <1>9. Sent(m).from = IF k \in {"read", "copy"} THEN ids[o.src] + 1 ELSE None
    <2>1. Sent(m).from = IF k \in {"read", "copy"} THEN m.src + 1 ELSE None
      <3>1. m.kind = k
        BY <1>1
      <3> HIDE DEF m
      <3>2. Sent(m).from = IF m.kind \in {"read", "copy"} THEN m.src + 1 ELSE None
        BY Fields
      <3> QED BY <3>1, <3>2
    <2> QED BY <1>1, <1>2, <1>4, <2>1
  <1>10. Sent(m).to = IF k \in Creates THEN o.dst ELSE IF k \in Queued \ {"read"} THEN ids[o.dst] + 1 ELSE None
    <2>1. Sent(m).to = IF k \in Creates THEN m.dst ELSE IF k \in Queued \ {"read"} THEN m.dst + 1 ELSE None
      <3>1. m.kind = k
        BY <1>1
      <3> HIDE DEF m
      <3>2. Sent(m).to = IF m.kind \in Creates THEN m.dst ELSE IF m.kind \in Queued \ {"read"} THEN m.dst + 1 ELSE None
        BY Fields
      <3> QED BY <3>1, <3>2
    <2>2. k \in Queued \ {"read"} => k \notin Creates
      BY DEF Queued, Writes, Creates
    <2> QED BY <1>1, <1>2, <1>5, <2>1, <2>2
  <1> HIDE DEF m
  <1> QED BY <1>1, <1>8, <1>9, <1>10 DEF m

(* A thread sends m.                                                       *)
Sends(t, k, o, m) ==
    /\ k \in Kinds /\ o \in Operands(k) /\ m \in Message /\ m = Request(k, sent + 1, o)
    /\ m.n = sent + 1 /\ m.kind = k /\ m.kind # "data"
    /\ session = "up" /\ pc[t] = "idle" /\ sent < MaxCalls /\ sent' = sent + 1
    /\ main' = Append(main, m) /\ OnConnection' = OnConnection \cup {Sent(m)} /\ InQueue' = InQueue
    /\ Pending' = Pending \cup {Sent(m)}
    /\ call' = [call EXCEPT ![t] = m] /\ pc' = [pc EXCEPT ![t] = AfterHeader(k)]
    /\ races' = races \cup RacesOf(t, k)

(* A first message is a request of its kind, with a number of its own.     *)
LEMMA Sending ==
    ASSUME TypeOK, NumbersInOrder, NEW t \in Threads, NEW k \in Kinds, SendHeader(t, k)
    PROVE  \E o \in Operands(k) : \E m \in Message :
           /\ Sends(t, k, o, m)
           /\ expect' = Expected(k, sent + 1, o)
           /\ dropped' = IF k = "release" THEN dropped \cup {o.dst} ELSE dropped
  <1>1. PICK o \in Operands(k) :
           /\ main' = Append(main, Request(k, sent + 1, o)) /\ call' = [call EXCEPT ![t] = Request(k, sent + 1, o)]
           /\ expect' = Expected(k, sent + 1, o)
           /\ dropped' = IF k = "release" THEN dropped \cup {o.dst} ELSE dropped
    BY DEF SendHeader
  <1> DEFINE m == Request(k, sent + 1, o)
  <1>2. sent + 1 \in Nat
    BY Typed
  <1>3. m \in Message /\ m.n = sent + 1 /\ m.kind = k
    BY <1>2, RequestFields
  <1>4. m.kind # "data"
    BY <1>3 DEF Kinds, Queued, Creates, Writes
  <1>5. main' = Append(main, m) /\ call' = [call EXCEPT ![t] = m]
    BY <1>1
  <1> HIDE DEF m
  <1>6. OnConnection' = OnConnection \cup {Sent(m)}
    BY <1>3, <1>4, <1>5, Appended
  <1>7. InQueue' = InQueue
    BY DEF SendHeader, InQueue, queueVars
  <1>8. Pending' = Pending \cup {Sent(m)}
    BY <1>6, <1>7 DEF Pending
  <1>9. /\ session = "up" /\ pc[t] = "idle" /\ sent < MaxCalls /\ sent' = sent + 1
        /\ pc' = [pc EXCEPT ![t] = AfterHeader(k)] /\ races' = races \cup RacesOf(t, k)
    BY DEF SendHeader
  <1>10. m = Request(k, sent + 1, o)
    BY DEF m
  <1>11. Sends(t, k, o, m)
    BY <1>3, <1>4, <1>5, <1>6, <1>7, <1>8, <1>9, <1>10 DEF Sends
  <1> QED BY <1>1, <1>3, <1>11

-----------------------------------------------------------------------------
(* What handlers and device take.                                          *)

(* The request at the front was sent before the others on the connection.  *)
LEMMA First ==
    ASSUME TypeOK, CallsInOrder, NEW m, Handling(m), m.kind # "data"
    PROVE  /\ Sent(m) \in OnConnection /\ Sent(m) \notin InQueue /\ m.n \in Nat
           /\ \A x \in OnConnection : x # Sent(m) => m.n < x.n
           /\ \A x \in InQueue : x.n < m.n
  <1>1. m = main[1] /\ 1 \in DOMAIN main /\ DOMAIN main = 1 .. Len(main) /\ Len(main) \in Nat /\ m \in Message
    BY AtHead, Typed
  <1>2. Sent(m) \in OnConnection /\ Sent(m).n = m.n /\ m.n \in Nat
    BY <1>1, Members, Fields DEF Message
  <1>3. \A x \in InQueue : x.n < m.n
    BY <1>2 DEF CallsInOrder
  <1>4. \A x \in OnConnection : x # Sent(m) => m.n < x.n
    <2> SUFFICES ASSUME NEW x \in OnConnection, x # Sent(m) PROVE m.n < x.n
      OBVIOUS
    <2>1. PICK i \in DOMAIN main : main[i].kind # "data" /\ x = Sent(main[i])
      BY Members
    <2>2. 1 < i
      BY <1>1, <2>1
    <2>3. main[1].n < main[i].n
      BY <1>1, <2>1, <2>2 DEF CallsInOrder
    <2> QED BY <1>1, <2>1, <2>3, Fields
  <1> QED BY <1>2, <1>3, <1>4

(* Nothing that is queued creates a buffer.                                *)
LEMMA QueuedKinds ==
    ASSUME TypeOK
    PROVE  \A x \in InQueue : x.kind \in Queued /\ x.kind \notin Creates
  <1>1. \A c \in Command : c.kind \in Queued
    BY DEF Command
  <1>2. \A k \in Queued : k \notin Creates
    BY DEF Queued, Writes, Creates
  <1>3. SUFFICES ASSUME NEW x \in InQueue PROVE x.kind \in Queued
    BY <1>2
  <1>4. PICK i \in DOMAIN commands : x = Taken(commands[i])
    BY Members
  <1>5. commands[i] \in Command /\ x.kind = commands[i].kind
    BY <1>4, Typed, Fields
  <1> QED BY <1>1, <1>5

(* The vector has a place for each buffer the next request names.          *)
LEMMA InVector ==
    ASSUME TypeOK, CallsInOrder, CreatesInOrder, OperandsThere, NEW m, Handling(m), m.kind \in Queued
    PROVE  Uses(Sent(m)) \subseteq 1 .. Len(mems)
  <1> SUFFICES ASSUME NEW b \in Uses(Sent(m)), b \notin 1 .. Len(mems) PROVE FALSE
    OBVIOUS
  <1>1. m.kind # "data" /\ m.kind \notin Creates
    BY DEF Queued, Writes, Creates
  <1>2. Sent(m) \in OnConnection /\ Sent(m) \in Pending /\ Sent(m).n = m.n /\ Sent(m).kind = m.kind
    BY <1>1, First, Fields DEF Pending
  <1>3. b \in 1 .. CreatesSent
    BY <1>2 DEF OperandsThere
  <1>4. b \in Len(mems) + 1 .. CreatesSent
    BY <1>3, Typed
  <1>5. PICK x \in Pending : x.kind \in Creates /\ x.to = b
    BY <1>4 DEF CreatesInOrder
  <1>6. x \in OnConnection /\ x # Sent(m)
    BY <1>1, <1>2, <1>5, QueuedKinds DEF Pending
  <1>7. Sent(m).n < x.n
    BY <1>1, <1>2, <1>6, First
  <1>8. b < x.to
    BY <1>2, <1>5, <1>7 DEF OperandsThere
  <1> QED BY <1>3, <1>5, <1>8

(* The command that is made of it names the same buffers.                  *)
LEMMA SameCommand ==
    ASSUME TypeOK, CallsInOrder, CreatesInOrder, OperandsThere, NEW m, Handling(m), m.kind \in Queued
    PROVE  /\ CommandFor(m) \in Command /\ Taken(CommandFor(m)) = Sent(m)
           /\ CommandFor(m).n = m.n /\ CommandFor(m).kind = m.kind /\ CommandFor(m).storage = storage
           /\ IF m.kind = "read" THEN CommandFor(m).slot \in 1 .. Len(mems) /\ CommandFor(m).dst = None
              ELSE CommandFor(m).dst \in 1 .. Len(mems)
           /\ IF m.kind = "copy" THEN CommandFor(m).src \in 1 .. Len(mems) ELSE CommandFor(m).src = None
  <1> DEFINE c == CommandFor(m)
  <1>1. m \in Message /\ m.n \in Nat /\ m.src \in Nat /\ m.dst \in Nat /\ m.want \in Nat
    BY AtHead DEF Message
  <1>2. m.kind \notin Creates
    BY DEF Queued, Writes, Creates
  <1>3. /\ c.n = m.n /\ c.kind = m.kind /\ c.want = m.want /\ c.storage = storage
        /\ c.slot = (IF m.kind = "read" THEN m.src + 1 ELSE 0)
        /\ c.src = (IF m.kind = "copy" THEN mems[m.src + 1] ELSE None)
        /\ c.dst = (IF m.kind = "read" THEN None ELSE mems[m.dst + 1])
    BY DEF CommandFor
  <1>4. \A i \in 1 .. Len(mems) : mems[i] = i /\ i \in Nat
    BY Typed DEF CreatesInOrder
  <1>5. m.kind \in {"read", "copy"} => m.src + 1 \in 1 .. Len(mems)
    <2>1. m.kind \in {"read", "copy"} => Sent(m).from = m.src + 1 /\ m.src + 1 # None
      <3>1. m.src + 1 # None
        BY <1>1 DEF None
      <3>2. m.kind \in {"read", "copy"} => Sent(m).from = m.src + 1
        BY Fields
      <3> QED BY <3>1, <3>2
    <2>2. m.kind \in {"read", "copy"} => m.src + 1 \in Uses(Sent(m))
      BY <2>1 DEF Uses
    <2> QED BY <2>2, InVector
  <1>6. m.kind # "read" => m.dst + 1 \in 1 .. Len(mems)
    <2>1. m.kind # "read" => Sent(m).to = m.dst + 1 /\ m.dst + 1 # None
      <3>1. m.dst + 1 # None
        BY <1>1 DEF None
      <3>2. m.kind # "read" => Sent(m).to = m.dst + 1
        BY <1>2, Fields
      <3> QED BY <3>1, <3>2
    <2>2. m.kind # "read" => m.dst + 1 \in Uses(Sent(m))
      BY <2>1 DEF Uses
    <2> QED BY <2>2, InVector
  <1>7. /\ c.src = (IF m.kind = "copy" THEN m.src + 1 ELSE None)
        /\ c.dst = (IF m.kind = "read" THEN None ELSE m.dst + 1)
    BY <1>3, <1>4, <1>5, <1>6
  <1>8. c.slot \in Nat /\ c.src \in Nat /\ c.dst \in Nat /\ storage \in Nat
    <2>1. storage \in Nat
      BY DEF TypeOK
    <2>2. m.src + 1 \in Nat /\ m.dst + 1 \in Nat /\ None \in Nat /\ 0 \in Nat
      BY <1>1 DEF None
    <2> HIDE DEF c
    <2> QED BY <1>3, <1>7, <2>1, <2>2
  <1>9. c \in Command
    BY <1>1, <1>3, <1>8 DEF Command, CommandFor
  <1>10. Taken(c) = Sent(m)
    <2>1. Taken(c) = [n |-> c.n, kind |-> c.kind, want |-> c.want,
                      from |-> IF c.kind = "read" THEN c.slot ELSE c.src, to |-> c.dst]
      BY DEF Taken
    <2>2. (IF c.kind = "read" THEN c.slot ELSE c.src) = (IF m.kind \in {"read", "copy"} THEN m.src + 1 ELSE None)
      BY <1>3, <1>7
    <2>3. c.dst = IF m.kind \in Creates THEN m.dst ELSE IF m.kind \in Queued \ {"read"} THEN m.dst + 1 ELSE None
      BY <1>2, <1>7
    <2> HIDE DEF c
    <2> QED BY <1>3, <2>1, <2>2, <2>3 DEF Sent
  <1> HIDE DEF c
  <1>11. IF m.kind = "read" THEN c.slot \in 1 .. Len(mems) /\ c.dst = None ELSE c.dst \in 1 .. Len(mems)
    BY <1>3, <1>5, <1>6, <1>7
  <1>12. IF m.kind = "copy" THEN c.src \in 1 .. Len(mems) ELSE c.src = None
    BY <1>5, <1>7
  <1> QED BY <1>3, <1>9, <1>10, <1>11, <1>12 DEF c

(* A request becomes a command.                                            *)
LEMMA Queueing ==
    ASSUME TypeOK, CallsInOrder, CreatesInOrder, OperandsThere, NEW m, HandlerEnqueue(m)
    PROVE  /\ Sent(m) \in Pending /\ Handling(m) /\ InStep(m) /\ m.kind \in Queued /\ m.kind # "data" /\ main' = Rest
           /\ commands' = Append(commands, CommandFor(m)) /\ ToSet(commands') = ToSet(commands) \cup {CommandFor(m)}
           /\ OnConnection' = OnConnection \ {Sent(m)} /\ InQueue' = InQueue \cup {Sent(m)} /\ Pending' = Pending
  <1>1. Handling(m) /\ InStep(m) /\ m.kind \in Queued /\ main' = Rest /\ commands' = Append(commands, CommandFor(m))
    BY DEF HandlerEnqueue, Pushed
  <1>2. m.kind # "data"
    BY <1>1 DEF Queued, Writes
  <1>3. Sent(m) \in OnConnection /\ OnConnection' = OnConnection \ {Sent(m)}
    BY <1>1, <1>2, Received
  <1>4. ToSet(commands') = ToSet(commands) \cup {CommandFor(m)} /\ InQueue' = InQueue \cup {Sent(m)}
    BY <1>1, SameCommand, Joined
  <1> QED BY <1>1, <1>2, <1>3, <1>4 DEF Pending

(* A request is handled at once.                                           *)
LEMMA Finishing ==
    ASSUME TypeOK, CallsInOrder, NEW m, HandlerCreateBuffer(m) \/ HandlerCreateProgramWithSource(m)
    PROVE  /\ Sent(m) \in OnConnection /\ Handling(m) /\ InStep(m) /\ m.kind # "data" /\ main' = Rest
           /\ OnConnection' = OnConnection \ {Sent(m)} /\ InQueue' = InQueue /\ Pending' = Pending \ {Sent(m)}
  <1>1. Handling(m) /\ InStep(m) /\ main' = Rest /\ commands' = commands /\ m.kind # "data"
    BY DEF HandlerCreateBuffer, HandlerCreateProgramWithSource, Creates, queueVars
  <1>2. Sent(m) \in OnConnection /\ OnConnection' = OnConnection \ {Sent(m)}
    BY <1>1, Received
  <1>3. InQueue' = InQueue
    BY <1>1 DEF InQueue
  <1>4. Sent(m) \notin InQueue
    BY <1>1, First
  <1> QED BY <1>1, <1>2, <1>3, <1>4 DEF Pending

(* A command is executed, or fails.                                        *)
LEMMA Executing ==
    ASSUME TypeOK, CallsInOrder, NEW c, Exec(c) \/ ExecFails(c)
    PROVE  /\ commands # <<>> /\ c = Head(commands) /\ commands' = Tail(commands) /\ session = "up"
           /\ c \in Command /\ c \in ToSet(commands) /\ ToSet(commands') \subseteq ToSet(commands)
           /\ OnConnection' = OnConnection /\ InQueue' = InQueue \ {Taken(c)} /\ Pending' = Pending \ {Taken(c)}
           /\ Taken(c) \in Pending /\ Taken(c) \in InQueue /\ c.n \in Nat
           /\ \A x \in Pending' : c.n < x.n
  <1>1. commands # <<>> /\ c = Head(commands) /\ commands' = Tail(commands) /\ main' = main /\ session = "up"
    BY DEF Exec, ExecFails, Done
  <1>2. /\ c \in Command /\ c \in ToSet(commands) /\ ToSet(commands') \subseteq ToSet(commands)
        /\ Taken(c) \in InQueue /\ InQueue' = InQueue \ {Taken(c)} /\ \A x \in InQueue' : c.n < x.n
    BY <1>1, Left
  <1>3. OnConnection' = OnConnection
    BY <1>1 DEF OnConnection
  <1>4. Taken(c).n = c.n /\ c.n \in Nat
    BY <1>2, Fields DEF Command
  <1>5. \A x \in OnConnection : c.n < x.n
    BY <1>2, <1>4 DEF CallsInOrder
  <1>6. Taken(c) \notin OnConnection
    BY <1>4, <1>5
  <1> QED BY <1>1, <1>2, <1>3, <1>4, <1>5, <1>6 DEF Pending

-----------------------------------------------------------------------------
(* The steps.                                                              *)

(* The steps in which a handler waits and a device leaves the queue change *)
(* nothing but this, and replies.                                          *)
Pause == HandlerSleep \/ HandlerWake \/ HandlerReply \/ Unskip \/ UNCHANGED vars
Still == UNCHANGED <<pc, call, seen, mem_id, ids, dropped, main, session, mems, capacity, storage, commands,
                     contents, released, lastRead, sent, expect, crossed, races>>

(* So everything else stays.                                               *)
LEMMA Pausing == ASSUME Pause PROVE Still
  BY DEF Pause, Still, HandlerSleep, HandlerWake, HandlerReply, Unskip, vars, clientVars, sessionVars, queueVars,
         waitVars, deviceVars

(* The steps that neither begin a call nor number a buffer.                *)
Quiet ==
    \/ \E t \in Threads : SendData(t) \/ ReadCounter(t) \/ RecvReply(t)
    \/ \E m : HandlerCreateBuffer(m) \/ HandlerCreateProgramWithSource(m) \/ HandlerEnqueue(m) \/ HandlerGarbled(m)
    \/ \E c : Exec(c) \/ ExecFails(c)
    \/ Pause

(* A step is one of these.                                                 *)
LEMMA StepCases ==
    ASSUME [Next]_vars
    PROVE  \/ \E t \in Threads : \E k \in Kinds : SendHeader(t, k)
           \/ \E t \in Threads : WriteCounter(t)
           \/ Quiet
  BY DEF Next, ThreadStep, SessionStep, DeviceStep, Quiet, Pause

(* Races stay in the history.                                              *)
LEMMA RacesStay == ASSUME [Next]_vars PROVE races \subseteq races'
  <1>1. ASSUME NEW t \in Threads, NEW k \in Kinds, SendHeader(t, k) PROVE races \subseteq races'
    BY <1>1 DEF SendHeader
  <1>2. ASSUME NEW t \in Threads, WriteCounter(t) PROVE races \subseteq races'
    BY <1>2 DEF WriteCounter
  <1>3. CASE Quiet
    BY <1>3, Pausing DEF Quiet, SendData, ReadCounter, RecvReply, HandlerCreateBuffer, HandlerCreateProgramWithSource,
                HandlerEnqueue, HandlerGarbled, Exec, ExecFails, Done, Still
  <1> QED BY <1>1, <1>2, <1>3, StepCases

(* The threads' places are known.                                          *)
LEMMA Places ==
    ASSUME TypeOK
    PROVE  /\ pc \in [Threads -> {"idle", "data", "count", "store", "wait"}] /\ call \in [Threads -> Message]
           /\ seen \in [Threads -> Nat] /\ ids \in [Buffers -> 0 .. MaxBuffers] /\ mem_id \in Nat
  BY DEF TypeOK

(* These steps leave the numbers alone.                                    *)
LEMMA QuietCounts ==
    ASSUME TypeOK, CallsMatch, Quiet
    PROVE  /\ Numbered' = Numbered /\ Creating' = Creating /\ CreatesSent' = CreatesSent
           /\ call' = call /\ ids' = ids /\ mem_id' = mem_id /\ dropped' = dropped /\ sent' = sent
           /\ expect' = expect /\ races' = races
           /\ \A t \in Threads : pc'[t] # "idle" => pc[t] # "idle"
  <1>1. call' = call /\ ids' = ids /\ mem_id' = mem_id /\ dropped' = dropped /\ sent' = sent /\ expect' = expect /\ races' = races
    BY Pausing DEF Quiet, SendData, ReadCounter, RecvReply, HandlerCreateBuffer, HandlerCreateProgramWithSource,
           HandlerEnqueue, HandlerGarbled, Exec, ExecFails, Done, Still, clientVars
  <1>2. Numbered' = Numbered
    BY <1>1 DEF Numbered
  <1>3. pc \in [Threads -> {"idle", "data", "count", "store", "wait"}]
    BY Places
  <1>4. /\ Creating' = Creating
        /\ \A t \in Threads : pc'[t] # "idle" => pc[t] # "idle"
    <2>1. CASE pc' = pc
      BY <1>1, <2>1 DEF Creating
    <2>2. ASSUME NEW t \in Threads, SendData(t)
          PROVE  /\ Creating' = Creating
                 /\ \A u \in Threads : pc'[u] # "idle" => pc[u] # "idle"
      <3>1. pc[t] = "data" /\ pc' = [pc EXCEPT ![t] = IF call[t].kind \in Creates THEN "count"
                               ELSE IF call[t].kind \in Waited THEN "wait" ELSE "idle"]
        BY <2>2 DEF SendData
      <3>2. \A u \in Threads : u # t => pc'[u] = pc[u]
        BY <1>3, <3>1
      <3>3. call[t].kind \in Creates => pc'[t] # "idle"
        BY <1>3, <3>1
      <3> QED BY <1>1, <3>1, <3>2, <3>3 DEF Creating
    <2>3. ASSUME NEW t \in Threads, ReadCounter(t)
          PROVE  /\ Creating' = Creating
                 /\ \A u \in Threads : pc'[u] # "idle" => pc[u] # "idle"
      <3>1. pc[t] = "count" /\ pc' = [pc EXCEPT ![t] = "store"]
        BY <2>3 DEF ReadCounter
      <3>2. \A u \in Threads : u # t => pc'[u] = pc[u]
        BY <1>3, <3>1
      <3>3. pc'[t] = "store"
        BY <1>3, <3>1
      <3> QED BY <1>1, <3>1, <3>2, <3>3 DEF Creating
    <2>4. ASSUME NEW t \in Threads, RecvReply(t)
          PROVE  /\ Creating' = Creating
                 /\ \A u \in Threads : pc'[u] # "idle" => pc[u] # "idle"
      <3>1. pc[t] = "wait" /\ pc' = [pc EXCEPT ![t] = "idle"]
        BY <2>4 DEF RecvReply
      <3>2. \A u \in Threads : u # t => pc'[u] = pc[u]
        BY <1>3, <3>1
      <3>3. pc'[t] = "idle"
        BY <1>3, <3>1
      <3>4. call[t].kind \notin Creates
        BY <3>1 DEF CallsMatch, Waited, Creates
      <3> QED BY <1>1, <3>1, <3>2, <3>3, <3>4 DEF Creating
    <2>5. pc' = pc \/ \E t \in Threads : SendData(t) \/ ReadCounter(t) \/ RecvReply(t)
      BY Pausing DEF Quiet, HandlerCreateBuffer, HandlerCreateProgramWithSource,
             HandlerEnqueue, HandlerGarbled, Exec, ExecFails, Done, Still, clientVars
    <2> QED BY <2>1, <2>2, <2>3, <2>4, <2>5
  <1>5. CreatesSent' = CreatesSent
    BY <1>2, <1>4 DEF CreatesSent
  <1> QED BY <1>1, <1>2, <1>4, <1>5

(* A call that begins may take the next number.                            *)
LEMMA SendingCounts ==
    ASSUME TypeOK, NumbersInOrder, NEW t \in Threads, NEW k \in Kinds, SendHeader(t, k)
    PROVE  /\ Numbered' = Numbered /\ ids' = ids /\ mem_id' = mem_id /\ seen' = seen
           /\ Creating' = Creating \cup (IF k \in Creates THEN {t} ELSE {})
           /\ CreatesSent' = CreatesSent + (IF k \in Creates THEN 1 ELSE 0)
           /\ t \notin Creating /\ call'[t].kind = k
           /\ k \in Creates => call'[t].dst = CreatesSent + 1 /\ CreatesSent + 1 \in Buffers
           /\ \A u \in Threads : u # t => call'[u] = call[u] /\ pc'[u] = pc[u]
           /\ pc'[t] = AfterHeader(k)
  <1>1. ids' = ids /\ mem_id' = mem_id /\ seen' = seen /\ pc[t] = "idle"
    BY DEF SendHeader
  <1>2. Numbered' = Numbered
    BY <1>1 DEF Numbered
  <1>3. PICK o \in Operands(k), m \in Message : Sends(t, k, o, m)
    BY Sending
  <1>4. call' = [call EXCEPT ![t] = m] /\ pc' = [pc EXCEPT ![t] = AfterHeader(k)] /\ m.kind = k
    BY <1>3 DEF Sends
  <1>5. call'[t] = m /\ pc'[t] = AfterHeader(k) /\ \A u \in Threads : u # t => call'[u] = call[u] /\ pc'[u] = pc[u]
    BY <1>4, Places
  <1>6. k \in Creates => AfterHeader(k) # "idle"
    BY DEF AfterHeader
  <1>7. Creating' = Creating \cup (IF k \in Creates THEN {t} ELSE {}) /\ t \notin Creating
    BY <1>1, <1>4, <1>5, <1>6 DEF Creating
  <1>8. k \in Creates => m.dst = CreatesSent + 1 /\ CreatesSent + 1 \in Buffers
    <2>1. k \in Creates => o.dst = CreatesSent + 1 /\ o.dst \in Buffers
      BY OperandCases
    <2>2. m = Request(k, sent + 1, o) /\ sent + 1 \in Nat
      BY <1>3, Typed DEF Sends
    <2>3. k \in Creates => m.dst = o.dst
      BY <2>2, RequestFields
    <2> QED BY <2>1, <2>3
  <1>9. Cardinality(Creating') = Cardinality(Creating) + (IF k \in Creates THEN 1 ELSE 0)
    <2>1. CASE k \in Creates
      BY <1>7, <2>1, Counts, FS_AddElement
    <2>2. CASE k \notin Creates
      <3>1. Creating' = Creating
        BY <1>7, <2>2
      <3> QED BY <2>2, <3>1, Counts
    <2> QED BY <2>1, <2>2
  <1>10. CreatesSent' = CreatesSent + (IF k \in Creates THEN 1 ELSE 0)
    BY <1>2, <1>9, Counts DEF CreatesSent
  <1> QED BY <1>1, <1>2, <1>4, <1>5, <1>7, <1>8, <1>10

(* A call that ends has given its buffer an id.                            *)
LEMMA StoringCounts ==
    ASSUME TypeOK, CallsMatch, NumbersInOrder, NEW t \in Threads, WriteCounter(t)
    PROVE  /\ Numbered' = Numbered \cup {call[t].dst} /\ call[t].dst \in Buffers \ Numbered
           /\ Creating' = Creating \ {t} /\ t \in Creating /\ call' = call
           /\ CreatesSent' = CreatesSent /\ Cardinality(Numbered') = Cardinality(Numbered) + 1
           /\ ids'[call[t].dst] = seen[t] /\ seen[t] \in Nat /\ seen[t] < Cardinality(Numbered')
           /\ Cardinality(Numbered') <= MaxBuffers
           /\ \A b \in Buffers : b # call[t].dst => ids'[b] = ids[b]
           /\ pc'[t] = "idle" /\ \A u \in Threads : u # t => pc'[u] = pc[u]
           /\ ids' \in [Buffers -> 0 .. MaxBuffers]
  <1>1. pc[t] = "store" /\ pc' = [pc EXCEPT ![t] = "idle"] /\ ids' = [ids EXCEPT ![call[t].dst] = seen[t]] /\ call' = call
    BY DEF WriteCounter, NewId
  <1>2. pc'[t] = "idle" /\ \A u \in Threads : u # t => pc'[u] = pc[u]
    BY <1>1, Places
  <1>3. t \in Creating
    BY <1>1 DEF CallsMatch, Creating
  <1>4. call[t].dst \in Buffers \ Numbered
    BY <1>3 DEF NumbersInOrder
  <1>5. Creating' = Creating \ {t}
    BY <1>1, <1>2 DEF Creating
  <1>6. seen[t] \in Nat /\ seen[t] <= Cardinality(Numbered)
    BY <1>1, Places DEF NumbersInOrder
  <1>7. Cardinality(Creating') = Cardinality(Creating) - 1 /\ Cardinality(Creating) \in Nat
    BY <1>3, <1>5, Counts, FS_RemoveElement
  <1>8. Cardinality(Creating') \in Nat
    <2>1. IsFiniteSet(Creating')
      BY <1>5, Counts, FS_RemoveElement
    <2> QED BY <2>1, FS_CardinalityType
  <1>9. Cardinality(Numbered) + 1 <= MaxBuffers
    BY <1>7, <1>8, Counts, Typed DEF CreatesSent
  <1>10. seen[t] # NoId /\ seen[t] \in 0 .. MaxBuffers
    BY <1>6, <1>9, Counts, Typed DEF NoId
  <1>11. ids'[call[t].dst] = seen[t] /\ \A b \in Buffers : b # call[t].dst => ids'[b] = ids[b]
    BY <1>1, <1>4, Places
  <1>12. Numbered' = Numbered \cup {call[t].dst}
    BY <1>4, <1>10, <1>11 DEF Numbered
  <1>13. Cardinality(Numbered') = Cardinality(Numbered) + 1
    BY <1>4, <1>12, Counts, FS_AddElement
  <1>14. CreatesSent' = CreatesSent
    BY <1>7, <1>13, Counts DEF CreatesSent
  <1>15. ids' \in [Buffers -> 0 .. MaxBuffers]
    BY <1>1, <1>10, Places
  <1> QED BY <1>1, <1>2, <1>3, <1>4, <1>5, <1>6, <1>9, <1>11, <1>12, <1>13, <1>14, <1>15, Counts

(* Buffers keep their numbers.                                             *)
LEMMA NumbersStep ==
    ASSUME TypeOK, CallsMatch, NumbersInOrder, [Next]_vars
    PROVE  NumbersInOrder'
  <1>1. ASSUME NEW t \in Threads, NEW k \in Kinds, SendHeader(t, k) PROVE NumbersInOrder'
    <2>1. /\ Numbered' = Numbered /\ ids' = ids /\ mem_id' = mem_id /\ seen' = seen
          /\ Creating' = Creating \cup (IF k \in Creates THEN {t} ELSE {})
          /\ CreatesSent' = CreatesSent + (IF k \in Creates THEN 1 ELSE 0)
          /\ t \notin Creating
          /\ k \in Creates => call'[t].dst = CreatesSent + 1 /\ CreatesSent + 1 \in Buffers
          /\ \A u \in Threads : u # t => call'[u] = call[u] /\ pc'[u] = pc[u]
          /\ pc'[t] = AfterHeader(k)
      BY <1>1, SendingCounts
    <2>2. CreatesSent \in Nat /\ Numbered \subseteq 1 .. CreatesSent
      BY Counts
    <2>3. \A u \in Creating : call'[u] = call[u]
      BY <2>1 DEF Creating
    <2>4. \A u \in Creating : call[u].dst \in 1 .. CreatesSent /\ call[u].dst \in Buffers \ Numbered
      BY DEF NumbersInOrder
    <2>5. Numbered \cup {call[u].dst : u \in Creating} = 1 .. CreatesSent
      BY DEF NumbersInOrder
    <2>6. \A u \in Creating' : call'[u].dst \in Buffers \ Numbered
      BY <2>1, <2>2, <2>3, <2>4
    <2>7. \A u, v \in Creating' : u # v => call'[u].dst # call'[v].dst
      <3>1. \A u, v \in Creating : u # v => call[u].dst # call[v].dst
        BY DEF NumbersInOrder
      <3> QED BY <2>1, <2>2, <2>3, <2>4, <3>1
    <2>8. Numbered \cup {call'[u].dst : u \in Creating'} = 1 .. CreatesSent'
      <3>1. {call'[u].dst : u \in Creating} = {call[u].dst : u \in Creating}
        BY <2>3
      <3>2. CASE k \in Creates
        <4>1. {call'[u].dst : u \in Creating'} = {call[u].dst : u \in Creating} \cup {CreatesSent + 1}
          BY <2>1, <3>1, <3>2
        <4>2. 1 .. CreatesSent + 1 = (1 .. CreatesSent) \cup {CreatesSent + 1}
          BY <2>2
        <4> QED BY <2>1, <2>5, <3>2, <4>1, <4>2
      <3>3. CASE k \notin Creates
        <4>1. Creating' = Creating /\ CreatesSent' = CreatesSent
          BY <2>1, <2>2, <3>3
        <4> QED BY <2>5, <3>1, <4>1
      <3> QED BY <3>2, <3>3
    <2>9. pc'[t] # "store"
      BY <2>1 DEF AfterHeader
    <2>10. \A u \in Threads : pc'[u] = "store" => seen'[u] <= Cardinality(Numbered)
      BY <2>1, <2>9 DEF NumbersInOrder
    <2>11. mem_id <= Cardinality(Numbered) /\ \A b \in Numbered : ids[b] < Cardinality(Numbered)
      BY DEF NumbersInOrder
    <2> QED BY <2>1, <2>6, <2>7, <2>8, <2>10, <2>11 DEF NumbersInOrder
  <1>2. ASSUME NEW t \in Threads, WriteCounter(t) PROVE NumbersInOrder'
    <2>1. /\ Numbered' = Numbered \cup {call[t].dst} /\ call[t].dst \in Buffers \ Numbered
          /\ Creating' = Creating \ {t} /\ t \in Creating /\ call' = call
          /\ CreatesSent' = CreatesSent /\ Cardinality(Numbered') = Cardinality(Numbered) + 1
          /\ ids'[call[t].dst] = seen[t] /\ seen[t] \in Nat /\ seen[t] < Cardinality(Numbered')
          /\ \A b \in Buffers : b # call[t].dst => ids'[b] = ids[b]
          /\ pc'[t] = "idle" /\ \A u \in Threads : u # t => pc'[u] = pc[u]
      BY <1>2, StoringCounts
    <2>2. mem_id' = seen[t] + 1 /\ seen' = seen
      BY <1>2 DEF WriteCounter
    <2>3. Cardinality(Numbered) \in Nat /\ \A b \in Numbered : b \in Buffers /\ ids[b] \in Nat
      BY Counts DEF Numbered
    <2>4. \A u \in Creating' : call'[u].dst \in Buffers \ Numbered'
      BY <2>1 DEF NumbersInOrder
    <2>5. \A u, v \in Creating' : u # v => call'[u].dst # call'[v].dst
      BY <2>1 DEF NumbersInOrder
    <2>6. Numbered' \cup {call'[u].dst : u \in Creating'} = 1 .. CreatesSent'
      <3>1. Numbered \cup {call[u].dst : u \in Creating} = 1 .. CreatesSent
        BY DEF NumbersInOrder
      <3> QED BY <2>1, <3>1
    <2>7. mem_id' <= Cardinality(Numbered')
      BY <2>1, <2>2, <2>3
    <2>8. \A u \in Threads : pc'[u] = "store" => seen'[u] <= Cardinality(Numbered')
      <3> SUFFICES ASSUME NEW u \in Threads, pc'[u] = "store" PROVE seen[u] <= Cardinality(Numbered) + 1
        BY <2>1, <2>2
      <3>1. u # t /\ pc[u] = "store"
        BY <2>1
      <3>2. seen[u] <= Cardinality(Numbered) /\ seen[u] \in Nat
        BY <3>1, Places DEF NumbersInOrder
      <3> QED BY <2>3, <3>2
    <2>9. \A b \in Numbered' : ids'[b] < Cardinality(Numbered')
      <3>1. \A b \in Numbered : ids[b] < Cardinality(Numbered)
        BY DEF NumbersInOrder
      <3> QED BY <2>1, <2>3, <3>1
    <2> QED BY <2>4, <2>5, <2>6, <2>7, <2>8, <2>9 DEF NumbersInOrder
  <1>3. CASE Quiet
    <2>1. Numbered' = Numbered /\ Creating' = Creating /\ CreatesSent' = CreatesSent /\ call' = call /\ ids' = ids /\ mem_id' = mem_id
      BY <1>3, QuietCounts
    <2>2. \A u \in Threads : pc'[u] = "store" => seen'[u] <= Cardinality(Numbered)
      <3>1. ASSUME NEW t \in Threads, ReadCounter(t) PROVE \A u \in Threads : pc'[u] = "store" => seen'[u] <= Cardinality(Numbered)
        <4>1. seen' = [seen EXCEPT ![t] = mem_id] /\ pc' = [pc EXCEPT ![t] = "store"]
          BY <3>1 DEF ReadCounter
        <4>2. seen'[t] = mem_id /\ \A u \in Threads : u # t => seen'[u] = seen[u] /\ pc'[u] = pc[u]
          BY <4>1, Places
        <4> QED BY <4>2 DEF NumbersInOrder
      <3>2. ASSUME NEW t \in Threads, SendData(t) PROVE \A u \in Threads : pc'[u] = "store" => seen'[u] <= Cardinality(Numbered)
        <4>1. seen' = seen /\ pc' = [pc EXCEPT ![t] = IF call[t].kind \in Creates THEN "count"
                               ELSE IF call[t].kind \in Waited THEN "wait" ELSE "idle"]
          BY <3>2 DEF SendData
        <4>2. pc'[t] # "store" /\ \A u \in Threads : u # t => pc'[u] = pc[u]
          BY <4>1, Places
        <4> QED BY <4>1, <4>2 DEF NumbersInOrder
      <3>3. ASSUME NEW t \in Threads, RecvReply(t) PROVE \A u \in Threads : pc'[u] = "store" => seen'[u] <= Cardinality(Numbered)
        <4>1. seen' = seen /\ pc' = [pc EXCEPT ![t] = "idle"]
          BY <3>3 DEF RecvReply
        <4>2. pc'[t] # "store" /\ \A u \in Threads : u # t => pc'[u] = pc[u]
          BY <4>1, Places
        <4> QED BY <4>1, <4>2 DEF NumbersInOrder
      <3>4. CASE pc' = pc /\ seen' = seen
        BY <3>4 DEF NumbersInOrder
      <3>5. (pc' = pc /\ seen' = seen) \/ \E t \in Threads : SendData(t) \/ ReadCounter(t) \/ RecvReply(t)
        BY <1>3, Pausing DEF Quiet, HandlerCreateBuffer, HandlerCreateProgramWithSource,
               HandlerEnqueue, HandlerGarbled, Exec, ExecFails, Done, Still, clientVars
      <3> QED BY <3>1, <3>2, <3>3, <3>4, <3>5
    <2> QED BY <2>1, <2>2 DEF NumbersInOrder
  <1> QED BY <1>1, <1>2, <1>3, StepCases

(* Calls keep their numbers.                                               *)
LEMMA CallsStep ==
    ASSUME TypeOK, CallsMatch, NumbersInOrder, [Next]_vars
    PROVE  CallsMatch'
  <1>0. sent \in Nat /\ \A t \in Threads : call[t].n \in Nat
    BY Typed, Places DEF Message
  <1>1. ASSUME NEW t \in Threads, NEW k \in Kinds, SendHeader(t, k) PROVE CallsMatch'
    <2>1. PICK o \in Operands(k), m \in Message : Sends(t, k, o, m)
      BY <1>1, Sending
    <2>2. m.n = sent + 1 /\ m.kind = k /\ sent' = sent + 1 /\ call' = [call EXCEPT ![t] = m] /\ pc' = [pc EXCEPT ![t] = AfterHeader(k)]
      BY <2>1 DEF Sends
    <2>3. call'[t] = m /\ pc'[t] = AfterHeader(k) /\ \A u \in Threads : u # t => call'[u] = call[u] /\ pc'[u] = pc[u]
      BY <2>2, Places
    <2>4. /\ AfterHeader(k) = "data" => k \in WithData
          /\ AfterHeader(k) \in {"count", "store"} => k \in Creates
          /\ AfterHeader(k) = "wait" => k \in Waited
      BY DEF AfterHeader
    <2>5. \A u \in Threads : u # t => call'[u].n \in Nat /\ call'[u].n <= sent
      BY <1>0, <2>3 DEF CallsMatch
    <2>6. ASSUME NEW u \in Threads
          PROVE  /\ pc'[u] = "data" => call'[u].kind \in WithData
                 /\ pc'[u] \in {"count", "store"} => call'[u].kind \in Creates
                 /\ pc'[u] = "wait" => call'[u].kind \in Waited
                 /\ call'[u].n <= sent' /\ (pc'[u] # "idle" => call'[u].n > 0)
      <3>1. CASE u = t
        BY <1>0, <2>2, <2>3, <2>4, <3>1
      <3>2. CASE u # t
        <4>1. call'[u].n <= sent'
          BY <1>0, <2>2, <2>5, <3>2
        <4> QED BY <2>3, <3>2, <4>1 DEF CallsMatch
      <3> QED BY <3>1, <3>2
    <2>7. ASSUME NEW u \in Threads, NEW v \in Threads, u # v, pc'[u] # "idle" PROVE call'[u].n # call'[v].n
      <3>1. CASE u # t /\ v # t
        BY <2>3, <2>7, <3>1 DEF CallsMatch
      <3>2. CASE u = t \/ v = t
        BY <1>0, <2>2, <2>3, <2>5, <2>7, <3>2
      <3> QED BY <3>1, <3>2
    <2> QED BY <2>6, <2>7 DEF CallsMatch
  <1>2. ASSUME call' = call, sent' = sent, NEW t \in Threads, pc[t] # "idle",
               NEW p, pc' = [pc EXCEPT ![t] = p],
               p = "data" => call[t].kind \in WithData,
               p \in {"count", "store"} => call[t].kind \in Creates,
               p = "wait" => call[t].kind \in Waited
        PROVE  CallsMatch'
    <2>1. pc'[t] = p /\ \A u \in Threads : u # t => pc'[u] = pc[u]
      BY <1>2, Places
    <2> QED BY <1>2, <2>1 DEF CallsMatch
  <1>3. ASSUME NEW t \in Threads, WriteCounter(t) PROVE CallsMatch'
    BY <1>2, <1>3 DEF WriteCounter
  <1>4. ASSUME NEW t \in Threads, SendData(t) PROVE CallsMatch'
    <2> DEFINE p == IF call[t].kind \in Creates THEN "count" ELSE IF call[t].kind \in Waited THEN "wait" ELSE "idle"
    <2>1. /\ p = "data" => call[t].kind \in WithData
          /\ p \in {"count", "store"} => call[t].kind \in Creates
          /\ p = "wait" => call[t].kind \in Waited
      OBVIOUS
    <2>2. pc' = [pc EXCEPT ![t] = p] /\ call' = call /\ sent' = sent /\ pc[t] # "idle"
      BY <1>4 DEF SendData
    <2> HIDE DEF p
    <2> QED BY <1>2, <2>1, <2>2
  <1>5. ASSUME NEW t \in Threads, ReadCounter(t) PROVE CallsMatch'
    <2>1. call[t].kind \in Creates
      BY <1>5 DEF ReadCounter, CallsMatch
    <2> QED BY <1>2, <1>5, <2>1 DEF ReadCounter
  <1>6. ASSUME NEW t \in Threads, RecvReply(t) PROVE CallsMatch'
    BY <1>2, <1>6 DEF RecvReply
  <1>7. CASE pc' = pc /\ call' = call /\ sent' = sent
    BY <1>7 DEF CallsMatch
  <1>8. CASE Quiet
    <2>1. (pc' = pc /\ call' = call /\ sent' = sent) \/ \E t \in Threads : SendData(t) \/ ReadCounter(t) \/ RecvReply(t)
      BY <1>8, Pausing DEF Quiet, HandlerCreateBuffer, HandlerCreateProgramWithSource,
             HandlerEnqueue, HandlerGarbled, Exec, ExecFails, Done, Still, clientVars
    <2> QED BY <1>4, <1>5, <1>6, <1>7, <2>1
  <1> QED BY <1>1, <1>3, <1>8, StepCases

(* Types: a call begins.                                                   *)
LEMMA SendHeaderType ==
    ASSUME TypeOK, CallsMatch, NumbersInOrder, NEW t \in Threads, NEW k \in Kinds, SendHeader(t, k)
    PROVE  TypeOK'
  <1>1. PICK o \in Operands(k), m \in Message :
           /\ Sends(t, k, o, m)
           /\ expect' = Expected(k, sent + 1, o)
           /\ dropped' = IF k = "release" THEN dropped \cup {o.dst} ELSE dropped
    BY Sending
  <1>2. /\ main' = Append(main, m) /\ sent < MaxCalls /\ sent' = sent + 1 /\ call' = [call EXCEPT ![t] = m]
        /\ pc' = [pc EXCEPT ![t] = AfterHeader(k)]
    BY <1>1 DEF Sends
  <1>3. main' \in Seq(Message)
    BY <1>2, Appended
  <1>4. sent' \in 0 .. MaxCalls
    <2>1. sent \in 0 .. MaxCalls
      BY DEF TypeOK
    <2>2. MaxCalls \in Nat
      BY Typed
    <2>3. sent < MaxCalls /\ sent' = sent + 1
      BY <1>2
    <2> QED BY <2>1, <2>2, <2>3
  <1>5. call' \in [Threads -> Message]
    BY <1>2, Places
  <1>6. pc' \in [Threads -> {"idle", "data", "count", "store", "wait"}]
    <2>1. AfterHeader(k) \in {"idle", "data", "count", "store", "wait"}
      BY DEF AfterHeader
    <2> QED BY <1>2, <2>1, Places
  <1>7. Numbered' = Numbered
    BY SendingCounts
  <1>8. dropped' \subseteq Numbered
    <2>1. k = "release" => o.dst \in Numbered
      BY OperandCases DEF Known
    <2> QED BY <1>1, <2>1 DEF TypeOK
  <1>9. expect' \in [Buffers -> Nat]
    <2>1. expect \in [Buffers -> Nat] /\ sent + 1 \in Nat
      BY Typed DEF TypeOK
    <2>2. k = "copy" => expect[o.src] \in Nat
      BY <2>1, OperandCases DEF Known, Numbered
    <2> QED BY <1>1, <2>1, <2>2 DEF Expected
  <1>10. /\ UNCHANGED <<seen, mem_id, ids, replies, session, blockedOn, handler, device, mems, capacity,
                        storage, commands, contents, released, lastRead, crossed>>
    BY DEF SendHeader, sessionVars, queueVars, waitVars, deviceVars
  <1> QED BY <1>3, <1>4, <1>5, <1>6, <1>7, <1>8, <1>9, <1>10 DEF TypeOK

(* Types: the other steps of a thread.                                     *)
LEMMA ThreadType ==
    ASSUME TypeOK, CallsMatch, NumbersInOrder, NEW t \in Threads, ThreadStep(t)
    PROVE  TypeOK'
  <1>1. ASSUME SendData(t) PROVE TypeOK'
    <2>1. [call[t] EXCEPT !.kind = "data"] \in Message
      BY Places DEF Message
    <2>2. main' \in Seq(Message)
      BY <1>1, <2>1, Appended DEF SendData
    <2>3. pc' \in [Threads -> {"idle", "data", "count", "store", "wait"}]
      BY <1>1, Places DEF SendData
    <2>4. UNCHANGED <<call, seen, mem_id, ids, dropped, replies, session, blockedOn, handler, device, mems,
                      capacity, storage, commands, contents, released, lastRead, sent, expect, crossed>>
      BY <1>1 DEF SendData, sessionVars, queueVars, waitVars, deviceVars
    <2> QED BY <2>2, <2>3, <2>4 DEF TypeOK, Numbered
  <1>2. ASSUME ReadCounter(t) PROVE TypeOK'
    <2>1. pc' \in [Threads -> {"idle", "data", "count", "store", "wait"}] /\ seen' \in [Threads -> Nat]
      BY <1>2, Places DEF ReadCounter
    <2>2. UNCHANGED <<call, mem_id, ids, dropped, main, replies, session, blockedOn, handler, device, mems,
                      capacity, storage, commands, contents, released, lastRead, sent, expect, crossed>>
      BY <1>2 DEF ReadCounter, sessionVars, queueVars, waitVars, deviceVars
    <2> QED BY <2>1, <2>2 DEF TypeOK, Numbered
  <1>3. ASSUME WriteCounter(t) PROVE TypeOK'
    <2>1. pc' \in [Threads -> {"idle", "data", "count", "store", "wait"}] /\ mem_id' \in Nat
      BY <1>3, Places DEF WriteCounter
    <2>2. ids' \in [Buffers -> 0 .. MaxBuffers] /\ Numbered \subseteq Numbered'
      BY <1>3, StoringCounts
    <2>3. UNCHANGED <<call, seen, dropped, main, replies, session, blockedOn, handler, device, mems,
                      capacity, storage, commands, contents, released, lastRead, sent, expect, crossed>>
      BY <1>3 DEF WriteCounter, sessionVars, queueVars, waitVars, deviceVars
    <2> QED BY <2>1, <2>2, <2>3 DEF TypeOK
  <1>4. ASSUME RecvReply(t) PROVE TypeOK'
    <2>1. pc' \in [Threads -> {"idle", "data", "count", "store", "wait"}]
      BY <1>4, Places DEF RecvReply
    <2>2. replies' \in Seq(Nat)
      BY <1>4, HeadTailProperties DEF RecvReply, TypeOK
    <2>3. crossed' \in BOOLEAN
      BY <1>4 DEF RecvReply, TypeOK
    <2>4. UNCHANGED <<call, seen, mem_id, ids, dropped, main, session, blockedOn, handler, device, mems,
                      capacity, storage, commands, contents, released, lastRead, sent, expect>>
      BY <1>4 DEF RecvReply, sessionVars, queueVars, waitVars, deviceVars
    <2> QED BY <2>1, <2>2, <2>3, <2>4 DEF TypeOK, Numbered
  <1> QED BY <1>1, <1>2, <1>3, <1>4 DEF ThreadStep

(* The session's vector: places are buffers.                               *)
LEMMA Vector ==
    ASSUME TypeOK, NumbersInOrder, CreatesInOrder
    PROVE  /\ Len(mems) \in Nat /\ Len(mems) <= CreatesSent /\ CreatesSent <= MaxBuffers
           /\ 1 .. Len(mems) \subseteq Buffers /\ \A i \in 1 .. Len(mems) : mems[i] = i
           /\ \A b \in Buffers : contents[b] \in Nat
  <1>1. Len(mems) \in Nat /\ DOMAIN mems = 1 .. Len(mems) /\ MaxBuffers \in Nat
    BY Typed
  <1>2. Len(mems) <= CreatesSent /\ \A i \in 1 .. Len(mems) : mems[i] = i
    BY <1>1 DEF CreatesInOrder
  <1>3. CreatesSent \in Nat /\ CreatesSent <= MaxBuffers
    BY Counts
  <1>4. \A b \in Buffers : contents[b] \in Nat
    BY DEF TypeOK
  <1> QED BY <1>1, <1>2, <1>3, <1>4 DEF Buffers

(* A create adds the next buffer to it.                                    *)
LEMMA NextCreate ==
    ASSUME TypeOK, NumbersInOrder, CallsInOrder, CreatesInOrder, NEW m, HandlerCreateBuffer(m)
    PROVE  /\ m.dst = Len(mems) + 1 /\ Sent(m).to = m.dst /\ Sent(m).kind = m.kind /\ Sent(m).n = m.n
           /\ Sent(m) \in Pending /\ m.dst \in Buffers /\ m.dst <= CreatesSent /\ m.kind \in Creates
           /\ m.n \in Nat
  <1>1. /\ Sent(m) \in OnConnection /\ Handling(m) /\ m.kind # "data" /\ m.kind \in Creates
    BY Finishing DEF HandlerCreateBuffer
  <1>2. Sent(m).to = m.dst /\ Sent(m).kind = m.kind /\ Sent(m).n = m.n /\ Sent(m) \in Pending /\ m.n \in Nat
    BY <1>1, Fields, First DEF Pending
  <1>3. m.dst \in Len(mems) + 1 .. CreatesSent
    BY <1>1, <1>2 DEF CreatesInOrder
  <1>4. Len(mems) \in Nat /\ CreatesSent \in Nat /\ CreatesSent <= MaxBuffers /\ MaxBuffers \in Nat
    BY Counts, Typed
  <1>5. Len(mems) + 1 \in Len(mems) + 1 .. CreatesSent
    BY <1>3, <1>4
  <1>6. PICK x \in Pending : x.kind \in Creates /\ x.to = Len(mems) + 1
    BY <1>5 DEF CreatesInOrder
  <1>7. x \in OnConnection
    BY <1>6, QueuedKinds DEF Pending
  <1>8. x = Sent(m) \/ Sent(m).n < x.n
    BY <1>1, <1>2, <1>7, First
  <1>9. x = Sent(m) \/ m.dst < Len(mems) + 1
    BY <1>1, <1>2, <1>6, <1>8 DEF CreatesInOrder
  <1>10. m.dst = Len(mems) + 1
    BY <1>2, <1>3, <1>4, <1>6, <1>9
  <1> QED BY <1>1, <1>2, <1>3, <1>4, <1>10 DEF Buffers

(* Types: the session's steps.                                             *)
LEMMA SessionType ==
    ASSUME TypeOK, CallsMatch, NumbersInOrder, CallsInOrder, CreatesInOrder, OperandsThere, NEW m,
           HandlerCreateBuffer(m) \/ HandlerCreateProgramWithSource(m) \/ HandlerEnqueue(m) \/ HandlerGarbled(m)
    PROVE  TypeOK'
  <1>1. ASSUME HandlerCreateBuffer(m) PROVE TypeOK'
    <2>1. Handling(m) /\ m \in Message /\ m.dst \in Nat /\ m.n \in Nat
      BY <1>1, AtHead DEF HandlerCreateBuffer, Message
    <2>2. main' \in Seq(Message)
      BY <1>1, Finishing, Removed
    <2>3. mems \in Seq(Nat) /\ capacity \in Nat /\ storage \in Nat /\ Len(mems) <= capacity /\ Len(mems) \in Nat
      BY Typed DEF TypeOK
    <2>4. mems' \in Seq(Nat) /\ Len(mems') = Len(mems) + 1
      BY <1>1, <2>1, <2>3, AppendProperties DEF HandlerCreateBuffer
    <2>5. capacity' \in Nat /\ storage' \in Nat /\ Len(mems') <= capacity'
      <3>1. CASE Len(mems) = capacity
        <4>1. capacity' = (IF capacity = 0 THEN 1 ELSE 2 * capacity) /\ storage' = storage + 1
          BY <1>1, <3>1 DEF HandlerCreateBuffer
        <4> QED BY <2>3, <2>4, <3>1, <4>1
      <3>2. CASE Len(mems) # capacity
        <4>1. capacity' = capacity /\ storage' = storage
          BY <1>1, <3>2 DEF HandlerCreateBuffer
        <4> QED BY <2>3, <2>4, <3>2, <4>1
      <3> QED BY <3>1, <3>2
    <2>6. contents' \in [Buffers -> Nat]
      <3>1. contents \in [Buffers -> Nat] /\ contents' = [contents EXCEPT ![m.dst] = IF m.kind = "createFrom" THEN m.n ELSE 0]
        BY <1>1 DEF HandlerCreateBuffer, TypeOK
      <3> QED BY <2>1, <3>1
    <2>7. replies' \in Seq(Nat)
      <3>1. replies \in Seq(Nat) /\ replies' = Answered(m)
        BY <1>1 DEF HandlerCreateBuffer, TypeOK
      <3> QED BY <2>1, <3>1, AppendProperties DEF Answered
    <2>8. UNCHANGED <<pc, call, seen, mem_id, ids, dropped, session, blockedOn, handler, device, commands,
                      released, lastRead, sent, expect, crossed>>
      BY <1>1 DEF HandlerCreateBuffer, clientVars, queueVars, waitVars
    <2> QED BY <2>2, <2>4, <2>5, <2>6, <2>7, <2>8 DEF TypeOK, Numbered
  <1>2. ASSUME HandlerCreateProgramWithSource(m) PROVE TypeOK'
    <2>1. Handling(m) /\ m.n \in Nat
      BY <1>2, AtHead DEF HandlerCreateProgramWithSource, Message
    <2>2. main' \in Seq(Message)
      BY <1>2, Finishing, Removed
    <2>3. replies' \in Seq(Nat)
      <3>1. replies \in Seq(Nat) /\ replies' = Answered(m)
        BY <1>2 DEF HandlerCreateProgramWithSource, TypeOK
      <3> QED BY <2>1, <3>1, AppendProperties DEF Answered
    <2>4. UNCHANGED <<pc, call, seen, mem_id, ids, dropped, session, blockedOn, handler, device, mems,
                      capacity, storage, commands, contents, released, lastRead, sent, expect, crossed>>
      BY <1>2 DEF HandlerCreateProgramWithSource, clientVars, sessionVars, queueVars, waitVars, deviceVars
    <2> QED BY <2>2, <2>3, <2>4 DEF TypeOK, Numbered
  <1>3. ASSUME HandlerEnqueue(m) PROVE TypeOK'
    <2>1. Handling(m) /\ m.n \in Nat /\ CommandFor(m) \in Command
      BY <1>3, AtHead, SameCommand DEF HandlerEnqueue, Message
    <2>2. main' \in Seq(Message)
      BY <1>3, Queueing, Removed
    <2>3. commands' \in Seq(Command)
      BY <1>3, <2>1, Joined DEF HandlerEnqueue, Pushed
    <2>4. /\ blockedOn' \in Nat /\ handler' \in {"ready", "pushed", "asleep", "missed", "woken"}
          /\ device' \in {"ready", "leaving", "stalled"}
      BY <1>3, <2>1 DEF HandlerEnqueue, Announced, TypeOK, waitVars
    <2>5. UNCHANGED <<pc, call, seen, mem_id, ids, dropped, replies, session, mems, capacity, storage,
                      contents, released, lastRead, sent, expect, crossed>>
      BY <1>3 DEF HandlerEnqueue, clientVars, sessionVars, queueVars, waitVars, deviceVars
    <2> QED BY <2>2, <2>3, <2>4, <2>5 DEF TypeOK, Numbered
  <1>4. ASSUME HandlerGarbled(m) PROVE TypeOK'
    <2>1. session' = "garbled"
      BY <1>4 DEF HandlerGarbled
    <2>2. UNCHANGED <<pc, call, seen, mem_id, ids, dropped, main, replies, blockedOn, handler, device,
                      mems, capacity, storage, commands, contents, released, lastRead, sent, expect,
                      crossed>>
      BY <1>4 DEF HandlerGarbled, clientVars, sessionVars, queueVars, waitVars, deviceVars
    <2> QED BY <2>1, <2>2 DEF TypeOK, Numbered
  <1> QED BY <1>1, <1>2, <1>3, <1>4

(* Types: the device's steps.                                              *)
LEMMA DeviceType ==
    ASSUME TypeOK, CallsMatch, NumbersInOrder, CallsInOrder, CreatesInOrder, OperandsThere, NEW c,
           Exec(c) \/ ExecFails(c)
    PROVE  TypeOK'
  <1>1. c \in Command /\ c \in ToSet(commands) /\ c.n \in Nat /\ c.want \in Nat
    BY Executing DEF Command
  <1>2. commands' \in Seq(Command)
    BY Executing, Left
  <1>3. /\ handler' \in {"ready", "pushed", "asleep", "missed", "woken"}
        /\ device' \in {"ready", "leaving", "stalled"}
    BY DEF Exec, ExecFails, Done, TypeOK
  <1>4. UNCHANGED <<pc, call, seen, mem_id, ids, dropped, main, replies, blockedOn, mems, capacity, storage,
                    sent, expect, crossed>>
    BY DEF Exec, ExecFails, Done, clientVars, sessionVars
  <1>5. session' \in {"up", "garbled", "aborted"}
    BY DEF Exec, ExecFails, TypeOK
  <1>6. contents \in [Buffers -> Nat] /\ released \subseteq Buffers /\ lastRead \in [got : Nat, want : Nat]
    BY DEF TypeOK
  <1>7. contents' \in [Buffers -> Nat] /\ released' \subseteq Buffers /\ lastRead' \in [got : Nat, want : Nat]
    <2>1. CASE ExecFails(c)
      BY <1>6, <2>1 DEF ExecFails, queueVars, waitVars, deviceVars
    <2>2. CASE Exec(c)
      <3>1. c.kind # "read" => c.dst \in Buffers
        BY <1>1, Vector DEF OperandsThere
      <3>2. c.kind = "copy" => c.src \in Buffers
        BY <1>1, Vector DEF OperandsThere
      <3>3. CASE c.kind = "read" /\ (\E v \in Found(c) : lastRead' = [got |-> v, want |-> c.want])
                 /\ UNCHANGED <<contents, released>>
        <4>1. PICK v \in Found(c) : lastRead' = [got |-> v, want |-> c.want]
          BY <3>3
        <4>2. c.slot \in 1 .. Len(mems)
          BY <1>1, <3>3 DEF OperandsThere
        <4>3. Found(c) \subseteq Nat
          <5>1. mems[c.slot] \in Buffers
            BY <4>2, Vector
          <5> QED BY <5>1, Vector DEF Found
        <4> QED BY <1>1, <1>6, <3>3, <4>1, <4>3
      <3>4. CASE c.kind \in Writes /\ contents' = [contents EXCEPT ![c.dst] = c.n] /\ UNCHANGED <<released, lastRead>>
        BY <1>1, <1>6, <3>4
      <3>5. CASE c.kind = "copy" /\ contents' = Copied(c) /\ UNCHANGED <<released, lastRead>>
        BY <1>6, <3>2, <3>5 DEF Copied
      <3>6. CASE c.kind = "release" /\ released' = released \cup {c.dst} /\ UNCHANGED <<contents, lastRead>>
        BY <1>6, <3>1, <3>6
      <3> QED BY <2>2, <3>3, <3>4, <3>5, <3>6 DEF Exec
    <2> QED BY <2>1, <2>2
  <1> QED BY <1>2, <1>3, <1>4, <1>5, <1>7 DEF TypeOK, Numbered

(* Types.                                                                  *)
LEMMA TypeStep ==
    ASSUME TypeOK, CallsMatch, NumbersInOrder, CallsInOrder, CreatesInOrder, OperandsThere, [Next]_vars
    PROVE  TypeOK'
  <1>1. CASE Pause
    <2>1. replies' \in Seq(Nat) /\ blockedOn' \in Nat
      <3>1. replies \in Seq(Nat) /\ blockedOn \in Nat
        BY DEF TypeOK
      <3>2. \/ replies' = replies /\ blockedOn' = blockedOn
            \/ replies' = Append(replies, blockedOn) /\ blockedOn' = 0
        BY <1>1 DEF Pause, HandlerSleep, HandlerWake, HandlerReply, Unskip, vars, waitVars
      <3> QED BY <3>1, <3>2, AppendProperties
    <2>2. /\ handler' \in {"ready", "pushed", "asleep", "missed", "woken"}
          /\ device' \in {"ready", "leaving", "stalled"}
      BY <1>1 DEF Pause, HandlerSleep, HandlerWake, HandlerReply, Unskip, vars, waitVars, queueVars, TypeOK
    <2> QED BY <1>1, <2>1, <2>2, Pausing DEF Still, TypeOK, Numbered
  <1> QED BY <1>1, SendHeaderType, ThreadType, SessionType, DeviceType DEF Next, SessionStep, DeviceStep, Pause

-----------------------------------------------------------------------------
(* Order.                                                                  *)

(* A message that joins the connection comes last.                         *)
LEMMA OrderAppended ==
    ASSUME TypeOK, CallsInOrder, NEW m \in Message, main' = Append(main, m), m.kind = "data" \/ m.n = sent + 1
    PROVE  \A i, j \in DOMAIN main' :
               i < j /\ main'[i].kind # "data" /\ main'[j].kind # "data" => main'[i].n < main'[j].n
  <1> SUFFICES ASSUME NEW i \in DOMAIN main', NEW j \in DOMAIN main', i < j, main'[i].kind # "data", main'[j].kind # "data"
               PROVE  main'[i].n < main'[j].n
    OBVIOUS
  <1>1. /\ DOMAIN main' = 1 .. Len(main) + 1 /\ \A l \in DOMAIN main : main'[l] = main[l]
        /\ main'[Len(main) + 1] = m
    BY Appended
  <1>2. Len(main) \in Nat /\ DOMAIN main = 1 .. Len(main) /\ sent \in Nat
    BY Typed
  <1>3. i \in DOMAIN main /\ main'[i] = main[i]
    BY <1>1, <1>2
  <1>4. CASE j \in DOMAIN main
    BY <1>1, <1>3, <1>4 DEF CallsInOrder
  <1>5. CASE j = Len(main) + 1
    <2>1. main'[j].n = sent + 1
      BY <1>1, <1>5
    <2>2. Sent(main[i]) \in Pending
      BY <1>3, Members DEF Pending
    <2>3. Sent(main[i]).n \in 1 .. sent
      BY <2>2 DEF CallsInOrder
    <2>4. main[i].n \in 1 .. sent
      BY <2>3, Fields
    <2> QED BY <1>2, <1>3, <2>1, <2>4
  <1> QED BY <1>1, <1>2, <1>4, <1>5

(* What is left on the connection keeps its order.                         *)
LEMMA OrderRemoved ==
    ASSUME TypeOK, CallsInOrder, NEW m, Handling(m), InStep(m), m.kind # "data", main' = Rest
    PROVE  \A i, j \in DOMAIN main' :
               i < j /\ main'[i].kind # "data" /\ main'[j].kind # "data" => main'[i].n < main'[j].n
  <1> SUFFICES ASSUME NEW i \in DOMAIN main', NEW j \in DOMAIN main', i < j, main'[i].kind # "data", main'[j].kind # "data"
               PROVE  main'[i].n < main'[j].n
    OBVIOUS
  <1>1. PICK k \in {1, 2} : /\ k <= Len(main) /\ DOMAIN main' = 1 .. Len(main) - k
                            /\ \A l \in 1 .. Len(main) - k : main'[l] = main[l + k]
    BY Removed
  <1>2. Len(main) \in Nat /\ DOMAIN main = 1 .. Len(main)
    BY Typed
  <1>3. main'[i] = main[i + k] /\ main'[j] = main[j + k]
    BY <1>1
  <1>4. i \in 1 .. Len(main) - k /\ j \in 1 .. Len(main) - k
    BY <1>1
  <1>5. i + k \in DOMAIN main /\ j + k \in DOMAIN main /\ i + k < j + k
    BY <1>2, <1>4
  <1> QED BY <1>3, <1>5 DEF CallsInOrder

(* The order of calls is kept.                                             *)
LEMMA OrderStep ==
    ASSUME TypeOK, CallsMatch, NumbersInOrder, CallsInOrder, CreatesInOrder, OperandsThere, [Next]_vars
    PROVE  CallsInOrder'
  <1>0. sent \in Nat /\ \A x \in Pending : x.n \in Nat
    BY Typed, Items DEF Item
  <1>1. ASSUME main' = main, commands' = commands, sent' = sent PROVE CallsInOrder'
    <2>1. OnConnection' = OnConnection /\ InQueue' = InQueue /\ Pending' = Pending
      BY <1>1 DEF OnConnection, InQueue, Pending
    <2> QED BY <1>1, <2>1 DEF CallsInOrder
  <1>2. ASSUME NEW t \in Threads, NEW k \in Kinds, SendHeader(t, k) PROVE CallsInOrder'
    <2>1. PICK o \in Operands(k), m \in Message : Sends(t, k, o, m)
      BY <1>2, Sending
    <2>2. /\ main' = Append(main, m) /\ OnConnection' = OnConnection \cup {Sent(m)} /\ InQueue' = InQueue
          /\ Pending' = Pending \cup {Sent(m)} /\ m.n = sent + 1 /\ sent' = sent + 1
      BY <2>1 DEF Sends
    <2>3. commands' = commands
      BY <1>2 DEF SendHeader, queueVars
    <2>4. Sent(m).n = sent + 1
      BY <2>2, Fields
    <2>5. \A x \in Pending : x.n \in 1 .. sent
      BY DEF CallsInOrder
    <2>6. \A x \in Pending' : x.n \in 1 .. sent'
      BY <1>0, <2>2, <2>4, <2>5
    <2>7. \A x \in OnConnection', y \in InQueue' : y.n < x.n
      <3>1. \A x \in OnConnection, y \in InQueue : y.n < x.n
        BY DEF CallsInOrder
      <3>2. \A y \in InQueue : y.n < sent + 1
        BY <1>0, <2>5 DEF Pending
      <3> QED BY <2>2, <2>4, <3>1, <3>2
    <2>8. \A i, j \in DOMAIN main' : i < j /\ main'[i].kind # "data" /\ main'[j].kind # "data" => main'[i].n < main'[j].n
      BY <2>2, OrderAppended
    <2>9. \A i, j \in DOMAIN commands : i < j => commands[i].n < commands[j].n
      BY DEF CallsInOrder
    <2> QED BY <2>2, <2>3, <2>6, <2>7, <2>8, <2>9 DEF CallsInOrder
  <1>3. ASSUME NEW t \in Threads, SendData(t) PROVE CallsInOrder'
    <2> DEFINE m == [call[t] EXCEPT !.kind = "data"]
    <2>1. m \in Message /\ m.kind = "data"
      BY Places DEF Message
    <2>2. main' = Append(main, m) /\ commands' = commands /\ sent' = sent
      BY <1>3 DEF SendData, queueVars
    <2> HIDE DEF m
    <2>3. OnConnection' = OnConnection
      BY <2>1, <2>2, Appended
    <2>4. InQueue' = InQueue /\ Pending' = Pending
      BY <2>2, <2>3 DEF InQueue, Pending
    <2>5. \A i, j \in DOMAIN main' : i < j /\ main'[i].kind # "data" /\ main'[j].kind # "data" => main'[i].n < main'[j].n
      BY <2>1, <2>2, OrderAppended
    <2> QED BY <2>2, <2>3, <2>4, <2>5 DEF CallsInOrder
  <1>4. ASSUME NEW m, HandlerCreateBuffer(m) \/ HandlerCreateProgramWithSource(m) PROVE CallsInOrder'
    <2>1. /\ Handling(m) /\ InStep(m) /\ m.kind # "data" /\ main' = Rest
          /\ OnConnection' = OnConnection \ {Sent(m)} /\ InQueue' = InQueue /\ Pending' = Pending \ {Sent(m)}
      BY <1>4, Finishing
    <2>2. commands' = commands /\ sent' = sent
      BY <1>4 DEF HandlerCreateBuffer, HandlerCreateProgramWithSource, queueVars
    <2>3. \A i, j \in DOMAIN main' : i < j /\ main'[i].kind # "data" /\ main'[j].kind # "data" => main'[i].n < main'[j].n
      BY <2>1, OrderRemoved
    <2> QED BY <2>1, <2>2, <2>3 DEF CallsInOrder
  <1>5. ASSUME NEW m, HandlerEnqueue(m) PROVE CallsInOrder'
    <2>1. /\ Handling(m) /\ InStep(m) /\ m.kind \in Queued /\ m.kind # "data" /\ main' = Rest
          /\ commands' = Append(commands, CommandFor(m))
          /\ OnConnection' = OnConnection \ {Sent(m)} /\ InQueue' = InQueue \cup {Sent(m)} /\ Pending' = Pending
      BY <1>5, Queueing
    <2>2. sent' = sent
      BY <1>5 DEF HandlerEnqueue
    <2>3. \A i, j \in DOMAIN main' : i < j /\ main'[i].kind # "data" /\ main'[j].kind # "data" => main'[i].n < main'[j].n
      BY <2>1, OrderRemoved
    <2>4. /\ m.n \in Nat /\ (\A x \in OnConnection : x # Sent(m) => m.n < x.n) /\ (\A x \in InQueue : x.n < m.n)
      BY <2>1, First
    <2>5. Sent(m).n = m.n
      BY Fields
    <2>6. \A x \in OnConnection', y \in InQueue' : y.n < x.n
      <3>1. \A x \in OnConnection, y \in InQueue : y.n < x.n
        BY DEF CallsInOrder
      <3> QED BY <2>1, <2>4, <2>5, <3>1
    <2>8. \A i, j \in DOMAIN commands' : i < j => commands'[i].n < commands'[j].n
      <3> SUFFICES ASSUME NEW i \in DOMAIN commands', NEW j \in DOMAIN commands', i < j PROVE commands'[i].n < commands'[j].n
        OBVIOUS
      <3>1. CommandFor(m) \in Command /\ CommandFor(m).n = m.n
        BY <2>1, SameCommand
      <3>2. /\ DOMAIN commands' = 1 .. Len(commands) + 1 /\ \A l \in DOMAIN commands : commands'[l] = commands[l]
            /\ commands'[Len(commands) + 1] = CommandFor(m)
        BY <2>1, <3>1, Joined
      <3>3. Len(commands) \in Nat /\ DOMAIN commands = 1 .. Len(commands)
        BY Typed
      <3>4. i \in DOMAIN commands /\ commands'[i] = commands[i]
        BY <3>2, <3>3
      <3>5. CASE j \in DOMAIN commands
        BY <3>2, <3>4, <3>5 DEF CallsInOrder
      <3>6. CASE j = Len(commands) + 1
        <4>1. Taken(commands[i]).n < m.n
          BY <2>4, <3>4, Members
        <4> QED BY <3>1, <3>2, <3>4, <3>6, <4>1, Fields
      <3> QED BY <3>2, <3>3, <3>5, <3>6
    <2> QED BY <2>1, <2>2, <2>3, <2>6, <2>8 DEF CallsInOrder
  <1>6. ASSUME NEW c, Exec(c) \/ ExecFails(c) PROVE CallsInOrder'
    <2>1. /\ commands # <<>> /\ c = Head(commands) /\ commands' = Tail(commands)
          /\ OnConnection' = OnConnection /\ InQueue' = InQueue \ {Taken(c)} /\ Pending' = Pending \ {Taken(c)}
      BY <1>6, Executing
    <2>2. main' = main /\ sent' = sent
      BY <1>6 DEF Exec, ExecFails, Done
    <2>3. \A i, j \in DOMAIN commands' : i < j => commands'[i].n < commands'[j].n
      <3>1. /\ DOMAIN commands' = 1 .. Len(commands) - 1
            /\ \A i \in DOMAIN commands' : i + 1 \in DOMAIN commands /\ commands'[i] = commands[i + 1]
        BY <2>1, Left
      <3>2. \A i, j \in DOMAIN commands' : i < j => i + 1 < j + 1
        BY <3>1, Typed
      <3> QED BY <3>1, <3>2 DEF CallsInOrder
    <2> QED BY <2>1, <2>2, <2>3 DEF CallsInOrder
  <1>7. ASSUME NEW t \in Threads, ReadCounter(t) \/ WriteCounter(t) \/ RecvReply(t) PROVE CallsInOrder'
    BY <1>1, <1>7 DEF ReadCounter, WriteCounter, RecvReply, queueVars
  <1>8. ASSUME NEW m, HandlerGarbled(m) PROVE CallsInOrder'
    BY <1>1, <1>8 DEF HandlerGarbled, queueVars
  <1>9. CASE Pause
    BY <1>1, <1>9, Pausing DEF Still
  <1> QED BY <1>2, <1>3, <1>4, <1>5, <1>6, <1>7, <1>8, <1>9 DEF Next, ThreadStep, SessionStep, DeviceStep, Pause

(* The handler waits for a command that is queued, until it is signalled.  *)
LEMMA WaitsMatchStep ==
    ASSUME TypeOK, CallsMatch, NumbersInOrder, CallsInOrder, CreatesInOrder, OperandsThere, WaitsMatch, [Next]_vars
    PROVE  WaitsMatch'
  <1>1. ASSUME handler' = handler, blockedOn' = blockedOn, device' = device, commands' = commands
        PROVE  WaitsMatch'
    BY <1>1 DEF WaitsMatch, InQueue
  <1>2. ASSUME NEW t \in Threads, NEW k \in Kinds, SendHeader(t, k) PROVE WaitsMatch'
    BY <1>1, <1>2 DEF SendHeader, queueVars, waitVars
  <1>3. ASSUME NEW t \in Threads, ThreadStep(t) PROVE WaitsMatch'
    BY <1>1, <1>3 DEF ThreadStep, SendData, ReadCounter, WriteCounter, RecvReply, queueVars, waitVars
  <1>4. ASSUME NEW m, HandlerCreateBuffer(m) \/ HandlerCreateProgramWithSource(m) \/ HandlerGarbled(m)
        PROVE  WaitsMatch'
    BY <1>1, <1>4 DEF HandlerCreateBuffer, HandlerCreateProgramWithSource, HandlerGarbled, queueVars, waitVars
  <1>5. ASSUME NEW m, HandlerEnqueue(m) PROVE WaitsMatch'
    <2>1. /\ Handling(m) /\ InQueue' = InQueue \cup {Sent(m)} /\ m.n \in Nat
          /\ Sent(m) \in Pending /\ Sent(m).n = m.n
      BY <1>5, Queueing, AtHead, Fields DEF Message
    <2>2. m.n # 0
      BY <2>1, Typed DEF CallsInOrder
    <2>3. handler = "ready" /\ blockedOn = 0
      BY <2>1 DEF Handling, WaitsMatch
    <2>4. device' # "leaving"
      BY <1>5 DEF HandlerEnqueue, Announced
    <2>5. \/ blockedOn' = m.n /\ handler' = "pushed"
          \/ blockedOn' = 0 /\ handler' = "ready"
      BY <1>5, <2>3 DEF HandlerEnqueue, waitVars
    <2> QED BY <2>1, <2>2, <2>4, <2>5 DEF WaitsMatch
  <1>6. ASSUME NEW c, Exec(c) \/ ExecFails(c) PROVE WaitsMatch'
    <2>1. InQueue' = InQueue \ {Taken(c)} /\ commands' = Tail(commands) /\ Taken(c).n = c.n
      BY <1>6, Executing, Fields
    <2>2. /\ device' = (IF Tail(commands) = <<>> THEN "leaving" ELSE "ready") /\ blockedOn' = blockedOn
          /\ handler' = IF blockedOn = c.n /\ handler = "asleep" THEN "woken"
                        ELSE IF blockedOn = c.n /\ handler = "pushed" THEN "missed" ELSE handler
      BY <1>6 DEF Exec, ExecFails, Done, Signalled
    <2>3. handler' = "ready" <=> handler = "ready"
      BY <2>2
    <2>4. handler' \in {"pushed", "asleep"} => handler' = handler /\ blockedOn # c.n
      BY <2>2
    <2> QED BY <2>1, <2>2, <2>3, <2>4 DEF WaitsMatch
  <1>7. CASE Pause
    <2>1. InQueue' = InQueue /\ commands' = commands
      BY <1>7, Pausing DEF Still, InQueue
    <2>2. CASE HandlerSleep
      BY <2>1, <2>2 DEF HandlerSleep, WaitsMatch, queueVars
    <2>3. CASE HandlerWake
      BY <2>1, <2>3 DEF HandlerWake, WaitsMatch, queueVars
    <2>4. CASE HandlerReply
      BY <2>1, <2>4 DEF HandlerReply, WaitsMatch, queueVars
    <2>5. CASE Unskip
      BY <2>1, <2>5 DEF Unskip, WaitsMatch, waitVars
    <2>6. CASE UNCHANGED vars
      BY <1>1, <2>6 DEF vars, queueVars, waitVars
    <2> QED BY <1>7, <2>2, <2>3, <2>4, <2>5, <2>6 DEF Pause
  <1> QED BY <1>2, <1>3, <1>4, <1>5, <1>6, <1>7 DEF Next, SessionStep, DeviceStep, Pause

(* A call that begins adds a request to those on their way: later than all *)
(* of them, and with buffers that are known by ids.                        *)
LEMMA NewRequest ==
    ASSUME TypeOK, NumbersInOrder, NEW t \in Threads, NEW k \in Kinds, SendHeader(t, k)
    PROVE  \E x \in Pending', o \in Operands(k) :
           /\ Pending' = Pending \cup {x} /\ OnConnection' = OnConnection \cup {x} /\ InQueue' = InQueue
           /\ x.n = sent + 1 /\ x.kind = k /\ sent' = sent + 1
           /\ x.want = (IF k \in {"read", "copy"} THEN expect[o.src] ELSE 0)
           /\ IF k \in {"read", "copy"} THEN o.src \in Known /\ x.from = ids[o.src] + 1 ELSE x.from = None
           /\ IF k \in Creates THEN o.dst = CreatesSent + 1 /\ x.to = o.dst
              ELSE IF k \in Queued \ {"read"} THEN o.dst \in Known /\ x.to = ids[o.dst] + 1 ELSE x.to = None
           /\ expect' = Expected(k, sent + 1, o)
           /\ dropped' = IF k = "release" THEN dropped \cup {o.dst} ELSE dropped
  <1>1. PICK o \in Operands(k), m \in Message :
           /\ Sends(t, k, o, m)
           /\ expect' = Expected(k, sent + 1, o)
           /\ dropped' = IF k = "release" THEN dropped \cup {o.dst} ELSE dropped
    BY Sending
  <1>2. /\ m = Request(k, sent + 1, o) /\ sent' = sent + 1 /\ OnConnection' = OnConnection \cup {Sent(m)}
        /\ InQueue' = InQueue /\ Pending' = Pending \cup {Sent(m)}
    BY <1>1 DEF Sends
  <1>3. sent + 1 \in Nat
    BY Typed
  <1>4. /\ m.n = sent + 1 /\ m.kind = k /\ m.want = (IF k \in {"read", "copy"} THEN expect[o.src] ELSE 0)
        /\ Sent(m).from = (IF k \in {"read", "copy"} THEN ids[o.src] + 1 ELSE None)
        /\ Sent(m).to = IF k \in Creates THEN o.dst ELSE IF k \in Queued \ {"read"} THEN ids[o.dst] + 1 ELSE None
    BY <1>2, <1>3, RequestFields
  <1>5. Sent(m).n = sent + 1 /\ Sent(m).kind = k /\ Sent(m).want = IF k \in {"read", "copy"} THEN expect[o.src] ELSE 0
    BY <1>4, Fields
  <1>6. /\ k \in {"read", "copy"} => o.src \in Known
        /\ k \in Queued \ {"read"} => o.dst \in Known
        /\ k \in Creates => o.dst = CreatesSent + 1
    BY OperandCases DEF Queued, Writes
  <1> DEFINE x == Sent(m)
  <1>7. x.n = sent + 1 /\ x.kind = k /\ x.want = IF k \in {"read", "copy"} THEN expect[o.src] ELSE 0
    BY <1>5
  <1>8. /\ x.from = (IF k \in {"read", "copy"} THEN ids[o.src] + 1 ELSE None)
        /\ x.to = IF k \in Creates THEN o.dst ELSE IF k \in Queued \ {"read"} THEN ids[o.dst] + 1 ELSE None
    BY <1>4
  <1>9. Pending' = Pending \cup {x} /\ OnConnection' = OnConnection \cup {x} /\ InQueue' = InQueue /\ sent' = sent + 1
    BY <1>2
  <1> HIDE DEF x
  <1>10. IF k \in {"read", "copy"} THEN o.src \in Known /\ x.from = ids[o.src] + 1 ELSE x.from = None
    BY <1>6, <1>8
  <1>11. IF k \in Creates THEN o.dst = CreatesSent + 1 /\ x.to = o.dst
         ELSE IF k \in Queued \ {"read"} THEN o.dst \in Known /\ x.to = ids[o.dst] + 1 ELSE x.to = None
    BY <1>6, <1>8
  <1>12. x \in Pending'
    BY <1>9
  <1> QED BY <1>1, <1>7, <1>9, <1>10, <1>11, <1>12

(* It names buffers whose creates were sent, or creates one.               *)
LEMMA NewUses ==
    ASSUME TypeOK, NumbersInOrder, NEW t \in Threads, NEW k \in Kinds, SendHeader(t, k)
    PROVE  \E x \in Pending' :
           /\ Pending' = Pending \cup {x} /\ x.n = sent + 1 /\ x.kind = k
           /\ IF k \in Creates THEN x.to = CreatesSent + 1 /\ x.from = None ELSE Uses(x) \subseteq 1 .. CreatesSent
  <1>1. PICK x \in Pending', o \in Operands(k) :
           /\ Pending' = Pending \cup {x} /\ x.n = sent + 1 /\ x.kind = k
           /\ IF k \in {"read", "copy"} THEN o.src \in Known /\ x.from = ids[o.src] + 1 ELSE x.from = None
           /\ IF k \in Creates THEN o.dst = CreatesSent + 1 /\ x.to = o.dst
              ELSE IF k \in Queued \ {"read"} THEN o.dst \in Known /\ x.to = ids[o.dst] + 1 ELSE x.to = None
    BY NewRequest
  <1>2. \A b \in Known : ids[b] + 1 \in 1 .. CreatesSent
    BY Counts DEF Known
  <1>3. k \in Creates => k \notin {"read", "copy"}
    BY DEF Creates
  <1>4. k \notin Creates => Uses(x) \subseteq 1 .. CreatesSent
    <2> SUFFICES ASSUME k \notin Creates PROVE x.from \in {None} \cup 1 .. CreatesSent /\ x.to \in {None} \cup 1 .. CreatesSent
      BY DEF Uses
    <2>1. x.from \in {None} \cup 1 .. CreatesSent
      BY <1>1, <1>2
    <2>2. x.to \in {None} \cup 1 .. CreatesSent
      BY <1>1, <1>2
    <2> QED BY <2>1, <2>2
  <1>5. k \in Creates => x.to = CreatesSent + 1 /\ x.from = None
    BY <1>1, <1>3
  <1>6. Pending' = Pending \cup {x} /\ x.n = sent + 1 /\ x.kind = k
    BY <1>1
  <1> QED BY <1>4, <1>5, <1>6

(* The steps that neither begin a call nor take a request or a command.    *)
Calm == (\E t \in Threads : ThreadStep(t)) \/ (\E m : HandlerGarbled(m)) \/ Pause

(* They leave the requests, the vector and the device as they are.         *)
LEMMA CalmFacts ==
    ASSUME TypeOK, CallsMatch, NumbersInOrder, Calm
    PROVE  /\ OnConnection' = OnConnection /\ InQueue' = InQueue /\ Pending' = Pending /\ commands' = commands
           /\ mems' = mems /\ contents' = contents /\ storage' = storage /\ released' = released
           /\ lastRead' = lastRead /\ sent' = sent /\ expect' = expect /\ dropped' = dropped /\ races' = races
           /\ CreatesSent' = CreatesSent /\ call' = call
  <1>1. /\ mems' = mems /\ contents' = contents /\ commands' = commands /\ storage' = storage
        /\ released' = released /\ lastRead' = lastRead /\ sent' = sent /\ expect' = expect /\ dropped' = dropped
        /\ races' = races /\ call' = call
    BY Pausing DEF Calm, ThreadStep, SendData, ReadCounter, WriteCounter, RecvReply, HandlerGarbled, Still, clientVars,
           sessionVars, queueVars, deviceVars
  <1>2. CreatesSent' = CreatesSent
    BY QuietCounts, StoringCounts DEF Calm, ThreadStep, Quiet
  <1>3. OnConnection' = OnConnection
    <2>1. CASE main' = main
      BY <2>1 DEF OnConnection
    <2>2. ASSUME NEW t \in Threads, SendData(t) PROVE OnConnection' = OnConnection
      <3>1. [call[t] EXCEPT !.kind = "data"] \in Message /\ [call[t] EXCEPT !.kind = "data"].kind = "data"
        BY Places DEF Message
      <3>2. main' = Append(main, [call[t] EXCEPT !.kind = "data"])
        BY <2>2 DEF SendData
      <3> QED BY <3>1, <3>2, Appended
    <2>3. main' = main \/ \E t \in Threads : SendData(t)
      BY Pausing DEF Calm, ThreadStep, ReadCounter, WriteCounter, RecvReply, HandlerGarbled, Still
    <2> QED BY <2>1, <2>2, <2>3
  <1> QED BY <1>1, <1>2, <1>3 DEF Pending, InQueue

(* A step is one of these, and the number of creates is known after it.    *)
LEMMA FullCases ==
    ASSUME [Next]_vars
    PROVE  \/ \E t \in Threads : \E k \in Kinds : SendHeader(t, k)
           \/ \E m : HandlerCreateBuffer(m)
           \/ \E m : HandlerCreateProgramWithSource(m)
           \/ \E m : HandlerEnqueue(m)
           \/ \E c : Exec(c) \/ ExecFails(c)
           \/ Calm
  BY DEF Next, SessionStep, DeviceStep, Calm, Pause

(* The creates that are on their way fill the vector in order.             *)
LEMMA CreatesStep ==
    ASSUME TypeOK, CallsMatch, NumbersInOrder, CallsInOrder, CreatesInOrder, OperandsThere, [Next]_vars
    PROVE  CreatesInOrder'
  <1>0. /\ Len(mems) \in Nat /\ Len(mems) <= CreatesSent /\ CreatesSent \in Nat
        /\ DOMAIN mems = 1 .. Len(mems) /\ \A i \in DOMAIN mems : mems[i] = i
        /\ \A x \in Pending : x.n \in Nat /\ x.n <= sent /\ x.n > 0
        /\ sent \in Nat
    BY Typed, Counts DEF CreatesInOrder, CallsInOrder
  <1>1. /\ \A x \in Pending : x.kind \in Creates => x.to \in Len(mems) + 1 .. CreatesSent
        /\ \A x, y \in Pending : {x.kind, y.kind} \subseteq Creates /\ x.n < y.n => x.to < y.to
        /\ \A b \in Len(mems) + 1 .. CreatesSent : \E x \in Pending : x.kind \in Creates /\ x.to = b
        /\ \A b \in Buffers : b > Len(mems) => contents[b] = 0
    BY DEF CreatesInOrder
  <1>2. ASSUME mems' = mems, contents' = contents, CreatesSent' = CreatesSent,
               Pending' \subseteq Pending, \A x \in Pending : x.kind \in Creates => x \in Pending'
        PROVE  CreatesInOrder'
    <2>1. \A b \in Len(mems) + 1 .. CreatesSent : \E x \in Pending' : x.kind \in Creates /\ x.to = b
      BY <1>1, <1>2
    <2> QED BY <1>0, <1>1, <1>2, <2>1 DEF CreatesInOrder
  <1>3. ASSUME NEW t \in Threads, NEW k \in Kinds, SendHeader(t, k) PROVE CreatesInOrder'
    <2>1. PICK x \in Pending' :
           /\ Pending' = Pending \cup {x} /\ x.n = sent + 1 /\ x.kind = k
           /\ k \in Creates => x.to = CreatesSent + 1
      BY <1>3, NewUses
    <2>2. mems' = mems /\ contents' = contents
      BY <1>3 DEF SendHeader, sessionVars, deviceVars
    <2>3. CreatesSent' = CreatesSent + (IF k \in Creates THEN 1 ELSE 0)
      BY <1>3, SendingCounts
    <2>4. \A y \in Pending' : y.kind \in Creates => y.to \in Len(mems) + 1 .. CreatesSent'
      BY <1>0, <1>1, <2>1, <2>3
    <2>5. \A y, z \in Pending' : {y.kind, z.kind} \subseteq Creates /\ y.n < z.n => y.to < z.to
      <3> SUFFICES ASSUME NEW y \in Pending', NEW z \in Pending', y.kind \in Creates, z.kind \in Creates, y.n < z.n
                   PROVE  y.to < z.to
        OBVIOUS
      <3>1. CASE y \in Pending /\ z \in Pending
        BY <1>1, <3>1
      <3>2. CASE z = x
        <4>1. y \in Pending
          BY <1>0, <2>1, <3>2
        <4> QED BY <1>0, <1>1, <2>1, <3>2, <4>1
      <3>3. CASE y = x /\ z \in Pending
        BY <1>0, <2>1, <3>3
      <3> QED BY <2>1, <3>1, <3>2, <3>3
    <2>6. \A b \in Len(mems) + 1 .. CreatesSent' : \E y \in Pending' : y.kind \in Creates /\ y.to = b
      <3> SUFFICES ASSUME NEW b \in Len(mems) + 1 .. CreatesSent' PROVE \E y \in Pending' : y.kind \in Creates /\ y.to = b
        OBVIOUS
      <3>1. CASE b \in Len(mems) + 1 .. CreatesSent
        BY <1>1, <2>1, <3>1
      <3>2. CASE b \notin Len(mems) + 1 .. CreatesSent
        <4>1. k \in Creates /\ b = CreatesSent + 1
          BY <1>0, <2>3, <3>2
        <4> QED BY <2>1, <4>1
      <3> QED BY <3>1, <3>2
    <2>7. Len(mems) <= CreatesSent'
      BY <1>0, <2>3
    <2> QED BY <1>0, <1>1, <2>2, <2>4, <2>5, <2>6, <2>7 DEF CreatesInOrder
  <1>4. ASSUME NEW m, HandlerCreateBuffer(m) PROVE CreatesInOrder'
    <2>1. /\ m.dst = Len(mems) + 1 /\ Sent(m).to = m.dst /\ Sent(m).kind = m.kind /\ Sent(m).n = m.n
          /\ Sent(m) \in Pending /\ m.dst \in Buffers /\ m.dst <= CreatesSent /\ m.kind \in Creates
      BY <1>4, NextCreate
    <2>2. Pending' = Pending \ {Sent(m)}
      BY <1>4, Finishing
    <2>3. CreatesSent' = CreatesSent
      BY <1>4, QuietCounts DEF Quiet
    <2>4. mems' = Append(mems, m.dst) /\ mems \in Seq(Nat) /\ m.dst \in Nat
      <3>1. m.dst \in Nat
        BY <1>0, <2>1
      <3>2. mems \in Seq(Nat)
        BY DEF TypeOK
      <3> QED BY <1>4, <3>1, <3>2 DEF HandlerCreateBuffer
    <2>5. /\ Len(mems') = Len(mems) + 1 /\ \A i \in 1 .. Len(mems) : mems'[i] = mems[i]
          /\ mems'[Len(mems) + 1] = m.dst /\ mems' \in Seq(Nat)
      BY <2>4, AppendProperties
    <2>6. DOMAIN mems' = 1 .. Len(mems) + 1
      BY <2>5
    <2>7. \A i \in DOMAIN mems' : mems'[i] = i
      BY <1>0, <2>1, <2>5, <2>6
    <2>8. \A x \in Pending' : x.kind \in Creates => x.to \in Len(mems') + 1 .. CreatesSent
      <3> SUFFICES ASSUME NEW x \in Pending', x.kind \in Creates PROVE x.to \in Len(mems') + 1 .. CreatesSent
        OBVIOUS
      <3>1. x \in Pending /\ x # Sent(m)
        BY <2>2
      <3>2. x.n # Sent(m).n
        BY <2>1, <3>1, Unique
      <3>3. x.to # Len(mems) + 1
        <4>1. x.n < Sent(m).n \/ Sent(m).n < x.n
          BY <1>0, <2>1, <3>1, <3>2
        <4>2. x.to < Sent(m).to \/ Sent(m).to < x.to
          BY <1>1, <2>1, <3>1, <4>1
        <4>3. x.to \in Nat
          BY <1>0, <1>1, <3>1
        <4> QED BY <1>0, <2>1, <4>2, <4>3
      <3> QED BY <1>0, <1>1, <2>5, <3>1, <3>3
    <2>9. \A b \in Len(mems') + 1 .. CreatesSent : \E x \in Pending' : x.kind \in Creates /\ x.to = b
      <3> SUFFICES ASSUME NEW b \in Len(mems') + 1 .. CreatesSent PROVE \E x \in Pending' : x.kind \in Creates /\ x.to = b
        OBVIOUS
      <3>1. b \in Len(mems) + 1 .. CreatesSent /\ b # Len(mems) + 1
        BY <1>0, <2>5
      <3>2. PICK x \in Pending : x.kind \in Creates /\ x.to = b
        BY <1>1, <3>1
      <3> QED BY <2>1, <2>2, <3>1, <3>2
    <2>10. \A b \in Buffers : b > Len(mems') => contents'[b] = 0
      <3> SUFFICES ASSUME NEW b \in Buffers, b > Len(mems') PROVE contents'[b] = 0
        OBVIOUS
      <3>1. b > Len(mems) /\ b # m.dst
        BY <1>0, <2>1, <2>5 DEF Buffers
      <3>2. contents \in [Buffers -> Nat] /\ contents' = [contents EXCEPT ![m.dst] = IF m.kind = "createFrom" THEN m.n ELSE 0]
        BY <1>4 DEF HandlerCreateBuffer, TypeOK
      <3> QED BY <1>1, <3>1, <3>2
    <2>11. Len(mems') <= CreatesSent
      BY <2>1, <2>5
    <2>12. \A x, y \in Pending' : {x.kind, y.kind} \subseteq Creates /\ x.n < y.n => x.to < y.to
      BY <1>1, <2>2
    <2> QED BY <2>3, <2>7, <2>8, <2>9, <2>10, <2>11, <2>12 DEF CreatesInOrder
  <1>5. ASSUME NEW m, HandlerCreateProgramWithSource(m) PROVE CreatesInOrder'
    <2>1. Pending' = Pending \ {Sent(m)} /\ Sent(m).kind = m.kind
      BY <1>5, Finishing, Fields
    <2>2. m.kind \notin Creates
      BY <1>5 DEF HandlerCreateProgramWithSource, Creates
    <2>3. mems' = mems /\ contents' = contents
      BY <1>5 DEF HandlerCreateProgramWithSource, sessionVars, deviceVars
    <2>4. CreatesSent' = CreatesSent
      BY <1>5, QuietCounts DEF Quiet
    <2> QED BY <1>2, <2>1, <2>2, <2>3, <2>4
  <1>6. ASSUME NEW m, HandlerEnqueue(m) PROVE CreatesInOrder'
    <2>1. Pending' = Pending
      BY <1>6, Queueing
    <2>3. mems' = mems /\ contents' = contents
      BY <1>6 DEF HandlerEnqueue, sessionVars, deviceVars
    <2>4. CreatesSent' = CreatesSent
      BY <1>6, QuietCounts DEF Quiet
    <2> QED BY <1>2, <2>1, <2>3, <2>4
  <1>7. ASSUME NEW c, Exec(c) \/ ExecFails(c) PROVE CreatesInOrder'
    <2>1. Pending' = Pending \ {Taken(c)} /\ Taken(c) \in InQueue /\ c \in ToSet(commands) /\ c \in Command
      BY <1>7, Executing
    <2>2. Taken(c).kind \notin Creates
      BY <2>1, QueuedKinds
    <2>3. mems' = mems
      BY <1>7 DEF Exec, ExecFails, Done, sessionVars
    <2>4. CreatesSent' = CreatesSent
      BY <1>7, QuietCounts DEF Quiet
    <2>5. \A b \in Buffers : b > Len(mems) => contents'[b] = 0
      <3>1. contents' = contents \/ \E v \in Nat : contents' = [contents EXCEPT ![c.dst] = v] /\ c.kind # "read"
        <4>1. c.n \in Nat
          BY <2>1 DEF Command
        <4>2. c.kind = "copy" => contents[c.src] \in Nat
          <5>1. c.kind = "copy" => c.src \in 1 .. Len(mems)
            BY <2>1 DEF OperandsThere
          <5> QED BY <5>1, Vector
        <4>3. CASE ExecFails(c)
          BY <4>3 DEF ExecFails, deviceVars
        <4>4. CASE Exec(c)
          BY <4>1, <4>2, <4>4 DEF Exec, Copied, Writes
        <4> QED BY <1>7, <4>3, <4>4
      <3>2. c.kind # "read" => c.dst \in 1 .. Len(mems)
        BY <2>1 DEF OperandsThere
      <3>3. contents \in [Buffers -> Nat]
        BY DEF TypeOK
      <3> QED BY <1>0, <1>1, <3>1, <3>2, <3>3
    <2>6. \A b \in Len(mems) + 1 .. CreatesSent : \E x \in Pending' : x.kind \in Creates /\ x.to = b
      BY <1>1, <2>1, <2>2
    <2> QED BY <1>0, <1>1, <2>1, <2>3, <2>4, <2>5, <2>6 DEF CreatesInOrder
  <1>8. CASE Calm
    <2>1. Pending' = Pending /\ mems' = mems /\ contents' = contents /\ CreatesSent' = CreatesSent
      BY <1>8, CalmFacts
    <2> QED BY <1>2, <2>1
  <1> QED BY <1>3, <1>4, <1>5, <1>6, <1>7, <1>8, FullCases

(* Requests name buffers that will be there when they are handled.         *)
LEMMA OperandsStep ==
    ASSUME TypeOK, CallsMatch, NumbersInOrder, CallsInOrder, CreatesInOrder, OperandsThere, [Next]_vars
    PROVE  OperandsThere'
  <1>0. /\ Len(mems) \in Nat /\ CreatesSent \in Nat /\ sent \in Nat /\ storage \in Nat
        /\ \A x \in Pending : x.n \in Nat /\ x.n <= sent /\ x.n > 0
        /\ \A c \in ToSet(commands) : c \in Command /\ c.storage \in Nat
    <2>1. storage \in Nat
      BY DEF TypeOK
    <2>2. \A x \in Pending : x.n \in Nat /\ x.n <= sent /\ x.n > 0
      BY Typed DEF CallsInOrder
    <2>3. \A c \in ToSet(commands) : c \in Command
      BY Typed, Members
    <2>4. \A c \in Command : c.storage \in Nat
      BY DEF Command
    <2> QED BY <2>1, <2>2, <2>3, <2>4, Typed, Counts
  <1>1. /\ \A x \in Pending : Uses(x) \subseteq 1 .. CreatesSent
        /\ \A x, y \in Pending : y.kind \in Creates /\ x.n < y.n => \A b \in Uses(x) : b < y.to
        /\ \A c \in ToSet(commands) :
            /\ c.storage <= storage
            /\ IF c.kind = "read" THEN c.slot \in 1 .. Len(mems) /\ c.dst = None ELSE c.dst \in 1 .. Len(mems)
            /\ IF c.kind = "copy" THEN c.src \in 1 .. Len(mems) ELSE c.src = None
    BY DEF OperandsThere
  <1>2. ASSUME NEW t \in Threads, NEW k \in Kinds, SendHeader(t, k) PROVE OperandsThere'
    <2>1. PICK x \in Pending' :
           /\ Pending' = Pending \cup {x} /\ x.n = sent + 1 /\ x.kind = k
           /\ IF k \in Creates THEN x.to = CreatesSent + 1 /\ x.from = None ELSE Uses(x) \subseteq 1 .. CreatesSent
      BY <1>2, NewUses
    <2>2. mems' = mems /\ storage' = storage /\ commands' = commands
      BY <1>2 DEF SendHeader, sessionVars, deviceVars, queueVars
    <2>3. CreatesSent' = CreatesSent + (IF k \in Creates THEN 1 ELSE 0)
      BY <1>2, SendingCounts
    <2>4. Uses(x) \subseteq 1 .. CreatesSent'
      BY <1>0, <2>1, <2>3 DEF Uses
    <2>5. \A y \in Pending' : Uses(y) \subseteq 1 .. CreatesSent'
      BY <1>0, <1>1, <2>1, <2>3, <2>4
    <2>6. \A y, z \in Pending' : z.kind \in Creates /\ y.n < z.n => \A b \in Uses(y) : b < z.to
      <3> SUFFICES ASSUME NEW y \in Pending', NEW z \in Pending', z.kind \in Creates, y.n < z.n, NEW b \in Uses(y)
                   PROVE  b < z.to
        OBVIOUS
      <3>1. y \in Pending
        BY <1>0, <2>1
      <3>2. CASE z \in Pending
        BY <1>1, <3>1, <3>2
      <3>3. CASE z = x
        <4>1. b \in 1 .. CreatesSent
          BY <1>1, <3>1
        <4>2. z.to = CreatesSent + 1
          BY <2>1, <3>3
        <4> QED BY <1>0, <4>1, <4>2
      <3> QED BY <2>1, <3>2, <3>3
    <2> QED BY <1>1, <2>2, <2>5, <2>6 DEF OperandsThere
  <1>3. ASSUME NEW m, HandlerCreateBuffer(m) PROVE OperandsThere'
    <2>1. Pending' = Pending \ {Sent(m)}
      BY <1>3, Finishing
    <2>2. CreatesSent' = CreatesSent
      BY <1>3, QuietCounts DEF Quiet
    <2>3. commands' = commands /\ storage' \in {storage, storage + 1} /\ mems' = Append(mems, m.dst)
      BY <1>3 DEF HandlerCreateBuffer, queueVars
    <2>4. Len(mems') = Len(mems) + 1
      <3>1. mems \in Seq(Nat)
        BY DEF TypeOK
      <3>2. m.dst = Len(mems) + 1
        BY <1>3, NextCreate
      <3>3. m.dst \in Nat
        BY <1>0, <3>2
      <3> QED BY <2>3, <3>1, <3>3, AppendProperties
    <2>5. \A c \in ToSet(commands) : c.storage <= storage'
      BY <1>0, <1>1, <2>3
    <2>6. 1 .. Len(mems) \subseteq 1 .. Len(mems')
      BY <1>0, <2>4
    <2>7. \A c \in ToSet(commands') :
            /\ c.storage <= storage'
            /\ IF c.kind = "read" THEN c.slot \in 1 .. Len(mems') /\ c.dst = None ELSE c.dst \in 1 .. Len(mems')
            /\ IF c.kind = "copy" THEN c.src \in 1 .. Len(mems') ELSE c.src = None
      BY <1>1, <2>3, <2>5, <2>6
    <2> QED BY <1>1, <2>1, <2>2, <2>7 DEF OperandsThere
  <1>4. ASSUME NEW m, HandlerCreateProgramWithSource(m) PROVE OperandsThere'
    <2>1. Pending' = Pending \ {Sent(m)}
      BY <1>4, Finishing
    <2>2. CreatesSent' = CreatesSent
      BY <1>4, QuietCounts DEF Quiet
    <2>3. commands' = commands /\ storage' = storage /\ mems' = mems
      BY <1>4 DEF HandlerCreateProgramWithSource, sessionVars, queueVars
    <2> QED BY <1>1, <2>1, <2>2, <2>3 DEF OperandsThere
  <1>5. ASSUME NEW m, HandlerEnqueue(m) PROVE OperandsThere'
    <2>1. /\ Pending' = Pending /\ ToSet(commands') = ToSet(commands) \cup {CommandFor(m)} /\ Handling(m)
          /\ m.kind \in Queued
      BY <1>5, Queueing
    <2>2. CreatesSent' = CreatesSent
      BY <1>5, QuietCounts DEF Quiet
    <2>3. storage' = storage /\ mems' = mems
      BY <1>5 DEF HandlerEnqueue, sessionVars
    <2>4. /\ CommandFor(m).kind = m.kind /\ CommandFor(m).storage = storage
          /\ IF m.kind = "read" THEN CommandFor(m).slot \in 1 .. Len(mems) /\ CommandFor(m).dst = None
             ELSE CommandFor(m).dst \in 1 .. Len(mems)
          /\ IF m.kind = "copy" THEN CommandFor(m).src \in 1 .. Len(mems) ELSE CommandFor(m).src = None
      BY <2>1, SameCommand
    <2>5. \A c \in ToSet(commands') :
            /\ c.storage <= storage
            /\ IF c.kind = "read" THEN c.slot \in 1 .. Len(mems) /\ c.dst = None ELSE c.dst \in 1 .. Len(mems)
            /\ IF c.kind = "copy" THEN c.src \in 1 .. Len(mems) ELSE c.src = None
      BY <1>0, <1>1, <2>1, <2>4
    <2> QED BY <1>1, <2>1, <2>2, <2>3, <2>5 DEF OperandsThere
  <1>6. ASSUME NEW c, Exec(c) \/ ExecFails(c) PROVE OperandsThere'
    <2>1. Pending' = Pending \ {Taken(c)} /\ ToSet(commands') \subseteq ToSet(commands)
      BY <1>6, Executing
    <2>2. CreatesSent' = CreatesSent
      BY <1>6, QuietCounts DEF Quiet
    <2>3. storage' = storage /\ mems' = mems
      BY <1>6 DEF Exec, ExecFails, Done, sessionVars
    <2> QED BY <1>1, <2>1, <2>2, <2>3 DEF OperandsThere
  <1>7. CASE Calm
    <2>1. Pending' = Pending /\ CreatesSent' = CreatesSent /\ commands' = commands /\ storage' = storage /\ mems' = mems
      BY <1>7, CalmFacts
    <2> QED BY <1>1, <2>1 DEF OperandsThere
  <1> QED BY <1>2, <1>3, <1>4, <1>5, <1>6, <1>7, FullCases

-----------------------------------------------------------------------------
(* Ids.                                                                    *)

(* The races a call that begins may be in.                                 *)
LEMMA RaceCases ==
    ASSUME NEW t \in Threads, NEW k \in Kinds
    PROVE  /\ "creates" \notin RacesOf(t, k) /\ k \in Creates =>
                \A u \in Threads \ {t} : pc[u] \in {"data", "count", "store"} => call[u].kind \notin Creates
           /\ "split" \notin RacesOf(t, k) => \A u \in Threads \ {t} : pc[u] # "data"
           /\ "waits" \notin RacesOf(t, k) /\ k \in Waited =>
                \A u \in Threads \ {t} : pc[u] \in {"data", "wait"} => call[u].kind \notin Waited
           /\ "created late" \notin RacesOf(t, k) /\ k \in Creates =>
                /\ \A i \in DOMAIN main : main[i].kind \notin Writes \cup {"read"}
                /\ \A i \in DOMAIN commands : commands[i].kind \notin Writes \cup {"read"}
  BY DEF RacesOf, Others

(* Creating threads are at these places.                                   *)
LEMMA CreatingPlaces ==
    ASSUME TypeOK, CallsMatch
    PROVE  \A t \in Creating : pc[t] \in {"data", "count", "store"}
  <1>1. \A t \in Threads : pc[t] \in {"idle", "data", "count", "store", "wait"}
    BY Places
  <1>2. \A t \in Threads : pc[t] = "wait" => call[t].kind \notin Creates
    BY DEF CallsMatch, Waited, Creates
  <1> QED BY <1>1, <1>2 DEF Creating

(* The counter is the number of buffers with an id.                        *)
LEMMA CounterIsRight ==
    ASSUME TypeOK, NumbersInOrder, IdsInOrder
    PROVE  Numbered = 1 .. mem_id /\ Cardinality(Numbered) = mem_id /\ mem_id <= MaxBuffers
  <1>1. mem_id \in Nat /\ MaxBuffers \in Nat /\ mem_id <= Cardinality(Numbered) /\ Cardinality(Numbered) <= MaxBuffers
    BY Counts, Typed, Places DEF NumbersInOrder
  <1>2. mem_id <= MaxBuffers
    BY <1>1, Counts
  <1>3. \A b \in Buffers : ids[b] # NoId <=> b <= mem_id
    <2> SUFFICES ASSUME NEW b \in Buffers PROVE ids[b] # NoId <=> b <= mem_id
      OBVIOUS
    <2>1. ids[b] = IF b <= mem_id THEN b - 1 ELSE NoId
      BY DEF IdsInOrder
    <2>2. b \in 1 .. MaxBuffers /\ NoId = MaxBuffers
      BY DEF Buffers, NoId
    <2> QED BY <1>1, <1>2, <2>1, <2>2
  <1>4. Numbered = 1 .. mem_id
    BY <1>1, <1>2, <1>3 DEF Numbered, Buffers
  <1> QED BY <1>1, <1>2, <1>4, FS_Interval

(* Threads that create one at a time count as the session does.            *)
LEMMA IdsStep ==
    ASSUME TypeOK, CallsMatch, NumbersInOrder, IdsInOrder, [Next]_vars, "creates" \notin races'
    PROVE  IdsInOrder'
  <1>0. /\ \A t, u \in Creating : t = u
        /\ \A t \in Creating : call[t].dst = mem_id + 1 /\ (pc[t] = "store" => seen[t] = mem_id)
        /\ \A b \in Buffers : ids[b] = IF b <= mem_id THEN b - 1 ELSE NoId
    BY DEF IdsInOrder
  <1>1. ASSUME NEW t \in Threads, NEW k \in Kinds, SendHeader(t, k) PROVE IdsInOrder'
    <2>1. /\ ids' = ids /\ mem_id' = mem_id /\ seen' = seen
          /\ Creating' = Creating \cup (IF k \in Creates THEN {t} ELSE {})
          /\ t \notin Creating
          /\ k \in Creates => call'[t].dst = CreatesSent + 1
          /\ \A u \in Threads : u # t => call'[u] = call[u] /\ pc'[u] = pc[u]
          /\ pc'[t] = AfterHeader(k)
      BY <1>1, SendingCounts
    <2>2. pc'[t] # "store"
      BY <2>1 DEF AfterHeader
    <2>3. "creates" \notin RacesOf(t, k)
      BY <1>1 DEF SendHeader
    <2>4. CASE k \in Creates
      <3>1. Creating = {}
        <4>1. \A u \in Creating : pc[u] \in {"data", "count", "store"} /\ u # t /\ u \in Threads /\ call[u].kind \in Creates
          BY <2>1, CreatingPlaces DEF Creating
        <4> QED BY <2>3, <2>4, <4>1, RaceCases
      <3>2. CreatesSent = mem_id
        BY <3>1, CounterIsRight, FS_EmptySet, Places DEF CreatesSent
      <3> QED BY <1>0, <2>1, <2>2, <2>4, <3>1, <3>2 DEF IdsInOrder
    <2>5. CASE k \notin Creates
      <3>1. Creating' = Creating /\ \A u \in Creating : u # t /\ u \in Threads
        BY <2>1, <2>5 DEF Creating
      <3> QED BY <1>0, <2>1, <3>1 DEF IdsInOrder
    <2> QED BY <2>4, <2>5
  <1>2. ASSUME NEW t \in Threads, WriteCounter(t) PROVE IdsInOrder'
    <2>1. /\ Creating' = Creating \ {t} /\ t \in Creating
          /\ ids'[call[t].dst] = seen[t] /\ \A b \in Buffers : b # call[t].dst => ids'[b] = ids[b]
      BY <1>2, StoringCounts
    <2>2. mem_id' = seen[t] + 1 /\ pc[t] = "store" /\ mem_id \in Nat
      BY <1>2, Places DEF WriteCounter
    <2>3. seen[t] = mem_id /\ call[t].dst = mem_id + 1 /\ Creating' = {}
      BY <1>0, <2>1, <2>2
    <2>4. \A b \in Buffers : ids'[b] = IF b <= mem_id' THEN b - 1 ELSE NoId
      <3> SUFFICES ASSUME NEW b \in Buffers PROVE ids'[b] = IF b <= mem_id' THEN b - 1 ELSE NoId
        OBVIOUS
      <3>1. b \in Nat
        BY DEF Buffers
      <3> QED BY <1>0, <2>1, <2>2, <2>3, <3>1
    <2> QED BY <2>3, <2>4 DEF IdsInOrder
  <1>3. CASE Quiet
    <2>1. Creating' = Creating /\ call' = call /\ ids' = ids /\ mem_id' = mem_id
      BY <1>3, QuietCounts
    <2>2. \A u \in Creating : pc'[u] = "store" => seen'[u] = mem_id
      <3>1. ASSUME NEW t \in Threads, ReadCounter(t) PROVE \A u \in Creating : pc'[u] = "store" => seen'[u] = mem_id
        <4>1. seen' = [seen EXCEPT ![t] = mem_id] /\ pc' = [pc EXCEPT ![t] = "store"]
          BY <3>1 DEF ReadCounter
        <4>2. seen'[t] = mem_id /\ \A u \in Threads : u # t => seen'[u] = seen[u] /\ pc'[u] = pc[u]
          BY <4>1, Places
        <4> QED BY <1>0, <4>2 DEF Creating
      <3>2. ASSUME NEW t \in Threads, SendData(t) PROVE \A u \in Creating : pc'[u] = "store" => seen'[u] = mem_id
        <4>1. seen' = seen /\ pc' = [pc EXCEPT ![t] = IF call[t].kind \in Creates THEN "count"
                               ELSE IF call[t].kind \in Waited THEN "wait" ELSE "idle"]
          BY <3>2 DEF SendData
        <4>2. pc'[t] # "store" /\ \A u \in Threads : u # t => pc'[u] = pc[u]
          BY <4>1, Places
        <4> QED BY <1>0, <4>1, <4>2 DEF Creating
      <3>3. ASSUME NEW t \in Threads, RecvReply(t) PROVE \A u \in Creating : pc'[u] = "store" => seen'[u] = mem_id
        <4>1. seen' = seen /\ pc' = [pc EXCEPT ![t] = "idle"]
          BY <3>3 DEF RecvReply
        <4>2. pc'[t] # "store" /\ \A u \in Threads : u # t => pc'[u] = pc[u]
          BY <4>1, Places
        <4> QED BY <1>0, <4>1, <4>2 DEF Creating
      <3>4. CASE pc' = pc /\ seen' = seen
        BY <1>0, <3>4
      <3>5. (pc' = pc /\ seen' = seen) \/ \E t \in Threads : SendData(t) \/ ReadCounter(t) \/ RecvReply(t)
        BY <1>3, Pausing DEF Quiet, HandlerCreateBuffer, HandlerCreateProgramWithSource,
               HandlerEnqueue, HandlerGarbled, Exec, ExecFails, Done, Still, clientVars
      <3> QED BY <3>1, <3>2, <3>3, <3>4, <3>5
    <2> QED BY <1>0, <2>1, <2>2 DEF IdsInOrder
  <1> QED BY <1>1, <1>2, <1>3, StepCases

-----------------------------------------------------------------------------
(* Headers and data.                                                       *)

(* Unless a request comes between the two, data follows its header.        *)
LEMMA FramedStep ==
    ASSUME TypeOK, CallsMatch, CallsInOrder, NumbersInOrder, Framed, [Next]_vars, "split" \notin races'
    PROVE  Framed'
  <1>0. /\ \A i \in DOMAIN main : main[i].kind \in WithData /\ i < Len(main) =>
             main[i + 1].kind = "data" /\ main[i + 1].n = main[i].n
        /\ \A t \in Threads : pc[t] = "data" => main # <<>> /\ main[Len(main)] = call[t]
        /\ main # <<>> /\ main[Len(main)].kind \in WithData => \E t \in Threads : pc[t] = "data" /\ call[t] = main[Len(main)]
        /\ Len(main) \in Nat /\ DOMAIN main = 1 .. Len(main) /\ main \in Seq(Message)
        /\ main # <<>> => Len(main) > 0
    <2>1. Len(main) \in Nat /\ DOMAIN main = 1 .. Len(main) /\ main \in Seq(Message)
      BY Typed DEF TypeOK
    <2>2. main # <<>> => Len(main) > 0
      BY <2>1, EmptySeq
    <2> QED BY <2>1, <2>2 DEF Framed
  <1>1. ASSUME NEW t \in Threads, NEW k \in Kinds, SendHeader(t, k) PROVE Framed'
    <2>1. PICK o \in Operands(k), m \in Message : Sends(t, k, o, m)
      BY <1>1, Sending
    <2>2. /\ main' = Append(main, m) /\ m.kind = k /\ pc[t] = "idle" /\ call' = [call EXCEPT ![t] = m]
          /\ pc' = [pc EXCEPT ![t] = AfterHeader(k)]
      BY <2>1 DEF Sends
    <2>3. /\ call'[t] = m /\ pc'[t] = AfterHeader(k)
          /\ \A u \in Threads : u # t => call'[u] = call[u] /\ pc'[u] = pc[u]
      BY <2>2, Places
    <2>4. /\ Len(main') = Len(main) + 1 /\ DOMAIN main' = 1 .. Len(main) + 1 /\ main'[Len(main) + 1] = m
          /\ \A i \in DOMAIN main : main'[i] = main[i]
      BY <2>2, Appended
    <2>5. \A u \in Threads : pc[u] # "data"
      <3>1. "split" \notin RacesOf(t, k)
        BY <1>1 DEF SendHeader
      <3> QED BY <2>2, <3>1, RaceCases
    <2>6. AfterHeader(k) = "data" <=> k \in WithData
      BY DEF AfterHeader
    <2>7. \A u \in Threads : pc'[u] = "data" => main' # <<>> /\ main'[Len(main')] = call'[u]
      <3>1. main' # <<>>
        BY <1>0, <2>4
      <3> QED BY <2>3, <2>4, <2>5, <3>1
    <2>8. main' # <<>> /\ main'[Len(main')].kind \in WithData => \E u \in Threads : pc'[u] = "data" /\ call'[u] = main'[Len(main')]
      BY <2>2, <2>3, <2>4, <2>6
    <2>9. \A i \in DOMAIN main' : main'[i].kind \in WithData /\ i < Len(main') =>
             main'[i + 1].kind = "data" /\ main'[i + 1].n = main'[i].n
      <3> SUFFICES ASSUME NEW i \in DOMAIN main', main'[i].kind \in WithData, i < Len(main')
                   PROVE  main'[i + 1].kind = "data" /\ main'[i + 1].n = main'[i].n
        OBVIOUS
      <3>1. i \in DOMAIN main /\ main'[i] = main[i]
        BY <1>0, <2>4
      <3>2. main[i].kind \in WithData
        BY <3>1
      <3>3. i # Len(main)
        BY <1>0, <2>5, <3>1, <3>2, EmptySeq
      <3>4. i < Len(main) /\ i + 1 \in DOMAIN main
        BY <1>0, <3>1, <3>3
      <3>5. main'[i + 1] = main[i + 1]
        BY <2>4, <3>4
      <3> QED BY <1>0, <3>1, <3>2, <3>4, <3>5
    <2> QED BY <2>7, <2>8, <2>9 DEF Framed
  <1>2. ASSUME NEW t \in Threads, SendData(t) PROVE Framed'
    <2> DEFINE m == [call[t] EXCEPT !.kind = "data"]
    <2>1. m \in Message /\ m.kind = "data" /\ m.n = call[t].n
      BY Places DEF Message
    <2>2. /\ main' = Append(main, m) /\ pc[t] = "data" /\ call' = call
          /\ pc' = [pc EXCEPT ![t] = IF call[t].kind \in Creates THEN "count"
                               ELSE IF call[t].kind \in Waited THEN "wait" ELSE "idle"]
      BY <1>2 DEF SendData
    <2> HIDE DEF m
    <2>3. pc'[t] # "data" /\ \A u \in Threads : u # t => pc'[u] = pc[u]
      BY <2>2, Places
    <2>4. /\ Len(main') = Len(main) + 1 /\ DOMAIN main' = 1 .. Len(main) + 1 /\ main'[Len(main) + 1] = m
          /\ \A i \in DOMAIN main : main'[i] = main[i]
      BY <2>1, <2>2, Appended
    <2>5. main # <<>> /\ main[Len(main)] = call[t]
      BY <1>0, <2>2
    <2>6. \A u \in Threads : u # t => pc[u] # "data"
      <3> SUFFICES ASSUME NEW u \in Threads, u # t, pc[u] = "data" PROVE FALSE
        OBVIOUS
      <3>1. call[u] = call[t]
        BY <1>0, <2>5
      <3>2. call[u].n # call[t].n
        BY DEF CallsMatch
      <3> QED BY <3>1, <3>2
    <2>7. \A u \in Threads : pc'[u] # "data"
      BY <2>3, <2>6
    <2>8. main'[Len(main')].kind \notin WithData
      BY <2>1, <2>4 DEF WithData, Writes
    <2>9. \A i \in DOMAIN main' : main'[i].kind \in WithData /\ i < Len(main') =>
             main'[i + 1].kind = "data" /\ main'[i + 1].n = main'[i].n
      <3> SUFFICES ASSUME NEW i \in DOMAIN main', main'[i].kind \in WithData, i < Len(main')
                   PROVE  main'[i + 1].kind = "data" /\ main'[i + 1].n = main'[i].n
        OBVIOUS
      <3>1. i \in DOMAIN main /\ main'[i] = main[i] /\ i <= Len(main)
        BY <1>0, <2>4
      <3>2. CASE i = Len(main)
        BY <2>1, <2>4, <2>5, <3>1, <3>2
      <3>3. CASE i < Len(main)
        <4>1. i + 1 \in DOMAIN main
          BY <1>0, <3>1, <3>3
        <4> QED BY <1>0, <2>4, <3>1, <3>3, <4>1
      <3> QED BY <1>0, <3>1, <3>2, <3>3
    <2> QED BY <2>7, <2>8, <2>9 DEF Framed
  <1>3. ASSUME NEW m, Handling(m), InStep(m), m.kind # "data", main' = Rest, pc' = pc, call' = call PROVE Framed'
    <2>1. PICK k \in {1, 2} :
             /\ k = (IF m.kind \in WithData THEN 2 ELSE 1) /\ k <= Len(main)
             /\ main' \in Seq(Message) /\ Len(main') = Len(main) - k /\ DOMAIN main' = 1 .. Len(main) - k
             /\ \A i \in 1 .. Len(main) - k : main'[i] = main[i + k]
             /\ k = 2 => main[2].kind = "data"
      BY <1>3, Removed
    <2>2. m = main[1] /\ Len(main) > 0
      BY <1>3, AtHead
    <2>0. /\ k \in 1 .. 2 /\ Len(main) \in Nat /\ k <= Len(main) /\ Len(main') = Len(main) - k
          /\ DOMAIN main' = 1 .. Len(main) - k /\ DOMAIN main = 1 .. Len(main)
      <3>1. k \in 1 .. 2
        OBVIOUS
      <3> QED BY <3>1, <2>1, Typed
    <2>3. \A i \in DOMAIN main' : i + k \in DOMAIN main /\ main'[i] = main[i + k]
      <3> SUFFICES ASSUME NEW i \in DOMAIN main' PROVE i + k \in DOMAIN main /\ main'[i] = main[i + k]
        OBVIOUS
      <3>1. i \in 1 .. Len(main) - k
        BY <2>0
      <3>2. main'[i] = main[i + k]
        BY <2>1, <3>1
      <3>3. i + k \in DOMAIN main
        BY <2>0, <3>1
      <3> QED BY <3>2, <3>3
    <2>4. \A i \in DOMAIN main' : main'[i].kind \in WithData /\ i < Len(main') =>
             main'[i + 1].kind = "data" /\ main'[i + 1].n = main'[i].n
      <3> SUFFICES ASSUME NEW i \in DOMAIN main', main'[i].kind \in WithData, i < Len(main')
                   PROVE  main'[i + 1].kind = "data" /\ main'[i + 1].n = main'[i].n
        OBVIOUS
      <3>1. i + 1 \in DOMAIN main' /\ i + k \in DOMAIN main /\ main'[i] = main[i + k] /\ i + k < Len(main)
        BY <2>0, <2>3
      <3>2. main'[i + 1] = main[(i + k) + 1]
        <4>1. main'[i + 1] = main[(i + 1) + k]
          BY <2>3, <3>1
        <4>2. (i + 1) + k = (i + k) + 1
          BY <2>0
        <4> QED BY <4>1, <4>2
      <3> QED BY <1>0, <3>1, <3>2
    <2>5. Len(main') > 0 => main'[Len(main')] = main[Len(main)]
      <3>1. Len(main') > 0 => Len(main') \in DOMAIN main' /\ Len(main') + k = Len(main)
        BY <2>0
      <3> QED BY <2>3, <3>1
    <2>6. main' # <<>> => Len(main') > 0
      BY <2>1, EmptySeq
    <2>7. Len(main') > 0 => main' # <<>>
      OBVIOUS
    <2>8. \A t \in Threads : pc[t] = "data" => Len(main') > 0
      <3> SUFFICES ASSUME NEW t \in Threads, pc[t] = "data", Len(main) = k PROVE FALSE
        BY <2>0
      <3>1. main[Len(main)] = call[t] /\ call[t].kind \in WithData
        BY <1>0 DEF CallsMatch
      <3>2. CASE k = 1
        BY <2>1, <2>2, <3>1, <3>2
      <3>3. CASE k = 2
        <4>1. main[2].kind = "data"
          BY <2>1, <3>3
        <4> QED BY <3>1, <3>3, <4>1 DEF WithData, Writes
      <3> QED BY <3>2, <3>3
    <2>9. \A t \in Threads : pc'[t] = "data" => main' # <<>> /\ main'[Len(main')] = call'[t]
      BY <1>0, <1>3, <2>5, <2>7, <2>8
    <2>10. main' # <<>> /\ main'[Len(main')].kind \in WithData => \E t \in Threads : pc'[t] = "data" /\ call'[t] = main'[Len(main')]
      <3>1. main # <<>>
        BY <2>2
      <3> QED BY <1>0, <1>3, <2>5, <2>6, <3>1
    <2> QED BY <2>4, <2>9, <2>10 DEF Framed
  <1>4. ASSUME NEW m, HandlerCreateBuffer(m) \/ HandlerCreateProgramWithSource(m) PROVE Framed'
    <2>1. pc' = pc /\ call' = call
      BY <1>4 DEF HandlerCreateBuffer, HandlerCreateProgramWithSource, clientVars
    <2> QED BY <1>3, <1>4, <2>1, Finishing
  <1>5. ASSUME NEW m, HandlerEnqueue(m) PROVE Framed'
    <2>1. pc' = pc /\ call' = call /\ Handling(m) /\ InStep(m) /\ main' = Rest /\ m.kind \in Queued
      BY <1>5 DEF HandlerEnqueue, clientVars
    <2>2. m.kind # "data"
      BY <2>1 DEF Queued, Writes
    <2> QED BY <1>3, <2>1, <2>2
  <1>6. ASSUME main' = main, call' = call, \A t \in Threads : pc'[t] = "data" <=> pc[t] = "data" PROVE Framed'
    BY <1>6 DEF Framed
  <1>7. ASSUME NEW t \in Threads, ReadCounter(t) \/ WriteCounter(t) \/ RecvReply(t) PROVE Framed'
    <2>1. \E p \in {"idle", "store"} : pc' = [pc EXCEPT ![t] = p]
      BY <1>7 DEF ReadCounter, WriteCounter, RecvReply
    <2>2. main' = main /\ call' = call /\ pc[t] # "data"
      BY <1>7 DEF ReadCounter, WriteCounter, RecvReply
    <2>3. \A u \in Threads : pc'[u] = "data" <=> pc[u] = "data"
      BY <2>1, <2>2, Places
    <2> QED BY <1>6, <2>2, <2>3
  <1>8. ASSUME (\E m : HandlerGarbled(m)) \/ (\E c : Exec(c) \/ ExecFails(c)) \/ Pause PROVE Framed'
    <2>1. main' = main /\ call' = call /\ pc' = pc
      BY <1>8, Pausing DEF HandlerGarbled, Exec, ExecFails, Done, Still, clientVars
    <2> QED BY <1>6, <2>1
  <1> QED BY <1>1, <1>2, <1>4, <1>5, <1>7, <1>8, FullCases DEF Calm, ThreadStep

-----------------------------------------------------------------------------
(* Replies.                                                                *)

(* Who waits, after a step that begins no call.                            *)
LEMMA SameWaiting ==
    ASSUME TypeOK, CallsMatch,
           (pc' = pc /\ call' = call) \/ \E t \in Threads : SendData(t) \/ ReadCounter(t) \/ WriteCounter(t)
    PROVE  Waiting' = Waiting /\ \A n : Awaited(n)' <=> Awaited(n)
  <1>1. call' = call
    BY DEF SendData, ReadCounter, WriteCounter
  <1>2. Waiting' = Waiting
    <2>1. CASE pc' = pc
      BY <1>1, <2>1 DEF Waiting
    <2>2. ASSUME NEW t \in Threads, SendData(t) PROVE Waiting' = Waiting
      <3>1. pc[t] = "data" /\ pc' = [pc EXCEPT ![t] = IF call[t].kind \in Creates THEN "count"
                               ELSE IF call[t].kind \in Waited THEN "wait" ELSE "idle"]
        BY <2>2 DEF SendData
      <3>2. \A u \in Threads : u # t => pc'[u] = pc[u]
        BY <3>1, Places
      <3>3. call[t].kind \in Waited => call[t].kind \notin Creates
        BY DEF Waited, Creates
      <3>4. call[t].kind \in Waited => pc'[t] = "wait"
        BY <3>1, <3>3, Places
      <3> QED BY <1>1, <3>1, <3>2, <3>4 DEF Waiting
    <2>3. ASSUME NEW t \in Threads, ReadCounter(t) \/ WriteCounter(t) PROVE Waiting' = Waiting
      <3>1. pc[t] \in {"count", "store"} /\ \E p \in {"idle", "store"} : pc' = [pc EXCEPT ![t] = p]
        BY <2>3 DEF ReadCounter, WriteCounter
      <3>2. pc'[t] \in {"idle", "store"} /\ \A u \in Threads : u # t => pc'[u] = pc[u]
        BY <3>1, Places
      <3> QED BY <1>1, <3>1, <3>2 DEF Waiting
    <2> QED BY <2>1, <2>2, <2>3
  <1> QED BY <1>1, <1>2 DEF Awaited

(* As long as no two calls wait, requests, commands and replies that are   *)
(* waited for are of one call.                                             *)
LEMMA WaitsStep ==
    ASSUME TypeOK, CallsMatch, NumbersInOrder, CallsInOrder, CreatesInOrder, OperandsThere, WaitsMatch, OneWaits,
           [Next]_vars, "waits" \notin races'
    PROVE  OneWaits'
  <1>0. /\ \A t, u \in Waiting : t = u
        /\ \A x \in OnConnection : x.kind \in Waited => Awaited(x.n)
        /\ blockedOn # 0 => Awaited(blockedOn)
        /\ \A n \in ToSet(replies) : Awaited(n)
        /\ Len(replies) <= 1
        /\ replies # <<>> => blockedOn = 0
        /\ replies # <<>> \/ blockedOn # 0 => \A x \in OnConnection : x.kind \notin Waited
        /\ ~crossed
    BY DEF OneWaits
  <1>1. /\ replies \in Seq(Nat) /\ Len(replies) \in Nat /\ (replies = <<>> <=> Len(replies) = 0)
        /\ DOMAIN replies = 1 .. Len(replies)
    BY Typed, EmptySeq DEF TypeOK
  <1>2. ASSUME Waiting' = Waiting, \A n : Awaited(n)' <=> Awaited(n), OnConnection' \subseteq OnConnection,
               blockedOn' = blockedOn, replies' = replies, crossed' = crossed
        PROVE  OneWaits'
    BY <1>0, <1>2 DEF OneWaits
  <1>3. ASSUME NEW n \in Nat PROVE Len(Append(<<>>, n)) = 1 /\ ToSet(Append(<<>>, n)) = {n} /\ Append(<<>>, n) # <<>>
    <2>1. /\ Len(Append(<<>>, n)) = 1 /\ Append(<<>>, n)[1] = n /\ Append(<<>>, n) # <<>>
          /\ Append(<<>>, n) \in Seq(Nat)
      BY <1>3
    <2>2. DOMAIN Append(<<>>, n) = {1}
      BY <2>1
    <2> QED BY <2>1, <2>2 DEF ToSet
  <1>4. ASSUME NEW t \in Threads, NEW k \in Kinds, SendHeader(t, k) PROVE OneWaits'
    <2>1. PICK x \in Pending' : OnConnection' = OnConnection \cup {x} /\ x.n = sent + 1 /\ x.kind = k
      BY <1>4, NewRequest
    <2>2. PICK o \in Operands(k), m \in Message : Sends(t, k, o, m)
      BY <1>4, Sending
    <2>3. call' = [call EXCEPT ![t] = m] /\ pc' = [pc EXCEPT ![t] = AfterHeader(k)] /\ m.n = sent + 1 /\ m.kind = k /\ pc[t] = "idle"
      BY <2>2 DEF Sends
    <2>4. call'[t] = m /\ pc'[t] = AfterHeader(k) /\ \A u \in Threads : u # t => call'[u] = call[u] /\ pc'[u] = pc[u]
      BY <2>3, Places
    <2>5. blockedOn' = blockedOn /\ replies' = replies /\ crossed' = crossed /\ "waits" \notin RacesOf(t, k)
      BY <1>4 DEF SendHeader, waitVars
    <2>6. t \notin Waiting
      BY <2>3 DEF Waiting
    <2>7. CASE k \in Waited
      <3>1. Waiting = {}
        BY <2>5, <2>6, <2>7, RaceCases DEF Waiting
      <3>2. replies = <<>> /\ blockedOn = 0 /\ \A y \in OnConnection : y.kind \notin Waited
        <4>1. \A n : ~Awaited(n)
          BY <3>1 DEF Awaited
        <4>2. ToSet(replies) = {}
          BY <1>0, <4>1
        <4>3. Len(replies) = 0
          <5>1. Len(replies) > 0 => 1 \in DOMAIN replies
            BY <1>1
          <5>2. 1 \in DOMAIN replies => replies[1] \in ToSet(replies)
            BY DEF ToSet
          <5> QED BY <1>1, <4>2, <5>1, <5>2
        <4> QED BY <1>0, <1>1, <4>1, <4>3
      <3>3. k \notin Creates
        BY <2>7 DEF Waited, Creates
      <3>4. AfterHeader(k) \in {"data", "wait"}
        BY <2>7, <3>3 DEF AfterHeader
      <3>5. Waiting' = {t}
        BY <2>3, <2>4, <2>7, <3>1, <3>4 DEF Waiting
      <3>6. Awaited(x.n)'
        <4>1. t \in Waiting' /\ call'[t].n = x.n
          BY <2>1, <2>3, <2>4, <3>5
        <4> QED BY <4>1 DEF Awaited
      <3>7. \A y \in OnConnection' : y.kind \in Waited => Awaited(y.n)'
        BY <2>1, <3>2, <3>6
      <3>8. ToSet(replies') = {} /\ Len(replies') <= 1 /\ replies' = <<>> /\ blockedOn' = 0 /\ ~crossed'
        BY <1>0, <2>5, <3>2 DEF ToSet
      <3> QED BY <3>5, <3>7, <3>8 DEF OneWaits
    <2>8. CASE k \notin Waited
      <3>1. Waiting' = Waiting
        BY <2>3, <2>4, <2>6, <2>8 DEF Waiting
      <3>2. \A n : Awaited(n)' <=> Awaited(n)
        BY <2>4, <2>6, <3>1 DEF Awaited, Waiting
      <3> QED BY <1>0, <2>1, <2>5, <2>8, <3>1, <3>2 DEF OneWaits
    <2> QED BY <2>7, <2>8
  <1>5. ASSUME NEW t \in Threads, RecvReply(t) PROVE OneWaits'
    <2>1. /\ pc[t] = "wait" /\ replies # <<>> /\ replies' = Tail(replies) /\ pc' = [pc EXCEPT ![t] = "idle"] /\ call' = call
          /\ crossed' = (crossed \/ Head(replies) # call[t].n) /\ main' = main /\ blockedOn' = blockedOn
      BY <1>5 DEF RecvReply, waitVars
    <2>2. t \in Waiting
      BY <2>1 DEF Waiting, CallsMatch
    <2>3. Len(replies) = 1 /\ Head(replies) = replies[1] /\ replies[1] \in ToSet(replies)
      BY <1>0, <1>1, <2>1 DEF ToSet
    <2>4. Awaited(replies[1])
      BY <1>0, <2>3
    <2>5. replies[1] = call[t].n
      BY <1>0, <2>2, <2>4 DEF Awaited
    <2>6. replies' = <<>>
      <3>1. Tail(replies) \in Seq(Nat) /\ Len(Tail(replies)) = 0
        BY <1>1, <2>1, <2>3, HeadTailProperties
      <3> QED BY <2>1, <3>1, EmptySeq
    <2>7. Waiting' \subseteq {}
      <3>1. pc'[t] = "idle" /\ \A u \in Threads : u # t => pc'[u] = pc[u]
        BY <2>1, Places
      <3> QED BY <1>0, <2>1, <2>2, <3>1 DEF Waiting
    <2>8. OnConnection' = OnConnection
      BY <2>1 DEF OnConnection
    <2>9. ToSet(replies') = {} /\ Len(replies') = 0
      BY <2>6 DEF ToSet
    <2>10. blockedOn' = 0 /\ (\A x \in OnConnection' : x.kind \notin Waited) /\ ~crossed'
      BY <1>0, <2>1, <2>3, <2>5, <2>8
    <2> QED BY <2>6, <2>7, <2>9, <2>10 DEF OneWaits
  <1>6. ASSUME NEW m, HandlerCreateBuffer(m) PROVE OneWaits'
    <2>1. OnConnection' = OnConnection \ {Sent(m)}
      BY <1>6, Finishing
    <2>2. blockedOn' = blockedOn /\ replies' = replies /\ crossed' = crossed /\ pc' = pc /\ call' = call
      BY <1>6 DEF HandlerCreateBuffer, Answered, Answers, Creates, clientVars, waitVars
    <2>3. OnConnection' \subseteq OnConnection
      BY <2>1
    <2> QED BY <1>2, <2>2, <2>3, SameWaiting
  <1>7. ASSUME NEW m \in Message, Sent(m) \in OnConnection, m.kind \in Waited, OnConnection' = OnConnection \ {Sent(m)},
               \A x \in OnConnection' : m.n < x.n
        PROVE  /\ Awaited(m.n) /\ replies = <<>> /\ blockedOn = 0
               /\ \A x \in OnConnection' : x.kind \notin Waited
    <2>1. Sent(m).n = m.n /\ Sent(m).kind = m.kind /\ m.n \in Nat
      BY Fields DEF Message
    <2>2. Awaited(m.n) /\ replies = <<>> /\ blockedOn = 0
      BY <1>0, <1>7, <2>1
    <2>3. ASSUME NEW x \in OnConnection', x.kind \in Waited PROVE FALSE
      <3>1. Awaited(x.n)
        BY <1>0, <1>7, <2>3
      <3>2. x.n = m.n
        BY <1>0, <2>2, <3>1 DEF Awaited
      <3> QED BY <1>7, <2>1, <3>2
    <2> QED BY <2>2, <2>3
  <1>8. ASSUME NEW m, HandlerCreateProgramWithSource(m) PROVE OneWaits'
    <2>1. /\ Sent(m) \in OnConnection /\ Handling(m) /\ InStep(m) /\ m.kind # "data" /\ main' = Rest
          /\ OnConnection' = OnConnection \ {Sent(m)}
      BY <1>8, Finishing
    <2>2. m \in Message /\ m.n \in Nat /\ \A x \in OnConnection' : m.n < x.n
      BY <2>1, AtHead, Received, First
    <2>3. /\ blockedOn' = blockedOn /\ crossed' = crossed /\ pc' = pc /\ call' = call /\ replies' = Append(replies, m.n)
          /\ m.kind \in Waited
      BY <1>8 DEF HandlerCreateProgramWithSource, Answered, Answers, Waited, clientVars, waitVars
    <2>4. /\ Awaited(m.n) /\ replies = <<>> /\ blockedOn = 0
          /\ \A x \in OnConnection' : x.kind \notin Waited
      BY <1>7, <2>1, <2>2, <2>3
    <2>5. Waiting' = Waiting /\ Awaited(m.n)'
      BY <2>3, <2>4, SameWaiting
    <2>6. replies' # <<>> /\ Len(replies') = 1 /\ ToSet(replies') = {m.n}
      BY <1>3, <2>2, <2>3, <2>4
    <2>7. \A n \in ToSet(replies') : Awaited(n)'
      BY <2>5, <2>6
    <2>8. blockedOn' = 0 /\ ~crossed' /\ \A t, u \in Waiting' : t = u
      BY <1>0, <2>3, <2>4, <2>5
    <2> QED BY <2>4, <2>6, <2>7, <2>8 DEF OneWaits
  <1>9. ASSUME NEW m, HandlerEnqueue(m) PROVE OneWaits'
    <2>1. /\ Handling(m) /\ InStep(m) /\ m.kind \in Queued /\ m.kind # "data" /\ main' = Rest
          /\ OnConnection' = OnConnection \ {Sent(m)}
      BY <1>9, Queueing
    <2>2. crossed' = crossed /\ pc' = pc /\ call' = call /\ replies' = replies /\ blockedOn' = IF m.kind \in Waited THEN m.n ELSE 0
      BY <1>9 DEF HandlerEnqueue, Handling, clientVars, waitVars
    <2>3. /\ m \in Message /\ m.n \in Nat /\ Sent(m) \in OnConnection /\ blockedOn = 0
          /\ \A x \in OnConnection' : m.n < x.n
      BY <2>1, AtHead, Received, First
    <2>4. CASE m.kind \in Waited
      <3>1. /\ Awaited(m.n) /\ replies = <<>>
            /\ \A x \in OnConnection' : x.kind \notin Waited
        BY <1>7, <2>1, <2>3, <2>4
      <3>2. Waiting' = Waiting /\ Awaited(m.n)'
        BY <2>2, <3>1, SameWaiting
      <3>3. Awaited(blockedOn)'
        BY <2>2, <2>4, <3>2 DEF Awaited
      <3>4. replies' = <<>> /\ ToSet(replies') = {} /\ Len(replies') <= 1
        BY <2>2, <3>1 DEF ToSet
      <3>5. ~crossed' /\ \A t, u \in Waiting' : t = u
        BY <1>0, <2>2, <3>2
      <3> QED BY <3>1, <3>3, <3>4, <3>5 DEF OneWaits
    <2>5. CASE m.kind \notin Waited
      BY <1>2, <2>1, <2>2, <2>3, <2>5, SameWaiting
    <2> QED BY <2>4, <2>5
  <1>10. ASSUME NEW c, Exec(c) \/ ExecFails(c) PROVE OneWaits'
    <2>1. OnConnection' = OnConnection
      BY <1>10, Executing
    <2>2. crossed' = crossed /\ pc' = pc /\ call' = call /\ replies' = replies /\ blockedOn' = blockedOn
      BY <1>10 DEF Exec, ExecFails, Done, clientVars
    <2> QED BY <1>2, <2>1, <2>2, SameWaiting
  <1>11. ASSUME NEW t \in Threads, SendData(t) \/ ReadCounter(t) \/ WriteCounter(t) PROVE OneWaits'
    <2>1. Calm
      BY <1>11 DEF Calm, ThreadStep
    <2>2. OnConnection' = OnConnection
      BY <2>1, CalmFacts
    <2>3. crossed' = crossed /\ replies' = replies /\ blockedOn' = blockedOn
      BY <1>11 DEF SendData, ReadCounter, WriteCounter, waitVars
    <2> QED BY <1>2, <1>11, <2>2, <2>3, SameWaiting
  <1>12. ASSUME HandlerReply PROVE OneWaits'
    <2>1. OnConnection' = OnConnection /\ crossed' = crossed /\ pc' = pc /\ call' = call
      BY <1>12, Pausing DEF Pause, Still, OnConnection
    <2>2. blockedOn # 0 /\ blockedOn \in Nat /\ blockedOn' = 0 /\ replies' = Append(replies, blockedOn)
      BY <1>12 DEF HandlerReply, WaitsMatch, TypeOK
    <2>3. replies = <<>> /\ Awaited(blockedOn) /\ \A x \in OnConnection : x.kind \notin Waited
      BY <1>0, <2>2
    <2>4. Waiting' = Waiting /\ \A n : Awaited(n)' <=> Awaited(n)
      BY <2>1, SameWaiting
    <2>5. replies' # <<>> /\ Len(replies') = 1 /\ ToSet(replies') = {blockedOn}
      BY <1>3, <2>2, <2>3
    <2>6. ~crossed' /\ (\A t, u \in Waiting' : t = u) /\ \A n \in ToSet(replies') : Awaited(n)'
      BY <1>0, <2>1, <2>3, <2>4, <2>5
    <2> QED BY <2>1, <2>2, <2>3, <2>5, <2>6 DEF OneWaits
  <1>13. ASSUME HandlerSleep \/ HandlerWake \/ Unskip \/ UNCHANGED vars \/ \E m : HandlerGarbled(m)
         PROVE  OneWaits'
    <2>1. main' = main /\ crossed' = crossed /\ replies' = replies /\ blockedOn' = blockedOn /\ pc' = pc /\ call' = call
      BY <1>13 DEF HandlerSleep, HandlerWake, Unskip, HandlerGarbled, vars, clientVars, waitVars
    <2>2. OnConnection' = OnConnection
      BY <2>1 DEF OnConnection
    <2> QED BY <1>2, <2>1, <2>2, SameWaiting
  <1> QED BY <1>4, <1>5, <1>6, <1>8, <1>9, <1>10, <1>11, <1>12, <1>13, FullCases DEF Calm, Pause, ThreadStep

-----------------------------------------------------------------------------
(* Buffers stay where they are as long as they are used.                   *)

(* What is on its way was sent.                                            *)
LEMMA Earlier ==
    ASSUME TypeOK, CallsInOrder
    PROVE  sent \in Nat /\ \A y \in Pending : y.n \in Nat /\ y.n <= sent /\ y.n > 0
  <1>1. sent \in Nat
    BY Typed
  <1> QED BY <1>1 DEF CallsInOrder

(* Without a race the request that begins uses what its thread meant:      *)
(* buffers that no release was sent for, or a new one.                     *)
LEMMA MeantUses ==
    ASSUME TypeOK, NumbersInOrder, IdsInOrder, NEW t \in Threads, NEW k \in Kinds, SendHeader(t, k)
    PROVE  \E x \in Pending', o \in Operands(k) :
           /\ Pending' = Pending \cup {x} /\ x.n = sent + 1 /\ x.kind = k /\ sent' = sent + 1
           /\ x.want = (IF k \in {"read", "copy"} THEN expect[o.src] ELSE 0)
           /\ IF k \in {"read", "copy"} THEN o.src \in Known /\ x.from = o.src ELSE x.from = None
           /\ IF k \in Queued \ {"read"} THEN o.dst \in Known /\ x.to = o.dst
              ELSE IF k \in Creates THEN x.to = o.dst /\ o.dst = CreatesSent + 1 ELSE x.to = None
           /\ expect' = Expected(k, sent + 1, o)
           /\ dropped' = IF k = "release" THEN dropped \cup {o.dst} ELSE dropped
           /\ Uses(x) \cap dropped = {}
  <1>1. PICK x \in Pending', o \in Operands(k) :
           /\ Pending' = Pending \cup {x} /\ x.n = sent + 1 /\ x.kind = k /\ sent' = sent + 1
           /\ x.want = (IF k \in {"read", "copy"} THEN expect[o.src] ELSE 0)
           /\ IF k \in {"read", "copy"} THEN o.src \in Known /\ x.from = ids[o.src] + 1 ELSE x.from = None
           /\ IF k \in Creates THEN o.dst = CreatesSent + 1 /\ x.to = o.dst
              ELSE IF k \in Queued \ {"read"} THEN o.dst \in Known /\ x.to = ids[o.dst] + 1 ELSE x.to = None
           /\ expect' = Expected(k, sent + 1, o)
           /\ dropped' = IF k = "release" THEN dropped \cup {o.dst} ELSE dropped
    BY NewRequest
  <1>2. \A b \in Known : ids[b] + 1 = b /\ b \in Nat
    <2> SUFFICES ASSUME NEW b \in Known PROVE ids[b] + 1 = b /\ b \in Nat
      OBVIOUS
    <2>1. b \in Buffers /\ ids[b] # NoId /\ b \in Nat
      BY DEF Known, Numbered, Buffers
    <2>2. ids[b] = b - 1
      BY <2>1 DEF IdsInOrder
    <2> QED BY <2>1, <2>2
  <1>3. IF k \in {"read", "copy"} THEN o.src \in Known /\ x.from = o.src ELSE x.from = None
    BY <1>1, <1>2
  <1>4. k \in Queued \ {"read"} => k \notin Creates
    BY DEF Queued, Writes, Creates
  <1>5. IF k \in Queued \ {"read"} THEN o.dst \in Known /\ x.to = o.dst
        ELSE IF k \in Creates THEN x.to = o.dst /\ o.dst = CreatesSent + 1 ELSE x.to = None
    BY <1>1, <1>2, <1>4
  <1>6. Known \cap dropped = {} /\ dropped \subseteq Numbered
    BY DEF Known, TypeOK
  <1>7. CreatesSent + 1 \notin Numbered
    BY Counts
  <1>8. Uses(x) \cap dropped = {}
    BY <1>3, <1>5, <1>6, <1>7 DEF Uses
  <1>9. /\ Pending' = Pending \cup {x} /\ x.n = sent + 1 /\ x.kind = k /\ sent' = sent + 1
        /\ x.want = (IF k \in {"read", "copy"} THEN expect[o.src] ELSE 0)
        /\ expect' = Expected(k, sent + 1, o)
        /\ dropped' = IF k = "release" THEN dropped \cup {o.dst} ELSE dropped
    BY <1>1
  <1> QED BY <1>3, <1>5, <1>8, <1>9

(* Of two requests the one with the smaller number is not the newest.      *)
LEMMA Older ==
    ASSUME NEW N \in Nat, NEW P, NEW x, x.n = N + 1, \A y \in P : y.n \in Nat /\ y.n <= N,
           NEW y \in P \cup {x}, NEW z \in P \cup {x}, y.n < z.n
    PROVE  y \in P
  <1>1. z.n \in Nat /\ z.n <= N + 1
    OBVIOUS
  <1>2. y # x
    BY <1>1
  <1> QED BY <1>2

(* Commands keep pointing into the vector's memory.                        *)
LEMMA EntriesStep ==
    ASSUME TypeOK, CallsMatch, NumbersInOrder, CallsInOrder, CreatesInOrder, OperandsThere, EntriesStay, [Next]_vars,
           "created late" \notin races'
    PROVE  EntriesStay'
  <1>0. /\ \A c \in ToSet(commands) : ~Stale(c)
        /\ \A x, y \in Pending : y.kind \in Creates /\ x.n < y.n => x.kind \notin Writes \cup {"read"}
    BY DEF EntriesStay
  <1>1. ASSUME NEW t \in Threads, NEW k \in Kinds, SendHeader(t, k) PROVE EntriesStay'
    <2>1. PICK x \in Pending' : Pending' = Pending \cup {x} /\ x.n = sent + 1 /\ x.kind = k
      BY <1>1, NewUses
    <2>2. commands' = commands /\ storage' = storage /\ "created late" \notin RacesOf(t, k)
      BY <1>1 DEF SendHeader, sessionVars, queueVars
    <2>3. sent \in Nat /\ \A y \in Pending : y.n \in Nat /\ y.n <= sent
      BY Earlier
    <2>4. k \in Creates => \A y \in Pending : y.kind \notin Writes \cup {"read"}
      <3> SUFFICES ASSUME k \in Creates, NEW y \in Pending PROVE y.kind \notin Writes \cup {"read"}
        OBVIOUS
      <3>1. (\E i \in DOMAIN main : y.kind = main[i].kind) \/ (\E i \in DOMAIN commands : y.kind = commands[i].kind)
        <4>1. CASE y \in OnConnection
          <5>1. PICK i \in DOMAIN main : y = Sent(main[i])
            BY <4>1, Members
          <5>2. y.kind = main[i].kind
            BY <5>1, Fields
          <5> QED BY <5>2
        <4>2. CASE y \in InQueue
          <5>1. PICK i \in DOMAIN commands : y = Taken(commands[i])
            BY <4>2, Members
          <5>2. y.kind = commands[i].kind
            BY <5>1, Fields
          <5> QED BY <5>2
        <4> QED BY <4>1, <4>2 DEF Pending
      <3> QED BY <2>2, <3>1, RaceCases
    <2>5. \A y, z \in Pending' : z.kind \in Creates /\ y.n < z.n => y.kind \notin Writes \cup {"read"}
      <3> SUFFICES ASSUME NEW y \in Pending', NEW z \in Pending', z.kind \in Creates, y.n < z.n
                   PROVE  y.kind \notin Writes \cup {"read"}
        OBVIOUS
      <3>1. y \in Pending
        <4>1. y \in Pending \cup {x} /\ z \in Pending \cup {x} /\ y.n < z.n /\ x.n = sent + 1 /\ sent \in Nat
          BY <2>1, <2>3
        <4>2. \A w \in Pending : w.n \in Nat /\ w.n <= sent
          BY <2>3
        <4> HIDE DEF Pending
        <4> QED BY <4>1, <4>2, Older
      <3>2. CASE z \in Pending
        BY <1>0, <3>1, <3>2
      <3>3. CASE z = x
        BY <2>1, <2>4, <3>1, <3>3
      <3> QED BY <2>1, <3>2, <3>3
    <2> QED BY <1>0, <2>2, <2>5 DEF EntriesStay, Stale
  <1>2. ASSUME NEW m, HandlerCreateBuffer(m) PROVE EntriesStay'
    <2>1. Pending' = Pending \ {Sent(m)} /\ Handling(m) /\ m.kind # "data"
      BY <1>2, Finishing
    <2>2. commands' = commands
      BY <1>2 DEF HandlerCreateBuffer, queueVars
    <2>3. Sent(m) \in Pending /\ Sent(m).n = m.n /\ Sent(m).kind = m.kind /\ m.kind \in Creates
      BY <1>2, NextCreate
    <2>4. \A c \in ToSet(commands) : c.kind \notin Writes \cup {"read"}
      <3> SUFFICES ASSUME NEW c \in ToSet(commands) PROVE c.kind \notin Writes \cup {"read"}
        OBVIOUS
      <3>1. Taken(c) \in InQueue /\ Taken(c).kind = c.kind
        BY Fields DEF InQueue
      <3>2. Taken(c).n < m.n
        BY <2>1, <3>1, First
      <3> QED BY <1>0, <2>3, <3>1, <3>2 DEF Pending
    <2>5. \A c \in ToSet(commands') : ~Stale(c)'
      BY <2>2, <2>4 DEF Stale
    <2> QED BY <1>0, <2>1, <2>5 DEF EntriesStay
  <1>3. ASSUME NEW m, HandlerEnqueue(m) PROVE EntriesStay'
    <2>1. Pending' = Pending /\ ToSet(commands') = ToSet(commands) \cup {CommandFor(m)}
      BY <1>3, Queueing
    <2>2. storage' = storage /\ CommandFor(m).storage = storage
      BY <1>3 DEF HandlerEnqueue, sessionVars, CommandFor
    <2> QED BY <1>0, <2>1, <2>2 DEF EntriesStay, Stale
  <1>4. ASSUME Pending' \subseteq Pending, ToSet(commands') \subseteq ToSet(commands), storage' = storage PROVE EntriesStay'
    BY <1>0, <1>4 DEF EntriesStay, Stale
  <1>5. ASSUME NEW m, HandlerCreateProgramWithSource(m) PROVE EntriesStay'
    <2>1. Pending' = Pending \ {Sent(m)}
      BY <1>5, Finishing
    <2>2. commands' = commands /\ storage' = storage
      BY <1>5 DEF HandlerCreateProgramWithSource, sessionVars, queueVars
    <2> QED BY <1>4, <2>1, <2>2
  <1>6. ASSUME NEW c, Exec(c) \/ ExecFails(c) PROVE EntriesStay'
    <2>1. Pending' = Pending \ {Taken(c)} /\ ToSet(commands') \subseteq ToSet(commands)
      BY <1>6, Executing
    <2>2. storage' = storage
      BY <1>6 DEF Exec, ExecFails, Done, sessionVars
    <2> QED BY <1>4, <2>1, <2>2
  <1>7. CASE Calm
    BY <1>4, <1>7, CalmFacts
  <1> QED BY <1>1, <1>2, <1>3, <1>5, <1>6, <1>7, FullCases

(* Nothing uses a buffer after its release.                                *)
LEMMA ReleasedStep ==
    ASSUME TypeOK, CallsMatch, NumbersInOrder, CallsInOrder, CreatesInOrder, OperandsThere, IdsInOrder, ReleasedLast,
           [Next]_vars
    PROVE  ReleasedLast'
  <1>0. /\ released \subseteq dropped
        /\ \A x \in Pending : x.kind = "release" => x.to \in dropped
        /\ \A x, y \in Pending : x.kind = "release" /\ x.n < y.n => x.to \notin Uses(y)
        /\ \A x \in Pending : Uses(x) \cap released = {}
    BY DEF ReleasedLast
  <1>1. ASSUME NEW t \in Threads, NEW k \in Kinds, SendHeader(t, k) PROVE ReleasedLast'
    <2>1. PICK x \in Pending', o \in Operands(k) :
           /\ Pending' = Pending \cup {x} /\ x.n = sent + 1 /\ x.kind = k
           /\ k = "release" => x.to = o.dst
           /\ dropped' = IF k = "release" THEN dropped \cup {o.dst} ELSE dropped
           /\ Uses(x) \cap dropped = {}
      BY <1>1, MeantUses DEF Queued
    <2>2. released' = released
      BY <1>1 DEF SendHeader, deviceVars
    <2>3. sent \in Nat /\ \A y \in Pending : y.n \in Nat /\ y.n <= sent
      BY Earlier
    <2>4. \A y \in Pending' : y.kind = "release" => y.to \in dropped'
      BY <1>0, <2>1
    <2>5. \A y, z \in Pending' : y.kind = "release" /\ y.n < z.n => y.to \notin Uses(z)
      <3> SUFFICES ASSUME NEW y \in Pending', NEW z \in Pending', y.kind = "release", y.n < z.n PROVE y.to \notin Uses(z)
        OBVIOUS
      <3>1. y \in Pending
        BY <2>1, <2>3
      <3>2. CASE z \in Pending
        BY <1>0, <3>1, <3>2
      <3>3. CASE z = x
        BY <1>0, <2>1, <3>1, <3>3
      <3> QED BY <2>1, <3>2, <3>3
    <2>6. \A y \in Pending' : Uses(y) \cap released = {}
      BY <1>0, <2>1
    <2>7. released \subseteq dropped'
      BY <1>0, <2>1
    <2> QED BY <2>2, <2>4, <2>5, <2>6, <2>7 DEF ReleasedLast
  <1>2. ASSUME Pending' \subseteq Pending, released' = released, dropped' = dropped PROVE ReleasedLast'
    BY <1>0, <1>2 DEF ReleasedLast
  <1>3. ASSUME NEW m, HandlerCreateBuffer(m) \/ HandlerCreateProgramWithSource(m) PROVE ReleasedLast'
    <2>1. Pending' \subseteq Pending
      BY <1>3, Finishing
    <2>2. released' = released /\ dropped' = dropped
      BY <1>3 DEF HandlerCreateBuffer, HandlerCreateProgramWithSource, deviceVars, clientVars
    <2> QED BY <1>2, <2>1, <2>2
  <1>4. ASSUME NEW m, HandlerEnqueue(m) PROVE ReleasedLast'
    <2>1. Pending' \subseteq Pending
      BY <1>4, Queueing
    <2>2. released' = released /\ dropped' = dropped
      BY <1>4 DEF HandlerEnqueue, deviceVars, clientVars
    <2> QED BY <1>2, <2>1, <2>2
  <1>5. ASSUME NEW c, Exec(c) \/ ExecFails(c) PROVE ReleasedLast'
    <2>1. /\ Pending' = Pending \ {Taken(c)} /\ Taken(c) \in Pending
          /\ \A x \in Pending' : c.n < x.n
      BY <1>5, Executing
    <2>2. dropped' = dropped /\ (released' = released \/ (c.kind = "release" /\ released' = released \cup {c.dst}))
      BY <1>5 DEF Exec, ExecFails, Done, deviceVars, clientVars
    <2>3. CASE released' = released
      BY <1>2, <2>1, <2>2, <2>3
    <2>4. CASE c.kind = "release" /\ released' = released \cup {c.dst}
      <3>1. Taken(c).kind = "release" /\ Taken(c).to = c.dst /\ Taken(c).n = c.n
        BY <2>4, Fields
      <3>2. c.dst \in dropped
        BY <1>0, <2>1, <3>1
      <3>3. \A x \in Pending' : c.dst \notin Uses(x)
        BY <1>0, <2>1, <3>1
      <3>4. \A x \in Pending' : Uses(x) \cap released' = {}
        BY <1>0, <2>1, <2>4, <3>3
      <3>5. released' \subseteq dropped'
        BY <1>0, <2>2, <2>4, <3>2
      <3> QED BY <1>0, <2>1, <2>2, <3>4, <3>5 DEF ReleasedLast
    <2> QED BY <2>2, <2>3, <2>4
  <1>6. CASE Calm
    BY <1>2, <1>6, CalmFacts
  <1> QED BY <1>1, <1>3, <1>4, <1>5, <1>6, FullCases

(* No command fails then.                                                  *)
LEMMA NoFailure ==
    ASSUME TypeOK, NumbersInOrder, CallsInOrder, CreatesInOrder, OperandsThere, EntriesStay, ReleasedLast, NEW c
    PROVE  ~ExecFails(c)
  <1> SUFFICES ASSUME ExecFails(c) PROVE FALSE
    OBVIOUS
  <1>1. c \in ToSet(commands) /\ Taken(c) \in Pending
    BY Executing
  <1>2. Touches(c) \cap released # {}
    BY <1>1 DEF ExecFails, EntriesStay
  <1>3. Touches(c) = Uses(Taken(c))
    <2>1. IF c.kind = "read" THEN c.slot \in 1 .. Len(mems) /\ c.dst = None ELSE TRUE
      BY <1>1 DEF OperandsThere
    <2>2. c.kind = "read" => mems[c.slot] = c.slot
      BY <2>1, Vector
    <2>3. Uses(Taken(c)) = {IF c.kind = "read" THEN c.slot ELSE c.src, c.dst} \ {None}
      BY Fields DEF Uses
    <2>4. CASE c.kind = "read"
      <3>1. Touches(c) = {c.slot} \ {None}
        BY <2>2, <2>4 DEF Touches
      <3>2. Uses(Taken(c)) = {c.slot, None} \ {None}
        BY <2>1, <2>3, <2>4
      <3> QED BY <3>1, <3>2
    <2>5. CASE c.kind # "read"
      BY <2>3, <2>5 DEF Touches
    <2> QED BY <2>4, <2>5
  <1> QED BY <1>1, <1>2, <1>3 DEF ReleasedLast

-----------------------------------------------------------------------------
(* What the calls leave in the buffers.                                    *)

(* A new request changes nothing for the calls up to its own ...           *)
LEMMA NewLater ==
    ASSUME NEW P, NEW x, NEW N \in Nat, x.n = N, NEW now, NEW b, NEW n \in Nat, n <= N, NEW v, LeftIn(P, now, b, n, v)
    PROVE  LeftIn(P \cup {x}, now, b, n, v)
  <1>1. Before(P \cup {x}, b, n) = Before(P, b, n)
    BY DEF Before
  <1> QED BY <1>1 DEF LeftIn

(* ... leaves its value for those after it in the buffer it modifies ...   *)
LEMMA NewModifies ==
    ASSUME NEW P, NEW x, NEW N \in Nat, x.n = N, \A y \in P : y.n \in Nat /\ y.n < N, NEW now, NEW b, Modifies(x, b)
    PROVE  LeftIn(P \cup {x}, now, b, N + 1, Value(x))
  <1> DEFINE earlier == Before(P \cup {x}, b, N + 1)
  <1>1. x \in earlier
    BY DEF Before
  <1>2. \A y \in earlier : y.n <= x.n
    BY DEF Before
  <1> HIDE DEF earlier
  <1>3. earlier # {} /\ \E y \in earlier : Value(y) = Value(x) /\ \A z \in earlier : z.n <= y.n
    BY <1>1, <1>2
  <1> QED BY <1>3 DEF earlier, LeftIn

(* ... and the other buffers as they were.                                 *)
LEMMA NewElsewhere ==
    ASSUME NEW P, NEW x, NEW N \in Nat, x.n = N, \A y \in P : y.n \in Nat /\ y.n < N, NEW now, NEW b, ~Modifies(x, b),
           NEW v, LeftIn(P, now, b, N, v)
    PROVE  LeftIn(P \cup {x}, now, b, N + 1, v)
  <1>1. Before(P \cup {x}, b, N + 1) = Before(P, b, N)
    BY DEF Before
  <1> QED BY <1>1 DEF LeftIn

(* The request that takes effect is the first to modify its buffer, which  *)
(* leaves its value there for the calls after it.                          *)
LEMMA TakesEffect ==
    ASSUME NEW P, NEW s \in P, \A y \in P : y.n \in Nat, NEW now, NEW now2, NEW b, NEW n \in Nat, NEW v,
           Modifies(s, b) => s.n < n /\ now2[b] = Value(s) /\ \A y \in P \ {s} : Modifies(y, b) => s.n < y.n,
           ~Modifies(s, b) => now2[b] = now[b],
           LeftIn(P, now, b, n, v)
    PROVE  LeftIn(P \ {s}, now2, b, n, v)
  <1> DEFINE earlier == Before(P, b, n)
             later == Before(P \ {s}, b, n)
  <1>1. later = earlier \ {s}
    BY DEF Before
  <1>2. s \in earlier <=> Modifies(s, b) /\ s.n < n
    BY DEF Before
  <1>3. \A y \in earlier : y \in P /\ Modifies(y, b) /\ y.n \in Nat
    BY DEF Before
  <1>4. IF earlier = {} THEN v = now[b] ELSE \E x \in earlier : Value(x) = v /\ \A y \in earlier : y.n <= x.n
    BY DEF LeftIn
  <1> HIDE DEF earlier, later
  <1>5. IF later = {} THEN v = now2[b] ELSE \E x \in later : Value(x) = v /\ \A y \in later : y.n <= x.n
    <2>1. CASE ~Modifies(s, b)
      <3>1. later = earlier /\ now2[b] = now[b]
        BY <1>1, <1>2, <2>1
      <3> QED BY <1>4, <3>1
    <2>2. CASE Modifies(s, b)
      <3>1. s \in earlier /\ now2[b] = Value(s)
        BY <1>2, <2>2
      <3>2. PICK x \in earlier : Value(x) = v /\ \A y \in earlier : y.n <= x.n
        BY <1>4, <3>1
      <3>3. CASE x = s
        <4>1. \A y \in later : s.n < y.n /\ y.n <= s.n /\ y.n \in Nat /\ s.n \in Nat
          BY <1>1, <1>3, <2>2, <3>2, <3>3
        <4>2. later = {}
          BY <4>1
        <4> QED BY <3>1, <3>2, <3>3, <4>2
      <3>4. CASE x # s
        BY <1>1, <3>2, <3>4
      <3> QED BY <3>3, <3>4
    <2> QED BY <2>1, <2>2
  <1> QED BY <1>5 DEF later, LeftIn

(* What is found before all that is on its way is there now.               *)
LEMMA FoundNow ==
    ASSUME NEW P, NEW now, NEW b, NEW n \in Nat, \A y \in P : y.n \in Nat /\ ~(y.n < n), NEW v, LeftIn(P, now, b, n, v)
    PROVE  v = now[b]
  <1>1. Before(P, b, n) = {}
    BY DEF Before
  <1> QED BY <1>1 DEF LeftIn

(* The values of the calls stay right when a request begins ...            *)
LEMMA ContentsSending ==
    ASSUME TypeOK, NumbersInOrder, CallsInOrder, IdsInOrder, ContentsRight,
           NEW t \in Threads, NEW k \in Kinds, SendHeader(t, k)
    PROVE  ContentsRight'
  <1>1. PICK x \in Pending', o \in Operands(k) :
           /\ Pending' = Pending \cup {x} /\ x.n = sent + 1 /\ x.kind = k /\ sent' = sent + 1
           /\ x.want = (IF k \in {"read", "copy"} THEN expect[o.src] ELSE 0)
           /\ IF k \in {"read", "copy"} THEN o.src \in Known /\ x.from = o.src ELSE x.from = None
           /\ IF k \in Queued \ {"read"} THEN o.dst \in Known /\ x.to = o.dst
              ELSE IF k \in Creates THEN x.to = o.dst /\ o.dst = CreatesSent + 1 ELSE x.to = None
           /\ expect' = Expected(k, sent + 1, o)
    BY MeantUses
  <1>2. contents' = contents /\ lastRead' = lastRead
    BY <1>1 DEF SendHeader, deviceVars
  <1>3. sent \in Nat /\ sent + 1 \in Nat /\ \A y \in Pending : y.n \in Nat /\ y.n < sent + 1
    BY Earlier
  <1>4. /\ \A b \in Buffers : LeftIn(Pending, contents, b, sent + 1, expect[b])
        /\ \A y \in Pending : y.from # None => LeftIn(Pending, contents, y.from, y.n, y.want)
        /\ lastRead.got = lastRead.want
    BY DEF ContentsRight
  <1>5. \A b \in Buffers : IF Modifies(x, b) THEN expect'[b] = Value(x) ELSE expect'[b] = expect[b]
    <2> SUFFICES ASSUME NEW b \in Buffers PROVE IF Modifies(x, b) THEN expect'[b] = Value(x) ELSE expect'[b] = expect[b]
      OBVIOUS
    <2>1. expect \in [Buffers -> Nat]
      BY DEF TypeOK
    <2>2. CASE k \in Writes \cup {"createFrom"}
      <3>1. x.to = o.dst /\ k # "copy"
        BY <1>1, <2>2 DEF Queued, Writes, Creates
      <3>2. expect' = [expect EXCEPT ![o.dst] = sent + 1]
        BY <1>1, <2>2, <3>1 DEF Expected
      <3>3. Modifies(x, b) <=> o.dst = b
        BY <1>1, <2>2, <3>1 DEF Modifies
      <3>4. Value(x) = sent + 1
        BY <1>1, <3>1 DEF Value
      <3> QED BY <2>1, <3>2, <3>3, <3>4
    <2>3. CASE k = "copy"
      <3>1. x.to = o.dst
        BY <1>1, <2>3 DEF Queued
      <3>2. expect' = [expect EXCEPT ![o.dst] = expect[o.src]]
        BY <1>1, <2>3 DEF Expected, Writes
      <3>3. Modifies(x, b) <=> o.dst = b
        BY <1>1, <2>3, <3>1 DEF Modifies
      <3>4. Value(x) = expect[o.src]
        BY <1>1, <2>3 DEF Value
      <3> QED BY <2>1, <3>2, <3>3, <3>4
    <2>4. CASE k \notin Writes \cup {"createFrom", "copy"}
      <3>1. ~Modifies(x, b)
        BY <1>1, <2>4 DEF Modifies
      <3>2. expect' = expect
        BY <1>1, <2>4 DEF Expected
      <3> QED BY <3>1, <3>2
    <2> QED BY <2>2, <2>3, <2>4
  <1>6. \A b \in Buffers : LeftIn(Pending', contents', b, sent' + 1, expect'[b])
    <2> SUFFICES ASSUME NEW b \in Buffers PROVE LeftIn(Pending', contents', b, sent' + 1, expect'[b])
      OBVIOUS
    <2>1. CASE Modifies(x, b)
      <3>1. LeftIn(Pending \cup {x}, contents, b, (sent + 1) + 1, Value(x))
        BY <1>1, <1>3, <2>1, NewModifies
      <3>2. Pending' = Pending \cup {x} /\ sent' = sent + 1 /\ expect'[b] = Value(x)
        BY <1>1, <1>5, <2>1
      <3> QED BY <1>2, <3>1, <3>2
    <2>2. CASE ~Modifies(x, b)
      <3>1. LeftIn(Pending, contents, b, sent + 1, expect[b])
        BY <1>4
      <3>2. LeftIn(Pending \cup {x}, contents, b, (sent + 1) + 1, expect[b])
        BY <1>1, <1>3, <2>2, <3>1, NewElsewhere
      <3>3. Pending' = Pending \cup {x} /\ sent' = sent + 1 /\ expect'[b] = expect[b]
        BY <1>1, <1>5, <2>2
      <3> QED BY <1>2, <3>2, <3>3
    <2> QED BY <2>1, <2>2
  <1>7. \A y \in Pending' : y.from # None => LeftIn(Pending', contents', y.from, y.n, y.want)
    <2> SUFFICES ASSUME NEW y \in Pending', y.from # None PROVE LeftIn(Pending', contents', y.from, y.n, y.want)
      OBVIOUS
    <2>1. LeftIn(Pending, contents, y.from, y.n, y.want) /\ y.n \in Nat /\ y.n <= sent + 1
      <3>1. CASE y \in Pending
        BY <1>3, <1>4, <3>1
      <3>2. CASE y = x
        <4>1. k \in {"read", "copy"} /\ o.src \in Known /\ y.from = o.src /\ y.want = expect[o.src] /\ y.n = sent + 1
          BY <1>1, <3>2
        <4>2. o.src \in Buffers
          BY <4>1 DEF Known, Numbered
        <4> QED BY <1>3, <1>4, <4>1, <4>2
      <3> QED BY <1>1, <3>1, <3>2
    <2>2. x.n = sent + 1
      BY <1>1
    <2>3. LeftIn(Pending \cup {x}, contents, y.from, y.n, y.want)
      BY <1>3, <2>1, <2>2, NewLater
    <2> QED BY <1>1, <1>2, <2>3
  <1> QED BY <1>2, <1>4, <1>6, <1>7 DEF ContentsRight

(* ... and when one takes effect.                                          *)
LEMMA ContentsTaking ==
    ASSUME TypeOK, CallsInOrder, NumbersInOrder, OperandsThere, ContentsRight, NEW s \in Pending, Pending' = Pending \ {s},
           sent' = sent, expect' = expect, lastRead'.got = lastRead'.want,
           \A b \in Buffers : IF Modifies(s, b) THEN contents'[b] = Value(s) ELSE contents'[b] = contents[b],
           \A b \in Buffers : \A y \in Pending \ {s} : Modifies(s, b) /\ b \in Uses(y) => s.n < y.n
    PROVE  ContentsRight'
  <1>1. sent \in Nat /\ sent + 1 \in Nat /\ \A y \in Pending : y.n \in Nat /\ y.n < sent + 1
    BY Earlier
  <1>2. \A b \in Buffers : \A y : Modifies(y, b) => b \in Uses(y)
    <2>1. \A b \in Buffers : b # None
      BY DEF Buffers, None
    <2> QED BY <2>1 DEF Modifies, Uses
  <1>3. ASSUME NEW b \in Buffers, NEW n \in Nat, NEW v, LeftIn(Pending, contents, b, n, v), Modifies(s, b) => s.n < n
        PROVE  LeftIn(Pending', contents', b, n, v)
    <2>1. /\ Modifies(s, b) => s.n < n /\ contents'[b] = Value(s) /\ \A y \in Pending \ {s} : Modifies(y, b) => s.n < y.n
          /\ ~Modifies(s, b) => contents'[b] = contents[b]
      BY <1>2, <1>3
    <2>2. LeftIn(Pending \ {s}, contents', b, n, v)
      BY <1>1, <1>3, <2>1, TakesEffect
    <2> QED BY <2>2
  <1>4. \A b \in Buffers : LeftIn(Pending', contents', b, sent' + 1, expect'[b])
    <2> SUFFICES ASSUME NEW b \in Buffers PROVE LeftIn(Pending', contents', b, sent + 1, expect[b])
      OBVIOUS
    <2>1. LeftIn(Pending, contents, b, sent + 1, expect[b]) /\ s.n < sent + 1
      BY <1>1 DEF ContentsRight
    <2> QED BY <1>1, <1>3, <2>1
  <1>5. \A y \in Pending' : y.from # None => LeftIn(Pending', contents', y.from, y.n, y.want)
    <2> SUFFICES ASSUME NEW y \in Pending', y.from # None PROVE LeftIn(Pending', contents', y.from, y.n, y.want)
      OBVIOUS
    <2>1. y \in Pending /\ y \in Pending \ {s} /\ y.from \in Uses(y) /\ y.n \in Nat
      BY <1>1 DEF Uses
    <2>2. y.from \in Buffers
      <3>1. y.from \in 1 .. CreatesSent
        BY <2>1 DEF OperandsThere
      <3>2. CreatesSent \in Nat /\ CreatesSent <= MaxBuffers /\ MaxBuffers \in Nat
        BY Counts, Typed
      <3> QED BY <3>1, <3>2 DEF Buffers
    <2>3. LeftIn(Pending, contents, y.from, y.n, y.want)
      BY <2>1 DEF ContentsRight
    <2>4. Modifies(s, y.from) => s.n < y.n
      BY <2>1, <2>2
    <2> QED BY <1>3, <2>1, <2>2, <2>3, <2>4
  <1> QED BY <1>4, <1>5 DEF ContentsRight

(* Contents stay right in each step, while entries stay and nothing is     *)
(* used after its release.                                                 *)
LEMMA ContentsStep ==
    ASSUME TypeOK, CallsMatch, NumbersInOrder, CallsInOrder, CreatesInOrder, OperandsThere, IdsInOrder, EntriesStay,
           ReleasedLast, ContentsRight, [Next]_vars
    PROVE  ContentsRight'
  <1>1. ASSUME NEW t \in Threads, NEW k \in Kinds, SendHeader(t, k) PROVE ContentsRight'
    BY <1>1, ContentsSending
  <1>2. ASSUME NEW m, HandlerCreateBuffer(m) PROVE ContentsRight'
    <2> DEFINE s == Sent(m)
    <2>1. /\ m.dst = Len(mems) + 1 /\ s.to = m.dst /\ s.kind = m.kind /\ s.n = m.n
          /\ s \in Pending /\ m.dst \in Buffers /\ m.kind \in Creates /\ m.n \in Nat
      BY <1>2, NextCreate
    <2>2. Pending' = Pending \ {s}
      BY <1>2, Finishing
    <2>3. sent' = sent /\ expect' = expect /\ lastRead' = lastRead /\ lastRead.got = lastRead.want
      BY <1>2 DEF HandlerCreateBuffer, ContentsRight
    <2>4. contents' = [contents EXCEPT ![m.dst] = IF m.kind = "createFrom" THEN m.n ELSE 0]
      BY <1>2 DEF HandlerCreateBuffer
    <2>5. contents[m.dst] = 0
      <3>1. m.dst > Len(mems)
        BY <2>1, Typed
      <3> QED BY <2>1, <3>1 DEF CreatesInOrder
    <2>6. \A b \in Buffers : IF Modifies(s, b) THEN contents'[b] = Value(s) ELSE contents'[b] = contents[b]
      <3> SUFFICES ASSUME NEW b \in Buffers PROVE IF Modifies(s, b) THEN contents'[b] = Value(s) ELSE contents'[b] = contents[b]
        OBVIOUS
      <3>1. contents'[b] = IF b = m.dst THEN IF m.kind = "createFrom" THEN m.n ELSE 0 ELSE contents[b]
        BY <2>4 DEF TypeOK
      <3>2. Modifies(s, b) <=> b = m.dst /\ m.kind = "createFrom"
        BY <2>1 DEF Modifies, Creates, Writes
      <3>3. Modifies(s, b) => Value(s) = m.n
        BY <2>1, <3>2 DEF Value
      <3> QED BY <2>5, <3>1, <3>2, <3>3
    <2>7. \A b \in Buffers : \A y \in Pending \ {s} : Modifies(s, b) /\ b \in Uses(y) => s.n < y.n
      <3> SUFFICES ASSUME NEW b \in Buffers, NEW y \in Pending \ {s}, Modifies(s, b), b \in Uses(y) PROVE s.n < y.n
        OBVIOUS
      <3>1. b = s.to /\ s.kind \in Creates /\ b \in Nat
        BY <2>1 DEF Modifies, Buffers
      <3>2. ~(y.n < s.n)
        <4>1. y.n < s.n => b < s.to
          BY <2>1, <3>1 DEF OperandsThere
        <4> QED BY <3>1, <4>1
      <3>3. y.n # s.n
        BY <2>1, Unique
      <3>4. y.n \in Nat /\ s.n \in Nat
        BY <2>1, Earlier
      <3> QED BY <3>2, <3>3, <3>4
    <2> HIDE DEF s
    <2> QED BY <2>1, <2>2, <2>3, <2>6, <2>7, ContentsTaking
  <1>3. ASSUME NEW m, HandlerCreateProgramWithSource(m) PROVE ContentsRight'
    <2> DEFINE s == Sent(m)
    <2>1. s \in Pending /\ Pending' = Pending \ {s}
      BY <1>3, Finishing DEF Pending
    <2>2. s.kind \in {"program", "build"}
      BY <1>3, Fields DEF HandlerCreateProgramWithSource
    <2>3. sent' = sent /\ expect' = expect /\ lastRead' = lastRead /\ contents' = contents /\ lastRead.got = lastRead.want
      BY <1>3 DEF HandlerCreateProgramWithSource, deviceVars, ContentsRight
    <2> HIDE DEF s
    <2>4. \A b : ~Modifies(s, b)
      BY <2>2 DEF Modifies, Writes
    <2> QED BY <2>1, <2>3, <2>4, ContentsTaking
  <1>4. ASSUME Pending' = Pending, sent' = sent, expect' = expect, lastRead' = lastRead, contents' = contents
        PROVE  ContentsRight'
    BY <1>4 DEF ContentsRight
  <1>5. ASSUME NEW m, HandlerEnqueue(m) PROVE ContentsRight'
    <2>1. Pending' = Pending
      BY <1>5, Queueing
    <2>2. sent' = sent /\ expect' = expect /\ lastRead' = lastRead /\ contents' = contents
      BY <1>5 DEF HandlerEnqueue, deviceVars
    <2> QED BY <1>4, <2>1, <2>2
  <1>6. ASSUME NEW c, Exec(c) PROVE ContentsRight'
    <2> DEFINE s == Taken(c)
    <2>1. /\ s \in Pending /\ Pending' = Pending \ {s} /\ c.n \in Nat /\ c \in ToSet(commands) /\ c.kind \in Queued
          /\ \A x \in Pending' : c.n < x.n
      BY <1>6, Executing DEF Command
    <2>2. s.n = c.n /\ s.kind = c.kind /\ s.want = c.want /\ s.to = c.dst
          /\ s.from = IF c.kind = "read" THEN c.slot ELSE c.src
      BY Fields
    <2> HIDE DEF s
    <2>3. \A x \in Pending \ {s} : s.n < x.n
      BY <2>1, <2>2
    <2>4. sent' = sent /\ expect' = expect
      BY <1>6 DEF Exec, Done
    <2>5. s.from # None => contents[s.from] = c.want
      <3> SUFFICES ASSUME s.from # None PROVE contents[s.from] = c.want
        OBVIOUS
      <3>1. LeftIn(Pending, contents, s.from, s.n, s.want)
        BY <2>1 DEF ContentsRight
      <3>2. \A y \in Pending : y.n \in Nat /\ ~(y.n < s.n)
        <4>1. \A y \in Pending : y.n \in Nat
          BY Earlier
        <4> QED BY <2>1, <2>3, <4>1
      <3>3. s.n \in Nat
        BY <2>1, <2>2
      <3> QED BY <2>2, <3>1, <3>2, <3>3, FoundNow
    <2>6. /\ Len(mems) \in Nat /\ 1 .. Len(mems) \subseteq Buffers
          /\ \A i \in 1 .. Len(mems) : mems[i] = i /\ i # None
      BY Vector DEF None
    <2>7. /\ c.kind = "read" => c.slot \in 1 .. Len(mems)
          /\ c.kind = "copy" => c.src \in 1 .. Len(mems)
      BY <2>1 DEF OperandsThere
    <2>8. lastRead'.got = lastRead'.want
      <3>1. CASE c.kind = "read"
        <4>1. PICK v \in Found(c) : lastRead' = [got |-> v, want |-> c.want]
          BY <1>6, <3>1 DEF Exec, Writes
        <4>2. ~Stale(c)
          BY <2>1 DEF EntriesStay
        <4>3. v = contents[mems[c.slot]] /\ mems[c.slot] = c.slot
          BY <2>6, <2>7, <3>1, <4>1, <4>2 DEF Found
        <4>4. s.from = c.slot /\ s.from # None
          BY <2>2, <2>6, <2>7, <3>1
        <4> QED BY <2>5, <4>1, <4>3, <4>4
      <3>2. CASE c.kind # "read"
        <4>1. lastRead' = lastRead
          BY <1>6, <3>2 DEF Exec
        <4> QED BY <4>1 DEF ContentsRight
      <3> QED BY <3>1, <3>2
    <2>9. \A b \in Buffers : IF Modifies(s, b) THEN contents'[b] = Value(s) ELSE contents'[b] = contents[b]
      <3> SUFFICES ASSUME NEW b \in Buffers PROVE IF Modifies(s, b) THEN contents'[b] = Value(s) ELSE contents'[b] = contents[b]
        OBVIOUS
      <3>0. contents \in [Buffers -> Nat]
        BY DEF TypeOK
      <3>1. CASE c.kind \in Writes
        <4>1. contents' = [contents EXCEPT ![c.dst] = c.n]
          BY <1>6, <3>1 DEF Exec, Writes
        <4>2. Modifies(s, b) <=> c.dst = b
          BY <2>2, <3>1 DEF Modifies
        <4>3. Value(s) = c.n
          BY <2>2, <3>1 DEF Value, Writes
        <4> QED BY <3>0, <4>1, <4>2, <4>3
      <3>2. CASE c.kind = "copy"
        <4>1. contents' = [contents EXCEPT ![c.dst] = contents[c.src]]
          BY <1>6, <3>2 DEF Exec, Copied, Writes
        <4>2. Modifies(s, b) <=> c.dst = b
          BY <2>2, <3>2 DEF Modifies
        <4>3. s.from = c.src /\ s.from # None
          BY <2>2, <2>6, <2>7, <3>2
        <4>4. Value(s) = contents[c.src]
          BY <2>2, <2>5, <3>2, <4>3 DEF Value
        <4> QED BY <3>0, <4>1, <4>2, <4>4
      <3>3. CASE c.kind \in {"read", "release"}
        <4>1. contents' = contents
          BY <1>6, <3>3 DEF Exec, Writes
        <4>2. ~Modifies(s, b)
          BY <2>2, <3>3 DEF Modifies, Writes
        <4> QED BY <4>1, <4>2
      <3> QED BY <2>1, <3>1, <3>2, <3>3 DEF Queued
    <2> QED BY <2>1, <2>3, <2>4, <2>8, <2>9, ContentsTaking
  <1>7. CASE Calm
    BY <1>4, <1>7, CalmFacts
  <1> QED BY <1>1, <1>2, <1>3, <1>5, <1>6, <1>7, FullCases, NoFailure

(* A handler finds the data of its request behind it.                      *)
LEMMA FramedHead ==
    ASSUME TypeOK, Framed, NEW m, Handling(m)
    PROVE  InStep(m)
  <1> SUFFICES ASSUME m.kind \in WithData PROVE main[2].kind = "data" /\ main[2].n = m.n
    BY DEF InStep
  <1>1. m = main[1] /\ Len(main) > 1 /\ Len(main) \in Nat /\ DOMAIN main = 1 .. Len(main)
    BY AtHead, Typed
  <1>2. \A i \in DOMAIN main : main[i].kind \in WithData /\ i < Len(main) =>
            main[i + 1].kind = "data" /\ main[i + 1].n = main[i].n
    BY DEF Framed
  <1> QED BY <1>1, <1>2

(* The session stays up, unless a race breaks it.                          *)
LEMMA UpStep ==
    ASSUME TypeOK, NumbersInOrder, CallsInOrder, CreatesInOrder, OperandsThere, SessionStaysUp, [Next]_vars,
           "split" \notin races => Framed,
           races \cap {"creates", "created late"} = {} => EntriesStay /\ ReleasedLast
    PROVE  SessionStaysUp'
  <1>1. races \subseteq races'
    BY RacesStay
  <1>2. CASE session' = session
    BY <1>1, <1>2 DEF SessionStaysUp
  <1>3. ASSUME NEW c, ExecFails(c) PROVE SessionStaysUp'
    <2>1. session' = "aborted"
      BY <1>3 DEF ExecFails
    <2>2. races \cap {"creates", "created late"} # {}
      BY <1>3, NoFailure
    <2> QED BY <1>1, <2>1, <2>2 DEF SessionStaysUp
  <1>4. ASSUME NEW m, HandlerGarbled(m) PROVE SessionStaysUp'
    <2>1. session' = "garbled" /\ Handling(m) /\ ~InStep(m)
      BY <1>4 DEF HandlerGarbled
    <2>2. "split" \in races
      BY <2>1, FramedHead
    <2> QED BY <1>1, <2>1, <2>2 DEF SessionStaysUp
  <1>5. session' = session \/ (\E c : ExecFails(c)) \/ \E m : HandlerGarbled(m)
    <2>1. \A t \in Threads, k \in Kinds : SendHeader(t, k) => session' = session
      BY DEF SendHeader
    <2>2. \A m : HandlerCreateBuffer(m) \/ HandlerCreateProgramWithSource(m) \/ HandlerEnqueue(m) => session' = session
      BY DEF HandlerCreateBuffer, HandlerCreateProgramWithSource, HandlerEnqueue
    <2>3. \A c : Exec(c) => session' = session
      BY DEF Exec
    <2>4. Calm => session' = session \/ \E m : HandlerGarbled(m)
      BY Pausing DEF Calm, ThreadStep, SendData, ReadCounter, WriteCounter, RecvReply, Still
    <2> QED BY <2>1, <2>2, <2>3, <2>4, FullCases
  <1> QED BY <1>2, <1>3, <1>4, <1>5

-----------------------------------------------------------------------------
(* The inductive invariant and what follows.                               *)

(* Init establishes the inductive invariant.                               *)
LEMMA InitRequests == Init => RequestsInv
  <1> SUFFICES ASSUME Init PROVE RequestsInv
    OBVIOUS
  <1>1. /\ pc = [t \in Threads |-> "idle"] /\ call = [t \in Threads |-> NoCall]
        /\ main = <<>> /\ commands = <<>> /\ mems = <<>> /\ replies = <<>> /\ sent = 0 /\ mem_id = 0 /\ blockedOn = 0
        /\ ids = [b \in Buffers |-> NoId] /\ released = {} /\ dropped = {} /\ session = "up" /\ crossed = FALSE
        /\ contents = [b \in Buffers |-> 0] /\ expect = [b \in Buffers |-> 0] /\ lastRead = [got |-> 0, want |-> 0]
    BY DEF Init
  <1>2. Numbered = {} /\ Creating = {} /\ Waiting = {} /\ CreatesSent = 0
    <2>1. Numbered = {} /\ Creating = {} /\ Waiting = {}
      BY <1>1 DEF Numbered, Creating, Waiting
    <2>2. Cardinality({}) = 0
      BY FS_EmptySet
    <2>3. CreatesSent = 0 + 0
      BY <2>1, <2>2 DEF CreatesSent
    <2> QED BY <2>1, <2>3
  <1>3. DOMAIN main = {} /\ DOMAIN commands = {} /\ DOMAIN mems = {} /\ Len(mems) = 0
    BY <1>1
  <1>4. ToSet(main) = {} /\ ToSet(commands) = {} /\ ToSet(replies) = {}
    BY <1>1 DEF ToSet
  <1>5. OnConnection = {} /\ InQueue = {} /\ Pending = {}
    BY <1>4 DEF OnConnection, InQueue, Pending
  <1>6. TypeOK
    <2>1. MaxBuffers \in Nat /\ MaxCalls \in Nat
      BY BoundsAssumption
    <2>2. NoCall \in Message
      BY DEF NoCall, Message, None
    <2>3. NoId \in 0 .. MaxBuffers
      BY <2>1 DEF NoId
    <2>4. main \in Seq(Message) /\ replies \in Seq(Nat) /\ mems \in Seq(Nat) /\ commands \in Seq(Command)
      BY <1>1
    <2>5. Len(mems) <= capacity /\ capacity \in Nat /\ storage \in Nat /\ seen \in [Threads -> Nat]
      BY <1>3 DEF Init
    <2>6. sent \in 0 .. MaxCalls
      BY <1>1, <2>1
    <2>7. handler = "ready" /\ device = "ready"
      BY DEF Init
    <2> QED BY <1>1, <1>2, <2>2, <2>3, <2>4, <2>5, <2>6, <2>7 DEF TypeOK
  <1>7. CallsMatch
    BY <1>1 DEF CallsMatch, NoCall
  <1>8. NumbersInOrder
    <2>1. Cardinality(Numbered) = 0
      BY <1>2, FS_EmptySet
    <2>2. 1 .. CreatesSent = {}
      BY <1>2
    <2>3. mem_id <= Cardinality(Numbered) /\ \A t \in Threads : pc[t] # "store"
      BY <1>1, <2>1
    <2> QED BY <1>2, <2>2, <2>3 DEF NumbersInOrder
  <1>9. CallsInOrder
    BY <1>1, <1>3, <1>5 DEF CallsInOrder
  <1>10. CreatesInOrder
    <2>1. Len(mems) + 1 .. CreatesSent = {} /\ Len(mems) <= CreatesSent
      BY <1>2, <1>3
    <2> QED BY <1>1, <1>3, <1>5, <2>1 DEF CreatesInOrder
  <1>11. OperandsThere
    BY <1>4, <1>5 DEF OperandsThere
  <1>12. Framed
    BY <1>1, <1>3 DEF Framed
  <1>13. OneWaits
    BY <1>1, <1>2, <1>4, <1>5 DEF OneWaits
  <1>14. IdsInOrder
    <2>1. \A b \in Buffers : ~(b <= mem_id)
      BY <1>1 DEF Buffers
    <2> QED BY <1>1, <1>2, <2>1 DEF IdsInOrder
  <1>15. EntriesStay /\ ReleasedLast
    BY <1>1, <1>4, <1>5 DEF EntriesStay, ReleasedLast
  <1>16. ContentsRight
    <2>1. \A b \in Buffers : \A n : Before(Pending, b, n) = {}
      BY <1>5 DEF Before
    <2>2. \A b \in Buffers : LeftIn(Pending, contents, b, sent + 1, expect[b])
      BY <1>1, <2>1 DEF LeftIn
    <2> QED BY <1>1, <1>5, <2>2 DEF ContentsRight
  <1>17. SessionStaysUp
    BY <1>1 DEF SessionStaysUp
  <1>18. WaitsMatch /\ handler = "ready" /\ device = "ready"
    BY <1>1 DEF Init, WaitsMatch
  <1> QED BY <1>6, <1>7, <1>8, <1>9, <1>10, <1>11, <1>12, <1>13, <1>14, <1>15, <1>16, <1>17, <1>18 DEF RequestsInv

(* Every state reached keeps RequestsInv: calls, messages, commands and    *)
(* the vector stay in the order of the calls, and, in terms of what the    *)
(* application did, replies, ids and contents are right and the session    *)
(* stays up; for any threads and any number of buffers and calls.          *)
THEOREM RequestsInvariant == Spec => []RequestsInv
  <1>1. RequestsInv /\ [Next]_vars => RequestsInv'
    <2> SUFFICES ASSUME RequestsInv, [Next]_vars PROVE RequestsInv'
      OBVIOUS
    <2>1. /\ TypeOK /\ CallsMatch /\ NumbersInOrder /\ CallsInOrder /\ WaitsMatch /\ CreatesInOrder
          /\ OperandsThere /\ SessionStaysUp
      BY DEF RequestsInv
    <2>2. /\ "split" \notin races => Framed
          /\ "waits" \notin races => OneWaits
          /\ "creates" \notin races => IdsInOrder
          /\ races \cap {"creates", "created late"} = {} => EntriesStay /\ ReleasedLast /\ ContentsRight
      BY DEF RequestsInv
    <2>3. races \subseteq races'
      BY RacesStay
    <2>4. /\ TypeOK' /\ CallsMatch' /\ NumbersInOrder' /\ CallsInOrder' /\ WaitsMatch' /\ CreatesInOrder'
          /\ OperandsThere'
      BY <2>1, TypeStep, CallsStep, NumbersStep, OrderStep, WaitsMatchStep, CreatesStep, OperandsStep
    <2>5. "split" \notin races' => Framed'
      BY <2>1, <2>2, <2>3, FramedStep
    <2>6. "waits" \notin races' => OneWaits'
      BY <2>1, <2>2, <2>3, WaitsStep
    <2>7. "creates" \notin races' => IdsInOrder'
      BY <2>1, <2>2, <2>3, IdsStep
    <2>8. races' \cap {"creates", "created late"} = {} => EntriesStay' /\ ReleasedLast' /\ ContentsRight'
      <3> SUFFICES ASSUME races' \cap {"creates", "created late"} = {} PROVE EntriesStay' /\ ReleasedLast' /\ ContentsRight'
        OBVIOUS
      <3>1. races \cap {"creates", "created late"} = {} /\ "creates" \notin races /\ "created late" \notin races'
        BY <2>3
      <3>2. IdsInOrder /\ EntriesStay /\ ReleasedLast /\ ContentsRight
        BY <2>2, <3>1
      <3> QED BY <2>1, <3>1, <3>2, EntriesStep, ReleasedStep, ContentsStep
    <2>9. SessionStaysUp'
      BY <2>1, <2>2, UpStep
    <2> QED BY <2>4, <2>5, <2>6, <2>7, <2>8, <2>9 DEF RequestsInv
  <1> QED BY InitRequests, <1>1, PTL DEF Spec

(* The id that the client gives a buffer is its place in the session's     *)
(* vector, unless two threads created buffers at the same time.            *)
THEOREM IdsAgree == Spec => []IdsMatch
  <1>1. RequestsInv => IdsMatch
    <2> SUFFICES ASSUME RequestsInv, "creates" \notin races, NEW b \in Known, NEW i \in DOMAIN mems
                 PROVE  i = ids[b] + 1 <=> mems[i] = b
      BY DEF IdsMatch
    <2>1. TypeOK /\ CreatesInOrder /\ IdsInOrder
      BY DEF RequestsInv
    <2>2. mems[i] = i /\ i \in Nat
      BY <2>1, Typed DEF CreatesInOrder
    <2>3. b \in Buffers /\ b \in Nat /\ ids[b] # NoId
      BY DEF Known, Numbered, Buffers
    <2>4. ids[b] = b - 1
      BY <2>1, <2>3 DEF IdsInOrder
    <2> QED BY <2>2, <2>3, <2>4
  <1> QED BY <1>1, RequestsInvariant, PTL

(* A read gets what the calls before it left in its buffer, unless a       *)
(* buffer was created at the same time as another or while reads or writes *)
(* were on their way.                                                      *)
THEOREM ReadsRight == Spec => []ReadsSeeWrites
  <1>1. RequestsInv => ReadsSeeWrites
    BY DEF RequestsInv, ContentsRight, ReadsSeeWrites
  <1> QED BY <1>1, RequestsInvariant, PTL

(* Each caller takes the reply to its own call, unless two waited at the   *)
(* same time.                                                              *)
THEOREM RepliesRight == Spec => []RepliesToCaller
  <1>1. RequestsInv => RepliesToCaller
    BY DEF RequestsInv, OneWaits, RepliesToCaller
  <1> QED BY <1>1, RequestsInvariant, PTL
=============================================================================
