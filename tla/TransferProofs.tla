---------------------------- MODULE TransferProofs ----------------------------
(***************************************************************************)
(* Proofs about BufferTransfer, for any kinds of calls, any sizes and any  *)
(* number of calls; those about non-blocking reads for one at a time.      *)
(***************************************************************************)
EXTENDS BufferTransfer, FiniteSetTheorems, SequenceTheorems, TLAPS

(* Init establishes the inductive invariant.                               *)
LEMMA InitTransfer == Init => TransferInv
  <1> SUFFICES ASSUME Init PROVE TransferInv
    OBVIOUS
  <1>1. TypeOK /\ CallsInOrder
    BY BoundsAssumption DEF Init, TypeOK, CallsInOrder, Ids, None
  <1>2. StagesInScope
    BY DEF Init, StagesInScope, Passed, Popped
  <1>3. FinishIsLast /\ BlockingIsLast
    BY DEF Init, FinishIsLast, BlockingIsLast, Returned
  <1>4. ReadsInTurn
    BY DEF Init, ReadsInTurn, InFlight, AckMatchesTransfer
  <1> QED BY <1>1, <1>2, <1>3, <1>4 DEF TransferInv

-----------------------------------------------------------------------------
(* The calls and their order.                                              *)

(* The command the device is at is the first one it has not popped.        *)
LEMMA CommFacts ==
    ASSUME TypeOK, CallsInOrder, queue # <<>>
    PROVE  /\ comm = Popped + 1 /\ comm \in 1 .. cur /\ cur <= Len(calls)
           /\ comm \in 1 .. Len(calls) /\ Kind(comm) \in Kinds /\ Size(comm) \in Nat \ {0}
  <1>1. /\ Len(calls) \in Nat /\ Len(requests) \in Nat /\ Len(queue) \in Nat /\ cur \in Nat
        /\ 1 \in DOMAIN queue /\ comm = queue[1] /\ Len(queue) > 0
    BY DEF TypeOK, comm, Ids, None
  <1>2. comm = Popped + 1
    BY <1>1 DEF CallsInOrder
  <1>3. comm \in 1 .. cur /\ cur <= Len(calls)
    BY <1>1, <1>2 DEF CallsInOrder, Popped
  <1>4. comm \in 1 .. Len(calls)
    BY <1>1, <1>3
  <1>5. calls[comm] \in [kind : Kinds, size : Sizes]
    <2>1. calls \in Seq([kind : Kinds, size : Sizes])
      BY DEF TypeOK
    <2> QED BY <1>4, <2>1, ElementOfSeq
  <1> QED BY <1>2, <1>3, <1>4, <1>5, BoundsAssumption DEF Kind, Size

(* The numbers the order of the calls is expressed in.                     *)
LEMMA Positions ==
    ASSUME TypeOK, CallsInOrder
    PROVE  /\ Len(calls) \in Nat /\ cur \in Nat /\ Popped \in Nat /\ cur <= Len(calls) /\ Popped <= cur
           /\ queue # <<>> => Popped < cur
           /\ \A n \in 1 .. Len(calls) : Kind(n) \in Kinds /\ Size(n) \in Nat \ {0}
           /\ \A n : n \in 1 .. Len(calls) => n \in Ids
  <1>1. /\ Len(calls) \in Nat /\ Len(requests) \in Nat /\ Len(queue) \in Nat /\ cur \in Nat
        /\ queue # <<>> => Len(queue) > 0
    BY DEF TypeOK, Ids, None
  <1>2. \A n \in 1 .. Len(calls) : calls[n] \in [kind : Kinds, size : Sizes]
    <2>1. calls \in Seq([kind : Kinds, size : Sizes])
      BY DEF TypeOK
    <2> QED BY <2>1, ElementOfSeq
  <1>3. \A n \in 1 .. Len(calls) : Kind(n) \in Kinds /\ Size(n) \in Nat \ {0}
    BY <1>2, BoundsAssumption DEF Kind, Size
  <1>4. \A n : n \in 1 .. Len(calls) => n \in Ids
    BY <1>1, BoundsAssumption DEF TypeOK, Ids
  <1> QED BY <1>1, <1>3, <1>4 DEF CallsInOrder, Popped

(* A call leaves the earlier ones as they are.                             *)
LEMMA CallFacts ==
    ASSUME TypeOK, NEW kind \in Kinds, NEW size \in Sizes, Call(kind, size)
    PROVE  /\ Len(calls') = Len(calls) + 1 /\ calls' \in Seq([kind : Kinds, size : Sizes])
           /\ \A n \in 1 .. Len(calls) : Kind(n)' = Kind(n) /\ Size(n)' = Size(n)
           /\ LET m == Len(calls) + 1 IN calls'[m].kind = kind /\ calls'[m].size = size /\ m \in Ids
  <1>1. calls' = Append(calls, [kind |-> kind, size |-> size]) /\ Len(calls) + 1 <= MaxCalls
    BY DEF Call
  <1>2. Len(calls) \in Nat /\ \A n \in 1 .. Len(calls) : calls'[n] = calls[n]
    BY <1>1 DEF TypeOK
  <1>3. calls'[Len(calls) + 1] = [kind |-> kind, size |-> size] /\ Len(calls') = Len(calls) + 1
    BY <1>1 DEF TypeOK
  <1>4. calls' \in Seq([kind : Kinds, size : Sizes])
    BY <1>1 DEF TypeOK
  <1> QED BY <1>1, <1>2, <1>3, <1>4, BoundsAssumption DEF Kind, Size, Ids

(* The steps that make, serve or remove no call.                           *)
LEMMA OtherSteps ==
    ASSUME Next
    PROVE  \/ \E kind \in Kinds, size \in Sizes : Call(kind, size)
           \/ Serve \/ Pop
           \/ UNCHANGED <<calls, requests, cur, queue>>
  <1> USE DEF clientVars, connVars, cnVars
  <1>1. AppReceives \/ (\E n \in Ids : Catch(n) \/ SendAck(n)) => UNCHANGED <<calls, requests, cur, queue>>
    BY DEF AppReceives, RecvReply, RecvData, RecvFinish, Exit, Catch, SendAck
  <1>2. CondWait \/ Reply \/ FinishReply \/ SpuriousWakeup => UNCHANGED <<calls, requests, cur, queue>>
    BY DEF CondWait, Reply, FinishReply, SpuriousWakeup
  <1>3. ExecTransfer \/ ExecFinish \/ Signal \/ SendData \/ RecvAck \/ Abort => UNCHANGED <<calls, requests, cur, queue>>
    BY DEF ExecTransfer, ExecFinish, Signal, SendData, RecvAck, Abort
  <1> QED BY <1>1, <1>2, <1>3 DEF Next, RunStep, DevStep

(* Requests and commands stay in the order of the calls.                   *)
LEMMA OrderStep ==
    ASSUME TypeOK, CallsInOrder, [Next]_vars
    PROVE  CallsInOrder'
  <1>0. /\ calls \in Seq([kind : Kinds, size : Sizes]) /\ requests \in Seq(Ids) /\ queue \in Seq(Ids)
        /\ cur \in Nat
    BY DEF TypeOK, Ids, None
  <1>1. ASSUME NEW kind \in Kinds, NEW size \in Sizes, Call(kind, size)
        PROVE  CallsInOrder'
    <2>1. requests' = Append(requests, Len(calls) + 1) /\ UNCHANGED <<cur, queue>> /\ Len(calls') = Len(calls) + 1
      BY <1>1, CallFacts DEF Call, cnVars
    <2>2. /\ Len(requests') = Len(requests) + 1
          /\ \A i \in DOMAIN requests' : requests'[i] = IF i = Len(requests) + 1 THEN Len(calls) + 1 ELSE requests[i]
      BY <1>0, <2>1
    <2>3. \A i \in DOMAIN requests' : i # Len(requests) + 1 => i \in DOMAIN requests
      BY <1>0, <2>1
    <2>4. \A i \in DOMAIN requests' : requests'[i] = cur + i
      <3> SUFFICES ASSUME NEW i \in DOMAIN requests' PROVE requests'[i] = cur + i
        OBVIOUS
      <3>1. CASE i = Len(requests) + 1
        <4>1. requests'[i] = Len(calls) + 1 /\ cur + Len(requests) = Len(calls) /\ Len(requests) \in Nat
          BY <1>0, <2>2, <3>1 DEF CallsInOrder
        <4> QED BY SMTT(20), <1>0, <3>1, <4>1
      <3>2. CASE i # Len(requests) + 1
        BY <2>2, <2>3, <3>2 DEF CallsInOrder
      <3> QED BY <3>1, <3>2
    <2>5. cur + Len(requests') = Len(calls')
      BY <1>0, <2>1, <2>2 DEF CallsInOrder
    <2> QED BY <2>1, <2>4, <2>5 DEF CallsInOrder, Popped
  <1>2. ASSUME Serve
        PROVE  CallsInOrder'
    <2>1. /\ requests # <<>> /\ requests' = Tail(requests) /\ cur' = Head(requests)
          /\ queue' = Append(queue, Head(requests)) /\ calls' = calls
      BY <1>2 DEF Serve, clientVars
    <2>2. Head(requests) = cur + 1
      BY <1>0, <2>1 DEF CallsInOrder
    <2>3. /\ Len(requests') = Len(requests) - 1 /\ \A i \in DOMAIN requests' : requests'[i] = requests[i + 1] /\ i + 1 \in DOMAIN requests
      BY <1>0, <2>1
    <2>4. /\ Len(queue') = Len(queue) + 1
          /\ \A i \in DOMAIN queue' : queue'[i] = IF i = Len(queue) + 1 THEN cur + 1 ELSE queue[i]
          /\ \A i \in DOMAIN queue' : i \in Int /\ (i # Len(queue) + 1 => i \in DOMAIN queue)
      BY <1>0, <2>1, <2>2
    <2>5. Popped' = Popped
      BY <1>0, <2>1, <2>2, <2>4 DEF Popped
    <2>6. \A i \in DOMAIN queue' : queue'[i] = Popped' + i
      BY <1>0, <2>4, <2>5 DEF CallsInOrder, Popped
    <2>7. \A i \in DOMAIN requests' : requests'[i] = cur' + i
      BY <1>0, <2>1, <2>2, <2>3 DEF CallsInOrder
    <2> QED BY <1>0, <2>1, <2>2, <2>3, <2>4, <2>6, <2>7 DEF CallsInOrder
  <1>3. ASSUME Pop
        PROVE  CallsInOrder'
    <2>1. queue' = Tail(queue) /\ UNCHANGED <<calls, requests, cur>>
      BY <1>3 DEF Pop, clientVars, connVars
    <2>2. CASE queue = <<>>
      <3>1. Tail(queue) = <<>>
        BY <2>2
      <3> QED BY <2>1, <2>2, <3>1 DEF CallsInOrder, Popped
    <2>3. CASE queue # <<>>
      <3>1. Len(queue') = Len(queue) - 1 /\ \A i \in DOMAIN queue' : i \in Int /\ queue'[i] = queue[i + 1] /\ i + 1 \in DOMAIN queue
        BY <1>0, <2>1, <2>3
      <3> QED BY <1>0, <2>1, <3>1 DEF CallsInOrder, Popped
    <2> QED BY <2>2, <2>3
  <1>4. CASE UNCHANGED <<calls, requests, cur, queue>>
    BY <1>4 DEF CallsInOrder, Popped
  <1>5. UNCHANGED vars => UNCHANGED <<calls, requests, cur, queue>>
    BY DEF vars, clientVars, connVars, cnVars
  <1> QED BY <1>1, <1>2, <1>3, <1>4, <1>5, OtherSteps

(* What a command taken from the queue still has to pass.                  *)
LEMMA PassedFacts ==
    ASSUME TypeOK, CallsInOrder
    PROVE  /\ dpc # "pop" => \A n : Passed(n) <=> n <= Popped
           /\ queue # <<>> /\ dpc # "pop" => ~Passed(comm)
           /\ queue # <<>> /\ dpc = "pop" => Passed(comm)
           /\ queue # <<>> => \A n \in 1 .. Len(calls) : n < comm => Passed(n)
           /\ queue # <<>> => \A n \in 1 .. Len(calls) : Passed(n) => n <= comm
  BY Positions, CommFacts DEF Passed

(* How each step changes what was passed: only a step to "pop" adds to it, *)
(* and that the command the device is at.                                  *)
LEMMA PassedSteps ==
    ASSUME TypeOK, CallsInOrder, StagesInScope, [Next]_vars
    PROVE  /\ \A n \in 1 .. Len(calls) : Passed(n) => Passed(n)'
           /\ \A n \in 1 .. Len(calls) : Passed(n)' /\ ~Passed(n) => n = comm /\ queue # <<>> /\ dpc # "pop" /\ dpc' = "pop"
           /\ \A n \in Int : n > Len(calls) => ~Passed(n)'
  <1>0. /\ Len(calls) \in Nat /\ cur \in Nat /\ Popped \in Nat /\ cur <= Len(calls) /\ Popped <= cur
        /\ queue # <<>> => Popped < cur /\ comm = Popped + 1
        /\ queue \in Seq(Ids) /\ requests \in Seq(Ids)
    BY Positions, CommFacts DEF TypeOK
  <1>1. CASE Popped' = Popped /\ dpc' = dpc
    <2>1. \A n : Passed(n)' <=> Passed(n)
      BY <1>1 DEF Passed
    <2>2. dpc = "pop" => queue # <<>>
      BY DEF StagesInScope
    <2>3. \A n \in Int : n > Len(calls) => ~Passed(n)
      BY <1>0, <2>2 DEF Passed
    <2> QED BY <2>1, <2>3
  <1>2. CASE Popped' = Popped /\ dpc # "pop" /\ (dpc' = "pop" => queue # <<>>)
    BY <1>0, <1>2 DEF Passed
  <1>3. ASSUME Pop
        PROVE  dpc = "pop" /\ dpc' = "take" /\ Popped' = Popped + 1 /\ queue # <<>>
    <2>1. dpc = "pop" /\ dpc' = "take" /\ queue # <<>> /\ queue' = Tail(queue) /\ cur' = cur
      BY <1>3 DEF Pop, StagesInScope
    <2>2. Len(queue') = Len(queue) - 1 /\ Len(queue) \in Nat
      BY <1>0, <2>1
    <2> QED BY <1>0, <2>1, <2>2 DEF Popped
  <1>4. CASE Pop
    BY <1>0, <1>3, <1>4 DEF Passed
  <1>5. ASSUME Serve
        PROVE  Popped' = Popped /\ dpc' = dpc
    <2>1. requests # <<>> /\ cur' = Head(requests) /\ queue' = Append(queue, Head(requests)) /\ dpc' = dpc
      BY <1>5 DEF Serve
    <2>2. Head(requests) = cur + 1
      BY <1>0, <2>1 DEF CallsInOrder
    <2>3. Len(queue') = Len(queue) + 1 /\ Len(queue) \in Nat
      BY <1>0, <2>1
    <2> QED BY <1>0, <2>1, <2>2, <2>3 DEF Popped
  <1>6. ASSUME UNCHANGED <<calls, requests, cur, queue>>
        PROVE  Popped' = Popped
    BY <1>6 DEF Popped
  <1>7. (\E kind \in Kinds, size \in Sizes : Call(kind, size)) => Popped' = Popped /\ dpc' = dpc
    BY DEF Call, Popped, cnVars
  <1>8. [Next]_vars => dpc' = dpc \/ (dpc # "pop" /\ (dpc' = "pop" => queue # <<>>)) \/ Pop
    <2>1. (\E kind \in Kinds, size \in Sizes : Call(kind, size)) \/ AppReceives \/ (\E n \in Ids : Catch(n) \/ SendAck(n))
            \/ RunStep \/ SpuriousWakeup => dpc' = dpc
      BY DEF Call, AppReceives, RecvReply, RecvData, RecvFinish, Exit, Catch, SendAck, RunStep, Serve, CondWait, Reply,
             FinishReply, SpuriousWakeup, cnVars
    <2>2. ExecTransfer \/ ExecFinish \/ Signal \/ SendData \/ RecvAck \/ Abort =>
            dpc # "pop" /\ (dpc' = "pop" => queue # <<>>)
      BY DEF ExecTransfer, ExecFinish, Signal, SendData, RecvAck, Abort, Taken, StagesInScope
    <2>3. UNCHANGED vars => dpc' = dpc
      BY DEF vars, cnVars
    <2> QED BY <2>1, <2>2, <2>3 DEF Next, DevStep
  <1>9. UNCHANGED vars => UNCHANGED <<calls, requests, cur, queue>>
    BY DEF vars, clientVars, connVars, cnVars
  <1>10. Popped' = Popped \/ Pop
    BY <1>5, <1>6, <1>7, <1>9, OtherSteps
  <1> QED BY <1>1, <1>2, <1>4, <1>8, <1>10

(* A call that is not the application's next leaves the calls alone.       *)
LEMMA CallsStay ==
    ASSUME [Next]_vars, ~(\E kind \in Kinds, size \in Sizes : Call(kind, size))
    PROVE  calls' = calls
  <1>1. Serve \/ Pop => calls' = calls
    BY DEF Serve, Pop, clientVars
  <1>2. UNCHANGED vars => calls' = calls
    BY DEF vars, clientVars
  <1> QED BY <1>1, <1>2, OtherSteps

(* While the device is at a command, no step changes which it is.          *)
LEMMA CommStays ==
    ASSUME TypeOK, CallsInOrder, queue # <<>>, [Next]_vars, ~Pop
    PROVE  queue' # <<>> /\ comm' = comm
  <1>0. queue \in Seq(Ids)
    BY DEF TypeOK
  <1>1. CASE Serve
    BY <1>0, <1>1 DEF Serve, comm
  <1>2. CASE queue' = queue
    BY <1>2 DEF comm
  <1>3. (\E kind \in Kinds, size \in Sizes : Call(kind, size)) \/ UNCHANGED vars => queue' = queue
    BY DEF Call, vars, cnVars
  <1> QED BY <1>1, <1>2, <1>3, OtherSteps

-----------------------------------------------------------------------------
(* Types.                                                                  *)

(* A transfer's data.                                                      *)
LEMMA UnitsFacts ==
    ASSUME TypeOK, CallsInOrder, NEW n \in 1 .. Len(calls)
    PROVE  /\ Units(n) \in Seq(Ids) /\ Len(Units(n)) = Size(n) /\ Size(n) \in Nat /\ Size(n) > 0
           /\ \A i \in DOMAIN Units(n) : Units(n)[i] = n
  <1>1. Size(n) \in Nat \ {0} /\ n \in Ids
    BY Positions
  <1> QED BY <1>1 DEF Units

(* Every step keeps the types.                                             *)
LEMMA TypeStep ==
    ASSUME TypeOK, CallsInOrder, StagesInScope, [Next]_vars
    PROVE  TypeOK'
  <1> USE DEF clientVars, connVars, cnVars
  <1>0. cur \in Nat /\ cur <= Len(calls) /\ Len(calls) \in Nat
    BY Positions
  <1>1. ASSUME NEW kind \in Kinds, NEW size \in Sizes, Call(kind, size)
        PROVE  TypeOK'
    <2>1. Len(calls') = Len(calls) + 1 /\ Len(calls) + 1 \in Ids /\ calls' \in Seq([kind : Kinds, size : Sizes])
      BY <1>1, CallFacts
    <2>2. requests' \in Seq(Ids) /\ catchers' \in [Ids -> {"none", "recv", "ack"}]
      BY <1>1, <2>1 DEF Call, TypeOK
    <2>3. app' \in {"call", "main", "nonBlocking", "finish", "exited"} /\ Len(calls') <= MaxCalls
      BY <1>1, <2>1 DEF Call, ReceivesFrom
    <2>4. run # "serve" => Kind(cur)' = Kind(cur)
      <3>1. run # "serve" => cur \in 1 .. Len(calls)
        BY <1>0 DEF StagesInScope, None
      <3>2. cur' = cur /\ \A n \in 1 .. Len(calls) : Kind(n)' = Kind(n)
        BY <1>1, CallFacts DEF Call
      <3> QED BY <3>1, <3>2 DEF Kind
    <2> QED BY <1>1, <2>1, <2>2, <2>3, <2>4 DEF Call, TypeOK
  <1>2. ASSUME RecvReply \/ RecvFinish \/ Exit
        PROVE  TypeOK'
    <2>1. RecvReply => replies' \in Seq(Ids)
      BY DEF RecvReply, TypeOK
    <2>2. CASE RecvReply
      BY <2>1, <2>2 DEF RecvReply, TypeOK, Kind
    <2>3. CASE RecvFinish
      BY <2>3 DEF RecvFinish, TypeOK, Kind
    <2>4. CASE Exit
      BY <2>4 DEF Exit, TypeOK, Kind
    <2> QED BY <1>2, <2>2, <2>3, <2>4
  <1>3. ASSUME NEW n, Receive(n)
        PROVE  got' \in [Ids -> Seq(Ids)] /\ data' \in Seq(Ids)
    <2>1. /\ data \in Seq(Ids) /\ data # <<>> /\ got \in [Ids -> Seq(Ids)]
          /\ got' = [got EXCEPT ![n] = Append(@, Head(data))] /\ data' = Tail(data)
      BY <1>3 DEF Receive, TypeOK
    <2>2. Head(data) \in Ids /\ Tail(data) \in Seq(Ids)
      BY <2>1
    <2>3. n \in Ids => Append(got[n], Head(data)) \in Seq(Ids)
      BY <2>1, <2>2
    <2> QED BY <2>1, <2>2, <2>3
  <1>4. ASSUME RecvData
        PROVE  TypeOK'
    <2>1. got' \in [Ids -> Seq(Ids)] /\ data' \in Seq(Ids)
      BY <1>3, <1>4 DEF RecvData
    <2>2. app' \in {app, "call"}
      BY <1>4 DEF RecvData
    <2> QED BY <1>4, <2>1, <2>2 DEF RecvData, TypeOK, Kind
  <1>5. ASSUME NEW n \in Ids, Catch(n)
        PROVE  TypeOK'
    <2>1. got' \in [Ids -> Seq(Ids)] /\ data' \in Seq(Ids)
      BY <1>3, <1>5 DEF Catch
    <2>2. catchers' \in [Ids -> {"none", "recv", "ack"}]
      BY <1>5 DEF Catch, TypeOK
    <2> QED BY <1>5, <2>1, <2>2 DEF Catch, TypeOK, Kind
  <1>6. ASSUME NEW n \in Ids, SendAck(n)
        PROVE  TypeOK'
    BY <1>6 DEF SendAck, TypeOK, Kind
  <1>7. ASSUME Serve
        PROVE  TypeOK'
    <2>1. Head(requests) \in Ids /\ Tail(requests) \in Seq(Ids)
      BY <1>7 DEF Serve, TypeOK
    <2>2. /\ run' \in {"serve", "block", "finish"}
          /\ run' = "block" => Kind(cur') \in Blocking
          /\ run' = "finish" => Kind(cur') = "finish"
      BY <1>7 DEF Serve, AfterPush, Blocking
    <2>3. requests' \in Seq(Ids) /\ queue' \in Seq(Ids) /\ cur' \in Ids
      BY <1>7, <2>1 DEF Serve, TypeOK
    <2>4. Kind(cur)' = Kind(cur')
      BY <1>7 DEF Serve, Kind
    <2> QED BY <1>7, <2>2, <2>3, <2>4 DEF Serve, TypeOK
  <1>8. ASSUME CondWait \/ SpuriousWakeup
        PROVE  TypeOK'
    <2>1. cur \in Ids
      BY <1>8 DEF CondWait, SpuriousWakeup, StagesInScope, TypeOK
    <2> QED BY <1>8, <2>1 DEF CondWait, SpuriousWakeup, TypeOK, Kind
  <1>9. ASSUME Reply
        PROVE  TypeOK'
    <2>1. cur \in 1 .. Len(calls)
      BY <1>0, <1>9 DEF Reply, StagesInScope, None
    <2>2. cur \in Ids /\ Units(cur) \in Seq(Ids)
      BY <2>1, UnitsFacts, Positions
    <2>3. Answer(cur) \in Seq(Ids)
      BY <2>2 DEF Answer
    <2>4. replies' \in Seq(Ids)
      BY <1>9, <2>3 DEF Reply, TypeOK
    <2> QED BY <1>9, <2>4 DEF Reply, TypeOK, Kind
  <1>10. ASSUME FinishReply
         PROVE  TypeOK'
    BY <1>10 DEF FinishReply, TypeOK, Kind
  <1>11. ASSUME ExecTransfer
         PROVE  TypeOK'
    <2>1. comm \in Ids /\ Kind(comm) \in Transfers
      BY <1>11, CommFacts, Positions DEF ExecTransfer, Taken
    <2>2. dpc' \in {"signal", "send", "pop"}
      BY <1>11, <2>1 DEF ExecTransfer, AfterTransfer, Transfers, Blocking
    <2> QED BY <1>11, <2>1, <2>2 DEF ExecTransfer, TypeOK, Kind
  <1>12. ASSUME Abort \/ ExecFinish
         PROVE  TypeOK'
    <2>1. CASE Abort
      BY <2>1 DEF Abort, TypeOK, Kind
    <2>2. CASE ExecFinish
      BY <2>2 DEF ExecFinish, TypeOK, Kind
    <2> QED BY <1>12, <2>1, <2>2
  <1>13. ASSUME Signal
         PROVE  TypeOK'
    <2>1. run' \in {run, "reply"} /\ (run' # run => run = "asleep")
      BY <1>13 DEF Signal
    <2> QED BY <1>13, <2>1 DEF Signal, TypeOK, Kind
  <1>14. ASSUME SendData
         PROVE  TypeOK'
    <2>1. queue # <<>>
      BY <1>14 DEF SendData, StagesInScope
    <2>2. Units(comm) \in Seq(Ids)
      BY <2>1, CommFacts, UnitsFacts
    <2>3. data' \in Seq(Ids)
      BY <1>14, <2>2 DEF SendData, TypeOK
    <2> QED BY <1>14, <2>3 DEF SendData, AfterSend, TypeOK, Kind
  <1>15. ASSUME RecvAck \/ Pop
         PROVE  TypeOK'
    <2>1. queue' \in Seq(Ids)
      <3>1. queue \in Seq(Ids) /\ (queue # <<>> => Tail(queue) \in Seq(Ids))
        BY DEF TypeOK
      <3>2. Pop => queue # <<>> /\ queue' = Tail(queue)
        BY DEF Pop, StagesInScope
      <3>3. RecvAck => queue' = queue
        BY DEF RecvAck
      <3> QED BY <1>15, <3>1, <3>2, <3>3
    <2>2. CASE RecvAck
      BY <2>1, <2>2 DEF RecvAck, TypeOK, Kind
    <2>3. CASE Pop
      BY <2>1, <2>3 DEF Pop, TypeOK, Kind
    <2> QED BY <1>15, <2>2, <2>3
  <1>16. ASSUME UNCHANGED vars
         PROVE  TypeOK'
    BY <1>16 DEF vars, TypeOK, Kind
  <1> QED BY <1>1, <1>2, <1>4, <1>5, <1>6, <1>7, <1>8, <1>9, <1>10, <1>11, <1>12, <1>13, <1>14, <1>15, <1>16
          DEF Next, AppReceives, RunStep, DevStep

-----------------------------------------------------------------------------
(* What each thread is doing.                                              *)

(* The application waits for its last call; Run for a call it has served.  *)
LEMMA AppStage ==
    ASSUME TypeOK, CallsInOrder, StagesInScope, [Next]_vars
    PROVE  /\ app' \in {"main", "nonBlocking", "finish"} => calls' # <<>> /\ ReceivesFrom(Kind(Len(calls)))' = app'
           /\ run' # "serve" => cur' # None
  <1> USE DEF clientVars, connVars, cnVars
  <1>1. ASSUME NEW kind \in Kinds, NEW size \in Sizes, Call(kind, size)
        PROVE  /\ calls' # <<>> /\ ReceivesFrom(Kind(Len(calls)))' = app'
               /\ UNCHANGED <<run, cur>>
    <2>1. Len(calls') = Len(calls) + 1 /\ calls'[Len(calls) + 1].kind = kind /\ Len(calls) \in Nat
      BY <1>1, CallFacts, Positions
    <2>2. Kind(Len(calls))' = kind
      BY <2>1 DEF Kind
    <2>3. calls' # <<>>
      BY <2>1
    <2> QED BY <1>1, <2>2, <2>3 DEF Call, ReceivesFrom
  <1>2. ASSUME AppReceives
        PROVE  calls' = calls /\ app' \in {app, "call", "exited"} /\ UNCHANGED <<run, cur>>
    BY <1>2 DEF AppReceives, RecvReply, RecvData, RecvFinish, Exit
  <1>3. ASSUME \E n \in Ids : Catch(n) \/ SendAck(n)
        PROVE  UNCHANGED <<calls, app, run, cur>>
    BY <1>3 DEF Catch, SendAck
  <1>4. ASSUME Serve
        PROVE  UNCHANGED <<calls, app>> /\ cur' # None
    <2>1. Head(requests) \in Ids
      BY <1>4 DEF Serve, TypeOK
    <2> QED BY <1>4, <2>1 DEF Serve, Ids, None
  <1>5. ASSUME CondWait \/ SpuriousWakeup \/ Reply \/ FinishReply
        PROVE  UNCHANGED <<calls, app, cur>> /\ run # "serve"
    BY <1>5 DEF CondWait, SpuriousWakeup, Reply, FinishReply
  <1>6. ASSUME DevStep \/ Abort
        PROVE  UNCHANGED <<calls, app, cur>> /\ (run # "serve" \/ run' = run)
    BY <1>6 DEF DevStep, Abort, ExecTransfer, ExecFinish, Signal, SendData, RecvAck, Pop
  <1>7. UNCHANGED vars => UNCHANGED <<calls, app, run, cur>>
    BY DEF vars
  <1>8. calls' = calls /\ app' \in {app, "call", "exited"} /\ (run' # "serve" => cur' # None \/ (run # "serve" /\ cur' = cur)) =>
            /\ app' \in {"main", "nonBlocking", "finish"} => calls' # <<>> /\ ReceivesFrom(Kind(Len(calls)))' = app'
            /\ run' # "serve" => cur' # None
    BY DEF StagesInScope, Kind, ReceivesFrom
  <1> QED BY <1>1, <1>2, <1>3, <1>4, <1>5, <1>6, <1>7, <1>8 DEF Next, RunStep, StagesInScope

(* The device's stages, and that what it passed was executed.              *)
LEMMA DevStage ==
    ASSUME TypeOK, CallsInOrder, StagesInScope, [Next]_vars
    PROVE  /\ dpc' \in {"signal", "send", "ack", "pop"} => queue' # <<>>
           /\ dpc' = "signal" => Kind(comm)' \in Blocking
           /\ dpc' \in {"send", "ack"} => Kind(comm)' = "read"
           /\ dpc' \in {"signal", "send", "ack"} => comm' \in executed'
           /\ \A n \in 1 .. Len(calls') : Passed(n)' /\ Kind(n)' \in Transfers => n \in executed'
  <1> USE DEF clientVars, connVars, cnVars
  <1> DEFINE Stage == /\ dpc \in {"signal", "send", "ack", "pop"} => queue # <<>>
                      /\ dpc = "signal" => Kind(comm) \in Blocking
                      /\ dpc \in {"send", "ack"} => Kind(comm) = "read"
                      /\ dpc \in {"signal", "send", "ack"} => comm \in executed
  <1>0. Stage /\ queue \in Seq(Ids) /\ Len(calls) \in Nat
    BY DEF StagesInScope, TypeOK
  <1>1. executed \subseteq executed'
    BY DEF Next, vars, Call, AppReceives, RecvReply, RecvData, RecvFinish, Exit, Catch, SendAck, RunStep, Serve, CondWait,
           Reply, FinishReply, SpuriousWakeup, DevStep, Abort, ExecTransfer, ExecFinish, Signal, SendData, RecvAck, Pop
  <1>2. ASSUME NEW n \in 1 .. Len(calls)
        PROVE  Kind(n)' = Kind(n)
    <2>1. (\E kind \in Kinds, size \in Sizes : Call(kind, size)) => Kind(n)' = Kind(n)
      BY CallFacts
    <2> QED BY <2>1, CallsStay DEF Kind
  <1>3. queue # <<>> /\ ~Pop => queue' # <<>> /\ comm' = comm /\ Kind(comm)' = Kind(comm)
    <2> SUFFICES ASSUME queue # <<>>, ~Pop PROVE queue' # <<>> /\ comm' = comm /\ Kind(comm)' = Kind(comm)
      OBVIOUS
    <2>1. queue' # <<>> /\ comm' = comm
      BY CommStays
    <2>2. PICK n \in 1 .. Len(calls) : n = comm
      BY CommFacts
    <2>3. Kind(n)' = Kind(n) /\ Kind(comm)' = Kind(n)'
      BY <1>2, <2>1, <2>2 DEF Kind
    <2> QED BY <2>1, <2>2, <2>3
  <1>4. ASSUME dpc' # dpc
        PROVE  DevStep \/ Abort
    BY <1>4 DEF Next, vars, Call, AppReceives, RecvReply, RecvData, RecvFinish, Exit, Catch, SendAck, RunStep, Serve, CondWait,
           Reply, FinishReply, SpuriousWakeup
  <1>5. Stage'
    <2>1. CASE dpc' = dpc
      <3>1. dpc \in {"signal", "send", "ack", "pop"} => ~Pop
        BY <2>1 DEF Pop
      <3> QED BY <1>0, <1>1, <1>3, <2>1, <3>1
    <2>2. CASE ExecTransfer
      <3>1. queue # <<>> /\ ~Pop /\ Kind(comm) \in Transfers /\ comm \in executed' /\ dpc' = AfterTransfer(Kind(comm))
        BY <2>2 DEF ExecTransfer, Taken, Pop
      <3>2. dpc' = "signal" => Kind(comm) \in Blocking
        BY <3>1 DEF AfterTransfer, Transfers, Blocking
      <3>3. dpc' \in {"send", "ack"} => Kind(comm) = "read"
        BY <3>1 DEF AfterTransfer, Transfers, Blocking
      <3> QED BY <1>3, <3>1, <3>2, <3>3
    <2>3. CASE Abort \/ Pop
      BY <2>3 DEF Abort, Pop
    <2>4. CASE ExecFinish \/ Signal \/ RecvAck
      <3>1. queue # <<>> /\ dpc' = "pop" /\ ~Pop
        BY <1>0, <2>4 DEF ExecFinish, Signal, RecvAck, Taken, Pop
      <3> QED BY <1>3, <3>1
    <2>5. CASE SendData
      <3>1. dpc = "send" /\ dpc' = "ack" /\ ~Pop
        BY <2>5 DEF SendData, AfterSend, Pop
      <3> QED BY <1>0, <1>1, <1>3, <3>1
    <2> QED BY <1>4, <2>1, <2>2, <2>3, <2>4, <2>5 DEF DevStep
  <1>6. ASSUME NEW n \in 1 .. Len(calls'), Passed(n)', Kind(n)' \in Transfers
        PROVE  n \in executed'
    <2>1. n \in 1 .. Len(calls)
      <3>1. Len(calls') \in Nat
        BY TypeStep DEF TypeOK
      <3> QED BY <1>0, <1>6, <3>1, PassedSteps
    <2>2. Kind(n) \in Transfers
      BY <1>2, <1>6, <2>1
    <2>3. CASE Passed(n)
      BY <1>1, <2>1, <2>2, <2>3 DEF StagesInScope
    <2>4. CASE ~Passed(n)
      <3>1. n = comm /\ dpc # "pop" /\ dpc' = "pop"
        BY <1>6, <2>1, <2>4, PassedSteps
      <3>2. dpc' # dpc
        BY <3>1
      <3>3. CASE ExecTransfer
        BY <3>1, <3>3 DEF ExecTransfer
      <3>4. CASE ExecFinish
        BY <2>2, <3>1, <3>4 DEF ExecFinish, Taken, Transfers
      <3>5. CASE Signal \/ RecvAck
        BY <1>0, <1>1, <3>1, <3>5 DEF Signal, RecvAck
      <3>6. ~Abort /\ ~SendData /\ ~Pop
        BY <3>1 DEF Abort, SendData, AfterSend, Pop
      <3> QED BY <1>4, <3>2, <3>3, <3>4, <3>5, <3>6 DEF DevStep
    <2> QED BY <2>3, <2>4
  <1> QED BY <1>5, <1>6

(* Both ends' stages at every step.                                        *)
LEMMA StagesStep ==
    ASSUME TypeOK, CallsInOrder, StagesInScope, [Next]_vars
    PROVE  StagesInScope'
  BY AppStage, DevStage DEF StagesInScope

-----------------------------------------------------------------------------
(* clFinish and blocking writes.                                           *)

(* What has returned stays returned; a call returns when the application   *)
(* goes on.                                                                *)
LEMMA ReturnedFacts ==
    ASSUME TypeOK
    PROVE  /\ Returned \subseteq 1 .. Len(calls) /\ Len(calls) \in Nat
           /\ app = "call" => Returned = 1 .. Len(calls)
           /\ \A n \in 1 .. Len(calls) : n \notin Returned => n = Len(calls) /\ app # "call"
  BY DEF Returned, TypeOK

(* The pairing of clFinish with its acknowledgement.                       *)
LEMMA FinishStep ==
    ASSUME TypeOK, CallsInOrder, StagesInScope, FinishIsLast, [Next]_vars
    PROVE  FinishIsLast'
  <1> USE DEF clientVars, connVars, cnVars
  <1>0. Len(calls) \in Nat /\ finSem \in Nat /\ finishes \in Nat
    BY DEF TypeOK
  <1>1. \A n \in 1 .. Len(calls) : Passed(n) => Passed(n)'
    BY PassedSteps
  <1>2. ASSUME NEW kind \in Kinds, NEW size \in Sizes, Call(kind, size)
        PROVE  FinishIsLast'
    <2>1. /\ app = "call" /\ app' = ReceivesFrom(kind) /\ UNCHANGED <<finSem, finishes>>
          /\ Len(calls') = Len(calls) + 1
          /\ \A n \in 1 .. Len(calls) : Kind(n)' = Kind(n)
      BY <1>2, CallFacts DEF Call
    <2>2. finSem + finishes = 0
      BY <1>0, <2>1 DEF FinishIsLast
    <2>3. ASSUME NEW n \in Returned', Kind(n)' = "finish"
          PROVE  Passed(n)'
      <3>1. n \in 1 .. Len(calls) + 1
        BY <2>1, <2>3 DEF Returned
      <3>2. CASE n \in 1 .. Len(calls)
        <4>1. n \in Returned /\ Kind(n) = "finish"
          BY <2>1, <2>3, <3>2 DEF Returned
        <4> QED BY <1>1, <3>2, <4>1 DEF FinishIsLast
      <3>3. CASE n = Len(calls) + 1
        <4>1. Kind(n)' = kind
          BY <1>2, <3>3, CallFacts DEF Kind
        <4>2. app' = "call"
          BY <1>0, <2>1, <2>3, <3>3 DEF Returned
        <4> QED BY <2>1, <2>3, <4>1, <4>2 DEF ReceivesFrom
      <3> QED BY <1>0, <3>1, <3>2, <3>3
    <2> QED BY <2>1, <2>2, <2>3 DEF FinishIsLast
  <1>3. ASSUME calls' = calls, UNCHANGED <<finSem, finishes>>, app' = app
        PROVE  FinishIsLast'
    <2>1. Returned' = Returned /\ \A n : Kind(n)' = Kind(n)
      BY <1>3 DEF Returned, Kind
    <2>2. \A n \in Returned : Kind(n) = "finish" => Passed(n)'
      BY <1>1 DEF Returned, FinishIsLast
    <2>3. calls # <<>> => Len(calls) \in 1 .. Len(calls)
      BY DEF TypeOK
    <2>4. calls # <<>> /\ Passed(Len(calls)) => Passed(Len(calls))'
      <3>1. PICK m : m = Len(calls)
        OBVIOUS
      <3>2. calls # <<>> /\ Passed(m) => Passed(m)'
        BY <1>1, <2>3, <3>1
      <3> QED BY <1>3, <3>1, <3>2 DEF Passed
    <2> QED BY <1>3, <2>1, <2>2, <2>4 DEF FinishIsLast, Kind
  <1>4. ASSUME RecvReply \/ RecvData
        PROVE  FinishIsLast'
    <2>1. app \in {"main", "nonBlocking"} /\ UNCHANGED <<calls, finSem, finishes, queue, cur, dpc>>
      BY <1>4 DEF RecvReply, RecvData
    <2>2. Kind(Len(calls)) # "finish" /\ finSem + finishes = 0
      BY <1>0, <2>1 DEF StagesInScope, ReceivesFrom, FinishIsLast
    <2>3. \A n \in Returned' : Kind(n) = "finish" => n \in Returned
      BY <1>0, <2>1, <2>2 DEF Returned
    <2>4. \A n : (Passed(n)' <=> Passed(n)) /\ Kind(n)' = Kind(n)
      BY <2>1 DEF Passed, Popped, Kind
    <2> QED BY <2>1, <2>2, <2>3, <2>4 DEF FinishIsLast
  <1>5. ASSUME RecvFinish
        PROVE  FinishIsLast'
    <2>1. app = "finish" /\ finishes > 0 /\ finishes' = finishes - 1 /\ UNCHANGED <<calls, finSem, queue, cur, dpc>>
      BY <1>5 DEF RecvFinish
    <2>2. Passed(Len(calls)) /\ finSem + finishes = 1
      BY <1>0, <2>1 DEF FinishIsLast
    <2>3. finSem' + finishes' = 0
      BY <1>0, <2>1, <2>2
    <2>4. \A n \in Returned' : n = Len(calls) \/ n \in Returned
      BY <1>0, <2>1 DEF Returned
    <2>5. \A n : (Passed(n)' <=> Passed(n)) /\ Kind(n)' = Kind(n)
      BY <2>1 DEF Passed, Popped, Kind
    <2> QED BY <2>2, <2>3, <2>4, <2>5 DEF FinishIsLast
  <1>6. ASSUME Exit
        PROVE  FinishIsLast'
    <2>1. app' = "exited" /\ UNCHANGED <<calls, finSem, finishes, queue, cur, dpc>>
      BY <1>6 DEF Exit
    <2>2. Returned' \subseteq Returned
      BY <2>1 DEF Returned
    <2>3. \A n : (Passed(n)' <=> Passed(n)) /\ Kind(n)' = Kind(n)
      BY <2>1 DEF Passed, Popped, Kind
    <2> QED BY <2>1, <2>2, <2>3 DEF FinishIsLast, Kind, Passed, Popped
  <1>7. ASSUME FinishReply
        PROVE  FinishIsLast'
    <2>1. finSem' + finishes' = finSem + finishes /\ UNCHANGED <<calls, app, queue, cur, dpc>>
      BY <1>0, <1>7 DEF FinishReply
    <2>2. Returned' = Returned /\ \A n : (Passed(n)' <=> Passed(n)) /\ Kind(n)' = Kind(n)
      BY <2>1 DEF Passed, Popped, Kind, Returned
    <2> QED BY <2>1, <2>2 DEF FinishIsLast, Kind, Passed, Popped
  <1>8. ASSUME ExecFinish
        PROVE  FinishIsLast'
    <2>0. PICK m : m = comm
      OBVIOUS
    <2>1. /\ dpc = "take" /\ dpc' = "pop" /\ queue # <<>> /\ Kind(m) = "finish"
          /\ finSem' = finSem + 1 /\ UNCHANGED <<calls, app, finishes, queue, cur>>
      BY <1>8, <2>0 DEF ExecFinish, Taken
    <2>2. ~Passed(m) /\ m \in 1 .. Len(calls)
      BY <2>0, <2>1, PassedFacts, CommFacts
    <2>3. m = Len(calls) /\ app # "call"
      BY <2>1, <2>2, ReturnedFacts DEF FinishIsLast
    <2>4. app \in {"finish", "exited"}
      BY <2>1, <2>3 DEF StagesInScope, ReceivesFrom, TypeOK
    <2>5. finSem + finishes = 0
      BY <1>0, <2>2, <2>3 DEF FinishIsLast
    <2>6. Passed(m)'
      <3>1. m = Popped + 1 /\ Popped' = Popped
        BY <2>0, <2>1, CommFacts DEF Popped
      <3> QED BY <2>1, <3>1 DEF Passed
    <2>7. Returned' = Returned /\ \A n : Kind(n)' = Kind(n)
      BY <2>1 DEF Returned, Kind
    <2>8. \A n \in Returned : Kind(n) = "finish" => Passed(n)'
      BY <1>1 DEF Returned, FinishIsLast
    <2>9. Len(calls') = m /\ Kind(Len(calls))' = "finish" /\ Passed(Len(calls))'
      BY <2>1, <2>3, <2>6 DEF Kind, Passed
    <2>10. finSem' + finishes' = 1 /\ calls # <<>>
      BY <1>0, <2>1, <2>2, <2>5
    <2> QED BY <2>1, <2>4, <2>7, <2>8, <2>9, <2>10 DEF FinishIsLast
  <1>9. ASSUME (\E n \in Ids : Catch(n) \/ SendAck(n)) \/ Serve \/ CondWait \/ Reply \/ SpuriousWakeup
        PROVE  calls' = calls /\ UNCHANGED <<finSem, finishes>> /\ app' = app
    BY <1>9 DEF Catch, SendAck, Serve, CondWait, Reply, SpuriousWakeup
  <1>10. ASSUME ExecTransfer \/ Signal \/ SendData \/ RecvAck \/ Pop \/ Abort \/ UNCHANGED vars
         PROVE  calls' = calls /\ UNCHANGED <<finSem, finishes>> /\ app' = app
    BY <1>10 DEF ExecTransfer, Signal, SendData, RecvAck, Pop, Abort, vars
  <1> QED BY <1>2, <1>3, <1>4, <1>5, <1>6, <1>7, <1>8, <1>9, <1>10 DEF Next, AppReceives, RunStep, DevStep

(* The pairing of a blocking write with its reply.                         *)
LEMMA BlockingStep ==
    ASSUME TypeOK, CallsInOrder, StagesInScope, BlockingIsLast, [Next]_vars
    PROVE  BlockingIsLast'
  <1> USE DEF clientVars, connVars, cnVars
  <1> DEFINE Done == executed \cup early
             A == run = "reply" => cur \in Done
             B == \A n \in Returned : Kind(n) = "blockingWrite" => n <= cur /\ n \in Done /\ (n = cur => run = "serve")
             C == replies # <<>> =>
                    /\ Len(replies) = 1 /\ cur = Len(calls) /\ run = "serve" /\ app # "call"
                    /\ Kind(cur) = "blockingWrite" /\ cur \in Done
  <1>0. /\ Len(calls) \in Nat /\ cur \in Nat /\ cur <= Len(calls)
        /\ A /\ (NoBlockingRead => B /\ C)
    BY Positions DEF BlockingIsLast
  <1>1. Done \subseteq Done'
    BY DEF Next, vars, Call, AppReceives, RecvReply, RecvData, RecvFinish, Exit, Catch, SendAck, RunStep, Serve, CondWait,
           Reply, FinishReply, SpuriousWakeup, DevStep, Abort, ExecTransfer, ExecFinish, Signal, SendData, RecvAck, Pop
  <1> HIDE DEF Done
  <1>2. ASSUME NEW kind \in Kinds, NEW size \in Sizes, Call(kind, size)
        PROVE  A' /\ (NoBlockingRead' => B' /\ C')
    <2>1. /\ app = "call" /\ app' = ReceivesFrom(kind) /\ UNCHANGED <<run, cur, replies>>
          /\ Len(calls') = Len(calls) + 1
          /\ \A n \in 1 .. Len(calls) : Kind(n)' = Kind(n)
      BY <1>2, CallFacts DEF Call
    <2>2. NoBlockingRead' => NoBlockingRead
      <3>1. calls \in Seq([kind : Kinds, size : Sizes]) /\ calls' \in Seq([kind : Kinds, size : Sizes])
        BY <1>2, CallFacts DEF TypeOK
      <3>2. \A n \in DOMAIN calls : n \in DOMAIN calls' /\ Kind(n)' = Kind(n)
        BY <1>0, <2>1, <3>1
      <3> QED BY <3>2 DEF NoBlockingRead
    <2>3. ASSUME NoBlockingRead, NEW n \in Returned', Kind(n)' = "blockingWrite"
          PROVE  n \in Returned /\ Kind(n) = "blockingWrite"
      <3>1. n \in 1 .. Len(calls) + 1
        BY <2>1, <2>3 DEF Returned
      <3>2. CASE n \in 1 .. Len(calls)
        BY <2>1, <2>3, <3>2 DEF Returned
      <3>3. CASE n = Len(calls) + 1
        <4>1. Kind(n)' = kind
          BY <1>2, <3>3, CallFacts DEF Kind
        <4>2. app' = "call"
          BY <1>0, <2>1, <2>3, <3>3 DEF Returned
        <4> QED BY <2>1, <2>3, <4>1, <4>2 DEF ReceivesFrom
      <3> QED BY <1>0, <3>1, <3>2, <3>3
    <2>4. NoBlockingRead => B'
      BY <1>0, <1>1, <2>1, <2>3
    <2>5. NoBlockingRead => replies' = <<>>
      BY <1>0, <2>1
    <2> QED BY <1>0, <1>1, <2>1, <2>2, <2>4, <2>5
  <1>3. ASSUME calls' = calls
        PROVE  (NoBlockingRead' <=> NoBlockingRead) /\ \A n : Kind(n)' = Kind(n)
    BY <1>3 DEF NoBlockingRead, Kind
  <1>4. ASSUME RecvReply
        PROVE  A' /\ (NoBlockingRead' => B' /\ C')
    <2>1. /\ replies # <<>> /\ replies' = Tail(replies) /\ UNCHANGED <<calls, run, cur>>
      BY <1>4 DEF RecvReply
    <2>2. NoBlockingRead => replies' = <<>>
      <3>1. replies \in Seq(Ids) /\ (NoBlockingRead => Len(replies) = 1)
        BY <1>0, <2>1 DEF TypeOK
      <3> HIDE DEF NoBlockingRead
      <3>2. Len(replies) = 1 => Tail(replies) = <<>>
        BY <3>1, <2>1
      <3> QED BY <2>1, <3>1, <3>2
    <2>3. \A n \in Returned' : n \in Returned \/ n = Len(calls)
      BY <1>0, <2>1 DEF Returned
    <2>4. NoBlockingRead => B'
      BY <1>0, <1>1, <1>3, <2>1, <2>3
    <2> QED BY <1>0, <1>1, <1>3, <2>1, <2>2, <2>4
  <1>5. ASSUME RecvData \/ RecvFinish \/ Exit
        PROVE  A' /\ (NoBlockingRead' => B' /\ C')
    <2>1. UNCHANGED <<calls, run, cur, replies>>
      BY <1>5 DEF RecvData, RecvFinish, Exit
    <2>2. app \in {"nonBlocking", "finish"} \/ app' = "exited"
      BY <1>5 DEF RecvData, RecvFinish, Exit
    <2>3. app' # "exited" => Kind(Len(calls)) # "blockingWrite"
      BY <2>2 DEF StagesInScope, ReceivesFrom
    <2>4. \A n \in Returned' : Kind(n) = "blockingWrite" => n \in Returned
      BY <1>0, <2>1, <2>2, <2>3 DEF Returned
    <2>5. NoBlockingRead => B'
      BY <1>0, <1>1, <1>3, <2>1, <2>4
    <2>6. NoBlockingRead => C'
      BY <1>0, <1>1, <1>3, <2>1, <2>2, <2>3 DEF Kind
    <2> QED BY <1>0, <1>1, <1>3, <2>1, <2>5, <2>6
  <1>6. ASSUME Serve
        PROVE  A' /\ (NoBlockingRead' => B' /\ C')
    <2>1. /\ requests # <<>> /\ cur' = Head(requests) /\ run' \in {"serve", "block", "finish"}
          /\ UNCHANGED <<calls, app, replies>>
      BY <1>6 DEF Serve, AfterPush
    <2>2. cur' = cur + 1 /\ cur < Len(calls)
      BY <1>0, <2>1 DEF CallsInOrder, TypeOK
    <2>3. NoBlockingRead => replies = <<>>
      BY <1>0, <2>2
    <2>4. Returned' = Returned /\ \A n \in Returned : n \in Int
      BY <1>0, <2>1 DEF Returned
    <2>5. NoBlockingRead => B'
      BY <1>0, <1>1, <1>3, <2>1, <2>2, <2>4
    <2> QED BY <1>3, <2>1, <2>3, <2>5
  <1>7. ASSUME CondWait \/ SpuriousWakeup
        PROVE  A' /\ (NoBlockingRead' => B' /\ C')
    <2>1. /\ run # "serve" /\ run' # "serve" /\ UNCHANGED <<calls, app, replies, cur>>
          /\ run' = "reply" => cur \in Done'
      BY <1>7 DEF CondWait, SpuriousWakeup, Done
    <2>2. Returned' = Returned
      BY <2>1 DEF Returned
    <2> QED BY <1>0, <1>1, <1>3, <2>1, <2>2
  <1>8. ASSUME Reply
        PROVE  A' /\ (NoBlockingRead' => B' /\ C')
    <2>1. run = "reply" /\ run' = "serve" /\ replies' = replies \o Answer(cur) /\ UNCHANGED <<calls, app, cur>>
      BY <1>8 DEF Reply
    <2>2. cur \in 1 .. Len(calls) /\ Kind(cur) \in Blocking /\ cur \in Done
      BY <1>0, <2>1 DEF StagesInScope, None, TypeOK
    <2>3. NoBlockingRead => Kind(cur) = "blockingWrite"
      BY <2>2 DEF NoBlockingRead, Blocking, TypeOK
    <2>4. NoBlockingRead => cur = Len(calls) /\ app # "call" /\ replies = <<>>
      BY <1>0, <2>1, <2>2, <2>3, ReturnedFacts
    <2>5. NoBlockingRead => replies' = <<cur>>
      BY <2>1, <2>3, <2>4 DEF Answer
    <2>6. Returned' = Returned
      BY <2>1 DEF Returned
    <2>7. NoBlockingRead => B'
      BY <1>0, <1>1, <1>3, <2>1, <2>6
    <2>8. NoBlockingRead => C'
      BY <1>1, <1>3, <2>1, <2>2, <2>3, <2>4, <2>5 DEF Kind
    <2> QED BY <1>3, <2>1, <2>7, <2>8
  <1>9. ASSUME FinishReply
        PROVE  A' /\ (NoBlockingRead' => B' /\ C')
    <2>1. run # "serve" /\ run' = "serve" /\ UNCHANGED <<calls, app, replies, cur>>
      BY <1>9 DEF FinishReply
    <2>2. Returned' = Returned
      BY <2>1 DEF Returned
    <2> QED BY <1>0, <1>1, <1>3, <2>1, <2>2
  <1>10. ASSUME Signal
         PROVE  A' /\ (NoBlockingRead' => B' /\ C')
    <2>1. /\ UNCHANGED <<calls, app, replies, cur>> /\ dpc = "signal"
          /\ run' = run \/ (run = "asleep" /\ run' = "reply" /\ cur = comm)
      BY <1>10 DEF Signal
    <2>2. comm \in Done
      BY <2>1 DEF StagesInScope, Done
    <2>3. Returned' = Returned
      BY <2>1 DEF Returned
    <2> QED BY <1>0, <1>1, <1>3, <2>1, <2>2, <2>3 DEF Kind
  <1>11. ASSUME UNCHANGED <<calls, app, replies, cur, run>>
         PROVE  A' /\ (NoBlockingRead' => B' /\ C')
    <2>1. Returned' = Returned
      BY <1>11 DEF Returned
    <2> QED BY <1>0, <1>1, <1>3, <1>11, <2>1 DEF Kind
  <1>12. ASSUME (\E n \in Ids : Catch(n) \/ SendAck(n)) \/ ExecTransfer \/ ExecFinish \/ SendData \/ RecvAck \/ Pop
                  \/ Abort \/ UNCHANGED vars
         PROVE  UNCHANGED <<calls, app, replies, cur, run>>
    BY <1>12 DEF Catch, SendAck, ExecTransfer, ExecFinish, SendData, RecvAck, Pop, Abort, vars
  <1>13. A' /\ (NoBlockingRead' => B' /\ C')
    BY <1>2, <1>4, <1>5, <1>6, <1>7, <1>8, <1>9, <1>10, <1>11, <1>12 DEF Next, AppReceives, RunStep, DevStep
  <1> QED BY <1>13 DEF BlockingIsLast, Done

-----------------------------------------------------------------------------
(* Non-blocking reads, one at a time.                                      *)

(* What the device is at when it waits for an acknowledgement.             *)
LEMMA AckFacts ==
    ASSUME TypeOK, CallsInOrder, StagesInScope, ReadsInTurn
    PROVE  /\ dpc \in {"send", "ack"} =>
                /\ queue # <<>> /\ comm \in 1 .. Len(calls) /\ comm \in Ids /\ Kind(comm) = "read" /\ ~Passed(comm)
           /\ data # <<>> => acks = 0
           /\ data # <<>> \/ acks > 0 => dpc = "ack"
           /\ acks \in Nat /\ Len(calls) \in Nat
           /\ data \in Seq(Ids) /\ got \in [Ids -> Seq(Ids)] /\ catchers \in [Ids -> {"none", "recv", "ack"}]
  <1>1. dpc \in {"send", "ack"} =>
            queue # <<>> /\ comm \in 1 .. Len(calls) /\ comm \in Ids /\ Kind(comm) = "read" /\ ~Passed(comm)
    BY CommFacts, PassedFacts, Positions DEF StagesInScope
  <1>2. data # <<>> => acks = 0
    BY DEF ReadsInTurn, AckMatchesTransfer, TypeOK
  <1>3. data # <<>> \/ acks > 0 => dpc = "ack"
    BY DEF ReadsInTurn, AckMatchesTransfer
  <1> QED BY SMTT(20), <1>1, <1>2, <1>3 DEF TypeOK

(* The steps that touch neither reads nor the non-blocking connection.     *)
LEMMA ReadsUntouched ==
    ASSUME TypeOK, CallsInOrder, StagesInScope, ReadsInTurn, [Next]_vars,
           UNCHANGED <<calls, catchers, got, data, acks>>, dpc' = "ack" <=> dpc = "ack",
           \A n \in 1 .. Len(calls) : Kind(n) = "read" /\ Passed(n)' => Passed(n)
    PROVE  ReadsInTurn'
  <1>1. \A n : Kind(n)' = Kind(n) /\ Size(n)' = Size(n) /\ Units(n)' = Units(n)
    BY DEF Kind, Size, Units
  <1>2. dpc = "ack" => comm' = comm
    <2>1. dpc = "ack" => ~Pop /\ queue # <<>>
      BY DEF Pop, StagesInScope
    <2> QED BY <2>1, CommStays
  <1>3. \A n \in 1 .. Len(calls) : Passed(n) => Passed(n)'
    BY PassedSteps
  <1>4. InFlight' = InFlight
    BY DEF InFlight
  <1>5. InFlight \subseteq Ids
    BY DEF InFlight
  <1>6. \A n \in InFlight : n <= Len(calls) /\ Kind(n) = "read" /\ ~Passed(n)
    BY DEF ReadsInTurn
  <1>7. \A n \in InFlight : ~Passed(n)'
    BY <1>5, <1>6 DEF Ids, TypeOK
  <1>8. AckMatchesTransfer'
    BY DEF ReadsInTurn, AckMatchesTransfer
  <1>9. data # <<>> \/ acks > 0 => dpc = "ack"
    BY DEF ReadsInTurn, AckMatchesTransfer
  <1> HIDE DEF Kind, Size, Units, Passed, comm, InFlight
  <1>10. \A n \in InFlight :
            /\ catchers[n] = "recv" => Len(got[n]) < Size(n) /\ \A i \in DOMAIN got[n] : got[n][i] = n
            /\ catchers[n] = "ack" => got[n] = Units(n) /\ dpc' = "ack" /\ comm' = n /\ acks = 0 /\ data = <<>>
    BY <1>2 DEF ReadsInTurn
  <1>11. \A n \in 1 .. Len(calls) : Kind(n) = "read" =>
            /\ Passed(n)' => got[n] = Units(n)
            /\ ~Passed(n)' /\ ~(dpc' = "ack" /\ n = comm') => catchers[n] = "recv" /\ got[n] = <<>>
    BY <1>2, <1>3 DEF ReadsInTurn
  <1>12. data # <<>> =>
            /\ dpc' = "ack" /\ catchers[comm'] = "recv"
            /\ Len(got[comm']) + Len(data) <= Size(comm') /\ \A i \in DOMAIN data : data[i] = comm'
    BY <1>2, <1>9 DEF ReadsInTurn
  <1>13. acks > 0 => catchers[comm'] = "none" /\ got[comm'] = Units(comm')
    BY <1>2, <1>9 DEF ReadsInTurn
  <1>14. PICK k : k = comm'
    OBVIOUS
  <1>15. Size(comm)' = Size(k) /\ Units(comm)' = Units(k) /\ Kind(comm)' = Kind(k)
    BY <1>14 DEF Kind, Size, Units
  <1> QED BY <1>1, <1>4, <1>6, <1>7, <1>8, <1>10, <1>11, <1>12, <1>13, <1>14, <1>15 DEF ReadsInTurn

(* A new read finds no catcher and has received nothing; other calls start *)
(* none.                                                                   *)
LEMMA ReadsCall ==
    ASSUME TypeOK, CallsInOrder, StagesInScope, ReadsInTurn, [Next]_vars, MaxReads <= 1,
           NEW kind \in Kinds, NEW size \in Sizes, Call(kind, size)
    PROVE  ReadsInTurn'
  <1>0. PICK m : m = Len(calls) + 1
    OBVIOUS
  <1>1. /\ Len(calls') = m /\ m \in Ids /\ Len(calls) \in Nat
        /\ \A n \in 1 .. Len(calls) : Kind(n)' = Kind(n) /\ Size(n)' = Size(n) /\ Units(n)' = Units(n)
        /\ calls'[m].kind = kind
    BY <1>0, CallFacts, Positions DEF Units, Kind, Size
  <1>2. /\ UNCHANGED <<got, data, acks, dpc, queue>>
        /\ catchers' = IF kind = "read" THEN [catchers EXCEPT ![m] = "recv"] ELSE catchers
        /\ kind = "read" => Cardinality(InFlight) < MaxReads
    BY <1>0 DEF Call, cnVars
  <1>3. catchers \in [Ids -> {"none", "recv", "ack"}] /\ got \in [Ids -> Seq(Ids)] /\ acks \in Nat
    BY DEF TypeOK
  <1>4. \A n \in Ids : n # m => catchers'[n] = catchers[n]
    BY <1>2, <1>3
  <1>5. kind = "read" => InFlight = {}
    <2>1. IsFiniteSet(Ids) /\ InFlight \subseteq Ids
      BY FS_Interval, BoundsAssumption DEF InFlight, Ids
    <2>2. IsFiniteSet(InFlight) /\ Cardinality(InFlight) \in Nat
      BY <2>1, FS_Subset, FS_CardinalityType
    <2> QED BY <1>2, <2>2, FS_EmptySet, BoundsAssumption
  <1>6. catchers[m] = "none"
    BY <1>0, <1>1, <1>3 DEF ReadsInTurn, InFlight
  <1>7. InFlight' = IF kind = "read" THEN {m} ELSE InFlight
    BY <1>1, <1>2, <1>3, <1>4, <1>5 DEF InFlight
  <1>8. /\ \A n \in 1 .. Len(calls) : Passed(n)' <=> Passed(n)
        /\ ~Passed(m)'
    <2>1. dpc' # "pop" \/ dpc' = dpc
      BY <1>2
    <2>2. Popped' = Popped /\ dpc' = dpc
      BY DEF Call, cnVars, Popped
    <2> QED BY <1>0, <1>1, <2>2, PassedSteps DEF Passed
  <1>9. comm' = comm
    BY <1>2 DEF comm
  <1>10. dpc = "ack" => comm \in 1 .. Len(calls) /\ comm # m
    BY <1>0, <1>1, AckFacts
  <1>11. got[m] = <<>>
    BY <1>0, <1>1 DEF ReadsInTurn
  <1>12. Kind(m)' = kind /\ Size(m)' \in Nat \ {0}
    <2>1. calls'[m].kind = kind /\ calls'[m].size = size
      BY <1>0, CallFacts
    <2> QED BY <1>1, <2>1, BoundsAssumption DEF Kind, Size
  <1> HIDE DEF Kind, Size, Units, Passed, comm, InFlight
  <1>13. \A n \in Ids : n > Len(calls') => got'[n] = <<>>
    BY <1>0, <1>1, <1>2 DEF ReadsInTurn, Ids
  <1>14. \A a, b \in InFlight' : a = b
    BY <1>7 DEF ReadsInTurn
  <1>15. ASSUME NEW n \in InFlight'
         PROVE  /\ n <= Len(calls') /\ Kind(n)' = "read" /\ ~Passed(n)'
                /\ catchers'[n] = "recv" => Len(got'[n]) < Size(n)' /\ \A i \in DOMAIN got'[n] : got'[n][i] = n
                /\ catchers'[n] = "ack" => got'[n] = Units(n)' /\ dpc' = "ack" /\ comm' = n /\ acks' = 0 /\ data' = <<>>
    <2>1. CASE kind = "read"
      <3>1. n = m /\ catchers'[n] = "recv" /\ got'[n] = <<>>
        BY <1>1, <1>2, <1>3, <1>7, <1>11, <1>15, <2>1
      <3>2. n <= Len(calls')
        BY <1>1, <3>1
      <3> QED BY <1>8, <1>12, <2>1, <3>1, <3>2
    <2>2. CASE kind # "read"
      <3>1. n \in InFlight /\ n \in Ids /\ catchers'[n] = catchers[n]
        BY <1>2, <1>7, <1>15, <2>2 DEF InFlight
      <3>2. n \in 1 .. Len(calls)
        BY <1>1, <3>1 DEF ReadsInTurn, Ids
      <3> QED BY <1>0, <1>1, <1>2, <1>8, <1>9, <3>1, <3>2 DEF ReadsInTurn
    <2> QED BY <2>1, <2>2
  <1>16. ASSUME NEW n \in 1 .. Len(calls'), Kind(n)' = "read"
         PROVE  /\ Passed(n)' => got'[n] = Units(n)'
                /\ ~Passed(n)' /\ ~(dpc' = "ack" /\ n = comm') => catchers'[n] = "recv" /\ got'[n] = <<>>
    <2>1. CASE n = m
      BY <1>1, <1>2, <1>3, <1>8, <1>11, <1>12, <1>16, <2>1
    <2>2. CASE n # m
      <3>1. n \in 1 .. Len(calls) /\ n \in Ids
        BY <1>1, <2>2, <1>0, Positions
      <3> QED BY <1>1, <1>2, <1>4, <1>8, <1>9, <1>16, <2>2, <3>1 DEF ReadsInTurn
    <2> QED BY <2>1, <2>2
  <1>17. data # <<>> \/ acks > 0 => catchers'[comm] = catchers[comm] /\ Size(comm)' = Size(comm) /\ Units(comm)' = Units(comm)
    <2>1. data # <<>> \/ acks > 0 => dpc = "ack" /\ comm \in Ids
      BY AckFacts
    <2>2. PICK k : k = comm
      OBVIOUS
    <2>3. Size(comm)' = Size(k)' /\ Units(comm)' = Units(k)'
      BY <1>9, <2>2 DEF Size, Units
    <2> QED BY <1>1, <1>4, <1>10, <2>1, <2>2, <2>3
  <1>18. AckMatchesTransfer'
    BY <1>2 DEF ReadsInTurn, AckMatchesTransfer
  <1>19. /\ data' # <<>> =>
              /\ dpc' = "ack" /\ catchers'[comm'] = "recv"
              /\ Len(got'[comm']) + Len(data') <= Size(comm)' /\ \A i \in DOMAIN data' : data'[i] = comm'
         /\ acks' > 0 => catchers'[comm'] = "none" /\ got'[comm'] = Units(comm)'
    BY <1>2, <1>9, <1>17 DEF ReadsInTurn
  <1> QED BY <1>13, <1>14, <1>15, <1>16, <1>18, <1>19 DEF ReadsInTurn

(* A unit received by the catcher of the read it belongs to.               *)
LEMMA ReadsCatch ==
    ASSUME TypeOK, CallsInOrder, StagesInScope, ReadsInTurn, [Next]_vars,
           NEW k \in Ids, Catch(k)
    PROVE  ReadsInTurn'
  <1>1. /\ UNCHANGED <<calls, acks, dpc, queue, cur>> /\ catchers[k] = "recv" /\ data # <<>>
        /\ got' = [got EXCEPT ![k] = Append(@, Head(data))] /\ data' = Tail(data)
        /\ catchers' = IF Len(got[k]) + 1 = Size(k) THEN [catchers EXCEPT ![k] = "ack"] ELSE catchers
    BY DEF Catch, Receive, LastUnit, cnVars
  <1>2. /\ data \in Seq(Ids) /\ got \in [Ids -> Seq(Ids)] /\ catchers \in [Ids -> {"none", "recv", "ack"}]
        /\ Len(calls) \in Nat /\ acks = 0 /\ dpc = "ack" /\ queue # <<>>
        /\ comm \in 1 .. Len(calls) /\ comm \in Ids /\ Kind(comm) = "read" /\ ~Passed(comm)
    BY <1>1, AckFacts
  <1>3. k \in InFlight /\ comm \in InFlight
    BY <1>1, <1>2 DEF ReadsInTurn, InFlight
  <1>4. k = comm
    BY <1>3 DEF ReadsInTurn
  <1>5. Size(k) \in Nat /\ Len(got[k]) \in Nat /\ Len(data) \in Nat
    BY <1>2, <1>4, Positions
  <1>6. /\ Head(data) = k /\ Len(data') = Len(data) - 1 /\ Len(data) > 0
        /\ \A i \in DOMAIN data' : data'[i] = k
    <2>1. \A i \in DOMAIN data : data[i] = k
      BY <1>1, <1>4 DEF ReadsInTurn
    <2> QED BY <1>1, <1>2, <2>1
  <1>7. Len(got[k]) + Len(data) <= Size(k) /\ Len(got[k]) < Size(k) /\ \A i \in DOMAIN got[k] : got[k][i] = k
    BY <1>1, <1>3, <1>4 DEF ReadsInTurn
  <1>8. /\ got'[k] = Append(got[k], k) /\ \A n \in Ids : n # k => got'[n] = got[n] /\ catchers'[n] = catchers[n]
        /\ catchers'[k] = IF Len(got[k]) + 1 = Size(k) THEN "ack" ELSE "recv"
    BY <1>1, <1>2, <1>6
  <1>9. Len(got'[k]) = Len(got[k]) + 1 /\ \A i \in DOMAIN got'[k] : got'[k][i] = k
    BY <1>2, <1>7, <1>8
  <1>10. Len(got[k]) + 1 = Size(k) => got'[k] = Units(k) /\ data' = <<>>
    <2> SUFFICES ASSUME Len(got[k]) + 1 = Size(k) PROVE got'[k] = Units(k) /\ data' = <<>>
      OBVIOUS
    <2>1. got'[k] \in Seq(Ids) /\ Len(got'[k]) = Size(k)
      BY <1>2, <1>8, <1>9
    <2>2. got'[k] = Units(k)
      BY <1>5, <1>9, <2>1 DEF Units
    <2>3. Len(data') = 0 /\ data' \in Seq(Ids)
      BY <1>1, <1>2, <1>5, <1>6, <1>7
    <2> QED BY <2>2, <2>3
  <1>11. \A n : Kind(n)' = Kind(n) /\ Size(n)' = Size(n) /\ Units(n)' = Units(n) /\ (Passed(n)' <=> Passed(n))
    BY <1>1 DEF Kind, Size, Units, Passed, Popped
  <1>12. comm' = k
    BY <1>1, <1>4 DEF comm
  <1>13. InFlight' = InFlight
    BY <1>1, <1>8 DEF InFlight
  <1>14. InFlight = {k}
    BY <1>3 DEF ReadsInTurn
  <1>15. Size(comm)' = Size(k) /\ Units(comm)' = Units(k)
    BY <1>1, <1>12 DEF Size, Units
  <1> HIDE DEF Kind, Size, Units, Passed, comm, InFlight
  <1>16. \A n \in Ids : n > Len(calls) => got'[n] = <<>>
    BY <1>2, <1>4, <1>8 DEF ReadsInTurn
  <1>17. ASSUME NEW n \in 1 .. Len(calls), Kind(n) = "read"
         PROVE  /\ Passed(n) => got'[n] = Units(n)
                /\ ~Passed(n) /\ n # k => catchers'[n] = "recv" /\ got'[n] = <<>>
    <2>1. n \in Ids
      BY Positions
    <2> QED BY <1>2, <1>4, <1>8, <1>17, <2>1 DEF ReadsInTurn
  <1>18. /\ k <= Len(calls) /\ Kind(k) = "read" /\ ~Passed(k)
         /\ catchers'[k] = "recv" => Len(got'[k]) < Size(k) /\ \A i \in DOMAIN got'[k] : got'[k][i] = k
         /\ catchers'[k] = "ack" => got'[k] = Units(k) /\ data' = <<>>
    BY <1>2, <1>4, <1>5, <1>7, <1>8, <1>9, <1>10
  <1>19. data' # <<>> => catchers'[k] = "recv" /\ Len(got'[k]) + Len(data') <= Size(k)
    BY <1>5, <1>6, <1>7, <1>8, <1>9, <1>10
  <1>20. AckMatchesTransfer'
    BY <1>1, <1>2 DEF AckMatchesTransfer
  <1> QED BY <1>1, <1>2, <1>6, <1>11, <1>12, <1>13, <1>14, <1>15, <1>16, <1>17, <1>18, <1>19, <1>20 DEF ReadsInTurn

(* The acknowledgement of the read the device waits on.                    *)
LEMMA ReadsSendAck ==
    ASSUME TypeOK, CallsInOrder, StagesInScope, ReadsInTurn, [Next]_vars,
           NEW k \in Ids, SendAck(k)
    PROVE  ReadsInTurn'
  <1>1. /\ UNCHANGED <<calls, got, data, dpc, queue, cur>> /\ catchers[k] = "ack" /\ acks' = acks + 1
        /\ catchers' = [catchers EXCEPT ![k] = "none"]
    BY DEF SendAck, cnVars
  <1>2. k \in InFlight
    BY <1>1 DEF InFlight
  <1>3. /\ InFlight = {k} /\ k \in 1 .. Len(calls) /\ got[k] = Units(k)
        /\ dpc = "ack" /\ comm = k /\ acks = 0 /\ data = <<>>
    <2>1. InFlight = {k}
      BY <1>2 DEF ReadsInTurn
    <2>2. k <= Len(calls) /\ k \in 1 .. Len(calls)
      BY <1>2 DEF ReadsInTurn, Ids, TypeOK
    <2>3. got[k] = Units(k) /\ dpc = "ack" /\ comm = k /\ acks = 0 /\ data = <<>>
      BY <1>1, <1>2 DEF ReadsInTurn
    <2> QED BY <2>1, <2>2, <2>3
  <1>4. catchers \in [Ids -> {"none", "recv", "ack"}]
    BY DEF TypeOK
  <1>5. catchers'[k] = "none" /\ \A n \in Ids : n # k => catchers'[n] = catchers[n]
    BY <1>1, <1>4
  <1>6. InFlight' = {}
    BY <1>3, <1>5 DEF InFlight
  <1>7. \A n : Kind(n)' = Kind(n) /\ Size(n)' = Size(n) /\ Units(n)' = Units(n) /\ (Passed(n)' <=> Passed(n))
    BY <1>1 DEF Kind, Size, Units, Passed, Popped
  <1>8. comm' = k /\ Units(comm)' = Units(k)
    BY <1>1, <1>3 DEF comm, Units, Size
  <1> HIDE DEF Kind, Size, Units, Passed, comm, InFlight
  <1>9. \A n \in 1 .. Len(calls) : Kind(n) = "read" =>
            /\ Passed(n) => got[n] = Units(n)
            /\ ~Passed(n) /\ n # k => catchers'[n] = "recv" /\ got[n] = <<>>
    BY <1>3, <1>5, Positions DEF ReadsInTurn
  <1>10. AckMatchesTransfer' /\ data' = <<>>
    BY <1>1, <1>3 DEF AckMatchesTransfer
  <1>11. \A n \in Ids : n > Len(calls) => got[n] = <<>>
    BY DEF ReadsInTurn
  <1> QED BY <1>1, <1>3, <1>5, <1>6, <1>7, <1>8, <1>9, <1>10, <1>11 DEF ReadsInTurn

(* A blocking read takes a unit of another call's: that read then stays    *)
(* incomplete, and its catcher goes on waiting.                            *)
LEMMA ReadsTaken ==
    ASSUME TypeOK, CallsInOrder, StagesInScope, ReadsInTurn, [Next]_vars, RecvData
    PROVE  ReadsInTurn'
  <1>0. PICK k : k = Len(calls)
    OBVIOUS
  <1>1. /\ UNCHANGED <<calls, acks, dpc, queue, cur, catchers>> /\ data # <<>>
        /\ got' = [got EXCEPT ![k] = Append(@, Head(data))] /\ data' = Tail(data) /\ app = "nonBlocking"
    BY <1>0 DEF RecvData, Receive, cnVars
  <1>2. calls # <<>> /\ ReceivesFrom(Kind(k)) = "nonBlocking"
    BY <1>0, <1>1 DEF StagesInScope
  <1>3. Kind(k) # "read"
    BY <1>2 DEF ReceivesFrom
  <1>4. /\ data \in Seq(Ids) /\ got \in [Ids -> Seq(Ids)] /\ Len(calls) \in Nat /\ acks = 0
        /\ dpc = "ack" /\ comm \in Ids /\ Kind(comm) = "read"
    BY <1>1, AckFacts
  <1>5. \A n \in Ids : n # k => got'[n] = got[n]
    BY <1>1, <1>4
  <1>6. Len(data') = Len(data) - 1 /\ \A i \in DOMAIN data' : data'[i] = data[i + 1] /\ i + 1 \in DOMAIN data
    BY <1>1, <1>4
  <1>7. \A n : Kind(n)' = Kind(n) /\ Size(n)' = Size(n) /\ Units(n)' = Units(n) /\ (Passed(n)' <=> Passed(n))
    BY <1>1 DEF Kind, Size, Units, Passed, Popped
  <1>8. PICK c : c = comm
    OBVIOUS
  <1>9. comm' = c /\ Size(comm)' = Size(c) /\ Units(comm)' = Units(c) /\ got'[c] = got[c] /\ c \in Ids
    BY <1>1, <1>3, <1>4, <1>5, <1>8 DEF comm, Units, Size
  <1>10. InFlight' = InFlight /\ InFlight \subseteq Ids
    BY <1>1 DEF InFlight
  <1>11. Size(c) \in Nat /\ Len(got[c]) \in Nat /\ Len(data) \in Nat
    BY <1>1, <1>4, <1>8, <1>9, AckFacts, Positions
  <1> HIDE DEF Kind, Size, Units, Passed, comm, InFlight
  <1>12. ASSUME NEW n \in InFlight
         PROVE  /\ n <= Len(calls) /\ Kind(n) = "read" /\ ~Passed(n)
                /\ catchers[n] = "recv" => Len(got'[n]) < Size(n) /\ \A i \in DOMAIN got'[n] : got'[n][i] = n
                /\ catchers[n] = "ack" => data = <<>>
    <2>1. n # k /\ n \in Ids
      BY <1>3, <1>10 DEF ReadsInTurn
    <2> QED BY <1>5, <2>1 DEF ReadsInTurn
  <1>13. \A n \in 1 .. Len(calls) : Kind(n) = "read" =>
            /\ Passed(n) => got'[n] = Units(n)
            /\ ~Passed(n) /\ n # c => catchers[n] = "recv" /\ got'[n] = <<>>
    BY <1>3, <1>5, <1>8, Positions DEF ReadsInTurn
  <1>14. \A n \in Ids : n > Len(calls) => got'[n] = <<>>
    BY <1>0, <1>4, <1>5 DEF ReadsInTurn, Ids
  <1>15. catchers[c] = "recv" /\ Len(got[c]) + Len(data) <= Size(c) /\ \A i \in DOMAIN data : data[i] = c
    BY <1>1, <1>8 DEF ReadsInTurn
  <1>16. Len(got'[c]) + Len(data') <= Size(c) /\ \A i \in DOMAIN data' : data'[i] = c
    BY <1>6, <1>9, <1>11, <1>15
  <1>17. AckMatchesTransfer' /\ \A a, b \in InFlight : a = b
    BY <1>1, <1>4 DEF AckMatchesTransfer, ReadsInTurn
  <1> QED BY <1>1, <1>4, <1>7, <1>9, <1>10, <1>12, <1>13, <1>14, <1>15, <1>16, <1>17 DEF ReadsInTurn

(* The device sends a read's data.                                         *)
LEMMA ReadsSendData ==
    ASSUME TypeOK, CallsInOrder, StagesInScope, ReadsInTurn, [Next]_vars, SendData
    PROVE  ReadsInTurn'
  <1>0. PICK c : c = comm
    OBVIOUS
  <1>1. /\ UNCHANGED <<calls, acks, queue, cur, catchers, got>> /\ dpc = "send" /\ dpc' = "ack" /\ data' = data \o Units(c)
    BY <1>0 DEF SendData, AfterSend, clientVars
  <1>2. /\ c \in 1 .. Len(calls) /\ c \in Ids /\ Kind(c) = "read" /\ ~Passed(c)
        /\ data = <<>> /\ acks = 0 /\ Len(calls) \in Nat
    BY <1>0, <1>1, AckFacts
  <1>3. catchers[c] = "recv" /\ got[c] = <<>>
    BY <1>1, <1>2 DEF ReadsInTurn
  <1>4. Len(Units(c)) = Size(c) /\ Size(c) \in Nat /\ (\A i \in DOMAIN Units(c) : Units(c)[i] = c) /\ Units(c) \in Seq(Ids)
    BY <1>2, UnitsFacts
  <1>5. data' = Units(c)
    BY <1>1, <1>2, <1>4
  <1>6. \A n : Kind(n)' = Kind(n) /\ Size(n)' = Size(n) /\ Units(n)' = Units(n)
    BY <1>1 DEF Kind, Size, Units
  <1>7. \A n : Passed(n)' <=> Passed(n)
    BY <1>1 DEF Passed, Popped
  <1>8. comm' = c /\ Size(comm)' = Size(c) /\ Units(comm)' = Units(c)
    BY <1>0, <1>1 DEF comm, Units, Size
  <1>9. InFlight' = InFlight
    BY <1>1 DEF InFlight
  <1> HIDE DEF Kind, Size, Units, Passed, comm, InFlight
  <1>10. ASSUME NEW n \in InFlight
         PROVE  /\ n <= Len(calls) /\ Kind(n) = "read" /\ ~Passed(n)
                /\ catchers[n] = "recv" => Len(got[n]) < Size(n) /\ \A i \in DOMAIN got[n] : got[n][i] = n
                /\ catchers[n] # "ack"
    BY <1>1 DEF ReadsInTurn
  <1>11. \A n \in 1 .. Len(calls) : Kind(n) = "read" =>
            /\ Passed(n) => got[n] = Units(n)
            /\ ~Passed(n) => catchers[n] = "recv" /\ got[n] = <<>>
    BY <1>1 DEF ReadsInTurn
  <1>12. AckMatchesTransfer' /\ \A a, b \in InFlight : a = b
    BY <1>1, <1>2 DEF AckMatchesTransfer, ReadsInTurn
  <1>13. \A n \in Ids : n > Len(calls) => got[n] = <<>>
    BY DEF ReadsInTurn
  <1>14. Len(got[c]) + Len(data') <= Size(c) /\ \A i \in DOMAIN data' : data'[i] = c
    BY <1>3, <1>4, <1>5
  <1> QED BY <1>1, <1>2, <1>3, <1>6, <1>7, <1>8, <1>9, <1>10, <1>11, <1>12, <1>13, <1>14 DEF ReadsInTurn

(* The device has its acknowledgement: the read is complete.               *)
LEMMA ReadsRecvAck ==
    ASSUME TypeOK, CallsInOrder, StagesInScope, ReadsInTurn, [Next]_vars, RecvAck
    PROVE  ReadsInTurn'
  <1>0. PICK c : c = comm
    OBVIOUS
  <1>1. /\ UNCHANGED <<calls, data, queue, cur, catchers, got>> /\ dpc = "ack" /\ dpc' = "pop"
        /\ acks > 0 /\ acks' = acks - 1
    BY DEF RecvAck, clientVars
  <1>2. /\ c \in 1 .. Len(calls) /\ c \in Ids /\ Kind(c) = "read" /\ ~Passed(c) /\ queue # <<>> /\ Len(calls) \in Nat
    BY <1>0, <1>1, AckFacts
  <1>3. acks' = 0 /\ data = <<>> /\ catchers[c] = "none" /\ got[c] = Units(c)
    BY <1>0, <1>1 DEF ReadsInTurn, AckMatchesTransfer
  <1>4. \A n : Kind(n)' = Kind(n) /\ Size(n)' = Size(n) /\ Units(n)' = Units(n)
    BY <1>1 DEF Kind, Size, Units
  <1>5. \A n \in 1 .. Len(calls) : n # c => (Passed(n)' <=> Passed(n))
    BY <1>0, PassedSteps
  <1>6. Passed(c)'
    <2>1. c = Popped + 1 /\ Popped' = Popped
      BY <1>0, <1>1, <1>2, CommFacts DEF Popped
    <2> QED BY <1>1, <2>1 DEF Passed
  <1>7. InFlight' = InFlight /\ InFlight \subseteq Ids /\ c \notin InFlight
    BY <1>1, <1>3 DEF InFlight
  <1> HIDE DEF Kind, Size, Units, Passed, comm, InFlight
  <1>8. ASSUME NEW n \in InFlight
        PROVE  /\ n <= Len(calls) /\ Kind(n) = "read" /\ ~Passed(n)'
               /\ catchers[n] = "recv" => Len(got[n]) < Size(n) /\ \A i \in DOMAIN got[n] : got[n][i] = n
               /\ catchers[n] # "ack"
    <2>1. n # c /\ n \in 1 .. Len(calls) /\ ~Passed(n)
      BY <1>2, <1>7 DEF ReadsInTurn, Ids
    <2> QED BY <1>0, <1>1, <1>5, <2>1 DEF ReadsInTurn
  <1>9. \A n \in 1 .. Len(calls) : Kind(n) = "read" =>
            /\ Passed(n)' => got[n] = Units(n)
            /\ ~Passed(n)' => catchers[n] = "recv" /\ got[n] = <<>>
    BY <1>0, <1>3, <1>5, <1>6 DEF ReadsInTurn
  <1>10. AckMatchesTransfer' /\ \A a, b \in InFlight : a = b
    BY <1>3 DEF AckMatchesTransfer, ReadsInTurn
  <1>11. \A n \in Ids : n > Len(calls) => got[n] = <<>>
    BY DEF ReadsInTurn
  <1> QED BY <1>1, <1>3, <1>4, <1>7, <1>8, <1>9, <1>10, <1>11 DEF ReadsInTurn

(* Every step keeps the reads in turn while only one is in flight.         *)
LEMMA ReadsStep ==
    ASSUME TypeOK, CallsInOrder, StagesInScope, ReadsInTurn, [Next]_vars, MaxReads <= 1
    PROVE  ReadsInTurn'
  <1> USE DEF clientVars, connVars, cnVars
  <1> DEFINE Untouched ==
               /\ UNCHANGED <<calls, catchers, got, data, acks>> /\ (dpc' = "ack" <=> dpc = "ack")
               /\ \A n \in 1 .. Len(calls) : Kind(n) = "read" /\ Passed(n)' => Passed(n)
  <1>1. Untouched => ReadsInTurn'
    BY ReadsUntouched
  <1>2. ASSUME UNCHANGED <<calls, catchers, got, data, acks>>, dpc' = dpc
        PROVE  Untouched
    BY <1>2, PassedSteps
  <1>3. RecvReply \/ RecvFinish \/ Exit \/ Serve \/ CondWait \/ SpuriousWakeup \/ Reply \/ FinishReply \/ UNCHANGED vars =>
            UNCHANGED <<calls, catchers, got, data, acks>> /\ dpc' = dpc
    BY DEF RecvReply, RecvFinish, Exit, Serve, CondWait, SpuriousWakeup, Reply, FinishReply, vars
  <1>4. ASSUME ExecTransfer \/ ExecFinish \/ Signal
        PROVE  Untouched
    <2>1. UNCHANGED <<calls, catchers, got, data, acks>> /\ queue # <<>> /\ dpc # "ack"
      BY <1>4 DEF ExecTransfer, ExecFinish, Signal, Taken, StagesInScope
    <2>2. dpc' # "ack" /\ (dpc' = "pop" => Kind(comm) # "read")
      <3>1. CASE ExecTransfer
        <4>1. Kind(comm) \in Transfers /\ dpc' = AfterTransfer(Kind(comm))
          BY <3>1 DEF ExecTransfer, Taken
        <4> QED BY <4>1 DEF AfterTransfer, Transfers, Blocking
      <3>2. CASE ExecFinish
        BY <3>2 DEF ExecFinish, Taken
      <3>3. CASE Signal
        BY <3>3 DEF Signal, StagesInScope, Blocking
      <3> QED BY <1>4, <3>1, <3>2, <3>3
    <2> QED BY <2>1, <2>2, PassedSteps
  <1>5. ASSUME Abort \/ Pop
        PROVE  Untouched
    <2>1. UNCHANGED <<calls, catchers, got, data, acks>> /\ dpc \in {"take", "pop"} /\ dpc' \in {"take", "aborted"}
      BY <1>5 DEF Abort, Pop, Taken
    <2> QED BY <2>1, PassedSteps
  <1> HIDE DEF Untouched
  <1> QED BY <1>1, <1>2, <1>3, <1>4, <1>5, ReadsCall, ReadsCatch, ReadsSendAck, ReadsTaken, ReadsSendData, ReadsRecvAck
          DEF Next, AppReceives, RunStep, DevStep

-----------------------------------------------------------------------------
(* The theorems.                                                           *)

(* Whatever the kinds, sizes and number of the calls: requests, commands   *)
(* and replies keep the order of the calls, each waiting thread waits for  *)
(* its own call, and with one non-blocking read at a time the data under   *)
(* way are those of the read the device waits on.                          *)
THEOREM TransferInvariant == Spec => []TransferInv
  <1>1. TransferInv /\ [Next]_vars => TransferInv'
    <2> SUFFICES ASSUME TransferInv, [Next]_vars PROVE TransferInv'
      OBVIOUS
    <2>1. TypeOK /\ CallsInOrder /\ StagesInScope /\ FinishIsLast /\ BlockingIsLast /\ (MaxReads <= 1 => ReadsInTurn)
      BY DEF TransferInv
    <2>2. TypeOK' /\ CallsInOrder' /\ StagesInScope'
      BY <2>1, TypeStep, OrderStep, StagesStep
    <2>3. FinishIsLast' /\ BlockingIsLast'
      BY <2>1, FinishStep, BlockingStep
    <2>4. MaxReads <= 1 => ReadsInTurn'
      BY <2>1, ReadsStep
    <2> QED BY <2>2, <2>3, <2>4 DEF TransferInv
  <1> QED BY InitTransfer, <1>1, PTL DEF Spec

(* In an application without blocking reads (which never return) a blocking *)
(* write has been executed when it returns, unless its wait ended without a *)
(* signal, however many reads are under way.                                *)
THEOREM BlockingExecuted == Spec => []BlockingMeansExecuted
  <1>1. TransferInv => BlockingMeansExecuted
    BY DEF TransferInv, BlockingIsLast, BlockingMeansExecuted
  <1> QED BY TransferInvariant, <1>1, PTL

(* With one non-blocking read at a time, when clFinish has returned every  *)
(* earlier read holds its own data and every earlier transfer is done.     *)
THEOREM FinishDelivered ==
    ASSUME MaxReads <= 1
    PROVE  Spec => []FinishMeansDelivered
  <1>1. TransferInv => FinishMeansDelivered
    <2> SUFFICES ASSUME TransferInv, NEW m \in Returned, Kind(m) = "finish", NEW n \in 1 .. m - 1
                 PROVE  (Kind(n) = "read" => got[n] = Units(n)) /\ (Kind(n) \in Transfers => n \in executed)
      BY DEF FinishMeansDelivered
    <2>1. TypeOK /\ CallsInOrder /\ StagesInScope /\ FinishIsLast /\ ReadsInTurn
      BY DEF TransferInv
    <2>2. Passed(m) /\ m \in 1 .. Len(calls) /\ Len(calls) \in Nat
      BY <2>1 DEF FinishIsLast, Returned, TypeOK
    <2>3. n \in 1 .. Len(calls) /\ Passed(n)
      <3>1. Popped \in Nat
        BY <2>1, Positions
      <3> QED BY <2>2, <3>1 DEF Passed
    <2> QED BY <2>1, <2>3 DEF StagesInScope, ReadsInTurn
  <1> QED BY TransferInvariant, <1>1, PTL

(* With one non-blocking read at a time, no acknowledgement is early or    *)
(* left over.                                                              *)
THEOREM AcksMatch ==
    ASSUME MaxReads <= 1
    PROVE  Spec => []AckMatchesTransfer
  <1>1. TransferInv => AckMatchesTransfer
    BY DEF TransferInv, ReadsInTurn
  <1> QED BY TransferInvariant, <1>1, PTL
=============================================================================
