--------------------------- MODULE DispatcherProofs ---------------------------
(***************************************************************************)
(* Proofs about Dispatcher, for any nodes, any finite set of applications  *)
(* and any bounds.                                                         *)
(***************************************************************************)
EXTENDS Dispatcher, FiniteSetTheorems, TLAPS

(* The list is a finite set, as large as its cardinality says.             *)
LEMMA ListedFinite ==
    ASSUME TypeOK
    PROVE  IsFiniteSet(Listed) /\ Cardinality(Listed) \in Nat
  <1>1. cn_id \in Int
    BY BoundsAssumption DEF TypeOK, Ids, NoId
  <1>2. IsFiniteSet(0 .. cn_id) /\ Listed \in SUBSET (0 .. cn_id)
    BY <1>1, FS_Interval DEF TypeOK
  <1> QED BY <1>2, FS_Subset, FS_CardinalityType

(* Init establishes the inductive invariant.                               *)
LEMMA InitDispatcher == Init => DispatcherInv
  <1> SUFFICES ASSUME Init PROVE DispatcherInv
    OBVIOUS
  <1>1. Listed = {} /\ CNs \in [Listed -> [node : Nodes, weight : Nat]]
    BY DEF Init, Listed
  <1>2. TypeOK
    BY <1>1, BoundsAssumption DEF Init, TypeOK, Ids, NoId
  <1>3. ListMatchesConnections
    BY <1>1 DEF Init, ListMatchesConnections
  <1>4. KeysInScope /\ KeysListed /\ AnswersApart /\ IdsStayGood
    BY DEF Init, KeysInScope, KeysListed, AnswersApart, IdsStayGood, Binding
  <1>5. BindingsCounted /\ WeightsRead
    BY <1>1 DEF Init, BindingsCounted, WeightsRead
  <1> QED BY <1>2, <1>3, <1>4, <1>5 DEF DispatcherInv

-----------------------------------------------------------------------------
(* The list of nodes.                                                      *)

(* What the steps of a node's connection do to the types.                  *)
LEMMA NodeTypeOK ==
    ASSUME TypeOK, ListMatchesConnections, NEW n \in Nodes, NodeStep(n)
    PROVE  TypeOK'
  <1> USE BoundsAssumption DEF nodeVars, appVars, history, Ids, NoId
  <1>1. ASSUME CNReg(n)
        PROVE  TypeOK'
    <2> DEFINE new == cn_id + 1
    <2>1. new \in Nat /\ new \in Ids /\ 0 .. cn_id \subseteq 0 .. new
      BY <1>1 DEF CNReg, TypeOK
    <2>2. Listed' = Listed \cup {new} /\ CNs' \in [Listed' -> [node : Nodes, weight : Nat]]
      BY <1>1, <2>1 DEF CNReg, TypeOK, Listed
    <2>3. Listed' \subseteq 0 .. new /\ orphans' \subseteq Listed' /\ reported' \subseteq 0 .. new
      BY <1>1, <2>1, <2>2 DEF CNReg, TypeOK
    <2> QED BY <1>1, <2>1, <2>2, <2>3 DEF CNReg, TypeOK
  <1>2. ASSUME NEW w \in LoadWeights, LoadInfo(n, w)
        PROVE  TypeOK'
    <2>1. id[n] \in Listed /\ w \in Nat
      BY <1>2, WeightsAssumption DEF LoadInfo, ListMatchesConnections
    <2>2. CNs' = [CNs EXCEPT ![id[n]].weight = w] /\ Listed' = Listed
      BY <1>2, <2>1 DEF LoadInfo, Listed
    <2>3. CNs' \in [Listed' -> [node : Nodes, weight : Nat]]
      <3>1. CNs \in [Listed -> [node : Nodes, weight : Nat]]
        BY DEF TypeOK
      <3> HIDE DEF Listed
      <3> QED BY <2>1, <2>2, <3>1
    <2> QED BY <1>2, <2>1, <2>2, <2>3 DEF LoadInfo, TypeOK
  <1>3. Leave(n) => TypeOK'
    BY DEF Leave, TypeOK, Listed
  <1>4. ASSUME Fail(n)
        PROVE  TypeOK'
    <2>1. id[n] \in Listed
      BY <1>4 DEF Fail, ListMatchesConnections
    <2> QED BY <1>4, <2>1 DEF Fail, TypeOK, Listed
  <1>5. ASSUME DelCN(n)
        PROVE  TypeOK'
    <2>1. CNs' = [i \in Listed \ {id[n]} |-> CNs[i]]
      BY <1>5 DEF DelCN, Erased, Restrict
    <2>2. Listed' = Listed \ {id[n]} /\ CNs' \in [Listed' -> [node : Nodes, weight : Nat]]
      BY <2>1 DEF TypeOK, Listed
    <2>3. id[n] \notin orphans /\ overtaken' \subseteq Apps
      BY <1>5 DEF DelCN, ListMatchesConnections, Looking, TypeOK
    <2> QED BY <1>5, <2>2, <2>3 DEF DelCN, TypeOK
  <1> QED BY <1>1, <1>2, <1>3, <1>4, <1>5 DEF NodeStep

(* The list keeps matching the connections, whatever they do.              *)
LEMMA NodeListMatches ==
    ASSUME TypeOK, ListMatchesConnections, NEW n \in Nodes, NodeStep(n)
    PROVE  ListMatchesConnections'
  <1> USE BoundsAssumption DEF nodeVars, appVars, history, Ids, NoId, Listed, ListMatchesConnections
  <1> DEFINE served == {m \in Nodes : conn[m] \in {"up", "closing"}}
  <1>0. \A m \in served, k \in served : id[m] = id[k] => m = k
    OBVIOUS
  <1>1. ASSUME CNReg(n)
        PROVE  ListMatchesConnections'
    <2> DEFINE new == cn_id + 1
    <2>1. new \notin Listed
      <3>1. cn_id \in Int /\ Listed \subseteq 0 .. cn_id
        BY DEF TypeOK
      <3>2. new \notin 0 .. cn_id
        BY <3>1
      <3> QED BY <3>1, <3>2
    <2>2. n \notin served /\ served' = served \cup {n} /\ id'[n] = new
      BY <1>1 DEF CNReg, TypeOK
    <2>3. \A m \in served : id'[m] = id[m] /\ id[m] \in Listed
      BY <1>1, <2>2 DEF CNReg, TypeOK
    <2>4. {id'[m] : m \in served'} = {id[m] : m \in served} \cup {new}
      BY <2>2, <2>3
    <2>5. Listed' = Listed \cup {new} /\ \A i \in Listed' : CNs'[i] = IF i = new THEN [node |-> n, weight |-> 0] ELSE CNs[i]
      BY <1>1 DEF CNReg
    <2>6. orphans' = orphans /\ new \notin orphans
      BY <1>1, <2>1 DEF CNReg, TypeOK
    <2>7. \A m \in served' : CNs'[id'[m]].node = m /\ id'[m] \notin orphans'
      BY <2>1, <2>2, <2>3, <2>5, <2>6
    <2> HIDE DEF new
    <2> QED BY <2>4, <2>5, <2>6, <2>7
  <1>2. ASSUME NEW w \in LoadWeights, LoadInfo(n, w)
        PROVE  ListMatchesConnections'
    <2>1. id[n] \in Listed
      BY <1>2 DEF LoadInfo
    <2>2. CNs' = [CNs EXCEPT ![id[n]].weight = w]
      BY <1>2, <2>1 DEF LoadInfo
    <2>3. Listed' = Listed /\ \A i \in Listed : CNs'[i].node = CNs[i].node
      BY <2>1, <2>2 DEF TypeOK
    <2>4. UNCHANGED <<conn, id, orphans>>
      BY <1>2 DEF LoadInfo
    <2> QED BY <2>3, <2>4
  <1>3. ASSUME Leave(n)
        PROVE  ListMatchesConnections'
    <2>1. served' = served /\ UNCHANGED <<id, CNs, orphans>>
      BY <1>3 DEF Leave, TypeOK
    <2> QED BY <2>1
  <1>4. ASSUME Fail(n)
        PROVE  ListMatchesConnections'
    <2>1. n \in served /\ served' = served \ {n} /\ orphans' = orphans \cup {id[n]}
      BY <1>4 DEF Fail, TypeOK
    <2>2. UNCHANGED <<id, CNs>>
      BY <1>4 DEF Fail
    <2>3. {id[m] : m \in served} = {id[m] : m \in served \ {n}} \cup {id[n]}
      BY <2>1
    <2>4. \A m \in served \ {n} : CNs[id[m]].node = m /\ id[m] \notin orphans \cup {id[n]}
      BY <1>0, <2>1
    <2> QED BY <2>1, <2>2, <2>3, <2>4
  <1>5. ASSUME DelCN(n)
        PROVE  ListMatchesConnections'
    <2>1. n \in served /\ served' = served \ {n} /\ UNCHANGED <<id, orphans>>
      BY <1>5 DEF DelCN, TypeOK
    <2>2. CNs' = [i \in Listed \ {id[n]} |-> CNs[i]]
      BY <1>5 DEF DelCN, Erased, Restrict
    <2>3. \A m \in served \ {n} : id[m] # id[n]
      BY <1>0, <2>1
    <2>4. {id[m] : m \in served \ {n}} = {id[m] : m \in served} \ {id[n]} /\ id[n] \notin orphans
      BY <2>1, <2>3
    <2> QED BY <2>1, <2>2, <2>3, <2>4
  <1> QED BY <1>1, <1>2, <1>3, <1>4, <1>5 DEF NodeStep

(* What the steps of an application do to the types.                       *)
LEMMA AppTypeOK ==
    ASSUME TypeOK, KeysInScope, NEW a \in Apps, AppStep(a)
    PROVE  TypeOK'
  <1> USE BoundsAssumption DEF nodeVars, appVars, history, Ids, NoId
  <1>1. ASSUME Dispatch(a)
        PROVE  TypeOK'
    <2>1. PICK i \in Dispatched : keys' = [keys EXCEPT ![a] = <<i>>]
      BY <1>1 DEF Dispatch
    <2>2. i \in Ids \cup {NoId}
      <3>1. Listed \subseteq Ids
        BY DEF TypeOK
      <3> QED BY <3>1 DEF Dispatched
    <2>3. keys' \in [Apps -> Seq(Ids \cup {NoId})]
      BY <2>1, <2>2 DEF TypeOK
    <2> QED BY <1>1, <2>3 DEF Dispatch, Asked, TypeOK, Listed
  <1>2. GetCN(a) => TypeOK'
    BY DEF GetCN, TypeOK, Listed
  <1>3. ASSUME ReadWeight(a)
        PROVE  TypeOK'
    <2> DEFINE i == keys[a][1]
    <2>1. PICK w \in IF i \in Listed THEN {CNs[i].weight} ELSE {0, 1} : weight' = [weight EXCEPT ![a] = w]
      BY <1>3 DEF ReadWeight
    <2>2. w \in Nat
      <3>1. i \in Listed => CNs[i].weight \in Nat
        BY DEF TypeOK
      <3> QED BY <2>1, <3>1
    <2>3. weight' \in [Apps -> Nat]
      BY <2>1, <2>2 DEF TypeOK
    <2>4. i \in Ids \cup {NoId} /\ contended' \subseteq Ids \cup {NoId}
      <3>1. pc[a] \in Binding
        BY <1>3 DEF ReadWeight, Binding
      <3>2. keys[a] \in Seq(Ids \cup {NoId}) /\ Len(keys[a]) = 1
        BY <3>1 DEF TypeOK, KeysInScope
      <3>3. i \in Ids \cup {NoId}
        BY <3>2
      <3> QED BY <1>3, <3>3 DEF ReadWeight, TypeOK
    <2> QED BY <1>3, <2>3, <2>4 DEF ReadWeight, TypeOK, Listed
  <1>4. ASSUME WriteWeight(a)
        PROVE  TypeOK'
    <2> DEFINE i == keys[a][1]
    <2>1. NewWeight(weight[a]) \in Nat
      BY DEF NewWeight, TypeOK
    <2>2. CNs' = IF i \in Listed THEN [CNs EXCEPT ![i].weight = NewWeight(weight[a])] ELSE CNs
      BY <1>4 DEF WriteWeight
    <2>3. Listed' = Listed
      BY <2>2 DEF Listed
    <2>4. CNs' \in [Listed' -> [node : Nodes, weight : Nat]]
      <3>1. CNs \in [Listed -> [node : Nodes, weight : Nat]]
        BY DEF TypeOK
      <3> HIDE DEF Listed
      <3> QED BY <2>1, <2>2, <2>3, <3>1
    <2> QED BY <1>4, <2>3, <2>4 DEF WriteWeight, TypeOK
  <1>5. ASSUME Send(a)
        PROVE  TypeOK'
    <2> DEFINE ip == IF keys[a][1] \in Listed THEN CNs[keys[a][1]].node ELSE Garbage
    <2>1. answer' = [answer EXCEPT ![a] = <<ip>>] /\ ip \in Nodes \cup {Garbage}
      BY <1>5 DEF Send, TypeOK
    <2> HIDE DEF ip
    <2>2. answer' \in [Apps -> Seq(Nodes \cup {Garbage})]
      BY <2>1 DEF TypeOK
    <2> QED BY <1>5, <2>2 DEF Send, TypeOK, Listed
  <1>6. ASSUME ChooseBestCN(a)
        PROVE  TypeOK'
    <2>1. PICK c \in Chosen : keys' = [keys EXCEPT ![a] = c]
      BY <1>6 DEF ChooseBestCN
    <2>2. c \in [1 .. Levels -> Ids \cup {NoId}]
      BY DEF Chosen, Filling
    <2>3. c \in Seq(Ids \cup {NoId})
      BY <2>2
    <2>4. keys' \in [Apps -> Seq(Ids \cup {NoId})]
      BY <2>1, <2>3 DEF TypeOK
    <2> QED BY <1>6, <2>4 DEF ChooseBestCN, Asked, TypeOK, Listed
  <1>7. ASSUME GetBestCN(a)
        PROVE  TypeOK'
    <2>1. CASE UNCHANGED <<answer, pc>> /\ fault' = "assert"
      BY <1>7, <2>1 DEF GetBestCN, TypeOK, Listed
    <2>2. CASE keys[a][Len(answer[a]) + 1] \in Listed
      <3> DEFINE ip == CNs[keys[a][Len(answer[a]) + 1]].node
      <3>1. ip \in Nodes /\ answer' = [answer EXCEPT ![a] = Append(@, ip)]
        BY <1>7, <2>2 DEF GetBestCN, TypeOK
      <3> HIDE DEF ip
      <3>2. answer' \in [Apps -> Seq(Nodes \cup {Garbage})]
        BY <3>1 DEF TypeOK
      <3>3. pc' \in [Apps -> {"idle", "getCN", "read", "write", "send", "bound", "getBest", "done"}]
        BY <1>7, <2>2 DEF GetBestCN, TypeOK
      <3> QED BY <1>7, <2>2, <3>2, <3>3 DEF GetBestCN, TypeOK, Listed
    <2> QED BY <1>7, <2>1, <2>2 DEF GetBestCN
  <1> QED BY <1>1, <1>2, <1>3, <1>4, <1>5, <1>6, <1>7 DEF AppStep

(* Applications change weights in the list, and nothing else of it.        *)
LEMMA AppKeepsList ==
    ASSUME TypeOK, NEW a \in Apps, AppStep(a)
    PROVE  /\ UNCHANGED <<conn, id, cn_id, orphans, reported>> /\ Listed' = Listed
           /\ \A i \in Listed : CNs'[i].node = CNs[i].node
           /\ ~WriteWeight(a) => CNs' = CNs
  <1>1. UNCHANGED <<conn, id, cn_id, orphans, reported>> /\ (~WriteWeight(a) => CNs' = CNs)
    BY DEF AppStep, Dispatch, GetCN, ReadWeight, WriteWeight, Send, ChooseBestCN, GetBestCN, Asked, nodeVars, history
  <1>2. CASE CNs' = CNs
    BY <1>1, <1>2 DEF Listed
  <1>3. CASE WriteWeight(a)
    <2> DEFINE i == keys[a][1]
    <2>1. CNs' = IF i \in Listed THEN [CNs EXCEPT ![i].weight = NewWeight(weight[a])] ELSE CNs
      BY <1>3 DEF WriteWeight
    <2> QED BY <1>1, <1>3, <2>1 DEF TypeOK, Listed
  <1> QED BY <1>1, <1>2, <1>3

(* Types and the list, for every step.                                     *)
LEMMA ListStep ==
    ASSUME TypeOK, ListMatchesConnections, KeysInScope, [Next]_vars
    PROVE  TypeOK' /\ ListMatchesConnections'
  <1>1. ASSUME NEW n \in Nodes, NodeStep(n)
        PROVE  TypeOK' /\ ListMatchesConnections'
    BY <1>1, NodeTypeOK, NodeListMatches
  <1>2. ASSUME NEW a \in Apps, AppStep(a)
        PROVE  TypeOK' /\ ListMatchesConnections'
    <2>1. TypeOK'
      BY <1>2, AppTypeOK
    <2>2. ListMatchesConnections'
      BY <1>2, AppKeepsList DEF ListMatchesConnections
    <2> QED BY <2>1, <2>2
  <1>3. ASSUME UNCHANGED vars
        PROVE  TypeOK' /\ ListMatchesConnections'
    BY <1>3 DEF vars, nodeVars, appVars, history, TypeOK, ListMatchesConnections, Listed
  <1> QED BY <1>1, <1>2, <1>3 DEF Next

-----------------------------------------------------------------------------
(* The ids an application's thread holds.                                  *)

(* A node's connection leaves the applications alone, gives out ids that   *)
(* grow, and changes of the nodes already listed at most a weight that is  *)
(* reported.                                                               *)
LEMMA NodeFacts ==
    ASSUME TypeOK, ListMatchesConnections, NEW n \in Nodes, NodeStep(n)
    PROVE  /\ fault = "none" /\ fault' = fault /\ UNCHANGED appVars
           /\ cn_id \in Int /\ cn_id' \in Int /\ cn_id' >= cn_id
           /\ orphans \subseteq orphans' /\ reported \subseteq reported'
           /\ UNCHANGED <<contended, scarce>> /\ overtaken \subseteq overtaken'
           /\ \A i \in Listed \ Listed' : Looking(i) \subseteq overtaken'
           /\ \A i \in Listed' : i <= cn_id =>
                /\ i \in Listed /\ CNs'[i].node = CNs[i].node
                /\ i \notin reported' => CNs'[i].weight = CNs[i].weight
           /\ \A i \in Listed' : i > cn_id => CNs'[i].weight = 0
  <1> USE DEF nodeVars, history, Listed
  <1> DEFINE Kept(i) == /\ i \in Listed /\ CNs'[i].node = CNs[i].node
                        /\ i \notin reported' => CNs'[i].weight = CNs[i].weight
  <1>0. cn_id \in Int /\ \A i \in Listed : i \in Int /\ i <= cn_id
    BY BoundsAssumption DEF TypeOK, Ids, NoId
  <1>1. ASSUME CNReg(n)
        PROVE  /\ cn_id' = cn_id + 1 /\ UNCHANGED <<appVars, history, fault>> /\ fault = "none"
               /\ Listed \subseteq Listed'
               /\ \A i \in Listed' : IF i <= cn_id THEN Kept(i) ELSE CNs'[i].weight = 0
    <2> DEFINE new == cn_id + 1
    <2>1. CNs' = [i \in Listed \cup {new} |-> IF i = new THEN [node |-> n, weight |-> 0] ELSE CNs[i]]
      BY <1>1 DEF CNReg
    <2>2. \A i \in Listed' : i <= cn_id => i \in Listed /\ CNs'[i] = CNs[i]
      BY <1>0, <2>1
    <2>3. \A i \in Listed' : ~(i <= cn_id) => CNs'[i].weight = 0
      BY <1>0, <2>1
    <2> QED BY <1>1, <2>2, <2>3 DEF CNReg, Running
  <1>2. ASSUME NEW w \in LoadWeights, LoadInfo(n, w)
        PROVE  /\ UNCHANGED <<cn_id, appVars, orphans, fault, contended, scarce, overtaken>> /\ fault = "none"
               /\ reported \subseteq reported' /\ Listed \subseteq Listed'
               /\ \A i \in Listed' : Kept(i)
    <2>1. id[n] \in Listed
      BY <1>2 DEF LoadInfo, ListMatchesConnections
    <2>2. CNs' = [CNs EXCEPT ![id[n]].weight = w] /\ reported' = reported \cup {id[n]}
      BY <1>2, <2>1 DEF LoadInfo
    <2>3. \A i \in Listed' : i \in Listed /\ CNs'[i].node = CNs[i].node
      BY <2>1, <2>2 DEF TypeOK
    <2>4. \A i \in Listed' : i \notin reported' => CNs'[i] = CNs[i]
      BY <2>1, <2>2
    <2> QED BY <1>2, <2>1, <2>2, <2>3, <2>4 DEF LoadInfo, Running
  <1>3. ASSUME Leave(n) \/ Fail(n)
        PROVE  /\ UNCHANGED <<cn_id, appVars, reported, fault, contended, scarce, overtaken>> /\ fault = "none"
               /\ orphans \subseteq orphans' /\ Listed \subseteq Listed'
               /\ \A i \in Listed' : Kept(i)
    BY <1>3 DEF Leave, Fail, Running
  <1>4. ASSUME DelCN(n)
        PROVE  /\ UNCHANGED <<cn_id, appVars, orphans, reported, fault, contended, scarce>> /\ fault = "none"
               /\ overtaken \subseteq overtaken' /\ \A i \in Listed \ Listed' : Looking(i) \subseteq overtaken'
               /\ \A i \in Listed' : Kept(i)
    <2>1. CNs' = [i \in Listed \ {id[n]} |-> CNs[i]]
      BY <1>4 DEF DelCN, Erased, Restrict
    <2>2. (\A i \in Listed' : i \in Listed /\ CNs'[i] = CNs[i]) /\ Listed \ Listed' \subseteq {id[n]}
      BY <2>1
    <2> QED BY <1>4, <2>2 DEF DelCN, Running
  <1>5. \A i \in Listed : ~(i > cn_id)
    BY <1>0
  <1> HIDE DEF Listed
  <1>6. CASE CNReg(n)
    <2>1. \A i \in Listed' : i \in Int
      BY <1>0, <1>6 DEF CNReg, Listed
    <2> QED BY <1>0, <1>1, <1>6, <2>1
  <1>7. CASE ~CNReg(n)
    BY <1>0, <1>2, <1>3, <1>4, <1>5, <1>7 DEF NodeStep
  <1> QED BY <1>6, <1>7

(* A step for one application leaves the others alone.                     *)
LEMMA AppFacts ==
    ASSUME TypeOK, NEW a \in Apps, AppStep(a)
    PROVE  /\ fault = "none"
           /\ \A b \in Apps \ {a} : /\ pc'[b] = pc[b] /\ keys'[b] = keys[b]
                                    /\ weight'[b] = weight[b] /\ answer'[b] = answer[b]
  <1> USE DEF TypeOK, Running
  <1>1. Dispatch(a) \/ GetCN(a) \/ ReadWeight(a) => fault = "none"
    BY DEF Dispatch, GetCN, ReadWeight
  <1>2. WriteWeight(a) \/ Send(a) \/ ChooseBestCN(a) \/ GetBestCN(a) => fault = "none"
    BY DEF WriteWeight, Send, ChooseBestCN, GetBestCN
  <1> DEFINE Others == \A b \in Apps \ {a} : /\ pc'[b] = pc[b] /\ keys'[b] = keys[b]
                                             /\ weight'[b] = weight[b] /\ answer'[b] = answer[b]
  <1>3. Dispatch(a) \/ GetCN(a) => Others
    BY DEF Dispatch, GetCN
  <1>4. ReadWeight(a) \/ WriteWeight(a) => Others
    BY DEF ReadWeight, WriteWeight
  <1>5. Send(a) \/ ChooseBestCN(a) => Others
    BY DEF Send, ChooseBestCN
  <1>6. GetBestCN(a) => Others
    BY DEF GetBestCN
  <1> QED BY <1>1, <1>2, <1>3, <1>4, <1>5, <1>6 DEF AppStep

(* What the dispatcher may choose: an id of the list, or none.             *)
LEMMA ChoiceFacts ==
    ASSUME TypeOK
    PROVE  /\ \A i \in Dispatched : i \in Int /\ i <= cn_id
           /\ Listed # {} => Dispatched \subseteq Listed
           /\ \A c \in Chosen : c \in Seq(Ids \cup {NoId}) /\ (Levels \in Nat => Len(c) = Levels)
  <1>1. cn_id \in Int /\ cn_id >= NoId /\ Listed \subseteq 0 .. cn_id
    BY BoundsAssumption DEF TypeOK, Ids, NoId
  <1>2. Listed # {} => i_leng_square # 0
    <2>1. i_leng_square = cn_id + 1
      BY DEF TypeOK
    <2>2. \A i \in 0 .. cn_id : cn_id >= 0
      BY <1>1
    <2>3. Listed # {} => cn_id >= 0
      BY <1>1, <2>2
    <2> QED BY <1>1, <2>1, <2>3
  <1>3. \A c \in Chosen : c \in Seq(Ids \cup {NoId}) /\ (Levels \in Nat => Len(c) = Levels)
    <2>1. \A c \in Chosen : c \in [1 .. Levels -> Ids \cup {NoId}]
      BY DEF Chosen, Filling
    <2> QED BY <2>1, BoundsAssumption
  <1>4. /\ \A i \in Dispatched : i \in Listed \cup {NoId}
        /\ Listed # {} => Dispatched \subseteq Listed
    BY <1>2 DEF Dispatched
  <1>5. cn_id >= -1 /\ \A i \in Listed : i \in Int /\ i <= cn_id
    BY <1>1 DEF NoId
  <1>6. \A i \in Dispatched : i \in Int /\ i <= cn_id
    BY <1>4, <1>5 DEF NoId
  <1> QED BY <1>3, <1>4, <1>6

(* Ids stay in their scope.                                                *)
LEMMA ScopeStep ==
    ASSUME TypeOK, ListMatchesConnections, KeysInScope, [Next]_vars
    PROVE  KeysInScope'
  <1>1. ASSUME NEW n \in Nodes, NodeStep(n)
        PROVE  KeysInScope'
    <2>1. UNCHANGED appVars /\ cn_id \in Int /\ cn_id' \in Int /\ cn_id' >= cn_id
      BY <1>1, NodeFacts
    <2>2. \A a \in Apps : pc[a] \in Binding => keys[a][1] \in Int
      BY BoundsAssumption DEF KeysInScope, TypeOK, Ids, NoId
    <2> QED BY <2>1, <2>2 DEF KeysInScope, appVars
  <1>2. ASSUME NEW a \in Apps, AppStep(a)
        PROVE  KeysInScope'
    <2>1. cn_id' = cn_id
      BY <1>2, AppKeepsList
    <2>2. \A b \in Apps \ {a} : pc'[b] = pc[b] /\ keys'[b] = keys[b] /\ answer'[b] = answer[b]
      BY <1>2, AppFacts
    <2> DEFINE Scope(b) == /\ pc[b] = "idle" => answer[b] = <<>>
                           /\ pc[b] \in Binding => Len(keys[b]) = 1 /\ keys[b][1] <= cn_id
                           /\ pc[b] = "getBest" => Len(keys[b]) = Levels /\ Len(answer[b]) < Levels
    <2>3. ASSUME Dispatch(a)
          PROVE  Scope(a)'
      <3>1. PICK i \in Dispatched : keys' = [keys EXCEPT ![a] = <<i>>]
        BY <2>3 DEF Dispatch
      <3>2. keys'[a] = <<i>> /\ i <= cn_id /\ pc'[a] = "getCN"
        BY <2>3, <3>1, ChoiceFacts DEF Dispatch, TypeOK
      <3> QED BY <2>1, <3>2
    <2>4. ASSUME GetCN(a) \/ ReadWeight(a) \/ WriteWeight(a) \/ Send(a)
          PROVE  Scope(a)'
      <3>1. keys'[a] = keys[a] /\ pc[a] \in Binding /\ pc'[a] \in Binding
        BY <2>4 DEF GetCN, ReadWeight, WriteWeight, Send, Binding, TypeOK
      <3> QED BY <2>1, <3>1 DEF KeysInScope, Binding
    <2>5. ASSUME ChooseBestCN(a)
          PROVE  Scope(a)'
      <3>1. PICK c \in Chosen : keys' = [keys EXCEPT ![a] = c]
        BY <2>5 DEF ChooseBestCN
      <3>2. keys'[a] = c /\ Len(c) = Levels /\ answer'[a] = <<>> /\ pc'[a] = "getBest" /\ Levels > 0
        BY <2>5, <3>1, ChoiceFacts, BoundsAssumption DEF ChooseBestCN, TypeOK, KeysInScope
      <3> QED BY <3>2 DEF Binding
    <2>6. ASSUME GetBestCN(a)
          PROVE  Scope(a)'
      <3>1. keys'[a] = keys[a] /\ pc[a] = "getBest" /\ Len(keys[a]) = Levels /\ Len(answer[a]) < Levels
        BY <2>6 DEF GetBestCN, KeysInScope
      <3>2. CASE UNCHANGED <<answer, pc>>
        BY <3>1, <3>2 DEF Binding
      <3>3. CASE keys[a][Len(answer[a]) + 1] \in Listed
        <4>1. PICK ip : answer' = [answer EXCEPT ![a] = Append(@, ip)]
          BY <2>6, <3>3 DEF GetBestCN
        <4>2. Len(answer'[a]) = Len(answer[a]) + 1
          BY <4>1 DEF TypeOK
        <4>3. pc'[a] = IF Len(answer[a]) + 1 = Levels THEN "done" ELSE "getBest"
          BY <2>6, <3>1, <3>3 DEF GetBestCN, TypeOK
        <4>4. Levels \in Nat /\ Len(answer[a]) \in Nat
          BY BoundsAssumption DEF TypeOK
        <4> HIDE DEF Ids
        <4> QED BY <3>1, <4>2, <4>3, <4>4 DEF Binding
      <3> QED BY <2>6, <3>2, <3>3 DEF GetBestCN
    <2> HIDE DEF Scope
    <2>7. Scope(a)'
      BY <1>2, <2>3, <2>4, <2>5, <2>6 DEF AppStep
    <2>8. \A b \in Apps \ {a} : Scope(b)'
      BY <2>1, <2>2 DEF KeysInScope, Scope
    <2> QED BY <2>7, <2>8 DEF KeysInScope, Scope
  <1>3. ASSUME UNCHANGED vars
        PROVE  KeysInScope'
    BY <1>3 DEF vars, nodeVars, appVars, KeysInScope
  <1> QED BY <1>1, <1>2, <1>3 DEF Next

-----------------------------------------------------------------------------
(* The ids to be looked up.                                                *)

(* Where there are nodes enough, every id handed out is listed, and one    *)
(* request gets none twice.                                                *)
LEMMA EnoughChoice ==
    ASSUME TypeOK, NEW k \in Nat, ~(Cardinality(Listed) < k)
    PROVE  /\ k > 0 => Listed # {}
           /\ k = Levels => \A c \in Chosen : /\ \A l \in 1 .. Levels : c[l] \in Listed
                                              /\ \A l, m \in 1 .. Levels : l # m => c[l] # c[m]
  <1> DEFINE filled == IF Levels < Cardinality(Listed) THEN Levels ELSE Cardinality(Listed)
  <1>1. Cardinality(Listed) \in Nat /\ Cardinality(Listed) >= k /\ IsFiniteSet(Listed)
    BY ListedFinite
  <1>2. (k = Levels => filled = Levels) /\ (k > 0 => Cardinality(Listed) # 0)
    BY <1>1, BoundsAssumption
  <1>3. k > 0 => Listed # {}
    BY <1>1, <1>2, FS_EmptySet
  <1>4. Chosen = Filling(filled)
    BY DEF Chosen
  <1> HIDE DEF filled
  <1> QED BY <1>2, <1>3, <1>4 DEF Filling

(* An id that was chosen from the list is in it until it is looked up,     *)
(* unless DelCN came first.                                                *)
LEMMA KeysStep ==
    ASSUME TypeOK, ListMatchesConnections, KeysInScope, KeysListed, [Next]_vars
    PROVE  KeysListed'
  <1> DEFINE There(b) == pc[b] \in {"getCN", "getBest"} /\ b \notin scarce \cup overtaken =>
                             \A l \in DOMAIN keys[b] : keys[b][l] \in Listed
  <1>0. (KeysListed <=> \A b \in Apps : There(b)) /\ (KeysListed' <=> \A b \in Apps : There(b)')
    BY DEF KeysListed
  <1>1. ASSUME NEW n \in Nodes, NodeStep(n), NEW b \in Apps
        PROVE  There(b)'
    <2>1. /\ UNCHANGED <<pc, keys, scarce>> /\ overtaken \subseteq overtaken'
          /\ \A i \in Listed \ Listed' : Looking(i) \subseteq overtaken'
      BY <1>1, NodeFacts DEF appVars
    <2>2. There(b)
      BY <1>0
    <2> QED BY <2>1, <2>2 DEF Looking
  <1>2. ASSUME NEW a \in Apps, AppStep(a), NEW b \in Apps
        PROVE  There(b)'
    <2>1. Listed' = Listed /\ scarce \subseteq scarce' /\ overtaken' = overtaken
      <3>1. scarce \subseteq scarce' /\ overtaken' = overtaken
        BY <1>2 DEF AppStep, Dispatch, GetCN, ReadWeight, WriteWeight, Send, ChooseBestCN, GetBestCN, Asked, history
      <3> QED BY <1>2, <3>1, AppKeepsList
    <2>2. There(b)
      BY <1>0
    <2>3. CASE b # a
      <3>1. pc'[b] = pc[b] /\ keys'[b] = keys[b]
        BY <1>2, <2>3, AppFacts
      <3> QED BY <2>1, <2>2, <3>1
    <2>4. CASE b = a /\ Dispatch(a)
      <3>1. PICK i \in Dispatched : keys' = [keys EXCEPT ![a] = <<i>>]
        BY <2>4 DEF Dispatch
      <3>2. keys'[a] = <<i>>
        BY <3>1 DEF TypeOK
      <3>3. a \notin scarce' => i \in Listed
        <4>1. a \notin scarce' => ~(Cardinality(Listed) < 1)
          BY <2>4 DEF Dispatch, Asked
        <4> QED BY <4>1, ChoiceFacts, EnoughChoice
      <3>4. \A l \in DOMAIN keys'[a] : keys'[a][l] = i
        BY <3>2
      <3> QED BY <2>1, <2>4, <3>3, <3>4
    <2>5. CASE b = a /\ ChooseBestCN(a)
      <3>1. PICK c \in Chosen : keys' = [keys EXCEPT ![a] = c]
        BY <2>5 DEF ChooseBestCN
      <3>2. keys'[a] = c /\ DOMAIN c = 1 .. Levels
        BY <3>1 DEF TypeOK, Chosen, Filling
      <3>3. a \notin scarce' => \A l \in 1 .. Levels : c[l] \in Listed
        <4>1. a \notin scarce' => ~(Cardinality(Listed) < Levels)
          BY <2>5 DEF ChooseBestCN, Asked
        <4> QED BY <4>1, EnoughChoice, BoundsAssumption
      <3> QED BY <2>1, <2>5, <3>2, <3>3
    <2>6. CASE b = a /\ GetBestCN(a)
      <3>1. keys' = keys /\ pc[a] = "getBest"
        BY <2>6 DEF GetBestCN
      <3> QED BY <2>1, <2>2, <2>6, <3>1
    <2>7. CASE b = a /\ ~Dispatch(a) /\ ~ChooseBestCN(a) /\ ~GetBestCN(a)
      <3>1. pc'[a] \notin {"getCN", "getBest"}
        BY <1>2, <2>7 DEF AppStep, GetCN, ReadWeight, WriteWeight, Send, TypeOK
      <3> QED BY <2>7, <3>1
    <2> QED BY <2>3, <2>4, <2>5, <2>6, <2>7
  <1>3. ASSUME UNCHANGED vars
        PROVE  KeysListed'
    BY <1>3 DEF vars, nodeVars, appVars, history, KeysListed, Listed
  <1> HIDE DEF There
  <1> QED BY <1>0, <1>1, <1>2, <1>3 DEF Next

(* GetCN's assertion fails for nothing but an id that was deleted on the   *)
(* way, and in a request for more nodes than there were.                   *)
LEMMA AssertStep ==
    ASSUME TypeOK, ListMatchesConnections, KeysInScope, KeysListed, IdsStayGood, [Next]_vars
    PROVE  IdsStayGood'
  <1>1. ASSUME NEW n \in Nodes, NodeStep(n)
        PROVE  IdsStayGood'
    BY <1>1, NodeFacts DEF IdsStayGood
  <1>2. ASSUME NEW a \in Apps, AppStep(a)
        PROVE  IdsStayGood'
    <2>1. fault = "none"
      BY <1>2, AppFacts
    <2>2. CASE GetCN(a)
      <3>1. 1 \in DOMAIN keys[a] /\ pc[a] = "getCN"
        BY <2>2 DEF GetCN, KeysInScope, Binding, TypeOK
      <3>2. keys[a][1] \notin Listed => a \in scarce \cup overtaken
        BY <3>1 DEF KeysListed
      <3>3. pc'[a] = "read" /\ UNCHANGED <<scarce, overtaken>> /\ (keys[a][1] \in Listed => fault' # "assert")
        BY <2>1, <2>2 DEF GetCN, history, TypeOK
      <3> QED BY <3>2, <3>3 DEF IdsStayGood, TypeOK
    <2>3. CASE GetBestCN(a)
      <3> DEFINE k == Len(answer[a]) + 1
      <3>1. k \in DOMAIN keys[a] /\ pc[a] = "getBest"
        <4>1. pc[a] = "getBest" /\ Len(keys[a]) = Levels /\ Len(answer[a]) < Levels
          BY <2>3 DEF GetBestCN, KeysInScope
        <4>2. Len(answer[a]) \in Nat /\ DOMAIN keys[a] = 1 .. Len(keys[a])
          BY DEF TypeOK
        <4> QED BY <4>1, <4>2, BoundsAssumption
      <3>2. keys[a][k] \notin Listed => a \in scarce \cup overtaken
        BY <3>1 DEF KeysListed
      <3>3. /\ UNCHANGED <<scarce, overtaken>> /\ (keys[a][k] \in Listed => fault' # "assert")
            /\ keys[a][k] \notin Listed => pc' = pc
        BY <2>1, <2>3 DEF GetBestCN, history
      <3> HIDE DEF k
      <3> QED BY <3>1, <3>2, <3>3 DEF IdsStayGood, TypeOK
    <2>4. CASE ChooseBestCN(a)
      <3>1. fault' # "assert"
        BY <2>1, <2>4 DEF ChooseBestCN
      <3> QED BY <3>1 DEF IdsStayGood
    <2>5. CASE ~GetCN(a) /\ ~GetBestCN(a) /\ ~ChooseBestCN(a)
      <3>1. fault' = fault
        BY <1>2, <2>5 DEF AppStep, Dispatch, ReadWeight, WriteWeight, Send
      <3> QED BY <2>1, <3>1 DEF IdsStayGood
    <2> QED BY <2>2, <2>3, <2>4, <2>5
  <1>3. ASSUME UNCHANGED vars
        PROVE  IdsStayGood'
    BY <1>3 DEF vars, appVars, history, IdsStayGood
  <1> QED BY <1>1, <1>2, <1>3 DEF Next

(* A node that is listed under two ids has lost a connection.              *)
LEMMA NodesApart ==
    ASSUME ListMatchesConnections, NEW i \in Listed, NEW j \in Listed, i # j, CNs[i].node = CNs[j].node
    PROVE  Orphaned(CNs[i].node)
  BY DEF ListMatchesConnections, Orphaned

(* Its id stays in the list.                                               *)
LEMMA OrphansStay ==
    ASSUME TypeOK, ListMatchesConnections, NEW n \in Nodes, NodeStep(n), NEW m, Orphaned(m)
    PROVE  Orphaned(m)'
  <1>1. PICK i \in orphans : CNs[i].node = m
    BY DEF Orphaned
  <1>2. i \in Listed' /\ i \in orphans' /\ i <= cn_id
    <2>1. i \in orphans' /\ i \in Listed'
      BY NodeFacts, NodeTypeOK DEF TypeOK
    <2>2. i \in 0 .. cn_id /\ cn_id \in Int
      BY BoundsAssumption DEF TypeOK, Ids, NoId
    <2> QED BY <2>1, <2>2
  <1>3. CNs'[i].node = m
    BY <1>1, <1>2, NodeFacts
  <1> QED BY <1>2, <1>3 DEF Orphaned

(* The answers of one request stay apart, and apart from those to come.    *)
LEMMA ApartStep ==
    ASSUME TypeOK, ListMatchesConnections, KeysInScope, AnswersApart, [Next]_vars
    PROVE  AnswersApart'
  <1> DEFINE Told(b) == \A n \in Nodes : ToldTwice(b, n) => Orphaned(n)
             Open(b) == DOMAIN keys[b] \ DOMAIN answer[b]
             Given(b) == \A l \in Open(b) : keys[b][l] <= cn_id
             KeysApart(b) == \A l \in Open(b) : \A m \in DOMAIN keys[b] : l # m => keys[b][l] # keys[b][m]
             ToTell(b) == \A l \in Open(b) : keys[b][l] \in Listed =>
                             \A m \in DOMAIN answer[b] : CNs[keys[b][l]].node = answer[b][m] => Orphaned(answer[b][m])
             Apart(b) == pc[b] \in {"getBest", "done"} /\ b \notin scarce =>
                            Told(b) /\ (pc[b] = "getBest" => Given(b) /\ KeysApart(b) /\ ToTell(b))
  <1>0. (AnswersApart <=> \A b \in Apps : Apart(b)) /\ (AnswersApart' <=> \A b \in Apps : Apart(b)')
    BY DEF AnswersApart
  <1>1. ASSUME NEW n \in Nodes, NodeStep(n), NEW b \in Apps
        PROVE  Apart(b)'
    <2>1. UNCHANGED <<pc, keys, answer, scarce>> /\ cn_id \in Int /\ cn_id' \in Int /\ cn_id' >= cn_id
      BY <1>1, NodeFacts DEF appVars
    <2>2. \A i \in Listed' : i <= cn_id => i \in Listed /\ CNs'[i].node = CNs[i].node
      BY <1>1, NodeFacts
    <2>3. \A m : Orphaned(m) => Orphaned(m)'
      BY <1>1, OrphansStay
    <2>4. \A l \in DOMAIN keys[b] : keys[b][l] \in Int
      BY BoundsAssumption DEF TypeOK, Ids, NoId
    <2>5. (Told(b) => Told(b)') /\ (KeysApart(b) => KeysApart(b)')
      BY <2>1, <2>3 DEF ToldTwice
    <2>6. Given(b) => Given(b)'
      BY <2>1, <2>4
    <2>7. ASSUME Given(b), ToTell(b)
          PROVE  ToTell(b)'
      BY <2>1, <2>2, <2>3, <2>7
    <2> HIDE DEF Told, Given, KeysApart, ToTell
    <2> QED BY <1>0, <2>1, <2>5, <2>6, <2>7
  <1>2. ASSUME NEW a \in Apps, AppStep(a)
        PROVE  \A b \in Apps : Apart(b)'
    <2>1. /\ cn_id' = cn_id /\ orphans' = orphans /\ Listed' = Listed
          /\ \A i \in Listed : CNs'[i].node = CNs[i].node
      BY <1>2, AppKeepsList
    <2>2. \A b \in Apps \ {a} : pc'[b] = pc[b] /\ keys'[b] = keys[b] /\ answer'[b] = answer[b]
      BY <1>2, AppFacts
    <2>3. (\A m : Orphaned(m)' <=> Orphaned(m)) /\ scarce \subseteq scarce'
      <3>1. orphans \subseteq Listed
        BY DEF TypeOK
      <3>2. scarce \subseteq scarce'
        BY <1>2 DEF AppStep, Dispatch, GetCN, ReadWeight, WriteWeight, Send, ChooseBestCN, GetBestCN, Asked, history
      <3> QED BY <2>1, <3>1, <3>2 DEF Orphaned
    <2>4. ASSUME NEW b \in Apps \ {a}
          PROVE  Apart(b)'
      <3>1. Apart(b)
        BY <1>0
      <3>2. Told(b) <=> Told(b)'
        BY <2>2, <2>3 DEF ToldTwice
      <3>3. (Given(b) <=> Given(b)') /\ (KeysApart(b) <=> KeysApart(b)')
        BY <2>1, <2>2
      <3>4. ToTell(b) => ToTell(b)'
        BY <2>1, <2>2, <2>3
      <3> HIDE DEF Told, Given, KeysApart, ToTell
      <3> QED BY <2>2, <2>3, <3>1, <3>2, <3>3, <3>4
    <2>5. ASSUME ChooseBestCN(a)
          PROVE  Apart(a)'
      <3>1. PICK c \in Chosen : keys' = [keys EXCEPT ![a] = c]
        BY <2>5 DEF ChooseBestCN
      <3>2. keys'[a] = c /\ DOMAIN c = 1 .. Levels /\ answer'[a] = <<>>
        BY <2>5, <3>1 DEF ChooseBestCN, TypeOK, KeysInScope, Chosen, Filling
      <3>3. a \notin scarce' => /\ \A l, m \in 1 .. Levels : l # m => c[l] # c[m]
                                /\ \A l \in 1 .. Levels : c[l] <= cn_id
        <4>1. a \notin scarce' => ~(Cardinality(Listed) < Levels)
          BY <2>5 DEF ChooseBestCN, Asked
        <4>2. \A i \in Listed : i <= cn_id
          BY BoundsAssumption DEF TypeOK, Ids, NoId
        <4> QED BY <4>1, <4>2, EnoughChoice, BoundsAssumption
      <3>4. Told(a)' /\ ToTell(a)'
        BY <3>2 DEF ToldTwice
      <3>5. a \notin scarce' => Given(a)' /\ KeysApart(a)'
        BY <2>1, <3>2, <3>3
      <3> HIDE DEF Told, Given, KeysApart, ToTell
      <3> QED BY <3>4, <3>5
    <2>6. ASSUME GetBestCN(a), a \notin scarce
          PROVE  Apart(a)'
      <3> DEFINE k == Len(answer[a]) + 1
      <3>1. pc[a] = "getBest" /\ Len(keys[a]) = Levels /\ Len(answer[a]) < Levels /\ keys' = keys
        BY <2>6 DEF GetBestCN, KeysInScope
      <3>2. Told(a) /\ Given(a) /\ KeysApart(a) /\ ToTell(a)
        BY <1>0, <2>6, <3>1
      <3>3. k \in DOMAIN keys[a] /\ DOMAIN answer[a] = 1 .. k - 1 /\ k \in Nat
        <4>1. Len(answer[a]) \in Nat /\ DOMAIN answer[a] = 1 .. Len(answer[a]) /\ DOMAIN keys[a] = 1 .. Len(keys[a])
          BY DEF TypeOK
        <4> QED BY <3>1, <4>1, BoundsAssumption
      <3>4. CASE UNCHANGED <<answer, pc>>
        <4>1. Told(a)'
          BY <2>3, <3>2, <3>4 DEF ToldTwice
        <4>2. Given(a)' /\ KeysApart(a)' /\ ToTell(a)'
          BY <2>1, <2>3, <3>1, <3>2, <3>4
        <4> HIDE DEF Told, Given, KeysApart, ToTell
        <4> QED BY <4>1, <4>2
      <3>5. CASE keys[a][k] \in Listed
        <4> DEFINE ip == CNs[keys[a][k]].node
        <4>1. answer' = [answer EXCEPT ![a] = Append(@, ip)] /\ ip \in Nodes
          BY <2>6, <3>5 DEF GetBestCN, TypeOK
        <4>2. /\ DOMAIN answer'[a] = 1 .. k
              /\ \A l \in 1 .. k : answer'[a][l] = IF l = k THEN ip ELSE answer[a][l]
          BY <4>1, <3>3 DEF TypeOK
        <4>3. k \in Open(a) /\ \A m \in 1 .. k - 1 : ip = answer[a][m] => Orphaned(ip)
          BY <3>2, <3>3, <3>5
        <4>4. Told(a)'
          <5> SUFFICES ASSUME NEW n \in Nodes, NEW l \in 1 .. k, NEW m \in 1 .. k, l # m,
                              answer'[a][l] = n, answer'[a][m] = n
                       PROVE  Orphaned(n)
            BY <2>3, <4>2 DEF ToldTwice
          <5>1. CASE l = k \/ m = k
            BY <4>2, <4>3, <5>1
          <5>2. CASE l # k /\ m # k
            <6>1. l \in DOMAIN answer[a] /\ m \in DOMAIN answer[a] /\ answer[a][l] = n /\ answer[a][m] = n
              BY <3>3, <4>2, <5>2
            <6> QED BY <3>2, <6>1 DEF ToldTwice
          <5> QED BY <5>1, <5>2
        <4>5. Given(a)' /\ KeysApart(a)'
          BY <2>1, <3>1, <3>2, <3>3, <4>2
        <4>6. ToTell(a)'
          <5> SUFFICES ASSUME NEW l \in DOMAIN keys[a] \ 1 .. k, keys[a][l] \in Listed, NEW m \in 1 .. k,
                              CNs[keys[a][l]].node = answer'[a][m]
                       PROVE  Orphaned(answer'[a][m])
            BY <2>1, <2>3, <3>1, <4>2
          <5>1. CASE m = k
            <6>1. l \in Open(a) /\ l # k
              BY <3>3
            <6>2. keys[a][l] # keys[a][k]
              BY <3>2, <3>3, <6>1
            <6>3. CNs[keys[a][l]].node = CNs[keys[a][k]].node => Orphaned(CNs[keys[a][l]].node)
              BY <3>5, <6>2, NodesApart
            <6> QED BY <4>2, <5>1, <6>3
          <5>2. CASE m # k
            <6>1. l \in Open(a) /\ m \in DOMAIN answer[a]
              BY <3>3, <5>2
            <6> QED BY <3>2, <3>3, <4>2, <5>2, <6>1
          <5> QED BY <5>1, <5>2
        <4> HIDE DEF Told, Given, KeysApart, ToTell
        <4> QED BY <4>4, <4>5, <4>6
      <3> QED BY <2>6, <3>4, <3>5 DEF GetBestCN
    <2>7. ASSUME ~ChooseBestCN(a), ~GetBestCN(a)
          PROVE  Apart(a)'
      <3>1. pc'[a] \notin {"getBest", "done"}
        BY <1>2, <2>7 DEF AppStep, Dispatch, GetCN, ReadWeight, WriteWeight, Send, TypeOK
      <3> QED BY <3>1
    <2>8. a \in scarce => Apart(a)'
      BY <2>3
    <2> HIDE DEF Apart
    <2> QED BY <2>4, <2>5, <2>6, <2>7, <2>8
  <1>3. ASSUME UNCHANGED vars
        PROVE  AnswersApart'
    BY <1>3 DEF vars, nodeVars, appVars, history, AnswersApart, ToldTwice, Orphaned, Listed
  <1> HIDE DEF Apart
  <1> QED BY <1>0, <1>1, <1>2, <1>3 DEF Next

-----------------------------------------------------------------------------
(* Weights.                                                                *)

(* Sets of applications can be counted.                                    *)
LEMMA BoundFinite ==
    ASSUME NEW i
    PROVE  IsFiniteSet(Bound(i)) /\ Cardinality(Bound(i)) \in Nat
  BY FiniteAssumption, FS_Subset, FS_CardinalityType DEF Bound

(* Weights go on counting, whatever is interleaved with their updates.     *)
LEMMA WeightsStep ==
    ASSUME TypeOK, ListMatchesConnections, KeysInScope, BindingsCounted, WeightsRead, [Next]_vars
    PROVE  BindingsCounted' /\ WeightsRead'
  <1> DEFINE Count(i) == Cardinality(Bound(i))
             Counts(i) == i \in Listed \ reported =>
                             /\ i \notin contended => CNs[i].weight = Count(i)
                             /\ CNs[i].weight <= Count(i)
                             /\ Bound(i) # {} => CNs[i].weight > 0
             Read(b) == pc[b] = "write" /\ keys[b][1] \in Listed \ reported =>
                             /\ weight[b] <= Count(keys[b][1])
                             /\ keys[b][1] \notin contended =>
                                  weight[b] = Count(keys[b][1]) /\ Writing(keys[b][1]) = {b}
  <1>0. /\ \A i \in Listed : Counts(i)
        /\ \A b \in Apps : Read(b)
        /\ (\A i \in Listed' : Counts(i)') /\ (\A b \in Apps : Read(b)') => BindingsCounted' /\ WeightsRead'
    BY DEF BindingsCounted, WeightsRead
  <1>1. /\ cn_id \in Int /\ (\A i \in Listed : i \in Int /\ i <= cn_id)
        /\ \A b \in Apps : pc[b] \in Binding => keys[b] = <<keys[b][1]>> /\ keys[b][1] \in Int /\ keys[b][1] <= cn_id
    BY BoundsAssumption DEF TypeOK, KeysInScope, Ids, NoId
  <1>2. ASSUME NEW n \in Nodes, NodeStep(n)
        PROVE  BindingsCounted' /\ WeightsRead'
    <2>1. UNCHANGED <<pc, keys, weight, contended>> /\ reported \subseteq reported'
      BY <1>2, NodeFacts DEF appVars
    <2>2. \A i : Bound(i)' = Bound(i) /\ Writing(i)' = Writing(i)
      BY <2>1 DEF Bound, Writing
    <2>3. ASSUME NEW i \in Listed'
          PROVE  Counts(i)'
      <3>1. CASE i <= cn_id
        <4>1. i \in Listed /\ (i \notin reported' => CNs'[i].weight = CNs[i].weight)
          BY <1>2, <3>1, NodeFacts
        <4> QED BY <1>0, <2>1, <2>2, <4>1
      <3>2. CASE i > cn_id
        <4>1. CNs'[i].weight = 0
          BY <1>2, <3>2, NodeFacts
        <4>2. Bound(i) = {}
          <5>1. ASSUME NEW b \in Bound(i)
                PROVE  FALSE
            <6>1. pc[b] \in Binding /\ keys[b][1] = i
              BY <5>1 DEF Bound, Binding
            <6> QED BY <1>1, <3>2, <5>1, <6>1 DEF Bound
          <5> QED BY <5>1
        <4>3. Count(i) = 0
          BY <4>2, FS_EmptySet
        <4> QED BY <2>2, <4>1, <4>2, <4>3
      <3>3. i \in Int
        BY <1>2, NodeTypeOK DEF TypeOK
      <3> QED BY <1>1, <3>1, <3>2, <3>3
    <2>4. ASSUME NEW b \in Apps
          PROVE  Read(b)'
      <3>1. Read(b)
        BY <1>0
      <3>2. pc[b] = "write" /\ keys[b][1] \in Listed' => keys[b][1] \in Listed
        BY <1>1, <1>2, NodeFacts DEF Binding
      <3> QED BY <2>1, <2>2, <3>1, <3>2
    <2> HIDE DEF Counts, Read
    <2> QED BY <1>0, <2>3, <2>4
  <1>3. ASSUME NEW a \in Apps, AppStep(a)
        PROVE  BindingsCounted' /\ WeightsRead'
    <2>1. UNCHANGED reported /\ Listed' = Listed
      BY <1>3, AppKeepsList
    <2>2. \A b \in Apps \ {a} : pc'[b] = pc[b] /\ keys'[b] = keys[b] /\ weight'[b] = weight[b]
      BY <1>3, AppFacts
    <2>3. ASSUME WriteWeight(a)
          PROVE  BindingsCounted' /\ WeightsRead'
      <3>0. PICK k : k = keys[a][1]
        OBVIOUS
      <3>1. /\ keys' = keys /\ pc' = [pc EXCEPT ![a] = "send"] /\ pc[a] = "write"
            /\ weight' = weight /\ contended' = contended
        BY <2>3 DEF WriteWeight, history
      <3>2. keys[a] = <<k>>
        BY <1>1, <3>0, <3>1 DEF Binding
      <3>3. a \notin Bound(k) /\ Bound(k)' = Bound(k) \cup {a} /\ a \in Writing(k)
        BY <3>1, <3>2 DEF Bound, Writing, TypeOK
      <3>4. Count(k)' = Count(k) + 1
        BY <3>3, BoundFinite, FS_AddElement
      <3>5. \A i : i # k => Bound(i)' = Bound(i) /\ Writing(i)' = Writing(i)
        BY <3>1, <3>2 DEF Bound, Writing, TypeOK
      <3>6. CNs' = IF k \in Listed THEN [CNs EXCEPT ![k].weight = weight[a] + 1] ELSE CNs
        BY <2>3, <3>0 DEF WriteWeight, NewWeight
      <3>7. \A i \in Listed : i # k => CNs'[i] = CNs[i]
        BY <3>6
      <3>8. k \in Listed => CNs'[k].weight = weight[a] + 1
        BY <3>6 DEF TypeOK
      <3>9. (\A b \in Apps : weight[b] \in Nat) /\ \A i : Count(i) \in Nat
        BY BoundFinite DEF TypeOK
      <3>10. ASSUME NEW i \in Listed
             PROVE  Counts(i)'
        <4>1. CASE i = k
          <5>1. k \notin reported => weight[a] <= Count(k) /\ (k \notin contended => weight[a] = Count(k))
            BY <1>0, <3>0, <3>1, <4>1
          <5> HIDE DEF Count
          <5> QED BY <2>1, <3>1, <3>4, <3>8, <3>9, <4>1, <5>1
        <4>2. CASE i # k
          BY <1>0, <2>1, <3>1, <3>5, <3>7, <4>2
        <4> QED BY <4>1, <4>2
      <3>11. ASSUME NEW b \in Apps
             PROVE  Read(b)'
        <4>1. CASE b = a
          BY <3>1, <4>1 DEF TypeOK
        <4>2. CASE b # a /\ keys[b][1] = k
          <5>1. pc[b] = "write" /\ k \in Listed \ reported => weight[b] <= Count(k) /\ k \in contended
            BY <1>0, <3>3, <4>2
          <5>2. weight[b] <= Count(k) => weight[b] <= Count(k) + 1
            BY <3>9
          <5> HIDE DEF Count
          <5> QED BY <2>1, <2>2, <3>1, <3>4, <4>2, <5>1, <5>2
        <4>3. CASE b # a /\ keys[b][1] # k
          BY <1>0, <2>1, <2>2, <3>1, <3>5, <4>3
        <4> QED BY <4>1, <4>2, <4>3
      <3> HIDE DEF Counts, Read
      <3> QED BY <1>0, <2>1, <3>10, <3>11
    <2>4. ASSUME ~WriteWeight(a)
          PROVE  BindingsCounted' /\ WeightsRead'
      <3>1. CNs' = CNs
        BY <1>3, <2>4, AppKeepsList
      <3>2. \A i : Bound(i)' = Bound(i)
        <4>1. pc[a] \in {"send", "bound"} <=> pc'[a] \in {"send", "bound"}
          BY <1>3, <2>4 DEF AppStep, Dispatch, GetCN, ReadWeight, Send, ChooseBestCN, GetBestCN, TypeOK
        <4>2. pc[a] \in {"send", "bound"} => keys'[a] = keys[a]
          BY <1>3 DEF AppStep, Dispatch, GetCN, ReadWeight, WriteWeight, Send, ChooseBestCN, GetBestCN, TypeOK
        <4> QED BY <2>2, <4>1, <4>2 DEF Bound
      <3>3. contended \subseteq contended'
        BY <1>3 DEF AppStep, Dispatch, GetCN, ReadWeight, WriteWeight, Send, ChooseBestCN, GetBestCN, Asked, history
      <3>4. ASSUME NEW i \in Listed
            PROVE  Counts(i)'
        BY <1>0, <2>1, <3>1, <3>2, <3>3
      <3>5. CASE ReadWeight(a)
        <4>0. PICK k : k = keys[a][1]
          OBVIOUS
        <4>1. /\ keys' = keys /\ pc[a] = "read" /\ pc' = [pc EXCEPT ![a] = "write"]
              /\ contended' = IF Writing(k) = {} THEN contended ELSE contended \cup {k}
              /\ k \in Listed => weight'[a] = CNs[k].weight
          BY <3>5, <4>0 DEF ReadWeight, TypeOK
        <4>2. keys[a] = <<k>>
          BY <1>1, <4>0, <4>1 DEF Binding
        <4>3. Writing(k)' = Writing(k) \cup {a} /\ \A i : i # k => Writing(i)' = Writing(i)
          BY <4>1, <4>2 DEF Writing, TypeOK
        <4>4. Read(a)'
          BY <1>0, <2>1, <3>2, <4>0, <4>1, <4>3
        <4>5. ASSUME NEW b \in Apps \ {a}
              PROVE  Read(b)'
          <5>1. CASE keys[b][1] = k /\ pc[b] = "write"
            <6>1. b \in Writing(k)
              BY <1>1, <5>1 DEF Writing, Binding
            <6> QED BY <1>0, <2>1, <2>2, <3>2, <4>1, <5>1, <6>1
          <5>2. CASE keys[b][1] # k
            BY <1>0, <2>1, <2>2, <3>2, <3>3, <4>3, <5>2
          <5> QED BY <2>2, <5>1, <5>2
        <4> HIDE DEF Counts, Read
        <4> QED BY <1>0, <2>1, <3>4, <4>4, <4>5
      <3>6. CASE ~ReadWeight(a)
        <4>1. pc'[a] # "write" /\ pc[a] # "write"
          BY <1>3, <2>4, <3>6 DEF AppStep, Dispatch, GetCN, Send, ChooseBestCN, GetBestCN, TypeOK
        <4>2. \A i : Writing(i)' = Writing(i)
          BY <2>2, <4>1 DEF Writing
        <4>3. ASSUME NEW b \in Apps
              PROVE  Read(b)'
          BY <1>0, <2>1, <2>2, <3>2, <3>3, <4>1, <4>2
        <4> HIDE DEF Counts, Read
        <4> QED BY <1>0, <2>1, <3>4, <4>3
      <3> QED BY <3>5, <3>6
    <2> QED BY <2>3, <2>4
  <1>4. ASSUME UNCHANGED vars
        PROVE  BindingsCounted' /\ WeightsRead'
    BY <1>4 DEF vars, nodeVars, appVars, history, BindingsCounted, WeightsRead, Bound, Writing, Listed
  <1> QED BY <1>2, <1>3, <1>4 DEF Next

-----------------------------------------------------------------------------
(* The theorems.                                                           *)

(* DispatcherInv is an invariant.                                          *)
THEOREM DispatcherInvariant == Spec => []DispatcherInv
  <1>1. DispatcherInv /\ [Next]_vars => DispatcherInv'
    <2> SUFFICES ASSUME DispatcherInv, [Next]_vars PROVE DispatcherInv'
      OBVIOUS
    <2>1. TypeOK' /\ ListMatchesConnections'
      BY ListStep DEF DispatcherInv
    <2>2. KeysInScope'
      BY ScopeStep DEF DispatcherInv
    <2>3. KeysListed' /\ AnswersApart' /\ IdsStayGood'
      BY KeysStep, ApartStep, AssertStep DEF DispatcherInv
    <2>4. BindingsCounted' /\ WeightsRead'
      BY WeightsStep DEF DispatcherInv
    <2> QED BY <2>1, <2>2, <2>3, <2>4 DEF DispatcherInv
  <1> QED BY <1>1, InitDispatcher, PTL DEF Spec

(* The list holds the nodes that are served, and those whose connection    *)
(* failed: HandlerCNReg, DelCN and the thread's end leave nothing else.    *)
THEOREM ListIsRight == Spec => []ListMatchesConnections
  <1>1. DispatcherInv => ListMatchesConnections
    BY DEF DispatcherInv
  <1> QED BY <1>1, DispatcherInvariant, PTL

(* GetCN's assertion fails only for an id that DelCN took from the list    *)
(* between its choice and its lookup, and in a request that came when the  *)
(* list held fewer nodes than it asked for.                                *)
THEOREM IdsGood == Spec => []IdsStayGood
  <1>1. DispatcherInv => IdsStayGood
    BY DEF DispatcherInv
  <1> QED BY <1>1, DispatcherInvariant, PTL

(* HandlerGetBestCN's answer to an application that asked when there were  *)
(* nodes enough names a node twice only if a failed connection left that   *)
(* node in the list.                                                       *)
THEOREM AnswersDiffer == Spec => []LevelsDistinct
  <1>1. DispatcherInv => LevelsDistinct
    BY DEF DispatcherInv, LevelsDistinct, AnswersApart
  <1> QED BY <1>1, DispatcherInvariant, PTL

(* HandlerGetBindingCN's increments without a lock: the weight of a node   *)
(* is exactly the number of bindings to it until two of them read it       *)
(* before either writes; from then on it lies between 1 and that number.   *)
THEOREM WeightsCountBindings == Spec => []BindingsCounted
  <1>1. DispatcherInv => BindingsCounted
    BY DEF DispatcherInv
  <1> QED BY <1>1, DispatcherInvariant, PTL

(* The cosine grows with the weight.                                       *)
LEMMA CosineGrows ==
    ASSUME NEW v \in Nat, NEW w \in Nat, v < w
    PROVE  CosLess(v, w)
  <1>1. v * v * (2 * w + 1) = 2 * (v * v * w) + v * v
    OBVIOUS
  <1>2. w * w * (2 * v + 1) = 2 * (w * w * v) + w * w
    OBVIOUS
  <1>3. v * v < w * w
    OBVIOUS
  <1>4. v * v * w <= w * w * v
    <2>1. v * w \in Nat /\ v * v * w = v * (v * w) /\ w * w * v = w * (v * w)
      OBVIOUS
    <2>2. \A p \in Nat : v * p <= w * p
      OBVIOUS
    <2> QED BY <2>1, <2>2
  <1>5. /\ v * v \in Nat /\ w * w \in Nat /\ v * v * w \in Nat /\ w * w * v \in Nat
    OBVIOUS
  <1> QED BY <1>1, <1>2, <1>3, <1>4, <1>5 DEF CosLess

(* Dispatch binds an application to a node that is loaded most.            *)
THEOREM BindsToHeaviest == Spec => HeaviestFirst
  <1> DEFINE Heaviest == \A a \in Apps : pc[a] = "idle" /\ pc'[a] = "getCN" /\ Listed # {} =>
                 keys'[a][1] \in Listed /\ \A j \in Listed : CNs[j].weight <= CNs[keys'[a][1]].weight
  <1>1. DispatcherInv /\ [Next]_vars => Heaviest
    <2> SUFFICES ASSUME DispatcherInv, [Next]_vars, Listed # {},
                        NEW a \in Apps, pc[a] = "idle", pc'[a] = "getCN"
                 PROVE  keys'[a][1] \in Listed /\ \A j \in Listed : CNs[j].weight <= CNs[keys'[a][1]].weight
      OBVIOUS
    <2>1. TypeOK /\ ListMatchesConnections
      BY DEF DispatcherInv
    <2>2. Dispatch(a)
      <3>1. pc' # pc
        BY <2>1 DEF TypeOK
      <3>2. PICK b \in Apps : AppStep(b)
        <4>1. \A n \in Nodes : NodeStep(n) => pc' = pc
          BY <2>1, NodeFacts DEF appVars
        <4> QED BY <3>1, <4>1 DEF Next, vars, appVars
      <3>3. b = a
        BY <2>1, <3>2, AppFacts
      <3> QED BY <2>1, <3>2, <3>3 DEF AppStep, GetCN, ReadWeight, WriteWeight, Send, ChooseBestCN, GetBestCN, TypeOK
    <2>3. PICK i \in Dispatched : keys' = [keys EXCEPT ![a] = <<i>>]
      BY <2>2 DEF Dispatch
    <2>4. keys'[a][1] = i
      BY <2>1, <2>3 DEF TypeOK
    <2>5. i \in Listed
      BY <2>1, ChoiceFacts
    <2>6. \A j \in Listed : ~CosLess(CNs[i].weight, CNs[j].weight)
      BY <2>1, <2>5 DEF Dispatched, TypeOK, Ids, NoId
    <2>7. \A j \in Listed : CNs[j].weight \in Nat
      BY <2>1 DEF TypeOK
    <2>8. \A j \in Listed : CNs[j].weight <= CNs[i].weight
      BY <2>5, <2>6, <2>7, CosineGrows
    <2> QED BY <2>4, <2>5, <2>8
  <1>2. Heaviest => [Heaviest]_vars
    OBVIOUS
  <1> QED BY <1>1, DispatcherInvariant, PTL DEF Spec, HeaviestFirst
=============================================================================
