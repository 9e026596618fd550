------------------------------ MODULE Dispatcher ------------------------------
(***************************************************************************)
(* The dispatcher: compute nodes register with it over a connection that   *)
(* stays open, applications ask it which nodes to use.  One thread serves  *)
(* each connection.                                                        *)
(* Source: src/dispatcher/dispatcher.cc (Run), handler.cc, cn.cc (CNList), *)
(* VMAFS_N_Dispatcher.cc (Dispatch), Scoring.cc (chooseBestCN).            *)
(*                                                                         *)
(* CNList's lock covers AddCN, Dispatch, chooseBestCN and the update of    *)
(* LoadInfo, which are therefore one step each.  GetCN, the use of the     *)
(* reference it returns, and DelCN run without it.  An unlocked lookup or  *)
(* erasure is taken to be atomic here; in the code it races on the hash    *)
(* map as well.  Every node has capacity 1.                                *)
(***************************************************************************)
EXTENDS Integers, Sequences, FiniteSets, Functions

CONSTANTS
    Nodes,        \* compute nodes
    Apps,         \* applications, one request each
    Levels,       \* levelCnt: how many nodes an application asks for
    LoadWeights,  \* weights the nodes report (empty: nobody runs Teller)
    MaxAsking,    \* bound: applications served at the same time
    MaxIds,       \* bound: registrations
    MayLeave      \* may nodes close their connection?

ASSUME BoundsAssumption == {Levels, MaxAsking, MaxIds} \subseteq Nat
ASSUME WeightsAssumption == LoadWeights \subseteq Nat
ASSUME LeavingAssumption == MayLeave \in BOOLEAN
ASSUME FiniteAssumption == IsFiniteSet(Apps)

VARIABLES
    conn, id,      \* each node's connection, and the id its Run thread got for it
    CNs,           \* CNs_: node and weight by id
    cn_id,         \* AddCN's counter
    i_leng_square, \* sum of the squared capacities
    pc,            \* what the thread of each application does next
    keys,          \* the ids chosen for it
    weight,        \* the weight it read
    answer,        \* the nodes it was told
    fault,         \* why the dispatcher has ended
    \* history
    orphans,       \* ids whose connection failed
    reported,      \* ids whose node reported its weight itself
    contended,     \* ids whose weight two bindings read before either wrote it
    scarce,        \* applications that asked for more nodes than were listed
    overtaken      \* applications whose id was deleted between its choice and its lookup

nodeVars == <<conn, id, cn_id, i_leng_square>>
appVars == <<pc, keys, weight, answer>>
history == <<orphans, reported, contended, scarce, overtaken>>
vars == <<nodeVars, appVars, CNs, fault, history>>

Ids == 0 .. MaxIds - 1
NoId == -1
Garbage == "garbage"
ASSUME GarbageAssumption == Garbage \notin Nodes
Listed == DOMAIN CNs

Init ==
    /\ conn = [n \in Nodes |-> "off"] /\ id = [n \in Nodes |-> NoId]
    /\ CNs = <<>> /\ cn_id = NoId /\ i_leng_square = 0
    /\ pc = [a \in Apps |-> "idle"] /\ keys = [a \in Apps |-> <<>>]
    /\ weight = [a \in Apps |-> 0] /\ answer = [a \in Apps |-> <<>>]
    /\ fault = "none" /\ orphans = {} /\ reported = {}
    /\ contended = {} /\ scarce = {} /\ overtaken = {}

Running == fault = "none"

-----------------------------------------------------------------------------
(* The threads of the nodes' connections.                                  *)

\* HandlerCNReg with AddCN.
CNReg(n) ==
    LET new == cn_id + 1 IN
    /\ Running /\ conn[n] \in {"off", "gone", "failed"} /\ new \in Ids
    /\ conn' = [conn EXCEPT ![n] = "up"]
    /\ id' = [id EXCEPT ![n] = new]
    /\ cn_id' = new
    /\ CNs' = [i \in Listed \cup {new} |-> IF i = new THEN [node |-> n, weight |-> 0] ELSE CNs[i]]
    /\ i_leng_square' = i_leng_square + 1
    /\ UNCHANGED <<appVars, fault, history>>

\* HandlerLoadInfo: update the weight, then look the node up once more to print it.
LoadInfo(n, w) ==
    /\ Running /\ conn[n] = "up"
    /\ CNs' = IF id[n] \in Listed THEN [CNs EXCEPT ![id[n]].weight = w] ELSE CNs
    /\ fault' = IF id[n] \in Listed THEN fault ELSE "assert"
    /\ reported' = reported \cup {id[n]}
    /\ UNCHANGED <<nodeVars, appVars, orphans, contended, scarce, overtaken>>

\* The node closes its connection; its thread has yet to see it.
Leave(n) ==
    /\ MayLeave /\ Running /\ conn[n] = "up"
    /\ conn' = [conn EXCEPT ![n] = "closing"]
    /\ UNCHANGED <<id, cn_id, i_leng_square, appVars, CNs, fault, history>>

\* recv returns -1: the thread ends without DelCN, the node stays listed.
Fail(n) ==
    /\ Running /\ conn[n] = "up"
    /\ conn' = [conn EXCEPT ![n] = "failed"]
    /\ orphans' = orphans \cup {id[n]}
    /\ UNCHANGED <<id, cn_id, i_leng_square, appVars, CNs, fault, reported, contended, scarce, overtaken>>

\* CNs_.erase; the variant forgets to.
ErasedNone(i) == CNs
Erased(i) == Restrict(CNs, Listed \ {i})

\* Applications that have yet to look up the id.
Looking(i) == {a \in Apps : pc[a] \in {"getCN", "getBest"} /\ \E l \in DOMAIN keys[a] : keys[a][l] = i}

DelCN(n) ==
    /\ Running /\ conn[n] = "closing"
    /\ overtaken' = overtaken \cup Looking(id[n])
    /\ CNs' = Erased(id[n])
    /\ conn' = [conn EXCEPT ![n] = "gone"]
    /\ UNCHANGED <<id, cn_id, i_leng_square, appVars, fault, orphans, reported, contended, scarce>>

-----------------------------------------------------------------------------
(* HandlerGetBindingCN.                                                    *)

\* cos_value is a weight over sqrt(i_leng_square * (2 * weight + 1)): based_inner_product_ and
\* v_leng_square_ are never anything but 0, app_weight is 1.  The variant prefers the
\* least loaded.
CosLessFair(v, w) == v > w
CosLess(v, w) == v * v * (2 * w + 1) < w * w * (2 * v + 1)

\* The ids Dispatch may return: those of the largest cosine, in the order of a hash map; none
\* if no node was ever registered, when all of them are NaN.
Dispatched ==
    IF Listed = {} \/ i_leng_square = 0 THEN {NoId}
    ELSE {i \in Listed : \A j \in Listed : ~CosLess(CNs[i].weight, CNs[j].weight)}

MayAsk == Cardinality({a \in Apps : pc[a] \notin {"idle", "bound", "done"}}) < MaxAsking

\* Were there k nodes to choose from?
Asked(a, k) ==
    /\ scarce' = IF Cardinality(Listed) < k THEN scarce \cup {a} ELSE scarce
    /\ UNCHANGED <<orphans, reported, contended, overtaken>>

Dispatch(a) ==
    /\ Running /\ pc[a] = "idle" /\ MayAsk
    /\ \E i \in Dispatched : keys' = [keys EXCEPT ![a] = <<i>>]
    /\ pc' = [pc EXCEPT ![a] = "getCN"]
    /\ Asked(a, 1)
    /\ UNCHANGED <<nodeVars, weight, answer, CNs, fault>>

\* GetCN asserts that the id is listed; the handler keeps a reference to the entry.
GetCN(a) ==
    /\ Running /\ pc[a] = "getCN"
    /\ fault' = IF keys[a][1] \in Listed THEN fault ELSE "assert"
    /\ pc' = [pc EXCEPT ![a] = "read"]
    /\ UNCHANGED <<nodeVars, keys, weight, answer, CNs, history>>

\* cn.weight() and cn.set_weight(): two steps, without a lock.  The memory of an erased entry
\* may still hold any weight, and a write to it is lost.
Writing(i) == {a \in Apps : pc[a] = "write" /\ keys[a] = <<i>>}

ReadWeight(a) ==
    LET i == keys[a][1] IN
    /\ Running /\ pc[a] = "read"
    /\ \E w \in IF i \in Listed THEN {CNs[i].weight} ELSE {0, 1} : weight' = [weight EXCEPT ![a] = w]
    /\ pc' = [pc EXCEPT ![a] = "write"]
    /\ contended' = IF Writing(i) = {} THEN contended ELSE contended \cup {i}
    /\ UNCHANGED <<nodeVars, keys, answer, CNs, fault, orphans, reported, scarce, overtaken>>

\* The variant does not count the application.
NewWeightSame(w) == w
NewWeight(w) == w + 1

WriteWeight(a) ==
    LET i == keys[a][1] IN
    /\ Running /\ pc[a] = "write"
    /\ CNs' = IF i \in Listed THEN [CNs EXCEPT ![i].weight = NewWeight(weight[a])] ELSE CNs
    /\ pc' = [pc EXCEPT ![a] = "send"]
    /\ UNCHANGED <<nodeVars, keys, weight, answer, fault, history>>

\* Send the IP found through the reference.
Send(a) ==
    LET i == keys[a][1] IN
    /\ Running /\ pc[a] = "send"
    /\ answer' = [answer EXCEPT ![a] = <<IF i \in Listed THEN CNs[i].node ELSE Garbage>>]
    /\ pc' = [pc EXCEPT ![a] = "bound"]
    /\ UNCHANGED <<nodeVars, keys, weight, CNs, fault, history>>

-----------------------------------------------------------------------------
(* HandlerGetBestCN.                                                       *)

\* What chooseBestCN leaves in its array of levelCnt ids: the listed ids in the order of the
\* hash map; whatever the heap held in places it does not reach.  The variants forget to
\* advance the index, and stop one node early.
ChosenSame == {[l \in 1 .. Levels |-> i] : i \in Listed}
Filling(filled) ==
    {c \in [1 .. Levels -> Ids \cup {NoId}] :
        /\ \A l \in 1 .. filled : c[l] \in Listed
        /\ \A l, m \in 1 .. filled : l # m => c[l] # c[m]}
ChosenShort == Filling(Cardinality(Listed) - 1)
Chosen == Filling(IF Levels < Cardinality(Listed) THEN Levels ELSE Cardinality(Listed))

\* One write per listed node: past the array's end when there are more than levelCnt.  Heap
\* corruption may end the process or stay unnoticed.
WritesPastEnd == Cardinality(Listed) > Levels

ChooseBestCN(a) ==
    /\ Running /\ pc[a] = "idle" /\ MayAsk /\ Levels > 0
    /\ \E c \in Chosen : keys' = [keys EXCEPT ![a] = c]
    /\ pc' = [pc EXCEPT ![a] = "getBest"]
    /\ fault' \in IF WritesPastEnd THEN {"overflow", fault} ELSE {fault}
    /\ Asked(a, Levels)
    /\ UNCHANGED <<nodeVars, weight, answer, CNs>>

\* One round of the loop over the levels; after the last the IPs are sent.
GetBestCN(a) ==
    LET i == keys[a][Len(answer[a]) + 1] IN
    /\ Running /\ pc[a] = "getBest"
    /\ IF i \in Listed
         THEN /\ answer' = [answer EXCEPT ![a] = Append(@, CNs[i].node)]
              /\ pc' = [pc EXCEPT ![a] = IF Len(answer[a]) + 1 = Levels THEN "done" ELSE @]
              /\ fault' = fault
         ELSE /\ fault' = "assert"
              /\ UNCHANGED <<answer, pc>>
    /\ UNCHANGED <<nodeVars, keys, weight, CNs, history>>

-----------------------------------------------------------------------------
NodeStep(n) == CNReg(n) \/ (\E w \in LoadWeights : LoadInfo(n, w)) \/ Leave(n) \/ Fail(n) \/ DelCN(n)
AppStep(a) ==
    \/ Dispatch(a) \/ GetCN(a) \/ ReadWeight(a) \/ WriteWeight(a) \/ Send(a)
    \/ ChooseBestCN(a) \/ GetBestCN(a)

Next == (\E n \in Nodes : NodeStep(n)) \/ (\E a \in Apps : AppStep(a))

Spec == Init /\ [][Next]_vars

-----------------------------------------------------------------------------
(* Properties.                                                             *)

\* Every registration has added 1 to the sum of the capacities, which nothing takes back.
TypeOK ==
    /\ conn \in [Nodes -> {"off", "up", "closing", "gone", "failed"}]
    /\ id \in [Nodes -> Ids \cup {NoId}] /\ cn_id \in Ids \cup {NoId}
    /\ Listed \subseteq 0 .. cn_id /\ CNs \in [Listed -> [node : Nodes, weight : Nat]]
    /\ i_leng_square = cn_id + 1
    /\ pc \in [Apps -> {"idle", "getCN", "read", "write", "send", "bound", "getBest", "done"}]
    /\ keys \in [Apps -> Seq(Ids \cup {NoId})] /\ answer \in [Apps -> Seq(Nodes \cup {Garbage})]
    /\ weight \in [Apps -> Nat]
    /\ fault \in {"none", "assert", "overflow"}
    /\ orphans \subseteq Listed /\ reported \subseteq 0 .. cn_id /\ contended \subseteq Ids \cup {NoId}
    /\ scarce \subseteq Apps /\ overtaken \subseteq Apps

\* GetCN's assertion (cn.cc:71) holds for the ids Dispatch and chooseBestCN handed out, and for those
\* of the nodes that report.  It fails in two ways only: for an id that was deleted between its
\* choice and its lookup, and in a request for which too few nodes were listed.
IdsStayGood == fault = "assert" => \E a \in scarce \cup overtaken : pc[a] \in {"read", "getBest"}

\* However often nodes come, go, and come back: the list holds the nodes whose connection their
\* thread still serves, under the id that thread will delete, and apart from them only those
\* whose connection failed, for which nobody calls DelCN.
ListMatchesConnections ==
    LET served == {n \in Nodes : conn[n] \in {"up", "closing"}} IN
    /\ Listed = {id[n] : n \in served} \cup orphans
    /\ \A n \in served : CNs[id[n]].node = n /\ id[n] \notin orphans

\* An application that asked for several nodes, when so many were listed, was told as many different
\* ones, except for a node that was listed twice because its connection had failed.
ToldTwice(a, n) == \E l, m \in DOMAIN answer[a] : l # m /\ answer[a][l] = n /\ answer[a][m] = n
Orphaned(n) == \E i \in orphans : CNs[i].node = n

LevelsDistinct ==
    \A a \in Apps : pc[a] = "done" /\ a \notin scarce => \A n \in Nodes : ToldTwice(a, n) => Orphaned(n)

\* Applications the weight of the node with id i has to count.
Bound(i) == {a \in Apps : pc[a] \in {"send", "bound"} /\ keys[a] = <<i>>}

\* The weight of a node that does not report itself is the number of its bindings, whatever nodes and
\* applications do meanwhile; bindings that read it at the same time may lose some increments, but
\* never all of them, and count none twice.
BindingsCounted ==
    \A i \in Listed \ reported :
        /\ i \notin contended => CNs[i].weight = Cardinality(Bound(i))
        /\ CNs[i].weight <= Cardinality(Bound(i))
        /\ Bound(i) # {} => CNs[i].weight > 0

-----------------------------------------------------------------------------
(* What makes those properties inductive.                                  *)

\* The stages of a request for one node, in which its one id is in use or has been.
Binding == {"getCN", "read", "write", "send", "bound"}

\* A request for one node holds one id, one for several holds Levels of them and is not yet
\* answered; ids are ids given out, or none at all.
KeysInScope ==
    \A a \in Apps :
        /\ pc[a] = "idle" => answer[a] = <<>>
        /\ pc[a] \in Binding => Len(keys[a]) = 1 /\ keys[a][1] <= cn_id
        /\ pc[a] = "getBest" => Len(keys[a]) = Levels /\ Len(answer[a]) < Levels

\* The ids a thread is still to look up are listed.
KeysListed ==
    \A a \in Apps : pc[a] \in {"getCN", "getBest"} /\ a \notin scarce \cup overtaken =>
        \A l \in DOMAIN keys[a] : keys[a][l] \in Listed

\* The nodes a request was told differ, and differ from those it is still to be told.
AnswersApart ==
    \A a \in Apps : pc[a] \in {"getBest", "done"} /\ a \notin scarce =>
        /\ \A n \in Nodes : ToldTwice(a, n) => Orphaned(n)
        /\ pc[a] = "getBest" =>
            \A l \in DOMAIN keys[a] \ DOMAIN answer[a] :
                /\ keys[a][l] <= cn_id
                /\ \A m \in DOMAIN keys[a] : l # m => keys[a][l] # keys[a][m]
                /\ keys[a][l] \in Listed => \A m \in DOMAIN answer[a] :
                       CNs[keys[a][l]].node = answer[a][m] => Orphaned(answer[a][m])

\* A weight that was read to be raised is still what it was, and nobody else has read it.
WeightsRead ==
    \A a \in Apps : pc[a] = "write" /\ keys[a][1] \in Listed \ reported =>
        /\ weight[a] <= Cardinality(Bound(keys[a][1]))
        /\ keys[a][1] \notin contended =>
            weight[a] = Cardinality(Bound(keys[a][1])) /\ Writing(keys[a][1]) = {a}

\* The inductive invariant: types, the list, the requests' ids and answers, the weights.
DispatcherInv ==
    /\ TypeOK
    /\ ListMatchesConnections
    /\ KeysInScope
    /\ KeysListed /\ AnswersApart /\ IdsStayGood
    /\ BindingsCounted /\ WeightsRead

\* Dispatch binds to a node that is loaded most, not least: with based_inner_product_ and
\* v_leng_square_ left at 0 the cosine grows with the weight.  So the first node an
\* application is bound to gets every later one.
HeaviestFirst ==
    [][\A a \in Apps : pc[a] = "idle" /\ pc'[a] = "getCN" /\ Listed # {} =>
          keys'[a][1] \in Listed /\ \A j \in Listed : CNs[j].weight <= CNs[keys'[a][1]].weight]_vars
=============================================================================
