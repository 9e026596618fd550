----------------------------- MODULE KernelProofs -----------------------------
(***************************************************************************)
(* Proofs about KernelArgs, for any arguments, sizes, memory objects and   *)
(* values, any sizes of messages and of a byte, and any bounds.            *)
(***************************************************************************)
EXTENDS KernelArgs, SequenceTheorems, FiniteSetTheorems, WellFoundedInduction, TLAPS

-----------------------------------------------------------------------------
(* Numbers and sets.                                                       *)

Below == {z \in Nat \X Nat : z[1] < z[2]}

(* There is a first of some numbers.                                       *)
LEMMA Smallest ==
    ASSUME NEW T \in SUBSET Nat, T # {}
    PROVE  \E x \in T : \A y \in T : x <= y
  <1>1. IsWellFoundedOn(Below, Nat)
    BY NatLessThanWellFounded DEF OpToRel, Below
  <1>2. PICK x \in T : \A y \in T : ~ (<<y, x>> \in Below)
    BY <1>1, WFMin
  <1>3. ASSUME NEW y \in T PROVE x <= y
    <2>1. ~ (<<y, x>> \in Below) /\ <<y, x>> \in Nat \X Nat
      BY <1>2
    <2>2. ~ (y < x)
      BY <2>1 DEF Below
    <2> QED BY <2>2
  <1> QED BY <1>3

(* Some of the places of a sequence have a last one.                       *)
LEMMA MaxIsLast ==
    ASSUME NEW n \in Nat, NEW s, s \subseteq 1 .. n, s # {}
    PROVE  Max(s) \in s /\ \A y \in s : Max(s) >= y
  <1> DEFINE above == {b \in Nat : \A y \in s : b >= y}
  <1>1. n \in above /\ above \in SUBSET Nat
    OBVIOUS
  <1>2. PICK b \in above : \A c \in above : b <= c
    BY <1>1, Smallest
  <1>3. b \in s
    <2>1. b \in Nat /\ \A y \in s : y \in Nat /\ y >= 1 /\ b >= y
      BY <1>2
    <2>2. ASSUME b \notin s PROVE FALSE
      <3>1. \A y \in s : b - 1 >= y
        BY <2>1, <2>2
      <3>2. b - 1 \in Nat
        <4>1. PICK y \in s : TRUE
          OBVIOUS
        <4> QED BY <2>1, <4>1
      <3>3. b - 1 \in above
        BY <3>1, <3>2
      <3>4. b <= b - 1
        BY <3>3, <1>2
      <3> QED BY <3>4, <2>1
    <2> QED BY <2>2
  <1>4. \E x \in s : \A y \in s : x >= y
    BY <1>2, <1>3
  <1> QED BY <1>4 DEF Max

(* What holds of no place, and of places when it holds of all but the last of them, holds of all
   sets of places of a sequence.                                           *)
LEMMA PlacesInduction ==
    ASSUME NEW n \in Nat, NEW B, {} \in B,
           \A s \in SUBSET (1 .. n) : s # {} /\ s \ {Max(s)} \in B => s \in B
    PROVE  SUBSET (1 .. n) \subseteq B
  <1> DEFINE bad == {s \in SUBSET (1 .. n) : s \notin B}
             sizes == {Cardinality(s) : s \in bad}
  <1>1. ASSUME NEW s \in SUBSET (1 .. n) PROVE IsFiniteSet(s) /\ Cardinality(s) \in Nat
    <2>1. IsFiniteSet(1 .. n)
      BY FS_Interval
    <2>2. IsFiniteSet(s)
      BY <2>1, FS_Subset
    <2> QED BY <2>2, FS_CardinalityType
  <1>2. ASSUME bad # {} PROVE FALSE
    <2>1. sizes \in SUBSET Nat /\ sizes # {}
      BY <1>1, <1>2
    <2>2. PICK c \in sizes : \A m \in sizes : c <= m
      BY <2>1, Smallest
    <2>3. PICK s \in bad : c = Cardinality(s)
      BY <2>2
    <2>4. s # {} /\ s \in SUBSET (1 .. n) /\ IsFiniteSet(s)
      BY <2>3, <1>1
    <2>5. Max(s) \in s
      BY <2>4, MaxIsLast
    <2>6. Cardinality(s \ {Max(s)}) = Cardinality(s) - 1 /\ Cardinality(s) \in Nat
      BY <2>4, <2>5, <1>1, FS_RemoveElement
    <2>7. s \ {Max(s)} \notin bad
      <3>1. ASSUME s \ {Max(s)} \in bad PROVE FALSE
        <4>1. c <= Cardinality(s \ {Max(s)})
          BY <3>1, <2>2
        <4> QED BY <4>1, <2>6, <2>3
      <3> QED BY <3>1
    <2>8. s \ {Max(s)} \in B
      BY <2>7, <2>4
    <2> QED BY <2>8, <2>4, <2>3
  <1> QED BY <1>2

(* What holds of the empty list and is kept when an entry is appended holds of every list. *)
LEMMA ListInduction ==
    ASSUME NEW S, NEW B, <<>> \in B,
           \A l \in Seq(S), e \in S : l \in B => Append(l, e) \in B
    PROVE  Seq(S) \subseteq B
  <1> DEFINE bad == {l \in Seq(S) : l \notin B}
             sizes == {Len(l) : l \in bad}
  <1>1. ASSUME bad # {} PROVE FALSE
    <2>1. sizes \in SUBSET Nat /\ sizes # {}
      <3>1. \A l \in Seq(S) : Len(l) \in Nat
        BY LenProperties
      <3> QED BY <1>1, <3>1
    <2>2. PICK c \in sizes : \A m \in sizes : c <= m
      BY <2>1, Smallest
    <2>3. PICK l \in bad : c = Len(l)
      BY <2>2
    <2>4. l # <<>> /\ l \in Seq(S)
      BY <2>3
    <2>5. PICK h \in Seq(S), e \in S : l = Append(h, e)
      BY <2>4, SequenceEmptyOrAppend
    <2>6. Len(h) = c - 1 /\ c \in Nat
      BY <2>5, <2>3, AppendProperties
    <2>7. h \notin bad
      <3>1. ASSUME h \in bad PROVE FALSE
        <4>1. c <= Len(h)
          BY <3>1, <2>2
        <4> QED BY <4>1, <2>6
      <3> QED BY <3>1
    <2>8. h \in B
      BY <2>7, <2>5
    <2> QED BY <2>8, <2>5, <2>3
  <1> QED BY <1>1

-----------------------------------------------------------------------------
(* Folds over lists.  The accumulating function F takes the value so far   *)
(* and the next entry.                                                     *)

\* g gives what F makes of base and the entries at each set of the first n places, taken in order.
Accumulates(F, base, list, n, g) ==
    g = [s \in SUBSET (1 .. n) |-> IF s = {} THEN base ELSE F[g[s \ {Max(s)}]][list[Max(s)]]]

(* There is such a g for the sets of the first n places.                   *)
LEMMA TableExists ==
    ASSUME NEW F, NEW base, NEW list, NEW n \in Nat
    PROVE  \E g : Accumulates(F, base, list, n, g)
  <1> DEFINE bad == {m \in Nat : ~ \E g : Accumulates(F, base, list, m, g)}
  <1>1. ASSUME bad # {} PROVE FALSE
    <2>1. PICK m \in bad : \A i \in bad : m <= i
      BY <1>1, Smallest
    <2>2. CASE m = 0
      <3>1. \A s \in SUBSET (1 .. 0) : s = {}
        OBVIOUS
      <3>2. Accumulates(F, base, list, 0, [s \in SUBSET (1 .. 0) |-> base])
        BY <3>1 DEF Accumulates
      <3> QED BY <3>2, <2>1, <2>2
    <2>3. CASE m # 0
      <3>1. m - 1 \in Nat /\ m \in Nat /\ m - 1 \notin bad
        <4>1. m \in Nat
          BY <2>1
        <4> HIDE DEF bad
        <4> QED BY <4>1, <2>1, <2>3
      <3>2. PICK g : Accumulates(F, base, list, m - 1, g)
        BY <3>1
      <3> DEFINE h == [s \in SUBSET (1 .. m) |->
                          IF s = {} THEN base ELSE F[g[s \ {Max(s)}]][list[Max(s)]]]
      <3>3. ASSUME NEW s \in SUBSET (1 .. m), s # {} PROVE g[s \ {Max(s)}] = h[s \ {Max(s)}]
        <4>1. Max(s) \in s /\ \A y \in s : Max(s) >= y
          BY <3>3, <3>1, MaxIsLast
        <4>2. s \ {Max(s)} \in SUBSET (1 .. m - 1) /\ s \ {Max(s)} \in SUBSET (1 .. m)
          <5>1. ASSUME NEW y \in s \ {Max(s)} PROVE y \in 1 .. m - 1
            <6>1. y \in 1 .. m /\ Max(s) \in 1 .. m /\ Max(s) >= y /\ y # Max(s)
              BY <4>1
            <6> QED BY <6>1, <3>1
          <5> QED BY <5>1
        <4> QED BY <4>2, <3>2 DEF Accumulates
      <3>4. Accumulates(F, base, list, m, h)
        BY <3>3 DEF Accumulates
      <3> QED BY <3>4, <2>1
    <2> QED BY <2>2, <2>3
  <1> QED BY <1>1

\* g and h are tables of two lists that do not differ up to place m.
TwoTables(F, base, l1, l2, m, n, g, h) ==
    /\ m \in Nat /\ n \in Nat /\ m <= n /\ \A i \in 1 .. m : l1[i] = l2[i]
    /\ Accumulates(F, base, l1, m, g) /\ Accumulates(F, base, l2, n, h)

(* It is the only one, and does not depend on places further on.           *)
LEMMA TableUnique ==
    ASSUME NEW F, NEW base, NEW list, NEW longer, NEW m, NEW n, NEW g, NEW h,
           TwoTables(F, base, list, longer, m, n, g, h)
    PROVE  \A s \in SUBSET (1 .. m) : g[s] = h[s]
  <1> USE DEF TwoTables
  <1> DEFINE B == {s \in SUBSET (1 .. m) : g[s] = h[s]}
  <1>1. \A s \in SUBSET (1 .. m) : s \in SUBSET (1 .. n)
    OBVIOUS
  <1>2. {} \in B
    BY <1>1 DEF Accumulates
  <1>3. ASSUME NEW s \in SUBSET (1 .. m), s # {}, s \ {Max(s)} \in B PROVE s \in B
    <2>1. Max(s) \in 1 .. m
      BY <1>3, MaxIsLast
    <2>2. g[s] = F[g[s \ {Max(s)}]][list[Max(s)]]
      BY <1>3 DEF Accumulates
    <2>3. h[s] = F[h[s \ {Max(s)}]][longer[Max(s)]]
      BY <1>1, <1>3 DEF Accumulates
    <2> QED BY <1>3, <2>1, <2>2, <2>3
  <1>4. SUBSET (1 .. m) \subseteq B
    <2> HIDE DEF B
    <2> QED BY <1>2, <1>3, PlacesInduction
  <1> QED BY <1>4

TableOf(F, base, list) == CHOOSE g : Accumulates(F, base, list, Len(list), g)
Accumulated(F, base, list) == TableOf(F, base, list)[1 .. Len(list)]

(* The table of a list.                                                    *)
LEMMA TableFacts ==
    ASSUME NEW F, NEW base, NEW S, NEW list \in Seq(S)
    PROVE  Accumulates(F, base, list, Len(list), TableOf(F, base, list))
  <1>1. Len(list) \in Nat
    OBVIOUS
  <1>2. \E g : Accumulates(F, base, list, Len(list), g)
    BY <1>1, TableExists
  <1> QED BY <1>2 DEF TableOf

(* Nothing is accumulated from the empty list.                             *)
LEMMA AccumulatedNone ==
    ASSUME NEW F, NEW base
    PROVE  Accumulated(F, base, <<>>) = base
  <1>1. <<>> \in Seq({}) /\ Len(<<>>) = 0
    OBVIOUS
  <1>2. Accumulates(F, base, <<>>, Len(<<>>), TableOf(F, base, <<>>))
    BY <1>1, TableFacts
  <1>3. 1 .. Len(<<>>) = {} /\ {} \in SUBSET (1 .. Len(<<>>))
    BY <1>1
  <1> QED BY <1>2, <1>3 DEF Accumulated, Accumulates

(* An entry more makes one step more.                                      *)
LEMMA AccumulatedAppend ==
    ASSUME NEW F, NEW base, NEW S, NEW list \in Seq(S), NEW e \in S
    PROVE  Accumulated(F, base, Append(list, e)) = F[Accumulated(F, base, list)][e]
  <1> DEFINE longer == Append(list, e)
             n == Len(list)
             g == TableOf(F, base, list)
             h == TableOf(F, base, longer)
             all == 1 .. n + 1
  <1>1. n \in Nat /\ longer \in Seq(S) /\ Len(longer) = n + 1 /\ longer[n + 1] = e
        /\ \A i \in 1 .. n : list[i] = longer[i]
    BY AppendProperties
  <1>2. Accumulates(F, base, list, n, g)
    BY TableFacts
  <1>3. Accumulates(F, base, longer, n + 1, h)
    BY <1>1, TableFacts
  <1> HIDE DEF longer, n, g, h
  <1>4. \A s \in SUBSET (1 .. n) : g[s] = h[s]
    <2>1. n + 1 \in Nat /\ n <= n + 1 /\ n \in Nat /\ \A i \in 1 .. n : list[i] = longer[i]
      BY <1>1
    <2> DEFINE k == n + 1
    <2>2. TwoTables(F, base, list, longer, n, k, g, h)
      BY <2>1, <1>2, <1>3 DEF TwoTables
    <2> HIDE DEF k, all
    <2> QED BY <2>2, TableUnique
  <1>5. Max(all) = n + 1
    <2>1. all # {} /\ all \subseteq 1 .. n + 1 /\ n + 1 \in all /\ n + 1 \in Nat
      BY <1>1
    <2>2. Max(all) \in all /\ Max(all) >= n + 1
      BY <2>1, MaxIsLast
    <2> QED BY <2>2, <1>1
  <1>6. all \ {Max(all)} = 1 .. n /\ all # {} /\ all \in SUBSET (1 .. n + 1)
    <2>1. \A i : i \in (1 .. n + 1) \ {n + 1} <=> i \in 1 .. n
      BY <1>1
    <2>2. (1 .. n + 1) \ {n + 1} = 1 .. n /\ n + 1 \in 1 .. n + 1
      BY <1>1, <2>1
    <2> QED BY <2>2, <1>5
  <1> HIDE DEF all
  <1>7. h[all] = F[h[1 .. n]][longer[n + 1]]
    BY <1>3, <1>5, <1>6 DEF Accumulates
  <1>8. h[1 .. n] = g[1 .. n]
    BY <1>4
  <1> QED BY <1>1, <1>7, <1>8 DEF Accumulated, longer, n, g, h, all

(* What is accumulated stays in a set the accumulating function does not leave. *)
LEMMA AccumulatedIn ==
    ASSUME NEW A, NEW S, NEW F \in [A -> [S -> A]], NEW base \in A, NEW list \in Seq(S)
    PROVE  \A s \in SUBSET (1 .. Len(list)) : TableOf(F, base, list)[s] \in A
  <1> DEFINE n == Len(list)
             g == TableOf(F, base, list)
             B == {s \in SUBSET (1 .. n) : g[s] \in A}
  <1>1. n \in Nat /\ \A i \in 1 .. n : list[i] \in S
    BY ElementOfSeq, LenProperties
  <1>2. Accumulates(F, base, list, n, g)
    BY TableFacts
  <1> HIDE DEF n, g
  <1>3. {} \in B
    BY <1>2 DEF Accumulates
  <1>4. ASSUME NEW s \in SUBSET (1 .. n), s # {}, s \ {Max(s)} \in B PROVE s \in B
    <2>1. Max(s) \in 1 .. n
      BY <1>1, <1>4, MaxIsLast
    <2>2. g[s] = F[g[s \ {Max(s)}]][list[Max(s)]]
      BY <1>2, <1>4 DEF Accumulates
    <2>3. list[Max(s)] \in S /\ g[s \ {Max(s)}] \in A
      BY <1>1, <1>4, <2>1
    <2> QED BY <2>2, <2>3
  <1>5. SUBSET (1 .. n) \subseteq B
    <2> HIDE DEF B
    <2> QED BY <1>1, <1>3, <1>4, PlacesInduction
  <1> QED BY <1>5 DEF n, g

\* Adds the size of an entry.
Plus == [sum \in Nat |-> [c \in ConstEntry |-> sum + c.size]]

(* TotalSize accumulates the sizes.                                        *)
LEMMA TotalSizeAccumulates ==
    ASSUME NEW list \in Seq(ConstEntry)
    PROVE  TotalSize(list) = Accumulated(Plus, 0, list)
  <1> DEFINE n == Len(list)
             g == TableOf(Plus, 0, list)
             Step(x) == [s \in SUBSET DOMAIN list |->
                            IF s = {} THEN 0 ELSE x[s \ {Max(s)}] + list[Max(s)].size]
             t == CHOOSE x : x = Step(x)
             B == {s \in SUBSET (1 .. n) : t[s] = g[s]}
  <1>1. n \in Nat /\ DOMAIN list = 1 .. n /\ \A i \in 1 .. n : list[i] \in ConstEntry
    BY ElementOfSeq, LenProperties
  <1>2. Accumulates(Plus, 0, list, n, g)
    BY TableFacts
  <1>3. Plus \in [Nat -> [ConstEntry -> Nat]]
    BY DEF Plus, ConstEntry
  <1>4. \A s \in SUBSET (1 .. n) : g[s] \in Nat
    BY <1>3, AccumulatedIn
  <1>5. TotalSize(list) = t[DOMAIN list]
    BY DEF TotalSize, FoldLeft, MapThenFoldSet
  <1> HIDE DEF n, g
  <1>6. ASSUME NEW s \in SUBSET (1 .. n), s # {}
        PROVE  g[s] = g[s \ {Max(s)}] + list[Max(s)].size
    <2>1. Max(s) \in 1 .. n
      BY <1>1, <1>6, MaxIsLast
    <2>2. g[s] = Plus[g[s \ {Max(s)}]][list[Max(s)]]
      BY <1>2, <1>6 DEF Accumulates
    <2>3. g[s \ {Max(s)}] \in Nat /\ list[Max(s)] \in ConstEntry
      BY <1>1, <1>4, <2>1
    <2> QED BY <2>2, <2>3 DEF Plus
  <1>7. g = Step(g)
    BY <1>1, <1>2, <1>6 DEF Accumulates
  <1>8. t = Step(t)
    BY <1>7
  <1> HIDE DEF t
  <1>9. {} \in B
    BY <1>1, <1>7, <1>8
  <1>10. ASSUME NEW s \in SUBSET (1 .. n), s # {}, s \ {Max(s)} \in B PROVE s \in B
    <2>1. t[s] = t[s \ {Max(s)}] + list[Max(s)].size
      BY <1>1, <1>8, <1>10
    <2> QED BY <2>1, <1>6, <1>10
  <1>11. SUBSET (1 .. n) \subseteq B
    <2> HIDE DEF B
    <2> QED BY <1>1, <1>9, <1>10, PlacesInduction
  <1> QED BY <1>1, <1>5, <1>11 DEF Accumulated, n, g

(* The sum of the sizes of no entries, and of one more.                    *)
LEMMA TotalSizeFacts ==
    /\ TotalSize(<<>>) = 0
    /\ \A l \in Seq(ConstEntry), e \in ConstEntry :
        /\ TotalSize(l) \in Nat /\ TotalSize(Append(l, e)) \in Nat
        /\ TotalSize(Append(l, e)) = TotalSize(l) + e.size
  <1>1. TotalSize(<<>>) = 0
    <2>1. <<>> \in Seq(ConstEntry)
      OBVIOUS
    <2> QED BY <2>1, TotalSizeAccumulates, AccumulatedNone
  <1>2. Plus \in [Nat -> [ConstEntry -> Nat]]
    BY DEF Plus, ConstEntry
  <1>3. ASSUME NEW l \in Seq(ConstEntry), NEW e \in ConstEntry
        PROVE  /\ TotalSize(l) \in Nat /\ TotalSize(Append(l, e)) = TotalSize(l) + e.size
               /\ TotalSize(Append(l, e)) \in Nat
    <2>1. Append(l, e) \in Seq(ConstEntry) /\ 1 .. Len(l) \in SUBSET (1 .. Len(l))
      OBVIOUS
    <2>2. TotalSize(l) = Accumulated(Plus, 0, l)
      BY TotalSizeAccumulates
    <2>3. TotalSize(l) \in Nat
      BY <1>2, <2>1, <2>2, AccumulatedIn DEF Accumulated
    <2>4. TotalSize(Append(l, e)) = Accumulated(Plus, 0, Append(l, e))
      BY <2>1, TotalSizeAccumulates
    <2>5. Accumulated(Plus, 0, Append(l, e)) = Plus[Accumulated(Plus, 0, l)][e]
      BY AccumulatedAppend
    <2>6. TotalSize(Append(l, e)) = Plus[TotalSize(l)][e]
      BY <2>2, <2>4, <2>5
    <2> QED BY <2>3, <2>6 DEF Plus, ConstEntry
  <1> QED BY <1>1, <1>3

-----------------------------------------------------------------------------
(* The memory arguments.                                                   *)

\* Sets one of them.
SetMem == [f \in ArgLists |-> [c \in MemEntry |-> [f EXCEPT ![c.arg] = c.mem]]]

(* A list of arguments with one of them set is a list of arguments.        *)
LEMMA SetMemType == SetMem \in [ArgLists -> [MemEntry -> ArgLists]]
  <1>1. ASSUME NEW f \in ArgLists, NEW c \in MemEntry
        PROVE  [f EXCEPT ![c.arg] = c.mem] \in ArgLists
    BY DEF ArgLists, MemEntry, Args, ArgValues
  <1> QED BY <1>1 DEF SetMem

(* WithMems accumulates them.                                              *)
LEMMA WithMemsAccumulates ==
    ASSUME NEW args \in ArgLists, NEW list \in Seq(MemEntry)
    PROVE  WithMems(args, list) = Accumulated(SetMem, args, list)
  <1> DEFINE n == Len(list)
             g == TableOf(SetMem, args, list)
             Step(x) == [s \in SUBSET DOMAIN list |->
                            IF s = {} THEN args
                            ELSE [x[s \ {Max(s)}] EXCEPT ![list[Max(s)].arg] = list[Max(s)].mem]]
             t == CHOOSE x : x = Step(x)
             B == {s \in SUBSET (1 .. n) : t[s] = g[s]}
  <1>1. n \in Nat /\ DOMAIN list = 1 .. n /\ \A i \in 1 .. n : list[i] \in MemEntry
    BY ElementOfSeq, LenProperties
  <1>2. Accumulates(SetMem, args, list, n, g)
    BY TableFacts
  <1>4. \A s \in SUBSET (1 .. n) : g[s] \in ArgLists
    BY SetMemType, AccumulatedIn
  <1>5. WithMems(args, list) = t[DOMAIN list]
    BY DEF WithMems, FoldLeft, MapThenFoldSet
  <1> HIDE DEF n, g
  <1>6. ASSUME NEW s \in SUBSET (1 .. n), s # {}
        PROVE  g[s] = [g[s \ {Max(s)}] EXCEPT ![list[Max(s)].arg] = list[Max(s)].mem]
    <2>1. Max(s) \in 1 .. n
      BY <1>1, <1>6, MaxIsLast
    <2>2. g[s] = SetMem[g[s \ {Max(s)}]][list[Max(s)]]
      BY <1>2, <1>6 DEF Accumulates
    <2>3. g[s \ {Max(s)}] \in ArgLists /\ list[Max(s)] \in MemEntry
      BY <1>1, <1>4, <2>1
    <2> QED BY <2>2, <2>3 DEF SetMem
  <1>7. g = Step(g)
    BY <1>1, <1>2, <1>6 DEF Accumulates
  <1>8. t = Step(t)
    BY <1>7
  <1> HIDE DEF t
  <1>9. {} \in B
    BY <1>1, <1>7, <1>8
  <1>10. ASSUME NEW s \in SUBSET (1 .. n), s # {}, s \ {Max(s)} \in B PROVE s \in B
    <2>1. t[s] = [t[s \ {Max(s)}] EXCEPT ![list[Max(s)].arg] = list[Max(s)].mem]
      BY <1>1, <1>8, <1>10
    <2> QED BY <2>1, <1>6, <1>10
  <1>11. SUBSET (1 .. n) \subseteq B
    <2> HIDE DEF B
    <2> QED BY <1>1, <1>9, <1>10, PlacesInduction
  <1> QED BY <1>1, <1>5, <1>11 DEF Accumulated, n, g

(* No entries set nothing.                                                 *)
LEMMA WithNoMems ==
    ASSUME NEW args \in ArgLists
    PROVE  WithMems(args, <<>>) = args
  <1>1. <<>> \in Seq(MemEntry)
    OBVIOUS
  <1>2. WithMems(args, <<>>) = Accumulated(SetMem, args, <<>>)
    BY <1>1, WithMemsAccumulates
  <1> QED BY <1>2, AccumulatedNone

(* An entry more sets one argument more.                                   *)
LEMMA WithMemsAppend ==
    ASSUME NEW args \in ArgLists, NEW l \in Seq(MemEntry), NEW e \in MemEntry
    PROVE  /\ WithMems(args, l) \in ArgLists
           /\ WithMems(args, Append(l, e)) = [WithMems(args, l) EXCEPT ![e.arg] = e.mem]
  <1>1. Append(l, e) \in Seq(MemEntry) /\ 1 .. Len(l) \in SUBSET (1 .. Len(l))
    OBVIOUS
  <1>2. WithMems(args, l) = Accumulated(SetMem, args, l)
    BY WithMemsAccumulates
  <1>3. WithMems(args, l) \in ArgLists
    <2>1. TableOf(SetMem, args, l)[1 .. Len(l)] \in ArgLists
      BY <1>1, SetMemType, AccumulatedIn
    <2> QED BY <1>2, <2>1 DEF Accumulated
  <1>4. WithMems(args, Append(l, e)) = Accumulated(SetMem, args, Append(l, e))
    BY <1>1, WithMemsAccumulates
  <1>5. Accumulated(SetMem, args, Append(l, e)) = SetMem[Accumulated(SetMem, args, l)][e]
    BY AccumulatedAppend
  <1>6. WithMems(args, Append(l, e)) = SetMem[WithMems(args, l)][e]
    BY <1>2, <1>4, <1>5
  <1> QED BY <1>3, <1>6 DEF SetMem

-----------------------------------------------------------------------------
(* The constant arguments.                                                 *)

\* Values, and whatever pieces of the data the sizes may cut out.
Pieces(data) == ArgValues \cup {SubSeq(data, i, j) : i \in Nat, j \in Nat}
SoFar(data) == [args : [Args -> Pieces(data)], offset : Nat]

\* Sets one of them from the next piece.
Piece(data, f, c) ==
    [args |-> [f.args EXCEPT ![c.arg] = SubSeq(data, f.offset + 1, f.offset + c.size)],
     offset |-> f.offset + c.size]
SetConsts(data) == [f \in SoFar(data) |-> [c \in ConstEntry |-> Piece(data, f, c)]]
ConstsFrom(args, list, data) == Accumulated(SetConsts(data), [args |-> args, offset |-> 0], list)

(* With a piece more they are of the same type.                            *)
LEMMA SetConstsType ==
    ASSUME NEW data
    PROVE  SetConsts(data) \in [SoFar(data) -> [ConstEntry -> SoFar(data)]]
  <1>1. ASSUME NEW f \in SoFar(data), NEW c \in ConstEntry
        PROVE  Piece(data, f, c) \in SoFar(data)
    <2>1. f.args \in [Args -> Pieces(data)] /\ f.offset \in Nat /\ c.size \in Nat
      BY DEF SoFar, ConstEntry
    <2>2. f.offset + 1 \in Nat /\ f.offset + c.size \in Nat
      BY <2>1
    <2>3. SubSeq(data, f.offset + 1, f.offset + c.size) \in Pieces(data)
      <3> DEFINE i == f.offset + 1
                 j == f.offset + c.size
      <3>1. i \in Nat /\ j \in Nat
        BY <2>2
      <3> HIDE DEF i, j
      <3>2. SubSeq(data, i, j) \in Pieces(data)
        BY <3>1 DEF Pieces
      <3> QED BY <3>2 DEF i, j
    <2>4. [f.args EXCEPT ![c.arg] = SubSeq(data, f.offset + 1, f.offset + c.size)] \in [Args -> Pieces(data)]
      BY <2>1, <2>3
    <2> QED BY <2>2, <2>4 DEF Piece, SoFar
  <1> QED BY <1>1 DEF SetConsts

(* Nothing is set at the beginning.                                        *)
LEMMA SoFarStart ==
    ASSUME NEW args \in ArgLists, NEW data
    PROVE  [args |-> args, offset |-> 0] \in SoFar(data)
  <1>1. args \in [Args -> Pieces(data)]
    BY DEF ArgLists, Pieces
  <1> QED BY <1>1 DEF SoFar

(* WithConsts accumulates them.                                            *)
LEMMA WithConstsAccumulates ==
    ASSUME NEW args \in ArgLists, NEW list \in Seq(ConstEntry), NEW data
    PROVE  WithConsts(args, list, data) = ConstsFrom(args, list, data).args
  <1> DEFINE n == Len(list)
             base == [args |-> args, offset |-> 0]
             g == TableOf(SetConsts(data), base, list)
             Step(x) == [s \in SUBSET DOMAIN list |->
                            IF s = {} THEN base
                            ELSE [args |-> [x[s \ {Max(s)}].args EXCEPT ![list[Max(s)].arg] =
                                              SubSeq(data, x[s \ {Max(s)}].offset + 1,
                                                     x[s \ {Max(s)}].offset + list[Max(s)].size)],
                                  offset |-> x[s \ {Max(s)}].offset + list[Max(s)].size]]
             t == CHOOSE x : x = Step(x)
             B == {s \in SUBSET (1 .. n) : t[s] = g[s]}
  <1>1. n \in Nat /\ DOMAIN list = 1 .. n /\ \A i \in 1 .. n : list[i] \in ConstEntry
    BY ElementOfSeq, LenProperties
  <1>2. Accumulates(SetConsts(data), base, list, n, g)
    BY TableFacts
  <1>4. \A s \in SUBSET (1 .. n) : g[s] \in SoFar(data)
    BY SoFarStart, SetConstsType, AccumulatedIn
  <1>5. WithConsts(args, list, data) = t[DOMAIN list].args
    BY DEF WithConsts, FoldLeft, MapThenFoldSet
  <1> HIDE DEF n, g, base
  <1>6. ASSUME NEW s \in SUBSET (1 .. n), s # {}
        PROVE  g[s] = Piece(data, g[s \ {Max(s)}], list[Max(s)])
    <2>1. Max(s) \in 1 .. n
      BY <1>1, <1>6, MaxIsLast
    <2>2. g[s] = SetConsts(data)[g[s \ {Max(s)}]][list[Max(s)]]
      BY <1>2, <1>6 DEF Accumulates
    <2>3. g[s \ {Max(s)}] \in SoFar(data) /\ list[Max(s)] \in ConstEntry
      BY <1>1, <1>4, <2>1
    <2> QED BY <2>2, <2>3 DEF SetConsts
  <1> DEFINE Step2(x) == [s \in SUBSET DOMAIN list |->
                            IF s = {} THEN base ELSE Piece(data, x[s \ {Max(s)}], list[Max(s)])]
  <1>7. g = Step2(g)
    BY <1>1, <1>2, <1>6 DEF Accumulates
  <1>8. t = Step2(t)
    <2>1. \A x : Step(x) = Step2(x)
      BY DEF Piece
    <2> HIDE DEF Step, Step2
    <2> QED BY <1>7, <2>1
  <1> HIDE DEF t
  <1>9. {} \in B
    BY <1>1, <1>7, <1>8
  <1>10. ASSUME NEW s \in SUBSET (1 .. n), s # {}, s \ {Max(s)} \in B PROVE s \in B
    <2>1. t[s] = Piece(data, t[s \ {Max(s)}], list[Max(s)])
      BY <1>1, <1>8, <1>10
    <2>2. g[s] = Piece(data, g[s \ {Max(s)}], list[Max(s)])
      BY <1>6, <1>10
    <2> QED BY <2>1, <2>2, <1>10
  <1>11. SUBSET (1 .. n) \subseteq B
    <2> HIDE DEF B
    <2> QED BY <1>1, <1>9, <1>10, PlacesInduction
  <1> QED BY <1>1, <1>5, <1>11 DEF ConstsFrom, Accumulated, n, g, base

(* No entries set nothing.                                                 *)
LEMMA WithNoConsts ==
    ASSUME NEW args \in ArgLists, NEW data
    PROVE  /\ WithConsts(args, <<>>, data) = args
           /\ ConstsFrom(args, <<>>, data).offset = 0
  <1>1. <<>> \in Seq(ConstEntry)
    OBVIOUS
  <1>2. WithConsts(args, <<>>, data) = ConstsFrom(args, <<>>, data).args
    BY <1>1, WithConstsAccumulates
  <1>3. ConstsFrom(args, <<>>, data) = [args |-> args, offset |-> 0]
    BY AccumulatedNone DEF ConstsFrom
  <1> QED BY <1>2, <1>3

(* An entry more takes the next piece.                                     *)
LEMMA ConstsFromAppend ==
    ASSUME NEW args \in ArgLists, NEW l \in Seq(ConstEntry), NEW e \in ConstEntry, NEW data
    PROVE  /\ ConstsFrom(args, l, data) \in SoFar(data)
           /\ ConstsFrom(args, Append(l, e), data) = Piece(data, ConstsFrom(args, l, data), e)
  <1> DEFINE base == [args |-> args, offset |-> 0]
  <1>1. 1 .. Len(l) \in SUBSET (1 .. Len(l)) /\ base \in SoFar(data)
    BY SoFarStart
  <1> HIDE DEF base
  <1>2. TableOf(SetConsts(data), base, l)[1 .. Len(l)] \in SoFar(data)
    BY <1>1, SetConstsType, AccumulatedIn
  <1>3. ConstsFrom(args, l, data) \in SoFar(data)
    BY <1>2 DEF ConstsFrom, Accumulated, base
  <1>4. Accumulated(SetConsts(data), base, Append(l, e)) = SetConsts(data)[Accumulated(SetConsts(data), base, l)][e]
    BY AccumulatedAppend
  <1>5. ConstsFrom(args, Append(l, e), data) = SetConsts(data)[ConstsFrom(args, l, data)][e]
    BY <1>4 DEF ConstsFrom, base
  <1> QED BY <1>3, <1>5 DEF SetConsts

(* The offset is the sum of the sizes.                                     *)
LEMMA OffsetIsTotal ==
    ASSUME NEW args \in ArgLists, NEW data
    PROVE  \A l \in Seq(ConstEntry) : ConstsFrom(args, l, data).offset = TotalSize(l)
  <1> DEFINE B == {l \in Seq(ConstEntry) : ConstsFrom(args, l, data).offset = TotalSize(l)}
  <1>1. <<>> \in B
    BY WithNoConsts, TotalSizeFacts
  <1>2. ASSUME NEW l \in Seq(ConstEntry), NEW e \in ConstEntry, l \in B PROVE Append(l, e) \in B
    <2>1. ConstsFrom(args, Append(l, e), data) = Piece(data, ConstsFrom(args, l, data), e)
      BY ConstsFromAppend
    <2>2. ConstsFrom(args, Append(l, e), data).offset = ConstsFrom(args, l, data).offset + e.size
      BY <2>1 DEF Piece
    <2>3. TotalSize(Append(l, e)) = TotalSize(l) + e.size
      BY TotalSizeFacts
    <2>4. Append(l, e) \in Seq(ConstEntry)
      OBVIOUS
    <2> QED BY <1>2, <2>2, <2>3, <2>4
  <1>3. Seq(ConstEntry) \subseteq B
    <2> HIDE DEF B
    <2> QED BY <1>1, <1>2, ListInduction
  <1> QED BY <1>3

(* The last entry of a list is set from the piece behind those of the others. *)
LEMMA WithConstsAppend ==
    ASSUME NEW args \in ArgLists, NEW l \in Seq(ConstEntry), NEW e \in ConstEntry, NEW data
    PROVE  /\ WithConsts(args, l, data) \in [Args -> Pieces(data)]
           /\ WithConsts(args, Append(l, e), data) =
                [WithConsts(args, l, data) EXCEPT ![e.arg] =
                    SubSeq(data, TotalSize(l) + 1, TotalSize(l) + e.size)]
  <1>1. ConstsFrom(args, l, data) \in SoFar(data)
        /\ ConstsFrom(args, Append(l, e), data) = Piece(data, ConstsFrom(args, l, data), e)
    BY ConstsFromAppend
  <1>2. ConstsFrom(args, l, data).offset = TotalSize(l)
    BY OffsetIsTotal
  <1>3. Append(l, e) \in Seq(ConstEntry)
    OBVIOUS
  <1>4. WithConsts(args, l, data) = ConstsFrom(args, l, data).args
    BY WithConstsAccumulates
  <1>5. WithConsts(args, Append(l, e), data) = ConstsFrom(args, Append(l, e), data).args
    BY <1>3, WithConstsAccumulates
  <1>6. WithConsts(args, l, data) \in [Args -> Pieces(data)]
    BY <1>1, <1>4 DEF SoFar
  <1> DEFINE before == ConstsFrom(args, l, data)
             after == ConstsFrom(args, Append(l, e), data)
             total == TotalSize(l)
  <1>7. after = Piece(data, before, e) /\ before.offset = total
    BY <1>1, <1>2
  <1> HIDE DEF before, after, total
  <1>8. after.args = [before.args EXCEPT ![e.arg] = SubSeq(data, total + 1, total + e.size)]
    <2>1. Piece(data, before, e).args =
            [before.args EXCEPT ![e.arg] = SubSeq(data, before.offset + 1, before.offset + e.size)]
      BY DEF Piece
    <2> QED BY <1>7, <2>1
  <1>9. after.args = WithConsts(args, Append(l, e), data) /\ before.args = WithConsts(args, l, data)
    BY <1>4, <1>5 DEF before, after
  <1> QED BY <1>6, <1>8, <1>9 DEF total

-----------------------------------------------------------------------------
(* All arguments.                                                          *)

(* Pieces of data are data.                                                *)
LEMMA PieceOfData ==
    ASSUME NEW data \in Data, NEW i \in Nat, NEW n \in Nat, i + n <= Len(data)
    PROVE  SubSeq(data, i + 1, i + n) \in Data
  <1>1. Len(data) \in Nat /\ \A k \in 1 .. Len(data) : data[k] \in Values \X Nat
    BY ElementOfSeq, LenProperties DEF Data
  <1>2. \A k \in i + 1 .. i + n : k \in 1 .. Len(data)
    BY <1>1
  <1>3. SubSeq(data, i + 1, i + n) \in Seq(Values \X Nat)
    BY <1>1, <1>2, SubSeqProperties DEF Data
  <1> QED BY <1>3 DEF Data

(* If there are data for all entries, an argument is set to a value.       *)
LEMMA WithConstsType ==
    ASSUME NEW args \in ArgLists, NEW data \in Data
    PROVE  \A l \in Seq(ConstEntry) :
              TotalSize(l) <= Len(data) => WithConsts(args, l, data) \in ArgLists
  <1> DEFINE B == {l \in Seq(ConstEntry) : TotalSize(l) <= Len(data) => WithConsts(args, l, data) \in ArgLists}
  <1>1. <<>> \in B
    BY WithNoConsts
  <1>2. ASSUME NEW l \in Seq(ConstEntry), NEW e \in ConstEntry, l \in B PROVE Append(l, e) \in B
    <2> SUFFICES ASSUME TotalSize(Append(l, e)) <= Len(data)
                 PROVE  WithConsts(args, Append(l, e), data) \in ArgLists
      OBVIOUS
    <2>1. TotalSize(Append(l, e)) = TotalSize(l) + e.size /\ TotalSize(l) \in Nat /\ Len(data) \in Nat
          /\ e.size \in Nat
      BY TotalSizeFacts, LenProperties DEF Data, ConstEntry
    <2>2. TotalSize(l) + e.size <= Len(data) /\ TotalSize(l) <= Len(data)
      BY <2>1
    <2>3. WithConsts(args, l, data) \in ArgLists
      BY <1>2, <2>2
    <2>4. SubSeq(data, TotalSize(l) + 1, TotalSize(l) + e.size) \in ArgValues
      BY <2>1, <2>2, PieceOfData DEF ArgValues
    <2>5. WithConsts(args, Append(l, e), data) =
            [WithConsts(args, l, data) EXCEPT ![e.arg] =
                SubSeq(data, TotalSize(l) + 1, TotalSize(l) + e.size)]
      BY WithConstsAppend
    <2> QED BY <2>3, <2>4, <2>5 DEF ArgLists
  <1>3. Seq(ConstEntry) \subseteq B
    <2> HIDE DEF B
    <2> QED BY <1>1, <1>2, ListInduction
  <1> QED BY <1>3

(* Data behind those of the entries are not looked at.                     *)
LEMMA WithConstsLonger ==
    ASSUME NEW args \in ArgLists, NEW data \in Data, NEW more \in Data
    PROVE  \A l \in Seq(ConstEntry) :
              TotalSize(l) <= Len(data) => WithConsts(args, l, data \o more) = WithConsts(args, l, data)
  <1> DEFINE B == {l \in Seq(ConstEntry) : TotalSize(l) <= Len(data) =>
                        WithConsts(args, l, data \o more) = WithConsts(args, l, data)}
  <1>1. <<>> \in B
    BY WithNoConsts
  <1>2. ASSUME NEW l \in Seq(ConstEntry), NEW e \in ConstEntry, l \in B PROVE Append(l, e) \in B
    <2> SUFFICES ASSUME TotalSize(Append(l, e)) <= Len(data)
                 PROVE  WithConsts(args, Append(l, e), data \o more) = WithConsts(args, Append(l, e), data)
      OBVIOUS
    <2> DEFINE i == TotalSize(l) + 1
               j == TotalSize(l) + e.size
    <2>1. TotalSize(Append(l, e)) = TotalSize(l) + e.size /\ TotalSize(l) \in Nat /\ Len(data) \in Nat
          /\ e.size \in Nat /\ e.size # 0
      BY TotalSizeFacts, LenProperties DEF Data, ConstEntry
    <2>2. i \in 1 .. Len(data) + 1 /\ j \in i - 1 .. Len(data) /\ TotalSize(l) <= Len(data)
      BY <2>1
    <2>3. WithConsts(args, l, data \o more) = WithConsts(args, l, data)
      BY <1>2, <2>2
    <2>4. SubSeq(data \o more, i, j) = SubSeq(data, i, j)
      <3> HIDE DEF i, j
      <3> QED BY <2>2, SubSeqOfConcat1 DEF Data
    <2>5. WithConsts(args, Append(l, e), data) =
            [WithConsts(args, l, data) EXCEPT ![e.arg] = SubSeq(data, i, j)]
      BY WithConstsAppend
    <2>6. WithConsts(args, Append(l, e), data \o more) =
            [WithConsts(args, l, data \o more) EXCEPT ![e.arg] = SubSeq(data \o more, i, j)]
      BY WithConstsAppend
    <2> QED BY <2>3, <2>4, <2>5, <2>6
  <1>3. Seq(ConstEntry) \subseteq B
    <2> HIDE DEF B
    <2> QED BY <1>1, <1>2, ListInduction
  <1> QED BY <1>3

(* Setting different arguments commutes.                                   *)
LEMMA SetTwo ==
    ASSUME NEW f, NEW a, NEW b, a # b, NEW v, NEW w
    PROVE  [[f EXCEPT ![a] = v] EXCEPT ![b] = w] = [[f EXCEPT ![b] = w] EXCEPT ![a] = v]
  OBVIOUS

(* Whether a pointer is set before the constants or after makes no difference. *)
LEMMA WithConstsApart ==
    ASSUME NEW args \in ArgLists, NEW a \in PtrArgs, NEW v \in ArgValues, NEW data
    PROVE  \A l \in Seq(ConstEntry) :
              WithConsts([args EXCEPT ![a] = v], l, data) = [WithConsts(args, l, data) EXCEPT ![a] = v]
  <1> DEFINE other == [args EXCEPT ![a] = v]
             B == {l \in Seq(ConstEntry) : WithConsts(other, l, data) = [WithConsts(args, l, data) EXCEPT ![a] = v]}
  <1>0. other \in ArgLists
    BY DEF ArgLists
  <1>1. <<>> \in B
    BY <1>0, WithNoConsts
  <1>2. ASSUME NEW l \in Seq(ConstEntry), NEW e \in ConstEntry, l \in B PROVE Append(l, e) \in B
    <2> DEFINE piece == SubSeq(data, TotalSize(l) + 1, TotalSize(l) + e.size)
    <2> HIDE DEF other
    <2>1. e.arg # a
      BY ArgsAssumption DEF ConstEntry
    <2>2. WithConsts(args, Append(l, e), data) = [WithConsts(args, l, data) EXCEPT ![e.arg] = piece]
      BY WithConstsAppend
    <2>3. WithConsts(other, Append(l, e), data) = [WithConsts(other, l, data) EXCEPT ![e.arg] = piece]
      BY <1>0, WithConstsAppend
    <2>4. Append(l, e) \in Seq(ConstEntry) /\ WithConsts(other, l, data) = [WithConsts(args, l, data) EXCEPT ![a] = v]
      BY <1>2
    <2> HIDE DEF piece
    <2> QED BY <2>1, <2>2, <2>3, <2>4, SetTwo
  <1>3. Seq(ConstEntry) \subseteq B
    <2> HIDE DEF B
    <2> QED BY <1>1, <1>2, ListInduction
  <1> QED BY <1>3

\* A request's or a kernel's lists are of their types and there are data for the entries.
ListsMatch(l) ==
    /\ l.mems \in Seq(MemEntry) /\ l.consts \in Seq(ConstEntry) /\ l.data \in Data
    /\ l.consts # <<>> => TotalSize(l.consts) = Len(l.data)

(* Memory objects are values.                                              *)
LEMMA WithMemsType ==
    ASSUME NEW args \in ArgLists, NEW list \in Seq(MemEntry)
    PROVE  WithMems(args, list) \in ArgLists
  <1>1. CASE list = <<>>
    BY <1>1, WithNoMems
  <1>2. CASE list # <<>>
    <2>1. PICK h \in Seq(MemEntry), e \in MemEntry : list = Append(h, e)
      BY <1>2, SequenceEmptyOrAppend
    <2>2. [WithMems(args, h) EXCEPT ![e.arg] = e.mem] \in ArgLists
      BY WithMemsAppend DEF ArgLists, MemEntry, Args, ArgValues
    <2> QED BY <2>1, <2>2, WithMemsAppend
  <1> QED BY <1>1, <1>2

(* What changes the arguments makes arguments of them.                     *)
LEMMA ChangedType ==
    ASSUME NEW args \in ArgLists, NEW l, ListsMatch(l)
    PROVE  Changed(args, l) \in ArgLists
  <1>1. WithMems(args, l.mems) \in ArgLists
    BY WithMemsType DEF ListsMatch
  <1>2. TotalSize(l.consts) <= Len(l.data)
    <2>1. Len(l.data) \in Nat
      BY LenProperties DEF ListsMatch, Data
    <2>2. CASE l.consts = <<>>
      BY <2>1, <2>2, TotalSizeFacts
    <2>3. CASE l.consts # <<>>
      BY <2>1, <2>3 DEF ListsMatch
    <2> QED BY <2>2, <2>3
  <1> QED BY <1>1, <1>2, WithConstsType DEF Changed, ListsMatch

(* Empty lists change nothing.                                             *)
LEMMA ChangedByNothing ==
    ASSUME NEW args \in ArgLists
    PROVE  Changed(args, NothingPending) = args
  BY WithNoMems, WithNoConsts DEF Changed, NothingPending

(* A pointer more sets one argument more.                                  *)
LEMMA ChangedByPointer ==
    ASSUME NEW args \in ArgLists, NEW l, ListsMatch(l), NEW e \in MemEntry,
           NEW k, k.mems = Append(l.mems, e), k.consts = l.consts, k.data = l.data
    PROVE  Changed(args, k) = [Changed(args, l) EXCEPT ![e.arg] = e.mem]
  <1> DEFINE before == WithMems(args, l.mems)
  <1>1. before \in ArgLists /\ WithMems(args, k.mems) = [before EXCEPT ![e.arg] = e.mem]
    BY WithMemsAppend DEF ListsMatch
  <1> HIDE DEF before
  <1>2. e.arg \in PtrArgs /\ e.mem \in ArgValues
    BY DEF MemEntry, ArgValues
  <1>3. WithConsts([before EXCEPT ![e.arg] = e.mem], l.consts, l.data) =
            [WithConsts(before, l.consts, l.data) EXCEPT ![e.arg] = e.mem]
    BY <1>1, <1>2, WithConstsApart DEF ListsMatch
  <1> QED BY <1>1, <1>3 DEF Changed, before

(* What is appended to data is their last piece.                           *)
LEMMA LastPiece ==
    ASSUME NEW data \in Data, NEW piece \in Data, Len(piece) # 0
    PROVE  SubSeq(data \o piece, Len(data) + 1, Len(data) + Len(piece)) = piece
  <1> DEFINE n == Len(data)
             m == Len(piece)
  <1>1. data \in Seq(Values \X Nat) /\ piece \in Seq(Values \X Nat) /\ n \in Nat /\ m \in Nat /\ m # 0
    BY LenProperties DEF Data
  <1>2. n + 1 \in n + 1 .. n + m /\ n + m \in n + 1 .. n + m /\ n + 1 - n = 1 /\ n + m - n = m
    BY <1>1
  <1>3. SubSeq(data \o piece, n + 1, n + m) = SubSeq(piece, n + 1 - n, n + m - n)
    BY <1>1, <1>2, SubSeqOfConcat2
  <1>4. SubSeq(piece, 1, m) = piece
    BY <1>1, SubSeqFull
  <1> QED BY <1>2, <1>3, <1>4

(* A constant more sets one argument more.                                 *)
LEMMA ChangedByConst ==
    ASSUME NEW args \in ArgLists, NEW l, ListsMatch(l), TotalSize(l.consts) = Len(l.data),
           NEW e \in ConstEntry, NEW piece \in Data, Len(piece) = e.size,
           NEW k, k.mems = l.mems, k.consts = Append(l.consts, e), k.data = l.data \o piece
    PROVE  Changed(args, k) = [Changed(args, l) EXCEPT ![e.arg] = piece]
  <1> DEFINE with == WithMems(args, l.mems)
             n == Len(l.data)
  <1>1. with \in ArgLists
    BY WithMemsType DEF ListsMatch
  <1>2. n \in Nat /\ e.size \in Nat /\ e.size # 0
    BY LenProperties DEF ListsMatch, Data, ConstEntry
  <1>3. SubSeq(l.data \o piece, n + 1, n + e.size) = piece
    <2>1. l.data \in Data
      BY DEF ListsMatch
    <2> QED BY <1>2, <2>1, LastPiece
  <1>4. WithConsts(with, l.consts, l.data \o piece) = WithConsts(with, l.consts, l.data)
    <2>1. TotalSize(l.consts) <= Len(l.data)
      BY <1>2
    <2> HIDE DEF with
    <2> QED BY <1>1, <2>1, WithConstsLonger DEF ListsMatch
  <1>5. WithConsts(with, Append(l.consts, e), l.data \o piece) =
            [WithConsts(with, l.consts, l.data \o piece) EXCEPT ![e.arg] =
                SubSeq(l.data \o piece, TotalSize(l.consts) + 1, TotalSize(l.consts) + e.size)]
    <2> HIDE DEF with
    <2>1. l.consts \in Seq(ConstEntry)
      BY DEF ListsMatch
    <2> QED BY <1>1, <2>1, WithConstsAppend
  <1>6. WithConsts(with, Append(l.consts, e), l.data \o piece) = [WithConsts(with, l.consts, l.data) EXCEPT ![e.arg] = piece]
    BY <1>3, <1>4, <1>5
  <1> QED BY <1>6 DEF Changed

-----------------------------------------------------------------------------
(* Messages.                                                               *)

(* Quotient and remainder.                                                 *)
LEMMA Division ==
    ASSUME NEW n \in Nat, NEW p \in Nat, p # 0
    PROVE  /\ n \div p \in Nat /\ n % p \in Nat /\ n % p < p
           /\ n = p * (n \div p) + (n % p)
  OBVIOUS

(* A remainder is no larger than what it is one of.                        *)
LEMMA RemainderBound ==
    ASSUME NEW n \in Nat, NEW p \in Nat, p # 0
    PROVE  n % p \in 0 .. p - 1 /\ n % p \in 0 .. n
  <1> DEFINE d == p * (n \div p)
             r == n % p
  <1>1. n \div p \in Nat /\ r \in Nat /\ r < p /\ n = d + r
    BY Division
  <1>2. d \in Nat
    BY <1>1
  <1> HIDE DEF d, r
  <1>3. r \in 0 .. p - 1 /\ r \in 0 .. n
    BY <1>1, <1>2
  <1> QED BY <1>3 DEF r

(* What fits into one message.                                             *)
LEMMA InFirst ==
    ASSUME NEW n \in Nat, NEW p \in Nat, n < p
    PROVE  n % p = n
  OBVIOUS

(* A larger multiple is one of a larger number.                            *)
LEMMA Multiples ==
    ASSUME NEW q \in Nat, NEW m \in Nat, NEW p \in Nat, p # 0, p * q < p * m
    PROVE  q < m
  OBVIOUS

(* The message entry j is in, and its place there.                         *)
LEMMA EntryPlace ==
    ASSUME NEW p \in Nat, p # 0, NEW n \in Nat, NEW j \in 1 .. n
    PROVE  /\ MessagesFor(n, p) \in Nat
           /\ (j - 1) \div p + 1 \in 1 .. MessagesFor(n, p)
           /\ ((j - 1) % p) + 1 \in 1 .. p
           /\ ((j - 1) % p) + 1 <= j
           /\ j = ((j - 1) \div p) * p + ((j - 1) % p) + 1
  <1> DEFINE q == (j - 1) \div p
             r == (j - 1) % p
             k == n + p - 1
             m == k \div p
             s == k % p
  <1>1. j - 1 \in Nat /\ k \in Nat /\ j - 1 < n
    OBVIOUS
  <1>2. q \in Nat /\ r \in Nat /\ r < p /\ j - 1 = p * q + r
    BY <1>1, Division
  <1>3. m \in Nat /\ s \in Nat /\ s < p /\ k = p * m + s
    BY <1>1, Division
  <1>4. k = n + p - 1
    OBVIOUS
  <1> HIDE DEF q, r, m, s, k
  <1>5. p * q \in Nat /\ p * m \in Nat
    BY <1>2, <1>3
  <1>6. p * q < p * m
    BY <1>1, <1>2, <1>3, <1>4, <1>5
  <1>7. q < m
    BY <1>2, <1>3, <1>6, Multiples
  <1>8. r + 1 \in 1 .. p /\ r + 1 <= j /\ j = q * p + r + 1
    BY <1>1, <1>2, <1>5
  <1>9. q + 1 \in 1 .. m
    BY <1>2, <1>3, <1>7
  <1>10. m = MessagesFor(n, p)
    BY DEF MessagesFor, m, k
  <1> QED BY <1>3, <1>8, <1>9, <1>10 DEF q, r

(* The memory arguments a handler collects are those of the client, as far as it counts. *)
LEMMA CollectMems ==
    ASSUME NEW S, NEW list \in Seq(S), NEW n \in 0 .. Len(list)
    PROVE  /\ Len(MemMessages(list)) = MessagesFor(Len(list), MemsPerMsg)
           /\ MemMessages(list) \in Seq(Seq(S))
           /\ Collect(MemMessages(list), n, MemsPerMsg) \in Seq(S)
           /\ n = Len(list) => Collect(MemMessages(list), n, MemsPerMsg) = list
  <1> DEFINE p == MemsPerMsg
             len == Len(list)
             M == MessagesFor(len, p)
             msgs == MemMessages(list)
             all == Collect(msgs, n, p)
  <1>1. p \in Nat /\ p # 0 /\ len \in Nat /\ \A i \in 1 .. len : list[i] \in S
    BY SizesAssumption, ElementOfSeq, LenProperties
  <1>2. M \in Nat
    <2>1. len + p - 1 \in Nat
      BY <1>1
    <2> QED BY <1>1, <2>1, Division DEF MessagesFor
  <1>3. ASSUME NEW i \in 1 .. M
        PROVE  /\ msgs[i] \in Seq(S)
               /\ \A k \in 1 .. p : (i - 1) * p + k <= len => msgs[i][k] = list[(i - 1) * p + k]
    <2> DEFINE from == (i - 1) * p
               to == Smaller(i * p, len)
    <2>1. from \in Nat /\ i * p = from + p
      BY <1>1, <1>2
    <2>2. to \in Nat /\ to <= len /\ \A k \in 1 .. p : from + k <= len => from + k <= to
      BY <1>1, <2>1 DEF Smaller
    <2>3. msgs[i] = SubSeq(list, from + 1, to)
      BY DEF MemMessages
    <2> HIDE DEF from, to
    <2>4. from + 1 \in Int /\ to \in Int /\ \A k \in from + 1 .. to : list[k] \in S
      BY <1>1, <2>1, <2>2
    <2>5. /\ SubSeq(list, from + 1, to) \in Seq(S)
          /\ \A k \in 1 .. to - (from + 1) + 1 : SubSeq(list, from + 1, to)[k] = list[from + 1 + k - 1]
      BY <2>4, SubSeqProperties
    <2>6. ASSUME NEW k \in 1 .. p, from + k <= len
          PROVE  SubSeq(list, from + 1, to)[k] = list[from + k]
      <3>1. k \in 1 .. to - (from + 1) + 1 /\ from + 1 + k - 1 = from + k
        BY <1>1, <2>1, <2>2, <2>6
      <3> QED BY <2>5, <3>1
    <2> QED BY <2>3, <2>5, <2>6 DEF from
  <1>4. Len(msgs) = M /\ msgs \in Seq(Seq(S))
    <2>1. msgs = [i \in 1 .. M |-> msgs[i]]
      BY DEF MemMessages
    <2> HIDE DEF msgs, M
    <2> QED BY <1>2, <1>3, <2>1
  <1>5. ASSUME NEW j \in 1 .. n PROVE all[j] = list[j]
    <2> DEFINE q == (j - 1) \div p
               r == (j - 1) % p
    <2>1. all[j] = msgs[q + 1][r + 1]
      BY DEF Collect
    <2>2. j \in 1 .. len
      BY <1>1
    <2>3. q + 1 \in 1 .. M /\ r + 1 \in 1 .. p /\ j = q * p + r + 1 /\ q \in Nat /\ r \in Nat
      <3>1. j - 1 \in Nat
        BY <2>2
      <3> QED BY <1>1, <2>2, <3>1, EntryPlace, Division
    <2> HIDE DEF q, r, msgs, all
    <2> DEFINE i == q + 1
               k == r + 1
    <2>4. i \in 1 .. M /\ k \in 1 .. p /\ (i - 1) * p + k = j
      BY <1>1, <2>3
    <2>5. all[j] = msgs[i][k]
      BY <2>1
    <2> HIDE DEF i, k
    <2>6. msgs[i][k] = list[(i - 1) * p + k]
      BY <1>1, <1>3, <2>2, <2>4
    <2> QED BY <2>4, <2>5, <2>6
  <1>6. n \in Nat /\ n <= len
    BY <1>1
  <1>7. all \in Seq(S) /\ Len(all) = n
    <2>1. \A j \in 1 .. n : list[j] \in S
      BY <1>1, <1>6
    <2>2. all = [j \in 1 .. n |-> all[j]]
      BY DEF Collect
    <2> HIDE DEF all
    <2> QED BY <1>5, <1>6, <2>1, <2>2, IsASeq
  <1>8. n = len => all = list
    <2> HIDE DEF all
    <2> QED BY <1>5, <1>7, SeqEqual
  <1> QED BY <1>4, <1>7, <1>8

(* The constants a handler collects are entries of the client, and all of them if they fit one
   message and their number one byte.                                      *)
LEMMA CollectConsts ==
    ASSUME NEW S, NEW list \in Seq(S)
    PROVE  LET all == Collect(ConstMessages(list), Len(list) % ByteRange, ConstsPerMsg)
           IN /\ ConstMessages(list) \in Seq(Seq(S))
              /\ all \in Seq(S)
              /\ Len(list) < ByteRange /\ Len(list) <= ConstsPerMsg => all = list
  <1> DEFINE p == ConstsPerMsg
             len == Len(list)
             n == len % ByteRange
             M == MessagesFor(n, p)
             msgs == ConstMessages(list)
             all == Collect(msgs, n, p)
  <1>1. /\ p \in Nat /\ p # 0 /\ len \in Nat /\ ByteRange \in Nat /\ ByteRange # 0
        /\ \A i \in 1 .. len : list[i] \in S
    BY SizesAssumption, ElementOfSeq, LenProperties
  <1>2. n \in Nat /\ n <= len /\ (len < ByteRange => n = len)
    <2>1. /\ len \div ByteRange \in Nat /\ n \in Nat /\ n < ByteRange
          /\ len = ByteRange * (len \div ByteRange) + n
      BY <1>1, Division
    <2> DEFINE d == ByteRange * (len \div ByteRange)
    <2>2. d \in Nat /\ len = d + n
      BY <1>1, <2>1
    <2>3. len < ByteRange => n = len
      BY <1>1, InFirst
    <2> HIDE DEF d, n
    <2> QED BY <1>1, <2>1, <2>2, <2>3
  <1> HIDE DEF n
  <1>3. M \in Nat
    <2>1. n + p - 1 \in Nat
      BY <1>1, <1>2
    <2> QED BY <1>1, <2>1, Division DEF MessagesFor
  <1> DEFINE to == Smaller(p, len)
             first == SubSeq(list, 1, to)
  <1>4. /\ to \in Nat /\ to <= len /\ to <= p /\ \A k \in 1 .. p : k <= len => k <= to
        /\ (len <= p => to = len)
    BY <1>1 DEF Smaller
  <1>5. first \in Seq(S) /\ \A k \in 1 .. to : first[k] = list[k]
    <2> HIDE DEF to
    <2>1. 1 \in Int /\ to \in Int /\ (\A k \in 1 .. to : list[k] \in S)
          /\ to - 1 + 1 = to /\ \A k \in 1 .. to : 1 + k - 1 = k
      BY <1>1, <1>4
    <2>2. /\ SubSeq(list, 1, to) \in Seq(S)
          /\ \A k \in 1 .. to - 1 + 1 : SubSeq(list, 1, to)[k] = list[1 + k - 1]
      BY <2>1, SubSeqProperties
    <2> QED BY <2>1, <2>2
  <1>6. msgs = [i \in 1 .. M |-> first]
    BY DEF ConstMessages, n
  <1> HIDE DEF to, first, msgs, M
  <1>7. msgs \in Seq(Seq(S))
    BY <1>3, <1>5, <1>6
  <1>8. ASSUME NEW j \in 1 .. n
        PROVE  /\ all[j] \in S
               /\ n <= p => all[j] = list[j]
    <2> DEFINE q == (j - 1) \div p
               r == (j - 1) % p
               i == q + 1
               k == r + 1
    <2>1. all[j] = msgs[i][k]
      BY DEF Collect
    <2>2. i \in 1 .. M /\ k \in 1 .. p /\ k <= j
      BY <1>1, <1>2, EntryPlace DEF M
    <2>3. n <= p => k = j
      <3>1. j - 1 \in Nat /\ (n <= p => j - 1 < p)
        BY <1>1, <1>2
      <3>2. n <= p => (j - 1) % p = j - 1
        BY <1>1, <3>1, InFirst
      <3>3. j - 1 + 1 = j
        BY <1>2
      <3> QED BY <3>2, <3>3
    <2> HIDE DEF i, k, all
    <2>4. k \in 1 .. to
      BY <1>1, <1>2, <1>4, <2>2
    <2>5. all[j] = first[k]
      BY <1>6, <2>1, <2>2
    <2>6. first[k] = list[k] /\ list[k] \in S
      BY <1>1, <1>4, <1>5, <2>4
    <2> QED BY <2>3, <2>5, <2>6
  <1>9. all \in Seq(S) /\ Len(all) = n
    <2>1. all = [j \in 1 .. n |-> all[j]]
      BY DEF Collect
    <2> HIDE DEF all
    <2> QED BY <1>2, <1>8, <2>1
  <1>10. ASSUME len < ByteRange, len <= p PROVE all = list
    <2> HIDE DEF all, len
    <2>1. n = len /\ n <= p
      BY <1>2, <1>10
    <2>2. \A j \in 1 .. n : all[j] = list[j]
      BY <1>8, <2>1
    <2>3. Len(all) = Len(list)
      BY <1>9, <2>1 DEF len
    <2> QED BY <1>9, <2>2, <2>3, SeqEqual
  <1> QED BY <1>7, <1>9, <1>10 DEF msgs, n

-----------------------------------------------------------------------------
(* What the types say.                                                     *)

(* What is assumed of the constants.                                       *)
LEMMA Constants ==
    /\ \A a \in ConstArgs : SizeOf[a] \in Nat \ {0}
    /\ MemsPerMsg \in Nat \ {0} /\ ConstsPerMsg \in Nat \ {0} /\ ByteRange \in Nat \ {0}
    /\ MaxKernels \in Nat
  BY ArgsAssumption, SizesAssumption, BoundsAssumption

(* The kernels, what is noted for each and what each has on the device.    *)
LEMMA KernelTypes ==
    ASSUME TypeOK
    PROVE  /\ Len(pending) \in Nat /\ Kernels = 1 .. Len(pending)
           /\ \A k \in Kernels : k \in Nat /\ pending[k] \in Lists /\ onDev[k] \in ArgLists
           /\ DOMAIN onDev = Kernels
  BY ElementOfSeq, LenProperties DEF TypeOK, Kernels

(* The lists noted for a kernel match.                                     *)
LEMMA PendingMatches ==
    ASSUME TypeOK, NEW k \in Kernels
    PROVE  ListsMatch(pending[k])
  <1>1. pending[k] \in Lists /\ TotalSize(pending[k].consts) = Len(pending[k].data)
    BY KernelTypes DEF TypeOK
  <1> QED BY <1>1 DEF ListsMatch, Lists

(* So do those of a command.                                               *)
LEMMA CommandMatches ==
    ASSUME NEW c \in Commands, AssertsHold(c)
    PROVE  ListsMatch(c)
  BY DEF ListsMatch, Commands, AssertsHold

(* Lists without entries.                                                  *)
LEMMA NothingIsList == NothingPending \in Lists /\ TotalSize(NothingPending.consts) = Len(NothingPending.data)
  <1>1. NothingPending \in Lists
    BY DEF NothingPending, Lists, Data
  <1> QED BY <1>1, TotalSizeFacts DEF NothingPending

(* The bytes of a value.                                                   *)
LEMMA BytesFacts ==
    ASSUME NEW v \in Values, NEW n \in Nat
    PROVE  Bytes(v, n) \in Data /\ Len(Bytes(v, n)) = n
  <1>1. \A i \in 1 .. n : <<v, i>> \in Values \X Nat
    OBVIOUS
  <1> QED BY <1>1 DEF Bytes, Data

(* The arguments the application has set are arguments.                    *)
LEMMA AskedTypes ==
    ASSUME TypeOK, Counted, NEW k \in Kernels
    PROVE  /\ asked.set[k] \in ArgLists
           /\ asked.consts[k] = Len(pending[k].consts) /\ asked.bytes[k] = Len(pending[k].data)
           /\ asked.mems[k] = Len(pending[k].mems) /\ Len(pending[k].consts) <= Len(pending[k].data)
  <1>1. asked.set \in Seq(ArgLists) /\ DOMAIN asked.set = Kernels
    BY DEF Counted
  <1>2. asked.set[k] \in ArgLists
    BY <1>1, ElementOfSeq, LenProperties
  <1> QED BY <1>2 DEF Counted

(* What a request consists of, and what the handler makes of it.           *)
LEMMA RequestTypes ==
    ASSUME TypeOK, Counted, NEW k \in Kernels, NEW l \in Lists
    PROVE  /\ Request(k, l) \in Requests
           /\ CommandFor(Request(k, l)) \in Commands
  <1> DEFINE r == Request(k, l)
  <1>1. /\ l.mems \in Seq(MemEntry) /\ l.consts \in Seq(ConstEntry) /\ l.data \in Data
        /\ Len(l.mems) \in Nat /\ Len(l.consts) \in Nat
    BY LenProperties DEF Lists
  <1>2. /\ Len(l.mems) % ByteRange \in 0 .. ByteRange - 1 /\ Len(l.mems) % ByteRange \in 0 .. Len(l.mems)
        /\ Len(l.consts) % ByteRange \in Nat
    <2>1. ByteRange \in Nat /\ ByteRange # 0
      BY Constants
    <2>2. \A n \in Nat : n % ByteRange \in 0 .. ByteRange - 1 /\ n % ByteRange \in 0 .. n
      BY <2>1, RemainderBound
    <2>3. \A n \in Nat : n % ByteRange \in Nat
      BY <2>1
    <2> QED BY <1>1, <2>2, <2>3
  <1>3. /\ MemMessages(l.mems) \in Seq(Seq(MemEntry))
        /\ Collect(MemMessages(l.mems), Len(l.mems) % ByteRange, MemsPerMsg) \in Seq(MemEntry)
    <2> DEFINE n == Len(l.mems) % ByteRange
    <2>1. n \in 0 .. Len(l.mems) /\ l.mems \in Seq(MemEntry)
      BY <1>1, <1>2
    <2> HIDE DEF n
    <2>2. /\ MemMessages(l.mems) \in Seq(Seq(MemEntry))
          /\ Collect(MemMessages(l.mems), n, MemsPerMsg) \in Seq(MemEntry)
      BY <2>1, CollectMems
    <2> QED BY <2>2 DEF n
  <1>4. /\ ConstMessages(l.consts) \in Seq(Seq(ConstEntry))
        /\ Collect(ConstMessages(l.consts), Len(l.consts) % ByteRange, ConstsPerMsg) \in Seq(ConstEntry)
    BY <1>1, CollectConsts
  <1>5. asked.set[k] \in ArgLists
    BY AskedTypes
  <1>6. storage \in 1 .. storage
    <2>1. Len(pending) >= 1 /\ Len(pending) \in Nat
      BY KernelTypes
    <2> QED BY <2>1 DEF TypeOK
  <1>7. r \in Requests
    BY <1>1, <1>2, <1>3, <1>4, <1>5 DEF Request, Requests
  <1>8. /\ r.kernel = k /\ r.data = l.data /\ r.want = asked.set[k]
        /\ r.memMsgs = MemMessages(l.mems) /\ r.memCount = Len(l.mems) % ByteRange
        /\ r.constMsgs = ConstMessages(l.consts) /\ r.constCount = Len(l.consts) % ByteRange
    BY DEF Request
  <1> HIDE DEF r
  <1>9. CommandFor(r) \in Commands
    BY <1>1, <1>3, <1>4, <1>5, <1>6, <1>8 DEF CommandFor, Commands
  <1> QED BY <1>7, <1>9 DEF r

(* Within the limits of a message and a byte the handler gets what was noted. *)
LEMMA RequestArrives ==
    ASSUME TypeOK, Counted, NEW k \in Kernels, NEW l \in Lists,
           Len(l.mems) < ByteRange, Len(l.consts) < ByteRange, Len(l.consts) <= ConstsPerMsg,
           Len(l.data) < ByteRange
    PROVE  /\ InStep(Request(k, l))
           /\ CommandFor(Request(k, l)) =
                [kernel |-> k, storage |-> storage, data |-> l.data, want |-> asked.set[k],
                 mems |-> l.mems, consts |-> l.consts]
  <1> DEFINE r == Request(k, l)
  <1>1. /\ l.mems \in Seq(MemEntry) /\ l.consts \in Seq(ConstEntry) /\ l.data \in Data
        /\ Len(l.mems) \in Nat /\ Len(l.consts) \in Nat /\ Len(l.data) \in Nat
    BY LenProperties DEF Lists, Data
  <1>2. Len(l.mems) % ByteRange = Len(l.mems) /\ Len(l.data) % ByteRange = Len(l.data)
    BY <1>1, Constants, InFirst
  <1>3. Len(l.mems) \in 0 .. Len(l.mems)
    BY <1>1
  <1>4. /\ Len(MemMessages(l.mems)) = MessagesFor(Len(l.mems), MemsPerMsg)
        /\ Collect(MemMessages(l.mems), Len(l.mems), MemsPerMsg) = l.mems
    BY <1>1, <1>3, CollectMems
  <1>5. Collect(ConstMessages(l.consts), Len(l.consts) % ByteRange, ConstsPerMsg) = l.consts
    BY <1>1, CollectConsts
  <1>6. /\ r.kernel = k /\ r.data = l.data /\ r.want = asked.set[k]
        /\ r.memMsgs = MemMessages(l.mems) /\ r.memCount = Len(l.mems) % ByteRange
        /\ r.constMsgs = ConstMessages(l.consts) /\ r.constCount = Len(l.consts) % ByteRange
    BY DEF Request
  <1> HIDE DEF r
  <1>7. InStep(r)
    BY <1>2, <1>4, <1>6 DEF InStep, SizeRead
  <1>8. CommandFor(r) = [kernel |-> k, storage |-> storage, data |-> l.data, want |-> asked.set[k],
                         mems |-> l.mems, consts |-> l.consts]
    BY <1>2, <1>4, <1>5, <1>6 DEF CommandFor
  <1> QED BY <1>7, <1>8 DEF r

-----------------------------------------------------------------------------
(* Types and counts are kept.                                              *)

\* What an action does not change of the client's and the device's side.
Kept == UNCHANGED <<pending, capacity, storage, onDev>>

(* Kernels and commands are of the same types as before.                   *)
LEMMA SameTypes ==
    ASSUME Kept
    PROVE  Kernels' = Kernels /\ Commands' = Commands /\ Requests' = Requests
           /\ \A r : CommandFor(r)' = CommandFor(r)
  BY DEF Kept, Kernels, Commands, Requests, CommandFor

(* Kernels and the storage of the vector of them are numbered from one.    *)
LEMMA Numbers ==
    ASSUME TypeOK
    PROVE  /\ Len(pending) \in Nat /\ storage \in Nat /\ storage <= Len(pending) /\ capacity \in Nat
           /\ Len(onDev) = Len(pending) /\ Len(pending) <= capacity
           /\ Len(pending) > 0 => storage > 0
  <1>1. Len(pending) \in Nat
    BY KernelTypes
  <1> QED BY <1>1 DEF TypeOK

(* Types hold at the beginning.                                            *)
LEMMA InitTypes ==
    ASSUME Init
    PROVE  TypeOK /\ Counted
  <1>1. Kernels = {} /\ Len(pending) = 0
    BY DEF Init, Kernels
  <1>2. TypeOK
    BY <1>1, Constants DEF Init, TypeOK
  <1>3. Counted
    BY <1>1 DEF Init, Counted
  <1> QED BY <1>2, <1>3

\* t is s with e behind it.
Extends(t, s, e, n) ==
    /\ DOMAIN s = 1 .. n /\ DOMAIN t = 1 .. n + 1 /\ t[n + 1] = e
    /\ \A k \in 1 .. n : t[k] = s[k]

(* What Append does to the places of a sequence.                           *)
LEMMA AppendExtends ==
    ASSUME NEW S, NEW s \in Seq(S), NEW e \in S
    PROVE  Extends(Append(s, e), s, e, Len(s)) /\ Append(s, e) \in Seq(S)
  BY AppendProperties, LenProperties DEF Extends

(* CreateKernel.                                                           *)
LEMMA CreateTypes ==
    ASSUME TypeOK, Counted, CreateKernel
    PROVE  TypeOK' /\ Counted'
  <1> DEFINE n == Len(pending)
  <1>1. /\ n \in Nat /\ storage \in Nat /\ storage <= n /\ capacity \in Nat /\ Len(onDev) = n
        /\ n <= capacity /\ (n > 0 => storage > 0) /\ MaxKernels \in Nat /\ n < MaxKernels
        /\ (capacity > 0 => storage > 0)
    BY Numbers, Constants DEF CreateKernel, TypeOK
  <1>2. pending \in Seq(Lists) /\ onDev \in Seq(ArgLists) /\ NoArgs \in ArgLists /\ NothingPending \in Lists
    BY NothingIsList DEF TypeOK, NoArgs, ArgLists, ArgValues
  <1>3. /\ pending' \in Seq(Lists) /\ Len(pending') = n + 1 /\ pending'[n + 1] = NothingPending
        /\ \A k \in 1 .. n : pending'[k] = pending[k]
    BY <1>2, AppendProperties DEF CreateKernel
  <1>4. onDev' \in Seq(ArgLists) /\ Len(onDev') = n + 1
    BY <1>1, <1>2, AppendProperties DEF CreateKernel
  <1>5. Kernels = 1 .. n /\ Kernels' = 1 .. n + 1
    BY <1>1, <1>2, <1>3, LenProperties DEF Kernels
  <1>6. \A k \in Kernels' : TotalSize(pending'[k].consts) = Len(pending'[k].data)
    <2>1. ASSUME NEW k \in 1 .. n + 1 PROVE TotalSize(pending'[k].consts) = Len(pending'[k].data)
      <3>1. CASE k \in 1 .. n
        BY <1>3, <1>5, <3>1 DEF TypeOK
      <3>2. CASE k = n + 1
        BY <1>3, <3>2, NothingIsList
      <3> QED BY <1>1, <3>1, <3>2
    <2> QED BY <1>5, <2>1
  <1>7. /\ capacity' \in Nat /\ n + 1 <= capacity' /\ storage' \in 0 .. n + 1
        /\ (capacity' > 0 => storage' > 0) /\ storage <= storage'
    <2>1. CASE Len(onDev) = capacity
      <3>1. capacity' = (IF capacity = 0 THEN 1 ELSE 2 * capacity) /\ storage' = storage + 1
        BY <2>1 DEF CreateKernel
      <3> QED BY <1>1, <2>1, <3>1
    <2>2. CASE Len(onDev) # capacity
      <3>1. capacity' = capacity /\ storage' = storage
        BY <2>2 DEF CreateKernel
      <3> QED BY <1>1, <2>2, <3>1
    <2> QED BY <2>1, <2>2
  <1>8. main = <<>> /\ main' = <<>> /\ commands' = commands /\ UNCHANGED <<cn, client>>
    BY DEF CreateKernel
  <1>9. commands' \in Seq(Commands')
    <2>1. \A c : c \in Commands => c \in Commands'
      <3>1. 1 .. storage \subseteq 1 .. storage' /\ Kernels \subseteq Kernels'
        BY <1>1, <1>5, <1>7
      <3> QED BY <3>1 DEF Commands
    <2> QED BY <1>8, <2>1, SeqMonotonic DEF TypeOK
  <1>10. TypeOK'
    <2>1. /\ cn' \in {"up", "aborted", "garbled"} /\ client' \in {"up", "dead"}
          /\ \A i \in DOMAIN commands' : AssertsHold(commands'[i])
      BY <1>8 DEF TypeOK
    <2>2. Len(pending') <= MaxKernels /\ Len(onDev') = Len(pending') /\ Len(pending') <= capacity'
          /\ storage' \in 0 .. Len(pending')
      BY <1>1, <1>3, <1>4, <1>7
    <2>3. main' \in Seq(Requests') /\ \A i \in DOMAIN main' : (CommandFor(main[i]) \in Commands)'
      BY <1>8
    <2> QED BY <1>3, <1>4, <1>6, <1>7, <1>9, <2>1, <2>2, <2>3 DEF TypeOK
  <1>11. /\ asked.set \in Seq(ArgLists) /\ asked.consts \in Seq(Nat) /\ asked.bytes \in Seq(Nat)
         /\ asked.mems \in Seq(Nat) /\ asked.runs \in Nat /\ asked.calls \in Nat
         /\ asked.overLimit \in BOOLEAN /\ asked.createdLate \in BOOLEAN /\ asked.unsent \in BOOLEAN
         /\ DOMAIN asked.set = Kernels /\ DOMAIN asked.consts = Kernels /\ DOMAIN asked.bytes = Kernels
         /\ DOMAIN asked.mems = Kernels
    BY DEF Counted
  <1>12. Len(asked.set) = n /\ Len(asked.consts) = n /\ Len(asked.bytes) = n /\ Len(asked.mems) = n
    BY <1>1, <1>5, <1>11, LenProperties
  <1>13. asked' = [asked EXCEPT !.set = Append(asked.set, NoArgs), !.consts = Append(asked.consts, 0),
                                !.bytes = Append(asked.bytes, 0), !.mems = Append(asked.mems, 0),
                                !.createdLate = asked.createdLate \/ asked.runs > 0]
    BY DEF CreateKernel
  <1>14. /\ asked'.set = Append(asked.set, NoArgs) /\ asked'.consts = Append(asked.consts, 0)
         /\ asked'.bytes = Append(asked.bytes, 0) /\ asked'.mems = Append(asked.mems, 0)
         /\ asked'.runs = asked.runs
    BY <1>13 DEF Counted
  <1>15. /\ Extends(asked'.set, asked.set, NoArgs, n) /\ Extends(asked'.consts, asked.consts, 0, n)
         /\ Extends(asked'.bytes, asked.bytes, 0, n) /\ Extends(asked'.mems, asked.mems, 0, n)
    <2>1. \A s \in Seq(Nat) : Extends(Append(s, 0), s, 0, Len(s))
      BY AppendExtends
    <2>2. Extends(asked'.set, asked.set, NoArgs, n)
      BY <1>2, <1>11, <1>12, <1>14, AppendExtends
    <2> QED BY <1>11, <1>12, <1>14, <2>1, <2>2
  <1>16. asked' \in [set : Seq(ArgLists), consts : Seq(Nat), bytes : Seq(Nat), mems : Seq(Nat),
                  calls : Nat, runs : Nat, overLimit : BOOLEAN, createdLate : BOOLEAN, unsent : BOOLEAN]
    <2>1. /\ Append(asked.set, NoArgs) \in Seq(ArgLists) /\ Append(asked.consts, 0) \in Seq(Nat)
          /\ Append(asked.bytes, 0) \in Seq(Nat) /\ Append(asked.mems, 0) \in Seq(Nat)
      BY <1>2, <1>11, AppendProperties
    <2>2. (asked.createdLate \/ asked.runs > 0) \in BOOLEAN
      OBVIOUS
    <2> QED BY <1>13, <2>1, <2>2 DEF Counted
  <1>17. ASSUME NEW k \in 1 .. n + 1
         PROVE  /\ asked'.consts[k] = Len(pending'[k].consts) /\ asked'.bytes[k] = Len(pending'[k].data)
                /\ asked'.mems[k] = Len(pending'[k].mems) /\ Len(pending'[k].consts) <= Len(pending'[k].data)
    <2>1. CASE k \in 1 .. n
      <3>1. asked'.consts[k] = asked.consts[k] /\ asked'.bytes[k] = asked.bytes[k] /\ asked'.mems[k] = asked.mems[k]
        BY <1>15, <2>1 DEF Extends
      <3> QED BY <1>3, <1>5, <2>1, <3>1, AskedTypes
    <2>2. CASE k = n + 1
      <3>1. asked'.consts[k] = 0 /\ asked'.bytes[k] = 0 /\ asked'.mems[k] = 0
        BY <1>15, <2>2 DEF Extends
      <3> QED BY <1>3, <2>2, <3>1 DEF NothingPending
    <2> QED BY <1>1, <2>1, <2>2
  <1>18. asked'.runs = 0 => main' = <<>> /\ commands' = <<>>
    BY <1>8, <1>14 DEF Counted
  <1>19. Counted'
    <2>1. {DOMAIN asked'.set, DOMAIN asked'.consts, DOMAIN asked'.bytes, DOMAIN asked'.mems} = {Kernels'}
      BY <1>5, <1>15 DEF Extends
    <2> QED BY <1>5, <1>16, <1>17, <1>18, <2>1 DEF Counted
  <1> QED BY <1>10, <1>19

\* A call of the client changes what is noted for one kernel, and may send a request.
NotesFor(k, l) ==
    /\ pending' = [pending EXCEPT ![k] = l]
    /\ UNCHANGED <<capacity, storage, commands, onDev, cn>>
    /\ client' \in {"up", "dead"}
    /\ main' = main \/ \E r \in Requests : CommandFor(r) \in Commands /\ main' = Append(main, r)

(* Such a call keeps the number of kernels.                                *)
LEMMA NotesFacts ==
    ASSUME TypeOK, NEW k \in Kernels, NEW l \in Lists, NotesFor(k, l)
    PROVE  /\ pending' \in Seq(Lists) /\ Len(pending') = Len(pending) /\ Kernels' = Kernels
           /\ \A i \in Kernels : pending'[i] = IF i = k THEN l ELSE pending[i]
           /\ Commands' = Commands /\ Requests' = Requests /\ \A r : CommandFor(r)' = CommandFor(r)
  <1>1. pending \in Seq(Lists) /\ k \in 1 .. Len(pending) /\ Kernels = 1 .. Len(pending)
    BY KernelTypes DEF TypeOK
  <1>2. pending' = [pending EXCEPT ![k] = l] /\ storage' = storage
    BY DEF NotesFor
  <1>3. /\ pending' \in Seq(Lists) /\ Len(pending') = Len(pending)
        /\ \A i \in Kernels : pending'[i] = IF i = k THEN l ELSE pending[i]
    BY <1>1, <1>2, ExceptSeq
  <1>4. Kernels' = Kernels
    BY <1>1, <1>3, LenProperties DEF Kernels
  <1>5. Commands' = Commands /\ Requests' = Requests /\ \A r : CommandFor(r)' = CommandFor(r)
    BY <1>2, <1>4 DEF Commands, Requests, CommandFor
  <1> QED BY <1>3, <1>4, <1>5

(* It keeps the types.                                                     *)
LEMMA NotesTypes ==
    ASSUME TypeOK, NEW k \in Kernels, NEW l \in Lists, TotalSize(l.consts) = Len(l.data), NotesFor(k, l)
    PROVE  TypeOK'
  <1>1. /\ pending' \in Seq(Lists) /\ Len(pending') = Len(pending) /\ Kernels' = Kernels
        /\ \A i \in Kernels : pending'[i] = IF i = k THEN l ELSE pending[i]
        /\ Commands' = Commands /\ Requests' = Requests /\ \A r : CommandFor(r)' = CommandFor(r)
    BY NotesFacts
  <1>2. \A i \in Kernels' : TotalSize(pending'[i].consts) = Len(pending'[i].data)
    BY <1>1 DEF TypeOK
  <1>3. main' \in Seq(Requests) /\ \A i \in DOMAIN main' : CommandFor(main'[i]) \in Commands
    <2>1. main \in Seq(Requests) /\ \A i \in DOMAIN main : CommandFor(main[i]) \in Commands
      BY DEF TypeOK
    <2>2. CASE main' = main
      BY <2>1, <2>2
    <2>3. CASE \E r \in Requests : CommandFor(r) \in Commands /\ main' = Append(main, r)
      <3>1. PICK r \in Requests : CommandFor(r) \in Commands /\ main' = Append(main, r)
        BY <2>3
      <3>2. Extends(main', main, r, Len(main)) /\ main' \in Seq(Requests) /\ Len(main) \in Nat
        BY <2>1, <3>1, AppendExtends
      <3>3. ASSUME NEW i \in DOMAIN main' PROVE CommandFor(main'[i]) \in Commands
        <4>1. i \in DOMAIN main \/ i = Len(main) + 1
          BY <3>2 DEF Extends
        <4> QED BY <2>1, <3>1, <3>2, <4>1 DEF Extends
      <3> QED BY <3>2, <3>3
    <2> QED BY <2>2, <2>3 DEF NotesFor
  <1>4. main' \in Seq(Requests)' /\ \A i \in DOMAIN main' : (CommandFor(main[i]) \in Commands)'
    BY <1>1, <1>3
  <1>5. commands' \in Seq(Commands)' /\ \A i \in DOMAIN commands' : AssertsHold(commands'[i])
    BY <1>1 DEF TypeOK, NotesFor
  <1>6. /\ onDev' \in Seq(ArgLists) /\ Len(onDev') = Len(pending') /\ Len(pending') <= MaxKernels
        /\ capacity' \in Nat /\ Len(pending') <= capacity' /\ storage' \in 0 .. Len(pending')
        /\ (capacity' > 0 => storage' > 0)
        /\ cn' \in {"up", "aborted", "garbled"} /\ client' \in {"up", "dead"}
    BY <1>1 DEF TypeOK, NotesFor
  <1> QED BY <1>1, <1>2, <1>4, <1>5, <1>6 DEF TypeOK

\* What the history says afterwards.
CountsFor(k, l, f) ==
    /\ asked'.set = [asked.set EXCEPT ![k] = f]
    /\ asked'.consts = [asked.consts EXCEPT ![k] = Len(l.consts)]
    /\ asked'.bytes = [asked.bytes EXCEPT ![k] = Len(l.data)]
    /\ asked'.mems = [asked.mems EXCEPT ![k] = Len(l.mems)]

AskedType == [set : Seq(ArgLists), consts : Seq(Nat), bytes : Seq(Nat), mems : Seq(Nat),
              calls : Nat, runs : Nat, overLimit : BOOLEAN, createdLate : BOOLEAN, unsent : BOOLEAN]

(* It keeps the counts.                                                    *)
LEMMA NotesCounted ==
    ASSUME TypeOK, Counted, NEW k \in Kernels, NEW l \in Lists, NEW f \in ArgLists,
           Len(l.consts) <= Len(l.data), NotesFor(k, l), CountsFor(k, l, f),
           asked'.runs = 0 => asked.runs = 0 /\ main' = main,
           asked' = [set |-> asked'.set, consts |-> asked'.consts, bytes |-> asked'.bytes,
                     mems |-> asked'.mems, calls |-> asked'.calls, runs |-> asked'.runs,
                     overLimit |-> asked'.overLimit, createdLate |-> asked'.createdLate,
                     unsent |-> asked'.unsent],
           asked'.calls \in Nat, asked'.runs \in Nat,
           asked'.overLimit \in BOOLEAN, asked'.createdLate \in BOOLEAN, asked'.unsent \in BOOLEAN
    PROVE  Counted'
  <1>1. /\ Kernels' = Kernels /\ \A i \in Kernels : pending'[i] = IF i = k THEN l ELSE pending[i]
    BY NotesFacts
  <1>2. /\ asked.set \in Seq(ArgLists) /\ asked.consts \in Seq(Nat) /\ asked.bytes \in Seq(Nat)
        /\ asked.mems \in Seq(Nat)
        /\ DOMAIN asked.set = Kernels /\ DOMAIN asked.consts = Kernels /\ DOMAIN asked.bytes = Kernels
        /\ DOMAIN asked.mems = Kernels
    BY DEF Counted
  <1>3. Len(l.consts) \in Nat /\ Len(l.data) \in Nat /\ Len(l.mems) \in Nat
    BY LenProperties DEF Lists, Data
  <1>4. ASSUME NEW S, NEW s \in Seq(S), NEW e \in S, DOMAIN s = Kernels
        PROVE  /\ [s EXCEPT ![k] = e] \in Seq(S) /\ DOMAIN [s EXCEPT ![k] = e] = Kernels
               /\ \A i \in Kernels : [s EXCEPT ![k] = e][i] = IF i = k THEN e ELSE s[i]
    <2>1. k \in 1 .. Len(s)
      BY <1>4, LenProperties
    <2>2. [s EXCEPT ![k] = e] \in Seq(S)
      BY <2>1, ExceptSeq
    <2> QED BY <1>4, <2>2
  <1>5. /\ asked'.set \in Seq(ArgLists) /\ DOMAIN asked'.set = Kernels
    BY <1>2, <1>4 DEF CountsFor
  <1>6. ASSUME NEW s \in Seq(Nat), NEW e \in Nat, DOMAIN s = Kernels
        PROVE  /\ [s EXCEPT ![k] = e] \in Seq(Nat) /\ DOMAIN [s EXCEPT ![k] = e] = Kernels
               /\ \A i \in Kernels : [s EXCEPT ![k] = e][i] = IF i = k THEN e ELSE s[i]
    BY <1>4, <1>6
  <1>7. /\ asked'.consts \in Seq(Nat) /\ DOMAIN asked'.consts = Kernels
        /\ \A i \in Kernels : asked'.consts[i] = IF i = k THEN Len(l.consts) ELSE asked.consts[i]
    <2> DEFINE s == asked.consts
               e == Len(l.consts)
    <2>1. s \in Seq(Nat) /\ e \in Nat /\ DOMAIN s = Kernels
      BY <1>2, <1>3
    <2>2. asked'.consts = [s EXCEPT ![k] = e]
      BY DEF CountsFor
    <2> HIDE DEF s, e
    <2>3. /\ [s EXCEPT ![k] = e] \in Seq(Nat) /\ DOMAIN [s EXCEPT ![k] = e] = Kernels
          /\ \A i \in Kernels : [s EXCEPT ![k] = e][i] = IF i = k THEN e ELSE s[i]
      BY <1>6, <2>1
    <2> QED BY <2>2, <2>3 DEF s, e
  <1>8. /\ asked'.bytes \in Seq(Nat) /\ DOMAIN asked'.bytes = Kernels
        /\ \A i \in Kernels : asked'.bytes[i] = IF i = k THEN Len(l.data) ELSE asked.bytes[i]
    <2> DEFINE s == asked.bytes
               e == Len(l.data)
    <2>1. s \in Seq(Nat) /\ e \in Nat /\ DOMAIN s = Kernels
      BY <1>2, <1>3
    <2>2. asked'.bytes = [s EXCEPT ![k] = e]
      BY DEF CountsFor
    <2> HIDE DEF s, e
    <2>3. /\ [s EXCEPT ![k] = e] \in Seq(Nat) /\ DOMAIN [s EXCEPT ![k] = e] = Kernels
          /\ \A i \in Kernels : [s EXCEPT ![k] = e][i] = IF i = k THEN e ELSE s[i]
      BY <1>6, <2>1
    <2> QED BY <2>2, <2>3 DEF s, e
  <1>9. /\ asked'.mems \in Seq(Nat) /\ DOMAIN asked'.mems = Kernels
        /\ \A i \in Kernels : asked'.mems[i] = IF i = k THEN Len(l.mems) ELSE asked.mems[i]
    <2> DEFINE s == asked.mems
               e == Len(l.mems)
    <2>1. s \in Seq(Nat) /\ e \in Nat /\ DOMAIN s = Kernels
      BY <1>2, <1>3
    <2>2. asked'.mems = [s EXCEPT ![k] = e]
      BY DEF CountsFor
    <2> HIDE DEF s, e
    <2>3. /\ [s EXCEPT ![k] = e] \in Seq(Nat) /\ DOMAIN [s EXCEPT ![k] = e] = Kernels
          /\ \A i \in Kernels : [s EXCEPT ![k] = e][i] = IF i = k THEN e ELSE s[i]
      BY <1>6, <2>1
    <2> QED BY <2>2, <2>3 DEF s, e
  <1>10. asked' \in AskedType
    BY <1>5, <1>7, <1>8, <1>9 DEF AskedType
  <1>11. ASSUME NEW i \in Kernels
         PROVE  /\ asked'.consts[i] = Len(pending'[i].consts) /\ asked'.bytes[i] = Len(pending'[i].data)
                /\ asked'.mems[i] = Len(pending'[i].mems) /\ Len(pending'[i].consts) <= Len(pending'[i].data)
    <2>1. CASE i = k
      BY <1>1, <1>7, <1>8, <1>9, <2>1
    <2>2. CASE i # k
      BY <1>1, <1>7, <1>8, <1>9, <2>2, AskedTypes
    <2> QED BY <2>1, <2>2
  <1>12. {DOMAIN asked'.set, DOMAIN asked'.consts, DOMAIN asked'.bytes, DOMAIN asked'.mems} = {Kernels'}
    BY <1>1, <1>5, <1>7, <1>8, <1>9
  <1>13. asked'.runs = 0 => main' = <<>> /\ commands' = <<>>
    BY DEF Counted, NotesFor
  <1> QED BY <1>1, <1>10, <1>11, <1>12, <1>13 DEF Counted, AskedType

\* The fields of the history.
AskedRecord ==
    /\ asked' = [set |-> asked'.set, consts |-> asked'.consts, bytes |-> asked'.bytes,
                 mems |-> asked'.mems, calls |-> asked'.calls, runs |-> asked'.runs,
                 overLimit |-> asked'.overLimit, createdLate |-> asked'.createdLate,
                 unsent |-> asked'.unsent]
    /\ asked'.calls \in Nat /\ asked'.runs \in Nat
    /\ asked'.overLimit \in BOOLEAN /\ asked'.createdLate \in BOOLEAN /\ asked'.unsent \in BOOLEAN
    /\ asked'.runs = 0 => asked.runs = 0 /\ main' = main

\* A call after which l is noted for kernel k and f are the arguments the application has set.
Call(k, l, f) ==
    /\ l \in Lists /\ f \in ArgLists
    /\ TotalSize(l.consts) = Len(l.data) /\ Len(l.consts) <= Len(l.data)
    /\ NotesFor(k, l) /\ CountsFor(k, l, f) /\ AskedRecord

(* A call keeps types and counts.                                          *)
LEMMA CallTypes ==
    ASSUME TypeOK, Counted, NEW k \in Kernels, NEW l, NEW f, Call(k, l, f)
    PROVE  TypeOK' /\ Counted'
  <1>1. TypeOK'
    BY NotesTypes DEF Call
  <1>2. Counted'
    BY NotesCounted DEF Call, AskedRecord
  <1> QED BY <1>1, <1>2

PointerNoted(k, a, m) == [pending[k] EXCEPT !.mems = Append(@, [arg |-> a, mem |-> m])]

(* SetPointer notes a pointer.                                             *)
LEMMA SetPointerCall ==
    ASSUME TypeOK, Counted, NEW k \in Kernels, NEW a \in PtrArgs, NEW m \in Mems \cup {Null},
           SetPointer(k, a, m)
    PROVE  Call(k, PointerNoted(k, a, m), [asked.set[k] EXCEPT ![a] = m])
  <1> DEFINE p == pending[k]
             l == PointerNoted(k, a, m)
             e == [arg |-> a, mem |-> m]
             f == [asked.set[k] EXCEPT ![a] = m]
  <1>1. /\ p \in Lists /\ p = [mems |-> p.mems, consts |-> p.consts, data |-> p.data]
        /\ p.mems \in Seq(MemEntry) /\ TotalSize(p.consts) = Len(p.data)
    BY KernelTypes DEF TypeOK, Lists
  <1>2. /\ asked.set[k] \in ArgLists /\ asked.consts[k] = Len(p.consts) /\ asked.bytes[k] = Len(p.data)
        /\ asked.mems[k] = Len(p.mems) /\ Len(p.consts) <= Len(p.data)
    BY AskedTypes
  <1>3. f \in ArgLists
    BY <1>2 DEF ArgLists, ArgValues
  <1>4. e \in MemEntry
    BY DEF MemEntry
  <1>5. Append(p.mems, e) \in Seq(MemEntry) /\ Len(Append(p.mems, e)) = Len(p.mems) + 1
    BY <1>1, <1>4, AppendProperties
  <1>6. l.mems = Append(p.mems, e) /\ l.consts = p.consts /\ l.data = p.data /\ l \in Lists
    BY <1>1, <1>5 DEF PointerNoted, Lists
  <1>7. pending' = [pending EXCEPT ![k] = l]
    BY DEF SetPointer, PointerNoted
  <1>8. NotesFor(k, l)
    BY <1>7 DEF SetPointer, NotesFor
  <1>9. asked \in AskedType
    BY DEF Counted, AskedType
  <1>10. asked' = [asked EXCEPT !.set = [asked.set EXCEPT ![k] = f],
                      !.mems = [asked.mems EXCEPT ![k] = asked.mems[k] + 1], !.calls = asked.calls + 1,
                      !.overLimit = asked.overLimit \/ m = Null]
    BY DEF SetPointer
  <1> HIDE DEF f, l, p, e
  <1>11. /\ asked'.set = [asked.set EXCEPT ![k] = f] /\ asked'.consts = asked.consts
         /\ asked'.bytes = asked.bytes /\ asked'.mems = [asked.mems EXCEPT ![k] = asked.mems[k] + 1]
         /\ asked'.calls = asked.calls + 1 /\ asked'.runs = asked.runs
         /\ asked'.overLimit = (asked.overLimit \/ m = Null) /\ asked'.createdLate = asked.createdLate
         /\ asked'.unsent = asked.unsent
    BY <1>9, <1>10 DEF AskedType
  <1>12. AskedRecord
    <2>1. main' = main
      BY DEF SetPointer
    <2>2. asked' = [set |-> asked'.set, consts |-> asked'.consts, bytes |-> asked'.bytes,
                    mems |-> asked'.mems, calls |-> asked'.calls, runs |-> asked'.runs,
                    overLimit |-> asked'.overLimit, createdLate |-> asked'.createdLate,
                    unsent |-> asked'.unsent]
      BY <1>9, <1>10 DEF AskedType
    <2>3. asked'.overLimit \in BOOLEAN /\ asked'.createdLate \in BOOLEAN /\ asked'.unsent \in BOOLEAN
      BY <1>9, <1>11 DEF AskedType
    <2>4. asked'.calls \in Nat /\ asked'.runs \in Nat
      BY <1>9, <1>11 DEF AskedType
    <2> QED BY <1>11, <2>1, <2>2, <2>3, <2>4 DEF AskedRecord
  <1>13. CountsFor(k, l, f)
    <2>1. asked.consts = [asked.consts EXCEPT ![k] = asked.consts[k]]
          /\ asked.bytes = [asked.bytes EXCEPT ![k] = asked.bytes[k]]
      BY <1>9 DEF AskedType
    <2>2. Len(l.mems) = asked.mems[k] + 1 /\ Len(l.consts) = asked.consts[k] /\ Len(l.data) = asked.bytes[k]
      BY <1>2, <1>5, <1>6
    <2> QED BY <1>11, <2>1, <2>2 DEF CountsFor
  <1> QED BY <1>1, <1>2, <1>3, <1>6, <1>8, <1>12, <1>13 DEF Call, f, l, p

ConstNoted(k, a, v) ==
    [pending[k] EXCEPT !.consts = Append(@, [arg |-> a, size |-> SizeOf[a]]), !.data = @ \o Bytes(v, SizeOf[a])]

(* SetConst notes a constant and its bytes.                                *)
LEMMA SetConstCall ==
    ASSUME TypeOK, Counted, NEW k \in Kernels, NEW a \in ConstArgs, NEW v \in Values, SetConst(k, a, v)
    PROVE  Call(k, ConstNoted(k, a, v), [asked.set[k] EXCEPT ![a] = Bytes(v, SizeOf[a])])
  <1> DEFINE p == pending[k]
             l == ConstNoted(k, a, v)
             n == SizeOf[a]
             e == [arg |-> a, size |-> n]
             b == Bytes(v, n)
             f == [asked.set[k] EXCEPT ![a] = b]
  <1>1. /\ p \in Lists /\ p = [mems |-> p.mems, consts |-> p.consts, data |-> p.data]
        /\ p.consts \in Seq(ConstEntry) /\ p.data \in Seq(Values \X Nat) /\ TotalSize(p.consts) = Len(p.data)
        /\ Len(p.data) \in Nat /\ Len(p.consts) \in Nat
    BY KernelTypes, LenProperties DEF TypeOK, Lists, Data
  <1>2. /\ asked.set[k] \in ArgLists /\ asked.consts[k] = Len(p.consts) /\ asked.bytes[k] = Len(p.data)
        /\ asked.mems[k] = Len(p.mems) /\ Len(p.consts) <= Len(p.data)
    BY AskedTypes
  <1>3. n \in Nat \ {0} /\ b \in Data /\ b \in Seq(Values \X Nat) /\ Len(b) = n
    BY Constants, BytesFacts DEF Data
  <1>4. f \in ArgLists
    BY <1>2, <1>3 DEF ArgLists, ArgValues
  <1>5. e \in ConstEntry /\ e.size = n
    BY <1>3 DEF ConstEntry
  <1>6. /\ Append(p.consts, e) \in Seq(ConstEntry) /\ Len(Append(p.consts, e)) = Len(p.consts) + 1
        /\ TotalSize(Append(p.consts, e)) = TotalSize(p.consts) + n
    BY <1>1, <1>5, AppendProperties, TotalSizeFacts
  <1>7. p.data \o b \in Data /\ Len(p.data \o b) = Len(p.data) + n
    <2>1. p.data \o b \in Seq(Values \X Nat) /\ Len(p.data \o b) = Len(p.data) + Len(b)
      <3>1. p.data \in Seq(Values \X Nat) /\ b \in Seq(Values \X Nat)
        BY <1>1, <1>3
      <3> HIDE DEF p, b
      <3> QED BY <3>1, ConcatProperties
    <2> QED BY <1>3, <2>1 DEF Data
  <1>8. l.mems = p.mems /\ l.consts = Append(p.consts, e) /\ l.data = p.data \o b /\ l \in Lists
    BY <1>1, <1>6, <1>7 DEF ConstNoted, Lists
  <1>9. pending' = [pending EXCEPT ![k] = l]
    BY DEF SetConst, ConstNoted
  <1>10. NotesFor(k, l)
    BY <1>9 DEF SetConst, NotesFor
  <1>11. asked \in AskedType
    BY DEF Counted, AskedType
  <1>12. asked' = [asked EXCEPT !.set = [asked.set EXCEPT ![k] = f],
                      !.consts = [asked.consts EXCEPT ![k] = asked.consts[k] + 1],
                      !.bytes = [asked.bytes EXCEPT ![k] = asked.bytes[k] + n], !.calls = asked.calls + 1]
    BY DEF SetConst
  <1> HIDE DEF f, l, p, e, n, b
  <1>13. /\ asked'.set = [asked.set EXCEPT ![k] = f] /\ asked'.mems = asked.mems
         /\ asked'.consts = [asked.consts EXCEPT ![k] = asked.consts[k] + 1]
         /\ asked'.bytes = [asked.bytes EXCEPT ![k] = asked.bytes[k] + n]
         /\ asked'.calls = asked.calls + 1 /\ asked'.runs = asked.runs
         /\ asked'.overLimit = asked.overLimit /\ asked'.createdLate = asked.createdLate
         /\ asked'.unsent = asked.unsent
    BY <1>11, <1>12 DEF AskedType
  <1>14. AskedRecord
    <2>1. main' = main
      BY DEF SetConst
    <2>2. asked' = [set |-> asked'.set, consts |-> asked'.consts, bytes |-> asked'.bytes,
                    mems |-> asked'.mems, calls |-> asked'.calls, runs |-> asked'.runs,
                    overLimit |-> asked'.overLimit, createdLate |-> asked'.createdLate,
                    unsent |-> asked'.unsent]
      BY <1>11, <1>12 DEF AskedType
    <2>3. asked'.overLimit \in BOOLEAN /\ asked'.createdLate \in BOOLEAN /\ asked'.unsent \in BOOLEAN
      BY <1>11, <1>13 DEF AskedType
    <2>4. asked'.calls \in Nat /\ asked'.runs \in Nat
      BY <1>11, <1>13 DEF AskedType
    <2> QED BY <1>13, <2>1, <2>2, <2>3, <2>4 DEF AskedRecord
  <1>15. CountsFor(k, l, f)
    <2>1. asked.mems = [asked.mems EXCEPT ![k] = asked.mems[k]]
      BY <1>11 DEF AskedType
    <2>2. /\ Len(l.mems) = asked.mems[k] /\ Len(l.consts) = asked.consts[k] + 1
          /\ Len(l.data) = asked.bytes[k] + n
      BY <1>2, <1>6, <1>7, <1>8
    <2> QED BY <1>13, <2>1, <2>2 DEF CountsFor
  <1>16. TotalSize(l.consts) = Len(l.data) /\ Len(l.consts) <= Len(l.data)
    BY <1>1, <1>2, <1>3, <1>6, <1>7, <1>8
  <1> QED BY <1>4, <1>8, <1>10, <1>14, <1>15, <1>16 DEF Call, f, l, p, n, b

(* EnqueueNDRangeKernel forgets what was noted.                            *)
LEMMA EnqueueNDRangeKernelCall ==
    ASSUME TypeOK, Counted, NEW k \in Kernels, EnqueueNDRangeKernel(k)
    PROVE  Call(k, NothingPending, asked.set[k])
  <1> DEFINE l == NothingPending
             f == asked.set[k]
             r == Request(k, pending[k])
  <1>1. pending[k] \in Lists /\ f \in ArgLists
    BY KernelTypes, AskedTypes
  <1>2. l \in Lists /\ TotalSize(l.consts) = Len(l.data)
    BY NothingIsList
  <1>3. Len(l.consts) = 0 /\ Len(l.data) = 0 /\ Len(l.mems) = 0
    BY DEF NothingPending
  <1>4. r \in Requests /\ CommandFor(r) \in Commands
    BY <1>1, RequestTypes
  <1>5. NotesFor(k, l)
    <2>1. client' \in {"up", "dead"} /\ main' = Append(main, r)
      BY DEF EnqueueNDRangeKernel
    <2>2. pending' = [pending EXCEPT ![k] = l]
      BY DEF EnqueueNDRangeKernel, Cleared
    <2> QED BY <1>4, <2>1, <2>2 DEF EnqueueNDRangeKernel, NotesFor
  <1>6. asked \in AskedType
    BY DEF Counted, AskedType
  <1>7. asked' = [asked EXCEPT !.runs = asked.runs + 1, !.overLimit = asked.overLimit \/ OverLimit(k),
                     !.consts = [asked.consts EXCEPT ![k] = 0], !.bytes = [asked.bytes EXCEPT ![k] = 0],
                     !.mems = [asked.mems EXCEPT ![k] = 0]]
    BY DEF EnqueueNDRangeKernel
  <1> HIDE DEF f, l, r
  <1>8. /\ asked'.set = asked.set /\ asked'.consts = [asked.consts EXCEPT ![k] = 0]
        /\ asked'.bytes = [asked.bytes EXCEPT ![k] = 0] /\ asked'.mems = [asked.mems EXCEPT ![k] = 0]
        /\ asked'.calls = asked.calls /\ asked'.runs = asked.runs + 1
        /\ asked'.overLimit = (asked.overLimit \/ OverLimit(k)) /\ asked'.createdLate = asked.createdLate
        /\ asked'.unsent = asked.unsent
    BY <1>6, <1>7 DEF AskedType
  <1>9. AskedRecord
    <2>1. asked' = [set |-> asked'.set, consts |-> asked'.consts, bytes |-> asked'.bytes,
                    mems |-> asked'.mems, calls |-> asked'.calls, runs |-> asked'.runs,
                    overLimit |-> asked'.overLimit, createdLate |-> asked'.createdLate,
                    unsent |-> asked'.unsent]
      BY <1>6, <1>7 DEF AskedType
    <2>2. asked'.overLimit \in BOOLEAN /\ asked'.createdLate \in BOOLEAN /\ asked'.unsent \in BOOLEAN
      BY <1>6, <1>8 DEF AskedType
    <2>3. asked'.calls \in Nat /\ asked'.runs \in Nat /\ asked'.runs # 0
      BY <1>6, <1>8 DEF AskedType
    <2> QED BY <2>1, <2>2, <2>3 DEF AskedRecord
  <1>10. CountsFor(k, l, f)
    <2>1. asked.set = [asked.set EXCEPT ![k] = f]
      BY <1>6 DEF AskedType, f
    <2> QED BY <1>3, <1>8, <2>1 DEF CountsFor
  <1> QED BY <1>1, <1>2, <1>3, <1>5, <1>9, <1>10 DEF Call, f, l

(* EnqueueTask keeps it.                                                   *)
LEMMA EnqueueTaskCall ==
    ASSUME TypeOK, Counted, NEW k \in Kernels, EnqueueTask(k)
    PROVE  Call(k, pending[k], asked.set[k])
  <1> DEFINE l == pending[k]
             f == asked.set[k]
             r == Request(k, NothingPending)
  <1>1. l \in Lists /\ f \in ArgLists /\ TotalSize(l.consts) = Len(l.data) /\ Len(l.consts) <= Len(l.data)
    BY KernelTypes, AskedTypes DEF TypeOK
  <1>2. r \in Requests /\ CommandFor(r) \in Commands
    BY NothingIsList, RequestTypes
  <1>3. NotesFor(k, l)
    <2>1. main' = Append(main, r) /\ pending' = pending /\ client' = client /\ client = "up"
      BY DEF EnqueueTask
    <2>2. pending = [pending EXCEPT ![k] = l]
      BY DEF TypeOK
    <2> QED BY <1>2, <2>1, <2>2 DEF EnqueueTask, NotesFor
  <1>4. asked \in AskedType
    BY DEF Counted, AskedType
  <1>5. asked' = [asked EXCEPT !.runs = asked.runs + 1, !.unsent = asked.unsent \/ pending[k] # NothingPending]
    BY DEF EnqueueTask
  <1>6. /\ asked'.set = asked.set /\ asked'.consts = asked.consts
        /\ asked'.bytes = asked.bytes /\ asked'.mems = asked.mems
        /\ asked'.calls = asked.calls /\ asked'.runs = asked.runs + 1
        /\ asked'.overLimit = asked.overLimit /\ asked'.createdLate = asked.createdLate
        /\ asked'.unsent = (asked.unsent \/ pending[k] # NothingPending)
    BY <1>4, <1>5 DEF AskedType
  <1>7. AskedRecord
    <2>1. asked' = [set |-> asked'.set, consts |-> asked'.consts, bytes |-> asked'.bytes,
                    mems |-> asked'.mems, calls |-> asked'.calls, runs |-> asked'.runs,
                    overLimit |-> asked'.overLimit, createdLate |-> asked'.createdLate,
                    unsent |-> asked'.unsent]
      BY <1>4, <1>5 DEF AskedType
    <2>2. asked'.overLimit \in BOOLEAN /\ asked'.createdLate \in BOOLEAN /\ asked'.unsent \in BOOLEAN
      BY <1>4, <1>6 DEF AskedType
    <2>3. asked'.calls \in Nat /\ asked'.runs \in Nat /\ asked'.runs # 0
      BY <1>4, <1>6 DEF AskedType
    <2> QED BY <2>1, <2>2, <2>3 DEF AskedRecord
  <1>8. CountsFor(k, l, f)
    <2>1. /\ asked.consts[k] = Len(l.consts) /\ asked.bytes[k] = Len(l.data) /\ asked.mems[k] = Len(l.mems)
      BY AskedTypes
    <2>2. asked.set = [asked.set EXCEPT ![k] = asked.set[k]]
          /\ asked.consts = [asked.consts EXCEPT ![k] = asked.consts[k]]
          /\ asked.bytes = [asked.bytes EXCEPT ![k] = asked.bytes[k]]
          /\ asked.mems = [asked.mems EXCEPT ![k] = asked.mems[k]]
      BY <1>4 DEF AskedType
    <2> HIDE DEF l
    <2> QED BY <1>6, <2>1, <2>2 DEF CountsFor
  <1> QED BY <1>1, <1>3, <1>7, <1>8 DEF Call

(* The handler moves a request to the queue.                               *)
LEMMA HandlerTypes ==
    ASSUME TypeOK, Counted, HandlerEnqueueNDRangeKernel
    PROVE  TypeOK' /\ Counted'
  <1>1. Kept /\ UNCHANGED <<client, asked>> /\ main # <<>> /\ main' = Tail(main)
    BY DEF HandlerEnqueueNDRangeKernel, Kept
  <1>2. Kernels' = Kernels /\ Commands' = Commands /\ Requests' = Requests
        /\ \A r : CommandFor(r)' = CommandFor(r)
    BY <1>1, SameTypes
  <1>3. main \in Seq(Requests) /\ commands \in Seq(Commands)
        /\ \A i \in DOMAIN main : CommandFor(main[i]) \in Commands
    BY DEF TypeOK
  <1>4. /\ Len(main) \in Nat /\ main' \in Seq(Requests) /\ Len(main') = Len(main) - 1
        /\ \A i \in 1 .. Len(main) - 1 : main'[i] = main[i + 1]
        /\ DOMAIN main = 1 .. Len(main) /\ DOMAIN main' = 1 .. Len(main) - 1 /\ 1 \in DOMAIN main
        /\ Head(main) = main[1]
    BY <1>1, <1>3, HeadTailProperties, LenProperties
  <1>5. ASSUME NEW i \in DOMAIN main' PROVE CommandFor(main'[i]) \in Commands
    <2>1. i + 1 \in DOMAIN main /\ main'[i] = main[i + 1]
      BY <1>4
    <2> QED BY <1>3, <2>1
  <1>6. cn' \in {"up", "aborted", "garbled"}
    BY DEF HandlerEnqueueNDRangeKernel, TypeOK
  <1>7. commands' \in Seq(Commands) /\ \A i \in DOMAIN commands' : AssertsHold(commands'[i])
    <2>1. CASE commands' = commands
      BY <2>1 DEF TypeOK
    <2>2. CASE AssertsHold(CommandFor(Head(main))) /\ commands' = Append(commands, CommandFor(Head(main)))
      <3> DEFINE c == CommandFor(Head(main))
      <3>1. c \in Commands
        BY <1>3, <1>4
      <3>2. Extends(commands', commands, c, Len(commands)) /\ commands' \in Seq(Commands)
        BY <1>3, <2>2, <3>1, AppendExtends
      <3>3. Len(commands) \in Nat
        BY <1>3, LenProperties
      <3> HIDE DEF c
      <3>4. AssertsHold(c)
        BY <2>2 DEF c
      <3>5. ASSUME NEW i \in DOMAIN commands' PROVE AssertsHold(commands'[i])
        <4>1. i \in DOMAIN commands \/ i = Len(commands) + 1
          BY <3>2, <3>3 DEF Extends
        <4> QED BY <3>2, <3>4, <4>1 DEF Extends, TypeOK
      <3> QED BY <3>2, <3>5
    <2> QED BY <2>1, <2>2 DEF HandlerEnqueueNDRangeKernel
  <1>8. TypeOK'
    <2>1. main' \in Seq(Requests)' /\ \A i \in DOMAIN main' : (CommandFor(main[i]) \in Commands)'
      BY <1>2, <1>4, <1>5
    <2>2. commands' \in Seq(Commands)'
      BY <1>2, <1>7
    <2> QED BY <1>1, <1>2, <1>6, <1>7, <2>1, <2>2 DEF TypeOK, Kept
  <1>9. Counted'
    <2>1. asked'.runs # 0
      BY <1>1 DEF Counted
    <2> QED BY <1>1, <1>2, <2>1 DEF Counted, Kept
  <1> QED BY <1>8, <1>9

(* Execution changes what a kernel has on the device.                      *)
LEMMA ExecTypes ==
    ASSUME TypeOK, Counted, Exec \/ ExecStale
    PROVE  TypeOK' /\ Counted'
  <1>1. UNCHANGED <<pending, main, client, capacity, storage, asked>> /\ commands # <<>>
        /\ commands' = Tail(commands)
    BY DEF Exec, ExecStale
  <1>2. Kernels' = Kernels /\ Commands' = Commands /\ Requests' = Requests
        /\ \A r : CommandFor(r)' = CommandFor(r)
    BY <1>1 DEF Kernels, Commands, Requests, CommandFor
  <1>3. commands \in Seq(Commands) /\ \A i \in DOMAIN commands : AssertsHold(commands[i])
    BY DEF TypeOK
  <1>4. /\ Len(commands) \in Nat /\ commands' \in Seq(Commands)
        /\ \A i \in 1 .. Len(commands) - 1 : commands'[i] = commands[i + 1]
        /\ DOMAIN commands = 1 .. Len(commands) /\ DOMAIN commands' = 1 .. Len(commands) - 1
        /\ 1 \in DOMAIN commands /\ Head(commands) = commands[1]
    BY <1>1, <1>3, HeadTailProperties, LenProperties
  <1>5. ASSUME NEW i \in DOMAIN commands' PROVE AssertsHold(commands'[i])
    <2>1. i + 1 \in DOMAIN commands /\ commands'[i] = commands[i + 1]
      BY <1>4
    <2> QED BY <1>3, <2>1
  <1>6. Head(commands) \in Commands /\ AssertsHold(Head(commands))
    BY <1>3, <1>4, ElementOfSeq
  <1>7. onDev' \in Seq(ArgLists) /\ Len(onDev') = Len(onDev)
    <2>1. CASE onDev' = onDev
      BY <2>1 DEF TypeOK
    <2>2. CASE Exec /\ onDev' # onDev
      <3> DEFINE c == Head(commands)
      <3>1. c.kernel \in Kernels /\ ListsMatch(c)
        BY <1>6, CommandMatches DEF Commands
      <3>2. onDev[c.kernel] \in ArgLists /\ c.kernel \in 1 .. Len(onDev) /\ onDev \in Seq(ArgLists)
        BY <3>1, KernelTypes DEF TypeOK
      <3>3. Changed(onDev[c.kernel], c) \in ArgLists
        BY <3>1, <3>2, ChangedType
      <3>4. onDev' = [onDev EXCEPT ![c.kernel] = Changed(onDev[c.kernel], c)]
        BY <2>2 DEF Exec
      <3> HIDE DEF c
      <3> QED BY <3>2, <3>3, <3>4, ExceptSeq
    <2>3. CASE ExecStale
      BY <2>3 DEF ExecStale, TypeOK
    <2> QED BY <2>1, <2>2, <2>3
  <1>8. cn' \in {"up", "aborted", "garbled"}
    BY DEF Exec, ExecStale
  <1>9. TypeOK'
    <2>1. main' \in Seq(Requests)' /\ \A i \in DOMAIN main' : (CommandFor(main[i]) \in Commands)'
      BY <1>1, <1>2 DEF TypeOK
    <2>2. commands' \in Seq(Commands)'
      BY <1>2, <1>4
    <2> QED BY <1>1, <1>2, <1>5, <1>7, <1>8, <2>1, <2>2 DEF TypeOK
  <1>10. Counted'
    <2>1. asked'.runs # 0
      BY <1>1 DEF Counted
    <2> QED BY <1>1, <1>2, <2>1 DEF Counted
  <1> QED BY <1>9, <1>10

-----------------------------------------------------------------------------
(* Runs on their way.                                                      *)

(* The queue comes before the requests.                                    *)
LEMMA FlowFacts ==
    ASSUME TypeOK
    PROVE  /\ Len(commands) \in Nat /\ Len(main) \in Nat
           /\ Len(Flow) = Len(commands) + Len(main) /\ DOMAIN Flow = 1 .. Len(commands) + Len(main)
           /\ DOMAIN commands = 1 .. Len(commands) /\ DOMAIN main = 1 .. Len(main)
           /\ \A i \in 1 .. Len(commands) : Flow[i] = commands[i]
           /\ \A i \in 1 .. Len(main) : Flow[Len(commands) + i] = CommandFor(main[i])
           /\ \A i \in DOMAIN Flow : Flow[i] \in Commands
  <1> DEFINE n == Len(commands)
             m == Len(main)
  <1>1. n \in Nat /\ m \in Nat /\ DOMAIN commands = 1 .. n /\ DOMAIN main = 1 .. m
        /\ (\A i \in 1 .. n : commands[i] \in Commands) /\ \A i \in 1 .. m : CommandFor(main[i]) \in Commands
    BY ElementOfSeq, LenProperties DEF TypeOK
  <1>2. Flow = [i \in 1 .. n + m |-> IF i <= n THEN commands[i] ELSE CommandFor(main[i - n])]
    BY DEF Flow
  <1> HIDE DEF n, m
  <1>3. DOMAIN Flow = 1 .. n + m /\ n + m \in Nat
    BY <1>1, <1>2
  <1>4. \A i \in 1 .. n : Flow[i] = commands[i]
    <2>1. \A i \in 1 .. n : i \in 1 .. n + m /\ i <= n
      BY <1>1
    <2> QED BY <1>2, <2>1
  <1>5. ASSUME NEW i \in 1 .. m PROVE Flow[n + i] = CommandFor(main[i])
    <2> DEFINE j == n + i
    <2>1. j \in 1 .. n + m /\ ~(j <= n) /\ j - n = i
      BY <1>1
    <2> HIDE DEF j
    <2>2. Flow[j] = CommandFor(main[j - n])
      BY <1>2, <2>1
    <2>3. Flow[j] = CommandFor(main[i])
      BY <2>1, <2>2
    <2> QED BY <2>3 DEF j
  <1>6. ASSUME NEW i \in DOMAIN Flow PROVE Flow[i] \in Commands
    <2>1. CASE i <= n
      <3>1. i \in 1 .. n
        BY <1>1, <1>3, <2>1
      <3> QED BY <1>1, <1>4, <3>1
    <2>2. CASE ~(i <= n)
      <3>1. i - n \in 1 .. m /\ n + (i - n) = i
        BY <1>1, <1>3, <2>2
      <3> QED BY <1>1, <1>5, <3>1
    <2> QED BY <2>1, <2>2
  <1>7. Flow \in Seq(Commands) /\ Len(Flow) = n + m
    <2>1. Flow = [i \in 1 .. n + m |-> Flow[i]]
      BY <1>2
    <2> QED BY <1>3, <1>6, <2>1
  <1> QED BY <1>1, <1>3, <1>4, <1>5, <1>6, <1>7 DEF n, m

(* After a run and before the first a kernel has arguments.                *)
LEMMA ArgsAfterType ==
    ASSUME TypeOK, NEW k \in Kernels, NEW i \in 0 .. Len(Flow)
    PROVE  ArgsAfter(k, i) \in ArgLists
  <1>1. CASE i = 0
    BY <1>1, KernelTypes DEF ArgsAfter
  <1>2. CASE i # 0
    <2>1. i \in DOMAIN Flow
      BY <1>2, FlowFacts
    <2>2. Flow[i] \in Commands
      BY <2>1, FlowFacts
    <2>3. Flow[i].want \in ArgLists
      BY <2>2 DEF Commands
    <2> QED BY <1>2, <2>3 DEF ArgsAfter
  <1> QED BY <1>1, <1>2

-----------------------------------------------------------------------------
(* Any runs F on their way, arguments D on the device, lists P noted and   *)
(* arguments W set, for kernels K.                                         *)

LatestIn(F, k, i, j) ==
    /\ i \in 0 .. j - 1
    /\ i = 0 \/ F[i].kernel = k
    /\ \A n \in i + 1 .. j - 1 : F[n].kernel # k
AfterIn(F, D, k, i) == IF i = 0 THEN D[k] ELSE F[i].want
RunsAdd(F, D) ==
    \A j \in DOMAIN F, i \in 0 .. Len(F) :
        LatestIn(F, F[j].kernel, i, j) => F[j].want = Changed(AfterIn(F, D, F[j].kernel, i), F[j])
NotesAdd(F, D, P, W, K) ==
    \A k \in K, i \in 0 .. Len(F) :
        LatestIn(F, k, i, Len(F) + 1) => W[k] = Changed(AfterIn(F, D, k, i), P[k])

(* ChangesAddUp says that of the runs under way, before a step and after it. *)
LEMMA ChangesAddUpMeans ==
    /\ ChangesAddUp <=> RunsAdd(Flow, onDev) /\ NotesAdd(Flow, onDev, pending, asked.set, Kernels)
    /\ ChangesAddUp' <=> RunsAdd(Flow', onDev') /\ NotesAdd(Flow', onDev', pending', asked'.set, Kernels')
  <1>1. /\ \A k, i, j : Latest(k, i, j) <=> LatestIn(Flow, k, i, j)
        /\ \A k, i : ArgsAfter(k, i) = AfterIn(Flow, onDev, k, i)
    BY DEF Latest, LatestIn, ArgsAfter, AfterIn
  <1>2. ChangesAddUp <=> RunsAdd(Flow, onDev) /\ NotesAdd(Flow, onDev, pending, asked.set, Kernels)
    BY <1>1 DEF ChangesAddUp, RunsAdd, NotesAdd
  <1>3. ChangesAddUp' <=> RunsAdd(Flow', onDev') /\ NotesAdd(Flow', onDev', pending', asked'.set, Kernels')
    BY DEF ChangesAddUp, RunsAdd, NotesAdd, Latest, LatestIn, ArgsAfter, AfterIn
  <1> QED BY <1>2, <1>3

\* The runs are of kernels K and have arguments.
RunsTyped(F, D, K) ==
    /\ Len(F) \in Nat /\ DOMAIN F = 1 .. Len(F)
    /\ \A i \in DOMAIN F : F[i].kernel \in K /\ F[i].want \in ArgLists
    /\ DOMAIN D = K /\ \A k \in K : D[k] \in ArgLists

(* Those under way are.                                                    *)
LEMMA FlowTyped ==
    ASSUME TypeOK
    PROVE  RunsTyped(Flow, onDev, Kernels)
  <1>1. \A i \in DOMAIN Flow : Flow[i].kernel \in Kernels /\ Flow[i].want \in ArgLists
    BY FlowFacts DEF Commands
  <1> QED BY <1>1, FlowFacts, KernelTypes DEF RunsTyped

(* After a run and before the first a kernel has arguments.                *)
LEMMA AfterInType ==
    ASSUME NEW F, NEW D, NEW K, RunsTyped(F, D, K), NEW k \in K, NEW i \in 0 .. Len(F)
    PROVE  AfterIn(F, D, k, i) \in ArgLists
  <1>1. CASE i = 0
    BY <1>1 DEF AfterIn, RunsTyped
  <1>2. CASE i # 0
    <2>1. i \in DOMAIN F
      BY <1>2 DEF RunsTyped
    <2> QED BY <1>2, <2>1 DEF AfterIn, RunsTyped
  <1> QED BY <1>1, <1>2

\* G is F without its first run.
IsTail(G, F) ==
    /\ Len(F) \in Nat /\ Len(F) > 0 /\ Len(G) = Len(F) - 1
    /\ DOMAIN F = 1 .. Len(F) /\ DOMAIN G = 1 .. Len(G)
    /\ \A i \in 1 .. Len(G) : G[i] = F[i + 1]

\* The first run is over, its arguments are on the device.
Over(F, G, D, E, K) ==
    RunsTyped(F, D, K) /\ IsTail(G, F) /\ E = [D EXCEPT ![F[1].kernel] = F[1].want]

(* The last run before another is still that, if it is not over.           *)
LEMMA LatestOfTail ==
    ASSUME NEW F, NEW G, NEW D, NEW E, NEW K, Over(F, G, D, E, K),
           NEW k \in K, NEW j \in 1 .. Len(F), NEW i, LatestIn(G, k, i, j)
    PROVE  \E h \in 0 .. Len(F) : LatestIn(F, k, h, j + 1) /\ AfterIn(F, D, k, h) = AfterIn(G, E, k, i)
  <1>1. /\ Len(F) \in Nat /\ j \in Nat /\ i \in 0 .. j - 1 /\ j <= Len(F)
        /\ \A n \in i + 1 .. j - 1 : G[n].kernel # k
        /\ \A n \in 1 .. Len(F) - 1 : G[n] = F[n + 1]
        /\ RunsTyped(F, D, K) /\ E = [D EXCEPT ![F[1].kernel] = F[1].want]
    BY DEF LatestIn, IsTail, Over
  <1>2. \A n \in i + 2 .. j : F[n].kernel # k
    <2>1. ASSUME NEW n \in i + 2 .. j PROVE F[n].kernel # k
      <3>1. n - 1 \in i + 1 .. j - 1 /\ n - 1 \in 1 .. Len(F) - 1 /\ n - 1 + 1 = n
        BY <1>1
      <3>2. G[n - 1] = F[n]
        BY <1>1, <3>1
      <3> QED BY <1>1, <3>1, <3>2
    <2> QED BY <2>1
  <1>3. CASE i # 0
    <2>1. i \in 1 .. Len(F) - 1 /\ i + 1 \in 0 .. Len(F) /\ i + 1 # 0 /\ i + 1 \in 0 .. (j + 1) - 1
          /\ i + 1 + 1 = i + 2 /\ (j + 1) - 1 = j
      BY <1>1, <1>3
    <2>2. G[i] = F[i + 1] /\ G[i].kernel = k
      BY <1>1, <1>3, <2>1 DEF LatestIn
    <2>3. LatestIn(F, k, i + 1, j + 1)
      BY <1>2, <2>1, <2>2 DEF LatestIn
    <2>4. AfterIn(F, D, k, i + 1) = AfterIn(G, E, k, i)
      BY <1>3, <2>1, <2>2 DEF AfterIn
    <2> QED BY <2>1, <2>3, <2>4
  <1>4. CASE i = 0
    <2>1. 1 \in 0 .. Len(F) /\ 1 \in 0 .. (j + 1) - 1 /\ 0 \in 0 .. Len(F) /\ 0 \in 0 .. (j + 1) - 1
          /\ 1 + 1 = i + 2 /\ (j + 1) - 1 = j /\ 0 + 1 = 1
      BY <1>1, <1>4
    <2>2. DOMAIN D = K
      BY <1>1 DEF RunsTyped
    <2>3. CASE F[1].kernel = k
      <3>1. LatestIn(F, k, 1, j + 1)
        BY <1>2, <2>1, <2>3 DEF LatestIn
      <3>2. AfterIn(F, D, k, 1) = AfterIn(G, E, k, i)
        BY <1>1, <1>4, <2>2, <2>3 DEF AfterIn
      <3> QED BY <2>1, <3>1, <3>2
    <2>4. CASE F[1].kernel # k
      <3>1. \A n \in 1 .. j : F[n].kernel # k
        <4>1. \A n \in 1 .. j : n = 1 \/ n \in i + 2 .. j
          BY <1>1, <1>4
        <4> QED BY <1>2, <2>4, <4>1
      <3>2. LatestIn(F, k, 0, j + 1)
        BY <2>1, <3>1 DEF LatestIn
      <3>3. AfterIn(F, D, k, 0) = AfterIn(G, E, k, i)
        BY <1>1, <1>4, <2>2, <2>4 DEF AfterIn
      <3> QED BY <2>1, <3>2, <3>3
    <2> QED BY <2>3, <2>4
  <1> QED BY <1>3, <1>4

(* Then the other runs and the notes still add up.                         *)
LEMMA TailAdds ==
    ASSUME NEW F, NEW G, NEW D, NEW E, NEW P, NEW W, NEW K, Over(F, G, D, E, K),
           RunsAdd(F, D), NotesAdd(F, D, P, W, K)
    PROVE  /\ F[1].want = Changed(D[F[1].kernel], F[1])
           /\ RunsAdd(G, E) /\ NotesAdd(G, E, P, W, K)
  <1>1. /\ Len(F) \in Nat /\ Len(F) > 0 /\ Len(G) = Len(F) - 1 /\ DOMAIN F = 1 .. Len(F)
        /\ DOMAIN G = 1 .. Len(F) - 1 /\ \A n \in 1 .. Len(F) - 1 : G[n] = F[n + 1]
    BY DEF IsTail, Over
  <1>2. F[1].want = Changed(D[F[1].kernel], F[1])
    <2>1. 1 \in DOMAIN F /\ 0 \in 0 .. Len(F) /\ 0 \in 0 .. 1 - 1 /\ \A n \in 0 + 1 .. 1 - 1 : FALSE
      BY <1>1
    <2>2. LatestIn(F, F[1].kernel, 0, 1)
      BY <2>1 DEF LatestIn
    <2>3. F[1].want = Changed(AfterIn(F, D, F[1].kernel, 0), F[1])
      BY <2>1, <2>2 DEF RunsAdd
    <2> QED BY <2>3 DEF AfterIn
  <1>3. ASSUME NEW j \in DOMAIN G, NEW i \in 0 .. Len(G), LatestIn(G, G[j].kernel, i, j)
        PROVE  G[j].want = Changed(AfterIn(G, E, G[j].kernel, i), G[j])
    <2> DEFINE k == G[j].kernel
    <2>1. j \in 1 .. Len(F) /\ j + 1 \in DOMAIN F /\ G[j] = F[j + 1]
      BY <1>1
    <2>2. k \in K
      BY <2>1 DEF RunsTyped, Over
    <2> HIDE DEF k
    <2>3. LatestIn(G, k, i, j)
      BY <1>3 DEF k
    <2>4. PICK h \in 0 .. Len(F) : LatestIn(F, k, h, j + 1) /\ AfterIn(F, D, k, h) = AfterIn(G, E, k, i)
      BY <2>1, <2>2, <2>3, LatestOfTail
    <2>5. F[j + 1].want = Changed(AfterIn(F, D, k, h), F[j + 1])
      BY <2>1, <2>4 DEF RunsAdd, k
    <2> QED BY <2>1, <2>4, <2>5 DEF k
  <1>4. ASSUME NEW k \in K, NEW i \in 0 .. Len(G), LatestIn(G, k, i, Len(G) + 1)
        PROVE  W[k] = Changed(AfterIn(G, E, k, i), P[k])
    <2>1. Len(G) + 1 = Len(F) /\ Len(F) \in 1 .. Len(F)
      BY <1>1
    <2>2. LatestIn(G, k, i, Len(F))
      BY <1>4, <2>1
    <2>3. PICK h \in 0 .. Len(F) : LatestIn(F, k, h, Len(F) + 1) /\ AfterIn(F, D, k, h) = AfterIn(G, E, k, i)
      BY <2>1, <2>2, LatestOfTail
    <2> QED BY <2>3 DEF NotesAdd
  <1> QED BY <1>2, <1>3, <1>4 DEF RunsAdd, NotesAdd

\* G is F and one more run, c, of kernel k with the arguments the application has set, from which
\* on nothing is noted for that kernel.
OneMore(F, G, D, P, Q, W, K, k, c) ==
    /\ RunsTyped(F, D, K) /\ Extends(G, F, c, Len(F)) /\ Len(G) = Len(F) + 1
    /\ k \in K /\ c.kernel = k /\ c.want = W[k] /\ W[k] \in ArgLists
    /\ c.mems = P[k].mems /\ c.consts = P[k].consts /\ c.data = P[k].data
    /\ DOMAIN P = K /\ Q = [P EXCEPT ![k] = NothingPending]

(* The last run before one of F, or before the new one, is the same.       *)
LEMMA LatestOfMore ==
    ASSUME NEW F, NEW G, NEW D, NEW P, NEW Q, NEW W, NEW K, NEW k, NEW c, OneMore(F, G, D, P, Q, W, K, k, c),
           NEW b, NEW j \in 1 .. Len(F) + 1, NEW i
    PROVE  /\ LatestIn(G, b, i, j) <=> LatestIn(F, b, i, j)
           /\ LatestIn(G, b, i, j) => i \in 0 .. Len(F) /\ AfterIn(G, D, b, i) = AfterIn(F, D, b, i)
  <1>1. Len(F) \in Nat /\ \A n \in 1 .. Len(F) : G[n] = F[n]
    BY DEF OneMore, RunsTyped, Extends
  <1>2. i \in 0 .. j - 1 => i \in 0 .. Len(F) /\ (i = 0 \/ i \in 1 .. Len(F))
    BY <1>1
  <1>3. i \in 0 .. j - 1 => \A n \in i + 1 .. j - 1 : n \in 1 .. Len(F)
    BY <1>1
  <1>4. LatestIn(G, b, i, j) <=> LatestIn(F, b, i, j)
    <2>1. CASE i \notin 0 .. j - 1
      BY <2>1 DEF LatestIn
    <2>2. CASE i \in 0 .. j - 1
      <3>1. \A n \in i + 1 .. j - 1 : G[n] = F[n]
        BY <1>1, <1>3, <2>2
      <3>2. i = 0 \/ G[i] = F[i]
        BY <1>1, <1>2, <2>2
      <3> QED BY <3>1, <3>2 DEF LatestIn
    <2> QED BY <2>1, <2>2
  <1>5. LatestIn(G, b, i, j) => i \in 0 .. Len(F) /\ AfterIn(G, D, b, i) = AfterIn(F, D, b, i)
    BY <1>1, <1>2 DEF LatestIn, AfterIn
  <1> QED BY <1>4, <1>5

(* The runs add up with one more of what was noted.                        *)
LEMMA MoreAdds ==
    ASSUME NEW F, NEW G, NEW D, NEW P, NEW Q, NEW W, NEW K, NEW k, NEW c, OneMore(F, G, D, P, Q, W, K, k, c),
           RunsAdd(F, D), NotesAdd(F, D, P, W, K)
    PROVE  RunsAdd(G, D) /\ NotesAdd(G, D, Q, W, K)
  <1> DEFINE n == Len(F)
  <1>1. /\ n \in Nat /\ DOMAIN F = 1 .. n /\ DOMAIN G = 1 .. n + 1 /\ Len(G) = n + 1
        /\ (\A m \in 1 .. n : G[m] = F[m]) /\ G[n + 1] = c
    BY DEF OneMore, RunsTyped, Extends
  <1>2. k \in K /\ c.kernel = k /\ c.want = W[k] /\ W[k] \in ArgLists
    BY DEF OneMore
  <1>3. \A x : Changed(x, c) = Changed(x, P[k])
    BY DEF OneMore, Changed
  <1>4. \A b \in K : Q[b] = IF b = k THEN NothingPending ELSE P[b]
    BY DEF OneMore
  <1>5. ASSUME NEW j \in DOMAIN G, NEW i \in 0 .. Len(G), LatestIn(G, G[j].kernel, i, j)
        PROVE  G[j].want = Changed(AfterIn(G, D, G[j].kernel, i), G[j])
    <2>1. j \in 1 .. n + 1
      BY <1>1
    <2>2. /\ LatestIn(F, G[j].kernel, i, j) /\ i \in 0 .. n
          /\ AfterIn(G, D, G[j].kernel, i) = AfterIn(F, D, G[j].kernel, i)
      BY <1>5, <2>1, LatestOfMore
    <2>3. CASE j \in 1 .. n
      <3>1. G[j] = F[j] /\ j \in DOMAIN F
        BY <1>1, <2>3
      <3>2. F[j].want = Changed(AfterIn(F, D, F[j].kernel, i), F[j])
        BY <2>2, <3>1 DEF RunsAdd
      <3> QED BY <2>2, <3>1, <3>2
    <2>4. CASE j = n + 1
      <3>1. G[j] = c /\ LatestIn(F, k, i, n + 1)
        BY <1>1, <1>2, <2>2, <2>4
      <3>2. W[k] = Changed(AfterIn(F, D, k, i), P[k])
        BY <1>2, <2>2, <3>1 DEF NotesAdd
      <3> QED BY <1>2, <1>3, <2>2, <3>1, <3>2
    <2> QED BY <1>1, <2>1, <2>3, <2>4
  <1>6. ASSUME NEW b \in K, NEW i \in 0 .. Len(G), LatestIn(G, b, i, Len(G) + 1)
        PROVE  W[b] = Changed(AfterIn(G, D, b, i), Q[b])
    <2>1. /\ i \in 0 .. n + 1 /\ (i = 0 \/ G[i].kernel = b)
          /\ \A m \in i + 1 .. n + 1 : G[m].kernel # b
      BY <1>1, <1>6 DEF LatestIn
    <2>2. CASE b = k
      <3>1. i = n + 1
        BY <1>1, <1>2, <2>1, <2>2
      <3>2. AfterIn(G, D, b, i) = W[k]
        BY <1>1, <1>2, <3>1 DEF AfterIn
      <3> QED BY <1>2, <1>4, <2>2, <3>2, ChangedByNothing
    <2>3. CASE b # k
      <3>1. i # n + 1
        BY <1>1, <1>2, <2>1, <2>3
      <3>2. i \in 0 .. n + 1 - 1 /\ n + 1 \in 1 .. n + 1 /\ \A m \in i + 1 .. n + 1 - 1 : m \in i + 1 .. n + 1
        BY <1>1, <2>1, <3>1
      <3>3. LatestIn(G, b, i, n + 1)
        BY <2>1, <3>2 DEF LatestIn
      <3>4. LatestIn(F, b, i, n + 1) /\ i \in 0 .. n /\ AfterIn(G, D, b, i) = AfterIn(F, D, b, i)
        BY <3>2, <3>3, LatestOfMore
      <3>5. W[b] = Changed(AfterIn(F, D, b, i), P[b])
        BY <3>4 DEF NotesAdd
      <3> QED BY <1>4, <2>3, <3>4, <3>5
    <2> QED BY <2>2, <2>3
  <1> QED BY <1>5, <1>6 DEF RunsAdd, NotesAdd

\* What the application sets for kernel k changes its arguments as it changes its lists.
SetsAsNoted(F, D, P, Q, W, X, K, k) ==
    /\ RunsTyped(F, D, K) /\ k \in K
    /\ \A b \in K : b # k => Q[b] = P[b] /\ X[b] = W[b]
    /\ \A x \in ArgLists : W[k] = Changed(x, P[k]) => X[k] = Changed(x, Q[k])

(* Then what is noted still adds up.                                       *)
LEMMA SetAdds ==
    ASSUME NEW F, NEW D, NEW P, NEW Q, NEW W, NEW X, NEW K, NEW k, SetsAsNoted(F, D, P, Q, W, X, K, k),
           NotesAdd(F, D, P, W, K)
    PROVE  NotesAdd(F, D, Q, X, K)
  <1> SUFFICES ASSUME NEW b \in K, NEW i \in 0 .. Len(F), LatestIn(F, b, i, Len(F) + 1)
               PROVE  X[b] = Changed(AfterIn(F, D, b, i), Q[b])
    BY DEF NotesAdd
  <1>1. W[b] = Changed(AfterIn(F, D, b, i), P[b])
    BY DEF NotesAdd
  <1>2. AfterIn(F, D, b, i) \in ArgLists
    BY AfterInType DEF SetsAsNoted
  <1>3. CASE b = k
    BY <1>1, <1>2, <1>3 DEF SetsAsNoted
  <1>4. CASE b # k
    BY <1>1, <1>4 DEF SetsAsNoted
  <1> QED BY <1>3, <1>4

-----------------------------------------------------------------------------
(* How steps move the runs on.                                             *)

CommandOf(r, s) ==
    [kernel |-> r.kernel, storage |-> s, data |-> r.data, want |-> r.want,
     mems |-> Collect(r.memMsgs, r.memCount, MemsPerMsg),
     consts |-> Collect(r.constMsgs, r.constCount, ConstsPerMsg)]
FlowOf(C, M, s) ==
    [i \in 1 .. Len(C) + Len(M) |-> IF i <= Len(C) THEN C[i] ELSE CommandOf(M[i - Len(C)], s)]

(* The runs under way are the queue and the commands the requests will become. *)
LEMMA FlowMeans ==
    /\ Flow = FlowOf(commands, main, storage)
    /\ Flow' = FlowOf(commands', main', storage')
    /\ \A r : CommandFor(r) = CommandOf(r, storage)
  <1>1. \A r : CommandFor(r) = CommandOf(r, storage)
    BY DEF CommandFor, CommandOf
  <1>2. Flow = FlowOf(commands, main, storage)
    BY <1>1 DEF Flow, FlowOf
  <1>3. Flow' = FlowOf(commands', main', storage')
    BY DEF Flow, FlowOf, CommandFor, CommandOf
  <1> QED BY <1>1, <1>2, <1>3

IsList(s) == Len(s) \in Nat /\ DOMAIN s = 1 .. Len(s)

(* The places of queue and requests together.                              *)
LEMMA FlowPlaces ==
    ASSUME NEW C, NEW M, NEW s, IsList(C), IsList(M)
    PROVE  /\ Len(C) \in Nat /\ Len(M) \in Nat
           /\ Len(FlowOf(C, M, s)) = Len(C) + Len(M) /\ DOMAIN FlowOf(C, M, s) = 1 .. Len(C) + Len(M)
           /\ \A i \in 1 .. Len(C) : FlowOf(C, M, s)[i] = C[i]
           /\ \A i \in 1 .. Len(M) : FlowOf(C, M, s)[Len(C) + i] = CommandOf(M[i], s)
  <1> DEFINE n == Len(C)
             m == Len(M)
             F == FlowOf(C, M, s)
  <1>1. n \in Nat /\ m \in Nat /\ n + m \in Nat
    BY DEF IsList
  <1>2. F = [i \in 1 .. n + m |-> IF i <= n THEN C[i] ELSE CommandOf(M[i - n], s)]
    BY DEF FlowOf
  <1> HIDE DEF n, m, F
  <1>3. DOMAIN F = 1 .. n + m /\ Len(F) = n + m
    BY <1>1, <1>2
  <1>4. \A i \in 1 .. n : F[i] = C[i]
    <2>1. \A i \in 1 .. n : i \in 1 .. n + m /\ i <= n
      BY <1>1
    <2> QED BY <1>2, <2>1
  <1>5. ASSUME NEW i \in 1 .. m PROVE F[n + i] = CommandOf(M[i], s)
    <2> DEFINE j == n + i
    <2>1. j \in 1 .. n + m /\ ~(j <= n) /\ j - n = i
      BY <1>1
    <2> HIDE DEF j
    <2>2. F[j] = CommandOf(M[j - n], s)
      BY <1>2, <2>1
    <2>3. F[j] = CommandOf(M[i], s)
      BY <2>1, <2>2
    <2> QED BY <2>3 DEF j
  <1> QED BY <1>1, <1>3, <1>4, <1>5 DEF n, m, F

(* Equal in every place is equal.                                          *)
LEMMA SameFlow ==
    ASSUME NEW C, NEW M, NEW s, NEW B, NEW L, NEW t, IsList(C), IsList(M), IsList(B), IsList(L),
           Len(B) + Len(L) = Len(C) + Len(M),
           \A i \in 1 .. Len(C) + Len(M) : FlowOf(B, L, t)[i] = FlowOf(C, M, s)[i]
    PROVE  FlowOf(B, L, t) = FlowOf(C, M, s)
  BY DEF FlowOf, IsList

(* A request more makes a run more.                                        *)
LEMMA FlowMore ==
    ASSUME NEW C, NEW M, NEW s, NEW N, NEW r, IsList(C), IsList(M),
           Extends(N, M, r, Len(M)), Len(N) = Len(M) + 1
    PROVE  LET F == FlowOf(C, M, s)
           IN /\ Extends(FlowOf(C, N, s), F, CommandOf(r, s), Len(F))
              /\ Len(FlowOf(C, N, s)) = Len(F) + 1
  <1> DEFINE n == Len(C)
             m == Len(M)
             F == FlowOf(C, M, s)
             G == FlowOf(C, N, s)
  <1>1. IsList(N) /\ N[m + 1] = r /\ (\A i \in 1 .. m : N[i] = M[i]) /\ n \in Nat /\ m \in Nat /\ Len(N) = m + 1
    BY DEF Extends, IsList
  <1>2. /\ Len(F) = n + m /\ DOMAIN F = 1 .. n + m
        /\ \A i \in 1 .. n : F[i] = C[i]
        /\ \A i \in 1 .. m : F[n + i] = CommandOf(M[i], s)
    BY FlowPlaces
  <1>3. /\ Len(G) = n + (m + 1) /\ DOMAIN G = 1 .. n + (m + 1)
        /\ \A i \in 1 .. n : G[i] = C[i]
        /\ \A i \in 1 .. m + 1 : G[n + i] = CommandOf(N[i], s)
    BY <1>1, FlowPlaces
  <1> HIDE DEF n, m, F, G
  <1>4. ASSUME NEW i \in 1 .. n + m PROVE G[i] = F[i]
    <2>1. CASE i <= n
      <3>1. i \in 1 .. n
        BY <1>1, <2>1
      <3> QED BY <1>2, <1>3, <3>1
    <2>2. CASE ~(i <= n)
      <3> DEFINE k == i - n
      <3>1. k \in 1 .. m /\ k \in 1 .. m + 1 /\ i = n + k
        BY <1>1, <2>2
      <3> HIDE DEF k
      <3>2. N[k] = M[k] /\ G[n + k] = CommandOf(N[k], s) /\ F[n + k] = CommandOf(M[k], s)
        BY <1>1, <1>2, <1>3, <3>1
      <3> QED BY <3>1, <3>2
    <2> QED BY <2>1, <2>2
  <1>5. G[n + m + 1] = CommandOf(r, s)
    <2>1. m + 1 \in 1 .. m + 1 /\ n + (m + 1) = n + m + 1
      BY <1>1
    <2>2. G[n + (m + 1)] = CommandOf(N[m + 1], s)
      BY <1>3, <2>1
    <2> QED BY <1>1, <2>1, <2>2
  <1>6. 1 .. n + (m + 1) = 1 .. n + m + 1 /\ n + (m + 1) = n + m + 1
    BY <1>1
  <1> QED BY <1>2, <1>3, <1>4, <1>5, <1>6 DEF Extends, F, G

(* Handling a request changes nothing of the runs under way.               *)
LEMMA FlowHandled ==
    ASSUME NEW C, NEW M, NEW s, NEW B, NEW L, IsList(C), Len(C) \in Nat, IsTail(L, M),
           Extends(B, C, CommandOf(M[1], s), Len(C)), Len(B) = Len(C) + 1
    PROVE  FlowOf(B, L, s) = FlowOf(C, M, s)
  <1> DEFINE n == Len(C)
             m == Len(M)
             F == FlowOf(C, M, s)
             G == FlowOf(B, L, s)
  <1>1. /\ IsList(B) /\ IsList(M) /\ IsList(L) /\ n \in Nat /\ m \in Nat /\ m > 0 /\ Len(L) = m - 1 /\ Len(B) = n + 1
        /\ B[n + 1] = CommandOf(M[1], s) /\ (\A i \in 1 .. n : B[i] = C[i])
        /\ \A i \in 1 .. m - 1 : L[i] = M[i + 1]
    BY DEF Extends, IsList, IsTail
  <1>2. /\ Len(F) = n + m /\ DOMAIN F = 1 .. n + m
        /\ \A i \in 1 .. n : F[i] = C[i]
        /\ \A i \in 1 .. m : F[n + i] = CommandOf(M[i], s)
    BY <1>1, FlowPlaces
  <1>3. /\ \A i \in 1 .. Len(B) : G[i] = B[i]
        /\ \A i \in 1 .. Len(L) : G[Len(B) + i] = CommandOf(L[i], s)
    <2>1. IsList(B) /\ IsList(L)
      BY <1>1
    <2> QED BY <2>1, FlowPlaces
  <1> HIDE DEF n, m, F, G
  <1>4. ASSUME NEW i \in 1 .. n + m PROVE G[i] = F[i]
    <2>1. CASE i <= n
      <3>1. i \in 1 .. n /\ i \in 1 .. n + 1
        BY <1>1, <2>1
      <3> QED BY <1>1, <1>2, <1>3, <3>1
    <2>2. CASE i = n + 1
      <3>1. i \in 1 .. n + 1 /\ 1 \in 1 .. m
        BY <1>1, <2>2
      <3>2. F[n + 1] = CommandOf(M[1], s) /\ G[i] = B[i]
        BY <1>1, <1>2, <1>3, <3>1
      <3> QED BY <1>1, <2>2, <3>2
    <2>3. CASE i > n + 1
      <3> DEFINE k == i - (n + 1)
                 h == k + 1
      <3>1. k \in 1 .. m - 1 /\ h \in 1 .. m /\ i = n + 1 + k /\ i = n + h
        BY <1>1, <2>3
      <3>2. L[k] = M[h]
        BY <1>1, <3>1
      <3> HIDE DEF k, h
      <3>3. G[n + 1 + k] = CommandOf(L[k], s) /\ F[n + h] = CommandOf(M[h], s)
        BY <1>1, <1>2, <1>3, <3>1
      <3> QED BY <3>1, <3>2, <3>3
    <2> QED BY <1>1, <2>1, <2>2, <2>3
  <1>5. Len(B) + Len(L) = n + m
    <2>1. ASSUME NEW b, NEW l, b = n + 1, l = m - 1 PROVE b + l = n + m
      BY <1>1, <2>1
    <2> QED BY <1>1, <2>1
  <1>6. \A i \in 1 .. Len(C) + Len(M) : FlowOf(B, L, s)[i] = FlowOf(C, M, s)[i]
    BY <1>4 DEF n, m, F, G
  <1>7. Len(B) + Len(L) = Len(C) + Len(M)
    BY <1>5 DEF n, m
  <1>8. IsList(C) /\ IsList(M) /\ IsList(B) /\ IsList(L)
    BY <1>1
  <1> QED BY <1>6, <1>7, <1>8, SameFlow

(* Execution takes the first run.                                          *)
LEMMA FlowTail ==
    ASSUME NEW C, NEW M, NEW s, NEW B, IsTail(B, C), IsList(M)
    PROVE  IsTail(FlowOf(B, M, s), FlowOf(C, M, s)) /\ FlowOf(C, M, s)[1] = C[1]
  <1> DEFINE n == Len(C)
             m == Len(M)
             F == FlowOf(C, M, s)
             G == FlowOf(B, M, s)
  <1>1. /\ IsList(B) /\ IsList(C) /\ n \in Nat /\ m \in Nat /\ n > 0 /\ Len(B) = n - 1
        /\ \A i \in 1 .. n - 1 : B[i] = C[i + 1]
    BY DEF IsList, IsTail
  <1>2. /\ Len(F) = n + m /\ DOMAIN F = 1 .. n + m
        /\ \A i \in 1 .. n : F[i] = C[i]
        /\ \A i \in 1 .. m : F[n + i] = CommandOf(M[i], s)
    BY <1>1, FlowPlaces
  <1>3. /\ Len(G) = n - 1 + m /\ DOMAIN G = 1 .. n - 1 + m
        /\ \A i \in 1 .. n - 1 : G[i] = B[i]
        /\ \A i \in 1 .. m : G[n - 1 + i] = CommandOf(M[i], s)
    <2>1. IsList(B)
      BY <1>1
    <2>2. /\ Len(G) = Len(B) + m /\ DOMAIN G = 1 .. Len(B) + m
          /\ \A i \in 1 .. Len(B) : G[i] = B[i]
          /\ \A i \in 1 .. m : G[Len(B) + i] = CommandOf(M[i], s)
      BY <2>1, FlowPlaces
    <2>3. Len(B) = n - 1
      BY <1>1
    <2> HIDE DEF n, m, F, G
    <2> QED BY <2>2, <2>3
  <1> HIDE DEF n, m, F, G
  <1>4. ASSUME NEW i \in 1 .. n - 1 + m PROVE G[i] = F[i + 1]
    <2>1. CASE i <= n - 1
      <3>1. i \in 1 .. n - 1 /\ i + 1 \in 1 .. n
        BY <1>1, <2>1
      <3> QED BY <1>1, <1>2, <1>3, <3>1
    <2>2. CASE i > n - 1
      <3> DEFINE k == i - (n - 1)
      <3>1. k \in 1 .. m /\ i = n - 1 + k /\ i + 1 = n + k
        BY <1>1, <2>2
      <3> HIDE DEF k
      <3>2. G[n - 1 + k] = CommandOf(M[k], s) /\ F[n + k] = CommandOf(M[k], s)
        BY <1>2, <1>3, <3>1
      <3> QED BY <3>1, <3>2
    <2> QED BY <1>1, <2>1, <2>2
  <1>5. n + m \in Nat /\ n + m > 0 /\ n - 1 + m = n + m - 1 /\ 1 \in 1 .. n
    BY <1>1
  <1>6. F[1] = C[1]
    BY <1>2, <1>5
  <1>7. /\ DOMAIN G = 1 .. Len(G) /\ Len(F) \in Nat /\ Len(F) > 0 /\ DOMAIN F = 1 .. Len(F)
    BY <1>2, <1>3, <1>5
  <1>8. \A i \in 1 .. Len(G) : G[i] = F[i + 1]
    BY <1>3, <1>4
  <1>9. Len(G) = Len(F) - 1
    <2>1. Len(G) = n + m - 1
      BY <1>3, <1>5
    <2>2. ASSUME NEW x, x = n + m PROVE x - 1 = n + m - 1
      BY <1>1, <2>2
    <2> QED BY <1>2, <2>1, <2>2
  <1>10. IsTail(G, F)
    BY <1>7, <1>8, <1>9 DEF IsTail
  <1> QED BY <1>6, <1>10 DEF F, G

-----------------------------------------------------------------------------
(* Within the limits both ends go on well.                                 *)

GoesWell(F, M, P, K, s) ==
    /\ \A k \in K : \A n \in DOMAIN P[k].mems : P[k].mems[n].mem # Null
    /\ \A i \in DOMAIN M : InStep(M[i])
    /\ \A i \in DOMAIN F :
        /\ F[i].storage = s /\ AssertsHold(F[i])
        /\ \A a \in Args : F[i].want[a] # Unset

(* NothingFails says that of what is under way, before a step and after it. *)
LEMMA NothingFailsMeans ==
    /\ NothingFails <=> GoesWell(Flow, main, pending, Kernels, storage)
    /\ NothingFails' <=> GoesWell(Flow', main', pending', Kernels', storage')
  <1>1. NothingFails <=> GoesWell(Flow, main, pending, Kernels, storage)
    BY DEF NothingFails, GoesWell
  <1>2. NothingFails' <=> GoesWell(Flow', main', pending', Kernels', storage')
    BY DEF NothingFails, GoesWell
  <1> QED BY <1>1, <1>2

\* What the invariant says within the limits.
Well ==
    /\ RunsAdd(Flow, onDev) /\ NotesAdd(Flow, onDev, pending, asked.set, Kernels)
    /\ GoesWell(Flow, main, pending, Kernels, storage)
    /\ cn = "up" /\ client = "up" /\ lastRun.got = lastRun.want

(* It says that.                                                           *)
LEMMA WithinLimits ==
    ASSUME KernelInv, ~OutOfLimits
    PROVE  Well
  BY ChangesAddUpMeans, NothingFailsMeans DEF KernelInv, Well, StaysInStep, ArgsAsSet

(* Beyond the limits, types and counts are the invariant; within, what else goes well is needed. *)
LEMMA InvariantFrom ==
    ASSUME TypeOK', Counted',
           ~OutOfLimits' =>
             /\ RunsAdd(Flow', onDev') /\ NotesAdd(Flow', onDev', pending', asked'.set, Kernels')
             /\ GoesWell(Flow', main', pending', Kernels', storage')
             /\ cn' = "up" /\ client' = "up" /\ lastRun'.got = lastRun'.want
    PROVE  KernelInv'
  <1>1. OutOfLimits' \/ (ChangesAddUp' /\ NothingFails')
    BY ChangesAddUpMeans, NothingFailsMeans
  <1>2. StaysInStep' /\ ArgsAsSet'
    BY DEF StaysInStep, ArgsAsSet
  <1> QED BY <1>1, <1>2 DEF KernelInv

\* How SetPointer and SetConst change a kernel's arguments: as they change what is noted.
NotedWell(k, l, f) ==
    /\ \A n \in DOMAIN l.mems : l.mems[n].mem # Null
    /\ \A x \in ArgLists : asked.set[k] = Changed(x, pending[k]) => f = Changed(x, l)

(* A call that only notes a change keeps the invariant.                    *)
LEMMA NoteKeeps ==
    ASSUME KernelInv, NEW k \in Kernels, NEW l, NEW f, Call(k, l, f),
           UNCHANGED <<main, client, lastRun>>,
           ~OutOfLimits' => ~OutOfLimits /\ (Well => NotedWell(k, l, f))
    PROVE  KernelInv'
  <1>1. TypeOK /\ Counted /\ TypeOK' /\ Counted'
    BY CallTypes DEF KernelInv
  <1>2. ASSUME ~OutOfLimits'
        PROVE  /\ RunsAdd(Flow', onDev') /\ NotesAdd(Flow', onDev', pending', asked'.set, Kernels')
               /\ GoesWell(Flow', main', pending', Kernels', storage')
               /\ cn' = "up" /\ client' = "up" /\ lastRun'.got = lastRun'.want
    <2>1. Well /\ NotedWell(k, l, f)
      BY <1>2, WithinLimits
    <2>2. /\ pending \in Seq(Lists) /\ l \in Lists /\ f \in ArgLists
          /\ pending' = [pending EXCEPT ![k] = l] /\ asked'.set = [asked.set EXCEPT ![k] = f]
          /\ UNCHANGED <<capacity, storage, commands, onDev, cn>>
      BY <1>1 DEF Call, NotesFor, CountsFor, TypeOK
    <2>3. Flow' = Flow
      BY <2>2, FlowMeans
    <2>4. Kernels' = Kernels /\ \A i \in Kernels : pending'[i] = IF i = k THEN l ELSE pending[i]
      BY <1>1, NotesFacts DEF Call
    <2>5. DOMAIN asked.set = Kernels
      BY <1>1 DEF Counted
    <2>6. \A i \in Kernels : asked'.set[i] = IF i = k THEN f ELSE asked.set[i]
      BY <2>2, <2>5
    <2>7. SetsAsNoted(Flow, onDev, pending, pending', asked.set, asked'.set, Kernels, k)
      BY <1>1, <2>1, <2>4, <2>6, FlowTyped DEF SetsAsNoted, NotedWell
    <2>8. NotesAdd(Flow, onDev, pending', asked'.set, Kernels)
      BY <2>1, <2>7, SetAdds DEF Well
    <2>9. GoesWell(Flow', main', pending', Kernels', storage')
      BY <2>1, <2>2, <2>3, <2>4 DEF Well, GoesWell, NotedWell
    <2> QED BY <2>1, <2>2, <2>3, <2>4, <2>8, <2>9 DEF Well
  <1> QED BY <1>1, <1>2, InvariantFrom

(* Setting a pointer keeps the invariant.                                  *)
LEMMA SetPointerKeeps ==
    ASSUME KernelInv, NEW k \in Kernels, NEW a \in PtrArgs, NEW m \in Mems \cup {Null}, SetPointer(k, a, m)
    PROVE  KernelInv'
  <1> DEFINE p == pending[k]
             l == PointerNoted(k, a, m)
             e == [arg |-> a, mem |-> m]
             f == [asked.set[k] EXCEPT ![a] = m]
  <1>1. TypeOK /\ Counted
    BY DEF KernelInv
  <1>2. Call(k, l, f)
    BY <1>1, SetPointerCall
  <1>3. UNCHANGED <<main, client, lastRun>>
    BY DEF SetPointer
  <1>4. /\ p \in Lists /\ p = [mems |-> p.mems, consts |-> p.consts, data |-> p.data]
        /\ p.mems \in Seq(MemEntry) /\ ListsMatch(p)
    BY <1>1, KernelTypes, PendingMatches DEF Lists
  <1>5. e \in MemEntry /\ e.arg = a /\ e.mem = m
    BY DEF MemEntry
  <1>6. l.mems = Append(p.mems, e) /\ l.consts = p.consts /\ l.data = p.data
    BY <1>4 DEF PointerNoted
  <1>7. ASSUME ~OutOfLimits' PROVE ~OutOfLimits /\ m # Null
    <2>1. /\ asked'.overLimit = (asked.overLimit \/ m = Null) /\ asked'.createdLate = asked.createdLate
          /\ asked'.unsent = asked.unsent
      BY <1>1 DEF Counted, SetPointer
    <2> QED BY <1>7, <2>1 DEF OutOfLimits
  <1> HIDE DEF p, l, e, f
  <1>8. ASSUME m # Null, Well PROVE NotedWell(k, l, f)
    <2>1. ASSUME NEW n \in DOMAIN l.mems PROVE l.mems[n].mem # Null
      <3>1. Extends(l.mems, p.mems, e, Len(p.mems)) /\ Len(p.mems) \in Nat
        BY <1>4, <1>5, <1>6, AppendExtends, LenProperties
      <3>2. n \in DOMAIN p.mems \/ n = Len(p.mems) + 1
        BY <3>1 DEF Extends
      <3>3. n \in DOMAIN p.mems => p.mems[n].mem # Null
        BY <1>8 DEF Well, GoesWell, p
      <3> QED BY <1>5, <1>8, <3>1, <3>2, <3>3 DEF Extends
    <2>2. ASSUME NEW x \in ArgLists, asked.set[k] = Changed(x, p) PROVE f = Changed(x, l)
      <3>1. Changed(x, l) = [Changed(x, p) EXCEPT ![e.arg] = e.mem]
        BY <1>4, <1>5, <1>6, ChangedByPointer
      <3> QED BY <1>5, <2>2, <3>1 DEF f
    <2> QED BY <2>1, <2>2 DEF NotedWell, p
  <1> QED BY <1>2, <1>3, <1>7, <1>8, NoteKeeps

(* So does setting a constant.                                             *)
LEMMA SetConstKeeps ==
    ASSUME KernelInv, NEW k \in Kernels, NEW a \in ConstArgs, NEW v \in Values, SetConst(k, a, v)
    PROVE  KernelInv'
  <1> DEFINE p == pending[k]
             l == ConstNoted(k, a, v)
             n == SizeOf[a]
             e == [arg |-> a, size |-> n]
             b == Bytes(v, n)
             f == [asked.set[k] EXCEPT ![a] = b]
  <1>1. TypeOK /\ Counted
    BY DEF KernelInv
  <1>2. Call(k, l, f)
    BY <1>1, SetConstCall
  <1>3. UNCHANGED <<main, client, lastRun>>
    BY DEF SetConst
  <1>4. /\ p \in Lists /\ p = [mems |-> p.mems, consts |-> p.consts, data |-> p.data]
        /\ ListsMatch(p) /\ TotalSize(p.consts) = Len(p.data)
    BY <1>1, KernelTypes, PendingMatches DEF Lists, TypeOK
  <1>5. n \in Nat \ {0} /\ b \in Data /\ Len(b) = n
    BY Constants, BytesFacts
  <1>6. e \in ConstEntry /\ e.arg = a /\ e.size = n
    BY <1>5 DEF ConstEntry
  <1>7. l.mems = p.mems /\ l.consts = Append(p.consts, e) /\ l.data = p.data \o b
    BY <1>4 DEF ConstNoted
  <1>8. ASSUME ~OutOfLimits' PROVE ~OutOfLimits
    <2>1. /\ asked'.overLimit = asked.overLimit /\ asked'.createdLate = asked.createdLate
          /\ asked'.unsent = asked.unsent
      BY <1>1 DEF Counted, SetConst
    <2> QED BY <1>8, <2>1 DEF OutOfLimits
  <1> HIDE DEF p, l, n, e, b, f
  <1>9. ASSUME Well PROVE NotedWell(k, l, f)
    <2>1. \A i \in DOMAIN l.mems : l.mems[i].mem # Null
      BY <1>7, <1>9 DEF Well, GoesWell, p
    <2>2. ASSUME NEW x \in ArgLists, asked.set[k] = Changed(x, p) PROVE f = Changed(x, l)
      <3>1. Changed(x, l) = [Changed(x, p) EXCEPT ![e.arg] = b]
        <4>1. /\ ListsMatch(p) /\ TotalSize(p.consts) = Len(p.data) /\ e \in ConstEntry /\ b \in Data
              /\ Len(b) = e.size
          BY <1>4, <1>5, <1>6
        <4> QED BY <1>7, <4>1, ChangedByConst
      <3> QED BY <1>6, <2>2, <3>1 DEF f
    <2> QED BY <2>1, <2>2 DEF NotedWell, p
  <1> QED BY <1>2, <1>3, <1>8, <1>9, NoteKeeps

\* What is sent fits one message of constants and counts of one byte, and is all that was noted.
SentWell(k, l) ==
    /\ l = pending[k] /\ client' = "up"
    /\ Len(l.mems) < ByteRange /\ Len(l.consts) < ByteRange /\ Len(l.consts) <= ConstsPerMsg
    /\ Len(l.data) < ByteRange

(* A call that sends what was noted keeps the invariant.                   *)
LEMMA RunKeeps ==
    ASSUME KernelInv, NEW k \in Kernels, NEW l, Call(k, NothingPending, asked.set[k]),
           main' = Append(main, Request(k, l)), lastRun' = lastRun,
           \A a \in Args : asked.set[k][a] # Unset,
           ~OutOfLimits' => ~OutOfLimits /\ SentWell(k, l)
    PROVE  KernelInv'
  <1>1. TypeOK /\ Counted /\ TypeOK' /\ Counted'
    BY CallTypes DEF KernelInv
  <1>2. ASSUME ~OutOfLimits'
        PROVE  /\ RunsAdd(Flow', onDev') /\ NotesAdd(Flow', onDev', pending', asked'.set, Kernels')
               /\ GoesWell(Flow', main', pending', Kernels', storage')
               /\ cn' = "up" /\ client' = "up" /\ lastRun'.got = lastRun'.want
    <2> DEFINE r == Request(k, l)
               c == CommandFor(r)
    <2>1. Well /\ SentWell(k, l) /\ client' = "up"
      BY <1>2, WithinLimits DEF SentWell
    <2>2. /\ l = pending[k] /\ l \in Lists /\ ListsMatch(l) /\ TotalSize(l.consts) = Len(l.data)
          /\ asked.set[k] \in ArgLists
      BY <1>1, <2>1, KernelTypes, PendingMatches, AskedTypes DEF SentWell, TypeOK
    <2>3. /\ r \in Requests /\ c \in Commands /\ InStep(r)
          /\ c = [kernel |-> k, storage |-> storage, data |-> l.data, want |-> asked.set[k],
                  mems |-> l.mems, consts |-> l.consts]
      BY <1>1, <2>1, <2>2, RequestTypes, RequestArrives DEF SentWell
    <2>4. /\ c.kernel = k /\ c.storage = storage /\ c.data = l.data /\ c.want = asked.set[k]
          /\ c.mems = l.mems /\ c.consts = l.consts
      BY <2>3
    <2>5. /\ pending' = [pending EXCEPT ![k] = NothingPending]
          /\ asked'.set = [asked.set EXCEPT ![k] = asked.set[k]]
          /\ UNCHANGED <<capacity, storage, commands, onDev, cn>>
      BY DEF Call, NotesFor, CountsFor
    <2>6. Kernels' = Kernels /\ asked'.set = asked.set /\ DOMAIN pending = Kernels
      <3>1. Kernels' = Kernels
        BY <1>1, NotesFacts DEF Call
      <3>2. asked.set \in Seq(ArgLists)
        BY <1>1 DEF Counted
      <3> QED BY <2>5, <3>1, <3>2 DEF Kernels
    <2>7. main \in Seq(Requests) /\ commands \in Seq(Commands)
      BY <1>1 DEF TypeOK
    <2>8. /\ Extends(main', main, r, Len(main)) /\ Len(main') = Len(main) + 1
          /\ IsList(commands) /\ IsList(main)
      BY <2>3, <2>7, AppendExtends, AppendProperties, LenProperties DEF IsList
    <2>9. c = CommandOf(r, storage) /\ Flow = FlowOf(commands, main, storage)
          /\ Flow' = FlowOf(commands, main', storage)
      BY <2>5, FlowMeans
    <2> HIDE DEF r, c
    <2>10. Extends(Flow', Flow, c, Len(Flow)) /\ Len(Flow') = Len(Flow) + 1
      BY <2>8, <2>9, FlowMore
    <2>11. OneMore(Flow, Flow', onDev, pending, pending', asked.set, Kernels, k, c)
      BY <1>1, <2>2, <2>4, <2>5, <2>6, <2>10, FlowTyped DEF OneMore
    <2>12. RunsAdd(Flow', onDev) /\ NotesAdd(Flow', onDev, pending', asked.set, Kernels)
      BY <2>1, <2>11, MoreAdds DEF Well
    <2>13. AssertsHold(c)
      <3>1. \A n \in DOMAIN l.mems : l.mems[n].mem # Null
        BY <2>1, <2>2 DEF Well, GoesWell
      <3> QED BY <2>2, <2>4, <3>1 DEF AssertsHold
    <2>14. \A i \in Kernels : \A n \in DOMAIN pending'[i].mems : pending'[i].mems[n].mem # Null
      BY <2>1, <2>5, <2>6 DEF Well, GoesWell, NothingPending
    <2>15. \A i \in DOMAIN main' : InStep(main'[i])
      <3>1. Len(main) \in Nat
        BY <2>8 DEF IsList
      <3>2. \A i \in DOMAIN main' : i \in DOMAIN main \/ i = Len(main) + 1
        BY <2>8, <3>1 DEF Extends
      <3> QED BY <2>1, <2>3, <2>8, <3>2 DEF Extends, Well, GoesWell
    <2>16. ASSUME NEW i \in DOMAIN Flow'
           PROVE  /\ Flow'[i].storage = storage /\ AssertsHold(Flow'[i])
                  /\ \A a \in Args : Flow'[i].want[a] # Unset
      <3>1. Len(Flow) \in Nat
        BY <1>1, FlowTyped DEF RunsTyped
      <3>2. i \in DOMAIN Flow \/ i = Len(Flow) + 1
        BY <2>10, <3>1 DEF Extends
      <3>3. CASE i \in DOMAIN Flow
        <4>1. Flow'[i] = Flow[i]
          BY <2>10, <3>3 DEF Extends
        <4> QED BY <2>1, <3>3, <4>1 DEF Well, GoesWell
      <3>4. CASE i = Len(Flow) + 1
        <4>1. Flow'[i] = c
          BY <2>10, <3>4 DEF Extends
        <4> QED BY <2>4, <2>13, <4>1
      <3> QED BY <3>2, <3>3, <3>4
    <2>17. GoesWell(Flow', main', pending', Kernels', storage')
      BY <2>5, <2>6, <2>14, <2>15, <2>16 DEF GoesWell
    <2> QED BY <2>1, <2>5, <2>6, <2>12, <2>17 DEF Well
  <1> QED BY <1>1, <1>2, InvariantFrom

(* Enqueuing a kernel sends what was noted.                                *)
LEMMA EnqueueNDRangeKernelKeeps ==
    ASSUME KernelInv, NEW k \in Kernels, EnqueueNDRangeKernel(k)
    PROVE  KernelInv'
  <1> DEFINE l == pending[k]
  <1>1. TypeOK /\ Counted
    BY DEF KernelInv
  <1>2. Call(k, NothingPending, asked.set[k])
    BY <1>1, EnqueueNDRangeKernelCall
  <1>3. main' = Append(main, Request(k, l)) /\ lastRun' = lastRun /\ \A a \in Args : asked.set[k][a] # Unset
    BY DEF EnqueueNDRangeKernel
  <1>4. ASSUME ~OutOfLimits' PROVE ~OutOfLimits /\ SentWell(k, l)
    <2>1. /\ asked'.overLimit = (asked.overLimit \/ OverLimit(k)) /\ asked'.createdLate = asked.createdLate
          /\ asked'.unsent = asked.unsent
      BY <1>1 DEF Counted, EnqueueNDRangeKernel
    <2>2. ~OutOfLimits /\ ~OverLimit(k)
      BY <1>4, <2>1 DEF OutOfLimits
    <2>3. /\ asked.consts[k] = Len(l.consts) /\ asked.bytes[k] = Len(l.data) /\ asked.mems[k] = Len(l.mems)
          /\ Len(l.consts) <= Len(l.data)
      BY <1>1, AskedTypes
    <2>4. Len(l.consts) \in Nat /\ Len(l.data) \in Nat /\ Len(l.mems) \in Nat
      BY <1>1, KernelTypes, LenProperties DEF Lists, Data
    <2> HIDE DEF l
    <2>5. /\ Len(l.consts) <= ConstsPerMsg /\ Len(l.data) < ByteRange /\ Len(l.mems) < ByteRange
          /\ Len(l.consts) < ByteRange
      BY <2>2, <2>3, <2>4, Constants DEF OverLimit
    <2>6. client' = "up"
      <3>1. ~(Len(pending[k].consts) > ConstsPerMsg)
        BY <2>4, <2>5, Constants DEF l
      <3> QED BY <3>1 DEF EnqueueNDRangeKernel
    <2> QED BY <2>2, <2>5, <2>6 DEF SentWell, l
  <1> QED BY <1>2, <1>3, <1>4, RunKeeps

(* So does enqueuing a task, if nothing was.                               *)
LEMMA EnqueueTaskKeeps ==
    ASSUME KernelInv, NEW k \in Kernels, EnqueueTask(k)
    PROVE  KernelInv'
  <1>1. TypeOK /\ Counted
    BY DEF KernelInv
  <1>2. Call(k, pending[k], asked.set[k])
    BY <1>1, EnqueueTaskCall
  <1>3. /\ main' = Append(main, Request(k, NothingPending)) /\ lastRun' = lastRun
        /\ \A a \in Args : asked.set[k][a] # Unset
    BY DEF EnqueueTask
  <1>4. /\ asked'.overLimit = asked.overLimit /\ asked'.createdLate = asked.createdLate
        /\ asked'.unsent = (asked.unsent \/ pending[k] # NothingPending)
    BY <1>1 DEF Counted, EnqueueTask
  <1>5. CASE OutOfLimits'
    <2>1. TypeOK' /\ Counted'
      BY <1>1, <1>2, CallTypes
    <2> QED BY <1>5, <2>1, InvariantFrom
  <1>6. CASE ~OutOfLimits'
    <2>1. ~OutOfLimits /\ pending[k] = NothingPending
      BY <1>4, <1>6 DEF OutOfLimits
    <2>2. Len(NothingPending.mems) = 0 /\ Len(NothingPending.consts) = 0 /\ Len(NothingPending.data) = 0
      BY DEF NothingPending
    <2>3. SentWell(k, NothingPending)
      BY <2>1, <2>2, Constants DEF SentWell, EnqueueTask
    <2>4. Call(k, NothingPending, asked.set[k])
      BY <1>2, <2>1
    <2> QED BY <1>3, <2>1, <2>3, <2>4, RunKeeps
  <1> QED BY <1>5, <1>6

(* Handling a request keeps the invariant.                                 *)
LEMMA HandlerKeeps ==
    ASSUME KernelInv, HandlerEnqueueNDRangeKernel
    PROVE  KernelInv'
  <1>1. TypeOK /\ Counted /\ TypeOK' /\ Counted'
    BY HandlerTypes DEF KernelInv
  <1>2. ASSUME ~OutOfLimits'
        PROVE  /\ RunsAdd(Flow', onDev') /\ NotesAdd(Flow', onDev', pending', asked'.set, Kernels')
               /\ GoesWell(Flow', main', pending', Kernels', storage')
               /\ cn' = "up" /\ client' = "up" /\ lastRun'.got = lastRun'.want
    <2> DEFINE r == Head(main)
               c == CommandFor(r)
    <2>1. UNCHANGED <<pending, client, capacity, storage, onDev, lastRun, asked>> /\ main # <<>>
          /\ main' = Tail(main)
      BY DEF HandlerEnqueueNDRangeKernel
    <2>2. ~OutOfLimits /\ Kernels' = Kernels
      BY <1>2, <2>1 DEF OutOfLimits, Kernels
    <2>3. Well
      BY <2>2, WithinLimits
    <2>4. main \in Seq(Requests) /\ commands \in Seq(Commands)
      BY <1>1 DEF TypeOK
    <2>5. IsTail(main', main) /\ 1 \in DOMAIN main /\ r = main[1] /\ IsList(main) /\ IsList(commands)
      BY <2>1, <2>4, HeadTailProperties, LenProperties DEF IsTail, IsList
    <2>6. c \in Commands
      BY <1>1, <2>5 DEF TypeOK
    <2>7. InStep(r)
      BY <2>3, <2>5 DEF Well, GoesWell
    <2>8. AssertsHold(c)
      <3>1. Len(commands) + 1 \in DOMAIN Flow /\ Flow[Len(commands) + 1] = CommandFor(main[1])
        <4>1. Len(commands) \in Nat /\ Len(main) \in Nat /\ 1 \in 1 .. Len(main)
          BY <2>5 DEF IsList
        <4>2. Len(commands) + 1 \in 1 .. Len(commands) + Len(main)
          BY <4>1
        <4> QED BY <1>1, <4>1, <4>2, FlowFacts
      <3> QED BY <2>3, <2>5, <3>1 DEF Well, GoesWell
    <2>9. commands' = Append(commands, c) /\ cn' = cn
      BY <2>7, <2>8 DEF HandlerEnqueueNDRangeKernel
    <2>10. c = CommandOf(main[1], storage) /\ Flow = FlowOf(commands, main, storage)
           /\ Flow' = FlowOf(commands', main', storage)
      BY <2>1, <2>5, FlowMeans
    <2> HIDE DEF r, c
    <2>11. Extends(commands', commands, c, Len(commands)) /\ Len(commands') = Len(commands) + 1
      BY <2>4, <2>6, <2>9, AppendExtends, AppendProperties
    <2>12. Flow' = Flow
      BY <2>5, <2>10, <2>11, FlowHandled DEF IsList
    <2>13. \A i \in DOMAIN main' : InStep(main'[i])
      <3>1. \A i \in 1 .. Len(main') : i + 1 \in DOMAIN main /\ main'[i] = main[i + 1]
        BY <2>5 DEF IsTail
      <3>2. DOMAIN main' = 1 .. Len(main')
        BY <2>5 DEF IsTail
      <3> QED BY <2>3, <3>1, <3>2 DEF Well, GoesWell
    <2>14. GoesWell(Flow', main', pending', Kernels', storage')
      BY <2>1, <2>2, <2>3, <2>12, <2>13 DEF Well, GoesWell
    <2> QED BY <2>1, <2>2, <2>3, <2>9, <2>12, <2>14 DEF Well
  <1> QED BY <1>1, <1>2, InvariantFrom

(* Executing a command keeps the invariant.                                *)
LEMMA ExecKeeps ==
    ASSUME KernelInv, Exec \/ ExecStale
    PROVE  KernelInv'
  <1>1. TypeOK /\ Counted /\ TypeOK' /\ Counted'
    BY ExecTypes DEF KernelInv
  <1>2. ASSUME ~OutOfLimits'
        PROVE  /\ RunsAdd(Flow', onDev') /\ NotesAdd(Flow', onDev', pending', asked'.set, Kernels')
               /\ GoesWell(Flow', main', pending', Kernels', storage')
               /\ cn' = "up" /\ client' = "up" /\ lastRun'.got = lastRun'.want
    <2> DEFINE c == Head(commands)
               args == Changed(onDev[c.kernel], c)
    <2>1. UNCHANGED <<pending, main, client, capacity, storage, asked>> /\ commands # <<>>
          /\ commands' = Tail(commands)
      BY DEF Exec, ExecStale
    <2>2. ~OutOfLimits /\ Kernels' = Kernels
      BY <1>2, <2>1 DEF OutOfLimits, Kernels
    <2>3. Well
      BY <2>2, WithinLimits
    <2>4. commands \in Seq(Commands) /\ main \in Seq(Requests)
      BY <1>1 DEF TypeOK
    <2>5. IsTail(commands', commands) /\ 1 \in DOMAIN commands /\ c = commands[1] /\ IsList(main)
      BY <2>1, <2>4, HeadTailProperties, LenProperties DEF IsTail, IsList
    <2>6. IsTail(Flow', Flow) /\ Flow[1] = c
      <3>1. Flow = FlowOf(commands, main, storage) /\ Flow' = FlowOf(commands', main, storage)
        BY <2>1, FlowMeans
      <3> HIDE DEF c
      <3> QED BY <2>5, <3>1, FlowTail
    <2>7. 1 \in DOMAIN Flow
      <3> HIDE DEF c
      <3> QED BY <2>6 DEF IsTail
    <2>8. c.storage = storage /\ \A a \in Args : c.want[a] # Unset
      <3> HIDE DEF c
      <3> QED BY <2>3, <2>6, <2>7 DEF Well, GoesWell
    <2>9. RunsTyped(Flow, onDev, Kernels) /\ RunsAdd(Flow, onDev)
          /\ NotesAdd(Flow, onDev, pending, asked.set, Kernels)
      BY <1>1, <2>3, FlowTyped DEF Well
    <2>10. c.want = args
      <3> DEFINE E == [onDev EXCEPT ![Flow[1].kernel] = Flow[1].want]
      <3>1. Over(Flow, Flow', onDev, E, Kernels)
        BY <2>6, <2>9 DEF Over
      <3> HIDE DEF E
      <3>2. Flow[1].want = Changed(onDev[Flow[1].kernel], Flow[1])
        BY <2>9, <3>1, TailAdds
      <3> QED BY <2>6, <3>2
    <2>11. /\ onDev' = [onDev EXCEPT ![c.kernel] = args]
           /\ lastRun' = [got |-> args, want |-> c.want] /\ cn' = cn
      <3>1. ~ExecStale
        BY <2>8 DEF ExecStale
      <3>2. Exec /\ ~(\E a \in Args : args[a] = Unset)
        BY <2>8, <2>10, <3>1
      <3> QED BY <3>2 DEF Exec
    <2> HIDE DEF c, args
    <2>12. Over(Flow, Flow', onDev, onDev', Kernels)
      BY <2>6, <2>9, <2>10, <2>11 DEF Over
    <2>13. RunsAdd(Flow', onDev') /\ NotesAdd(Flow', onDev', pending, asked.set, Kernels)
      BY <2>9, <2>12, TailAdds
    <2>14. ASSUME NEW i \in DOMAIN Flow'
           PROVE  /\ Flow'[i].storage = storage /\ AssertsHold(Flow'[i])
                  /\ \A a \in Args : Flow'[i].want[a] # Unset
      <3>1. i + 1 \in DOMAIN Flow /\ Flow'[i] = Flow[i + 1]
        BY <2>6 DEF IsTail
      <3> QED BY <2>3, <3>1 DEF Well, GoesWell
    <2>15. GoesWell(Flow', main', pending', Kernels', storage')
      BY <2>1, <2>2, <2>3, <2>14 DEF Well, GoesWell
    <2> QED BY <2>1, <2>2, <2>3, <2>10, <2>11, <2>13, <2>15 DEF Well
  <1> QED BY <1>1, <1>2, InvariantFrom

(* A kernel created before the first run keeps the invariant.              *)
LEMMA CreateKeeps ==
    ASSUME KernelInv, CreateKernel
    PROVE  KernelInv'
  <1>1. TypeOK /\ Counted /\ TypeOK' /\ Counted'
    BY CreateTypes DEF KernelInv
  <1>2. ASSUME ~OutOfLimits'
        PROVE  /\ RunsAdd(Flow', onDev') /\ NotesAdd(Flow', onDev', pending', asked'.set, Kernels')
               /\ GoesWell(Flow', main', pending', Kernels', storage')
               /\ cn' = "up" /\ client' = "up" /\ lastRun'.got = lastRun'.want
    <2> DEFINE n == Len(pending)
    <2>1. /\ asked'.createdLate = (asked.createdLate \/ asked.runs > 0) /\ asked'.overLimit = asked.overLimit
          /\ asked'.unsent = asked.unsent /\ asked'.set = Append(asked.set, NoArgs) /\ asked.runs \in Nat
      BY <1>1 DEF Counted, CreateKernel
    <2>2. ~OutOfLimits /\ asked.runs = 0
      <3>1. ~OutOfLimits /\ ~(asked.runs > 0)
        BY <1>2, <2>1, Zenon DEF OutOfLimits
      <3> QED BY <2>1, <3>1
    <2>3. Well /\ main = <<>> /\ commands = <<>>
      BY <1>1, <2>2, WithinLimits DEF Counted
    <2>4. /\ main' = <<>> /\ commands' = <<>> /\ UNCHANGED <<cn, client, lastRun>>
          /\ pending' = Append(pending, NothingPending) /\ onDev' = Append(onDev, NoArgs)
      BY <2>3 DEF CreateKernel
    <2>5. Len(Flow) = 0 /\ Len(Flow') = 0 /\ DOMAIN Flow' = {}
      <3>1. IsList(<<>>)
        BY DEF IsList
      <3>2. Flow = FlowOf(<<>>, <<>>, storage) /\ Flow' = FlowOf(<<>>, <<>>, storage')
        BY <2>3, <2>4, FlowMeans
      <3>3. Len(<<>>) = 0 /\ 0 + 0 = 0
        OBVIOUS
      <3>4. Len(Flow) = 0 /\ Len(Flow') = 0 /\ DOMAIN Flow' = 1 .. 0
        BY <3>1, <3>2, <3>3, FlowPlaces
      <3> QED BY <3>4
    <2>6. /\ n \in Nat /\ Kernels = 1 .. n /\ Len(onDev) = n /\ NoArgs \in ArgLists
          /\ pending \in Seq(Lists) /\ onDev \in Seq(ArgLists) /\ asked.set \in Seq(ArgLists)
          /\ DOMAIN asked.set = 1 .. n
      BY <1>1, KernelTypes DEF TypeOK, Counted, NoArgs, ArgLists, ArgValues
    <2>7. Len(asked.set) = n
      BY <2>6, LenProperties
    <2>8. /\ Extends(pending', pending, NothingPending, n) /\ Extends(onDev', onDev, NoArgs, n)
          /\ Extends(asked'.set, asked.set, NoArgs, n)
      BY <2>1, <2>4, <2>6, <2>7, NothingIsList, AppendExtends
    <2>9. Kernels' = 1 .. n + 1
      BY <2>8 DEF Kernels, Extends
    <2>10. ASSUME NEW k \in 1 .. n + 1 PROVE k \in 1 .. n \/ k = n + 1
      BY <2>6
    <2>11. ASSUME NEW k \in Kernels', NEW i \in 0 .. Len(Flow')
           PROVE  asked'.set[k] = Changed(AfterIn(Flow', onDev', k, i), pending'[k])
      <3>1. i = 0
        BY <2>5
      <3>2. AfterIn(Flow', onDev', k, i) = onDev'[k]
        BY <3>1 DEF AfterIn
      <3>3. CASE k \in 1 .. n
        <4>1. LatestIn(Flow, k, 0, 1) /\ 0 \in 0 .. Len(Flow) /\ Len(Flow) + 1 = 1
          BY <2>5 DEF LatestIn
        <4>2. asked.set[k] = Changed(AfterIn(Flow, onDev, k, 0), pending[k])
          BY <2>3, <2>6, <3>3, <4>1 DEF Well, NotesAdd
        <4>3. asked.set[k] = Changed(onDev[k], pending[k])
          BY <4>2 DEF AfterIn
        <4> QED BY <2>8, <3>2, <3>3, <4>3 DEF Extends
      <3>4. CASE k = n + 1
        <4>1. asked'.set[k] = NoArgs /\ onDev'[k] = NoArgs /\ pending'[k] = NothingPending
          BY <2>8, <3>4 DEF Extends
        <4> QED BY <2>6, <3>2, <4>1, ChangedByNothing
      <3> QED BY <2>9, <2>10, <3>3, <3>4
    <2>12. \A k \in Kernels' : \A j \in DOMAIN pending'[k].mems : pending'[k].mems[j].mem # Null
      <3>1. ASSUME NEW k \in Kernels' PROVE \A j \in DOMAIN pending'[k].mems : pending'[k].mems[j].mem # Null
        <4>1. CASE k \in 1 .. n
          BY <2>3, <2>6, <2>8, <4>1 DEF Extends, Well, GoesWell
        <4>2. CASE k = n + 1
          BY <2>8, <4>2 DEF Extends, NothingPending
        <4> QED BY <2>9, <2>10, <4>1, <4>2
      <3> QED BY <3>1
    <2>13. GoesWell(Flow', main', pending', Kernels', storage')
      <3>1. DOMAIN main' = {}
        BY <2>4
      <3> QED BY <2>5, <2>12, <3>1 DEF GoesWell
    <2>14. RunsAdd(Flow', onDev') /\ NotesAdd(Flow', onDev', pending', asked'.set, Kernels')
      BY <2>5, <2>11 DEF RunsAdd, NotesAdd
    <2> QED BY <2>3, <2>4, <2>13, <2>14 DEF Well
  <1> QED BY <1>1, <1>2, InvariantFrom

(* The invariant holds at the beginning.                                   *)
LEMMA InitInvariant == Init => KernelInv
  <1> SUFFICES ASSUME Init PROVE KernelInv
    OBVIOUS
  <1>1. TypeOK /\ Counted
    BY InitTypes
  <1>2. main = <<>> /\ commands = <<>> /\ pending = <<>> /\ Kernels = {}
    BY DEF Init, Kernels
  <1>3. Len(Flow) = 0 /\ DOMAIN Flow = {}
    BY <1>1, <1>2, FlowFacts
  <1>4. ChangesAddUp
    BY <1>2, <1>3 DEF ChangesAddUp
  <1>5. NothingFails
    BY <1>2, <1>3 DEF NothingFails
  <1>6. StaysInStep /\ ArgsAsSet
    BY DEF Init, StaysInStep, ArgsAsSet
  <1> QED BY <1>1, <1>4, <1>5, <1>6 DEF KernelInv

(* Every step keeps it.                                                    *)
LEMMA NextInvariant == KernelInv /\ [Next]_vars => KernelInv'
  <1> SUFFICES ASSUME KernelInv, [Next]_vars PROVE KernelInv'
    OBVIOUS
  <1>1. CASE CreateKernel
    BY <1>1, CreateKeeps
  <1>2. ASSUME NEW k \in Kernels, NEW a \in PtrArgs, NEW m \in Mems \cup {Null}, SetPointer(k, a, m)
        PROVE  KernelInv'
    BY <1>2, SetPointerKeeps
  <1>3. ASSUME NEW k \in Kernels, NEW a \in ConstArgs, NEW v \in Values, SetConst(k, a, v)
        PROVE  KernelInv'
    BY <1>3, SetConstKeeps
  <1>4. ASSUME NEW k \in Kernels, EnqueueNDRangeKernel(k) PROVE KernelInv'
    BY <1>4, EnqueueNDRangeKernelKeeps
  <1>5. ASSUME NEW k \in Kernels, EnqueueTask(k) PROVE KernelInv'
    BY <1>5, EnqueueTaskKeeps
  <1>6. CASE HandlerEnqueueNDRangeKernel
    BY <1>6, HandlerKeeps
  <1>7. CASE Exec \/ ExecStale
    BY <1>7, ExecKeeps
  <1>8. CASE UNCHANGED vars
    <2>1. UNCHANGED <<pending, main, cn, client, capacity, storage, commands, onDev, lastRun, asked>>
      BY <1>8 DEF vars
    <2>2. Kernels' = Kernels /\ Commands' = Commands /\ Requests' = Requests /\ Flow' = Flow
          /\ \A r : CommandFor(r)' = CommandFor(r)
      BY <2>1, FlowMeans, SameTypes DEF Kept
    <2>3. TypeOK' /\ Counted'
      BY <2>1, <2>2 DEF KernelInv, TypeOK, Counted
    <2>4. ~OutOfLimits' => Well
      BY <2>1, WithinLimits DEF OutOfLimits
    <2> QED BY <2>1, <2>2, <2>3, <2>4, InvariantFrom DEF Well
  <1> QED BY <1>1, <1>2, <1>3, <1>4, <1>5, <1>6, <1>7, <1>8 DEF Next

-----------------------------------------------------------------------------
(* The theorems.                                                           *)

(* Whatever the sizes of messages, bytes and arguments and however many kernels, calls and runs:
   client and session agree on the kernels, the history counts what is noted, and for an
   application within the limits the runs on their way and what is noted add up to what it has set
   and neither end fails.                                                  *)
THEOREM KernelInvariant == Spec => []KernelInv
  BY InitInvariant, NextInvariant, PTL DEF Spec

(* Within the limits a kernel runs with the arguments the application had set when it enqueued it. *)
THEOREM KernelArgsAsSet == Spec => []ArgsAsSet
  <1>1. KernelInv => ArgsAsSet
    BY DEF KernelInv
  <1> QED BY <1>1, KernelInvariant, PTL

(* Within the limits no assertion of the handler fails, no argument is missing on the device, and
   neither end reads or writes what is not there.                          *)
THEOREM KernelStaysInStep == Spec => []StaysInStep
  <1>1. KernelInv => StaysInStep
    BY DEF KernelInv
  <1> QED BY <1>1, KernelInvariant, PTL
=============================================================================
