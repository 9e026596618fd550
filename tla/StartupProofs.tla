----------------------------- MODULE StartupProofs -----------------------------
(***************************************************************************)
(* Proofs about PoolStartup, for any finite sets of devices and clients.   *)
(***************************************************************************)
EXTENDS PoolStartup, FiniteSetTheorems, TLAPS

(* There are as many object numbers as threads, and sets of threads can be *)
(* counted.                                                                *)
LEMMA Counting ==
    /\ MaxObjects \in Nat
    /\ \A s : Cardinality(Creating(s)) \in Nat /\ IsFiniteSet(Creating(s))
    /\ \A s : Cardinality(Creating(s)) <= MaxObjects
    /\ \A s, t : t \in Threads /\ t \notin Creating(s) => Cardinality(Creating(s)) < MaxObjects
  <1>1. IsFiniteSet(Threads)
    BY FiniteAssumption, FS_Union DEF Threads
  <1>2. \A s : Creating(s) \subseteq Threads
    BY DEF Creating
  <1>3. \A s : IsFiniteSet(Creating(s)) /\ Cardinality(Creating(s)) <= MaxObjects
              /\ (Cardinality(Threads) = Cardinality(Creating(s)) => Threads = Creating(s))
    BY <1>1, <1>2, FS_Subset DEF MaxObjects
  <1>4. MaxObjects \in Nat /\ \A s : Cardinality(Creating(s)) \in Nat
    BY <1>1, <1>3, FS_CardinalityType DEF MaxObjects
  <1> QED BY <1>3, <1>4 DEF MaxObjects

(* Init establishes the inductive invariant.                               *)
LEMMA InitStartup == Init => StartupInv
  <1> SUFFICES ASSUME Init PROVE StartupInv
    OBVIOUS
  <1>1. /\ \A t \in Threads : pc[t] \in {"test", "connect"} /\ calls[t] = "sched" /\ uses[t] = 0
        /\ \A t \in Clients : pc[t] = "connect"
    BY ThreadsAssumption DEF Init, Threads
  <1>2. TypeOK
    <2>1. 0 \in 0 .. MaxObjects
      BY Counting
    <2> QED BY <2>1, <1>1 DEF Init, TypeOK, Singletons, Objects
  <1>3. CreatorHolds /\ FlagAfterFirst
    BY <1>1, NoneAssumption DEF Init, CreatorHolds, FlagAfterFirst
  <1>4. CreatorsCounted
    BY Counting DEF Init, CreatorsCounted
  <1>5. StagesInScope
    BY <1>1 DEF Init, StagesInScope, Threads
  <1>6. UnusedAreEmpty /\ TokensMatchCommands
    BY <1>1 DEF Init, UnusedAreEmpty, TokensMatchCommands, Singletons
  <1>7. LocksHeld /\ SchedulerExclusive
    <2>1. InSched = {} /\ HeldLocks = {} /\ instance["sched"] = 0
      BY <1>1 DEF Init, InSched, HeldLocks, Singletons
    <2> QED BY <2>1, FS_EmptySet DEF LocksHeld, SchedulerExclusive
  <1> QED BY <1>2, <1>3, <1>4, <1>5, <1>6, <1>7 DEF StartupInv

-----------------------------------------------------------------------------
(* Instance().                                                             *)

\* The steps outside Instance().
UseStep(t) ==
    \/ SchedStep(t)
    \/ t \in Clients /\ (Connect(t) \/ Push(t))
    \/ t \in Devices /\ DevStep(t)

\* What every step leaves of the other threads.
OthersStay(t) ==
    \A u \in Threads \ {t} : pc'[u] = pc[u] /\ calls'[u] = calls[u] /\ uses'[u] = uses[u]

(* Every step is one thread's, in Instance() or outside.                   *)
LEMMA NextSteps == Next => \E t \in Threads : InstanceStep(t) \/ UseStep(t)
  BY DEF Next, UseStep, Threads

(* A step changes one thread's stage.                                      *)
LEMMA OneThreadMoves ==
    ASSUME TypeOK, NEW t \in Threads, InstanceStep(t) \/ UseStep(t)
    PROVE  OthersStay(t)
  <1> USE DEF TypeOK, OthersStay, Goto, CallInstance
  <1>1. InstanceStep(t) => OthersStay(t)
    BY DEF InstanceStep, TestFlag, Create, SetFlag
  <1>2. SchedStep(t) => OthersStay(t)
    BY DEF SchedStep, WaitForLock, EnterSched, LeaveSched
  <1>3. Connect(t) \/ Push(t) => OthersStay(t)
    BY DEF Connect, Push
  <1>4. DevStep(t) => OthersStay(t)
    BY DEF DevStep, BeginLoop, StartWaiting, Take, TakeAndGiveBack
  <1> QED BY <1>1, <1>2, <1>3, <1>4 DEF UseStep

(* Outside Instance() nothing is created and nobody is about to.           *)
LEMMA UseFacts ==
    ASSUME TypeOK, NEW t \in Threads, UseStep(t)
    PROVE  /\ UNCHANGED <<isInit, holder, instance>>
           /\ pc[t] \notin {"create", "setFlag"} /\ pc'[t] \notin {"create", "setFlag"}
  <1> USE DEF TypeOK, Goto, CallInstance
  <1> DEFINE Facts == /\ UNCHANGED <<isInit, holder, instance>>
                      /\ pc[t] \notin {"create", "setFlag"} /\ pc'[t] \notin {"create", "setFlag"}
  <1>1. SchedStep(t) => Facts
    BY DEF SchedStep, WaitForLock, EnterSched, LeaveSched, NeedsLock
  <1>2. Connect(t) \/ Push(t) => Facts
    BY DEF Connect, Push
  <1>3. DevStep(t) => Facts
    BY DEF DevStep, BeginLoop, StartWaiting, Take, TakeAndGiveBack, TokenThere
  <1> QED BY <1>1, <1>2, <1>3 DEF UseStep

(* The mutex, the flags and the numbers of objects.                        *)
LEMMA InstanceLayer ==
    ASSUME TypeOK, CreatorHolds, FlagAfterFirst, CreatorsCounted, [Next]_vars
    PROVE  CreatorHolds' /\ FlagAfterFirst' /\ CreatorsCounted' /\ instance' \in [Singletons -> 0 .. MaxObjects]
  <1> DEFINE Goal == CreatorHolds' /\ FlagAfterFirst' /\ CreatorsCounted' /\ instance' \in [Singletons -> 0 .. MaxObjects]
  <1>0. \A s \in Singletons : instance[s] \in Nat /\ holder[s] \in Threads \cup {None}
    BY Counting DEF TypeOK
  <1>1. ASSUME NEW t \in Threads, UseStep(t)
        PROVE  Goal
    <2>1. \A s : Creating(s)' = Creating(s)
      BY <1>1, UseFacts, OneThreadMoves DEF Creating, OthersStay
    <2>2. UNCHANGED <<isInit, holder, instance>>
      BY <1>1, UseFacts
    <2>3. CreatorHolds'
      <3>1. \A u \in Threads, s \in Singletons : (pc[u] = "setFlag" /\ calls[u] = s) <=> (pc'[u] = "setFlag" /\ calls'[u] = s)
        BY <1>1, UseFacts, OneThreadMoves DEF OthersStay
      <3> QED BY <2>2, <3>1 DEF CreatorHolds
    <2> QED BY <2>1, <2>2, <2>3 DEF FlagAfterFirst, CreatorsCounted, TypeOK
  <1>2. ASSUME NEW t \in Threads, TestFlag(t)
        PROVE  Goal
    <2>1. UNCHANGED <<isInit, holder, instance, calls>> /\ pc[t] = "test"
      BY <1>2 DEF TestFlag
    <2>2. pc'[t] = IF isInit[calls[t]] THEN "use" ELSE "create"
      BY <1>2 DEF TestFlag, Goto, TypeOK
    <2>3. CreatorHolds'
      BY <1>2, <2>1, <2>2, OneThreadMoves DEF CreatorHolds, OthersStay, InstanceStep
    <2>4. ASSUME NEW s \in Singletons
          PROVE  instance[s] + Cardinality(Creating(s)') <= MaxObjects
      <3>1. CASE calls[t] # s \/ isInit[s]
        <4>1. Creating(s)' = Creating(s)
          BY <1>2, <2>1, <2>2, <3>1, OneThreadMoves DEF Creating, OthersStay, InstanceStep
        <4> QED BY <4>1 DEF CreatorsCounted
      <3>2. CASE calls[t] = s /\ ~isInit[s]
        <4>1. Creating(s)' = Creating(s) \cup {t} /\ t \notin Creating(s)
          BY <1>2, <2>1, <2>2, <3>2, OneThreadMoves DEF Creating, OthersStay, InstanceStep
        <4>2. Cardinality(Creating(s)') = Cardinality(Creating(s)) + 1
          BY <4>1, Counting, FS_AddElement
        <4>3. CASE holder[s] = None
          <5>1. instance[s] = 0
            BY <1>0, <3>2, <4>3 DEF FlagAfterFirst
          <5>2. Cardinality(Creating(s)) < MaxObjects
            BY <4>1, Counting
          <5> QED BY <4>2, <5>1, <5>2, Counting
        <4>4. CASE holder[s] # None
          <5> DEFINE h == holder[s]
          <5>1. h \in Threads /\ pc[h] = "setFlag" /\ h # t
            BY <1>0, <2>1, <4>4 DEF CreatorHolds
          <5>2. instance[s] <= 1
            BY <3>2 DEF CreatorsCounted
          <5>3. h \notin Creating(s) \cup {t}
            BY <5>1 DEF Creating
          <5>4. Cardinality(Creating(s) \cup {t}) < MaxObjects
            <6>1. IsFiniteSet(Threads) /\ Creating(s) \cup {t} \subseteq Threads
              BY FiniteAssumption, FS_Union DEF Threads, Creating
            <6>2. /\ Cardinality(Creating(s) \cup {t}) <= Cardinality(Threads)
                  /\ Cardinality(Creating(s) \cup {t}) # Cardinality(Threads)
              BY <5>1, <5>3, <6>1, FS_Subset
            <6>3. Cardinality(Creating(s) \cup {t}) \in Nat
              BY <4>1, <4>2, Counting
            <6> QED BY <6>2, <6>3, Counting DEF MaxObjects
          <5> QED BY <1>0, <4>1, <4>2, <5>2, <5>4, Counting
        <4> QED BY <4>3, <4>4
      <3> QED BY <3>1, <3>2
    <2> QED BY <2>1, <2>3, <2>4 DEF FlagAfterFirst, CreatorsCounted, TypeOK
  <1>3. ASSUME NEW t \in Threads, Create(t)
        PROVE  Goal
    <2>0. PICK s \in Singletons : s = calls[t]
      BY DEF TypeOK
    <2>1. /\ pc[t] = "create" /\ holder[s] = None /\ UNCHANGED <<isInit, calls>>
          /\ holder' = [holder EXCEPT ![s] = t] /\ instance' = [instance EXCEPT ![s] = @ + 1]
          /\ pc'[t] = "setFlag"
      BY <1>3, <2>0 DEF Create, MutexFree, Goto, TypeOK
    <2>2. \A u \in Threads \ {t} : pc'[u] = pc[u]
      BY <1>3, OneThreadMoves DEF OthersStay, InstanceStep
    <2>3. CreatorHolds'
      BY <2>0, <2>1, <2>2, NoneAssumption DEF CreatorHolds, TypeOK
    <2>4. FlagAfterFirst'
      BY <1>0, <2>0, <2>1, NoneAssumption DEF FlagAfterFirst, TypeOK
    <2>5. Creating(s)' = Creating(s) \ {t} /\ t \in Creating(s)
      BY <2>0, <2>1, <2>2 DEF Creating
    <2>6. \A r \in Singletons \ {s} : Creating(r)' = Creating(r)
      BY <2>0, <2>1, <2>2 DEF Creating
    <2>7. Cardinality(Creating(s)') = Cardinality(Creating(s)) - 1
      BY <2>5, Counting, FS_RemoveElement
    <2>8. ~isInit[s] => instance[s] = 0
      BY <1>0, <2>1 DEF FlagAfterFirst
    <2>9. CreatorsCounted'
      <3>1. /\ instance'[s] = instance[s] + 1 /\ instance[s] \in Nat
            /\ \A r \in Singletons \ {s} : instance'[r] = instance[r]
        BY <1>0, <2>1 DEF TypeOK
      <3>2. instance'[s] + Cardinality(Creating(s)') <= MaxObjects
        BY <2>7, <3>1, Counting DEF CreatorsCounted
      <3>3. ~isInit[s] => instance'[s] <= 1
        BY <2>8, <3>1
      <3> QED BY <2>1, <2>6, <3>1, <3>2, <3>3 DEF CreatorsCounted
    <2>10. instance[s] + 1 \in 0 .. MaxObjects
      <3>1. instance[s] + Cardinality(Creating(s)) <= MaxObjects /\ Cardinality(Creating(s)) # 0
        BY <2>5, Counting, FS_EmptySet DEF CreatorsCounted
      <3> QED BY <1>0, <3>1, Counting
    <2> QED BY <2>1, <2>3, <2>4, <2>9, <2>10 DEF TypeOK
  <1>4. ASSUME NEW t \in Threads, SetFlag(t)
        PROVE  Goal
    <2>0. PICK s \in Singletons : s = calls[t]
      BY DEF TypeOK
    <2>1. /\ pc[t] = "setFlag" /\ holder[s] = t /\ UNCHANGED <<instance, calls>>
          /\ holder' = [holder EXCEPT ![s] = None] /\ isInit' = [isInit EXCEPT ![s] = TRUE]
          /\ pc'[t] = "use"
      BY <1>4, <2>0 DEF SetFlag, Goto, TypeOK, CreatorHolds
    <2>2. \A u \in Threads \ {t} : pc'[u] = pc[u]
      BY <1>4, OneThreadMoves DEF OthersStay, InstanceStep
    <2>3. CreatorHolds'
      BY <2>0, <2>1, <2>2, NoneAssumption DEF CreatorHolds, TypeOK
    <2>4. FlagAfterFirst'
      BY <1>0, <2>0, <2>1, NoneAssumption DEF FlagAfterFirst, TypeOK
    <2>5. \A r : Creating(r)' = Creating(r)
      BY <2>0, <2>1, <2>2 DEF Creating
    <2>6. CreatorsCounted'
      BY <2>1, <2>5 DEF CreatorsCounted, TypeOK
    <2> QED BY <2>1, <2>3, <2>4, <2>6 DEF TypeOK
  <1>5. ASSUME UNCHANGED vars
        PROVE  Goal
    BY <1>5 DEF vars, CreatorHolds, FlagAfterFirst, CreatorsCounted, Creating, TypeOK
  <1> QED BY <1>1, <1>2, <1>3, <1>4, <1>5, NextSteps DEF InstanceStep

-----------------------------------------------------------------------------
(* Types, and where the threads are.                                       *)

(* Every step keeps the types.                                             *)
LEMMA TypeStep ==
    ASSUME TypeOK, CreatorHolds, FlagAfterFirst, CreatorsCounted, [Next]_vars
    PROVE  TypeOK'
  <1> DEFINE Stages == {"connect", "test", "create", "setFlag", "use", "waitLock", "inSched", "wait", "schedule", "done"}
  <1>1. instance' \in [Singletons -> 0 .. MaxObjects]
    BY InstanceLayer
  <1>2. 0 \in 0 .. MaxObjects /\ \A s \in Singletons : instance[s] \in 0 .. MaxObjects
    BY Counting DEF TypeOK
  <1> USE DEF Goto, CallInstance, Singletons
  <1>3. ASSUME NEW t \in Threads, InstanceStep(t)
        PROVE  TypeOK'
    <2>1. TestFlag(t) => TypeOK'
      BY <1>1 DEF TypeOK, TestFlag
    <2>2. Create(t) => TypeOK'
      BY <1>1 DEF TypeOK, Create
    <2>3. SetFlag(t) => TypeOK'
      BY <1>1 DEF TypeOK, SetFlag
    <2> QED BY <1>3, <2>1, <2>2, <2>3 DEF InstanceStep
  <1>4. ASSUME NEW t \in Threads, SchedStep(t)
        PROVE  TypeOK'
    <2>1. WaitForLock(t) => TypeOK'
      BY <1>1, <1>2 DEF TypeOK, WaitForLock
    <2>2. ASSUME EnterSched(t)
          PROVE  TypeOK'
      <3>1. procLock' = [procLock EXCEPT ![uses[t]] = t]
        BY <2>2 DEF EnterSched
      <3>2. procLock' \in [Objects -> Threads \cup {None}]
        BY <3>1 DEF TypeOK
      <3> QED BY <1>1, <1>2, <2>2, <3>2 DEF TypeOK, EnterSched
    <2>3. ASSUME LeaveSched(t)
          PROVE  TypeOK'
      <3>1. uses' = [uses EXCEPT ![t] = 0] /\ \E o : procLock' = [procLock EXCEPT ![o] = None]
        BY <2>3 DEF LeaveSched
      <3>2. uses' \in [Threads -> 0 .. MaxObjects] /\ procLock' \in [Objects -> Threads \cup {None}]
        BY <1>2, <3>1 DEF TypeOK
      <3>3. queued' \subseteq Clients
        BY <2>3 DEF LeaveSched, TypeOK
      <3>4. pc' \in [Threads -> Stages] /\ calls' \in [Threads -> Singletons]
        BY <2>3 DEF LeaveSched, TypeOK
      <3> QED BY <1>1, <2>3, <3>2, <3>3, <3>4 DEF TypeOK, LeaveSched
    <2> QED BY <1>4, <2>1, <2>2, <2>3 DEF SchedStep
  <1>5. ASSUME NEW c \in Clients, Connect(c) \/ Push(c)
        PROVE  TypeOK'
    <2>1. Connect(c) => TypeOK'
      BY <1>1 DEF TypeOK, Connect
    <2>2. ASSUME Push(c)
          PROVE  TypeOK'
      <3>1. PICK p : p = instance["pool"] /\ sem' = [sem EXCEPT ![p] = @ + 1]
        BY <2>2 DEF Push, TokensPosted
      <3>2. sem' \in [Objects -> Nat]
        <4>1. sem \in [Objects -> Nat]
          BY DEF TypeOK
        <4>2. p \in Objects => sem[p] + 1 \in Nat
          BY <4>1
        <4> QED BY <3>1, <4>1, <4>2
      <3> QED BY <1>1, <2>2, <3>2 DEF TypeOK, Push
    <2> QED BY <1>5, <2>1, <2>2
  <1>6. ASSUME NEW d \in Devices, DevStep(d)
        PROVE  TypeOK'
    <2>1. BeginLoop(d) => TypeOK'
      BY <1>1 DEF TypeOK, BeginLoop
    <2>2. StartWaiting(d) => TypeOK'
      BY <1>1, <1>2 DEF TypeOK, StartWaiting
    <2>3. ASSUME Take(d)
          PROVE  TypeOK'
      <3>1. sem' \in [Objects -> Nat]
        <4>1. PICK p : p = uses[d] /\ sem' = [sem EXCEPT ![p] = @ - 1] /\ sem[p] > 0
          BY <2>3 DEF Take, TokenThere
        <4>2. sem \in [Objects -> Nat]
          BY DEF TypeOK
        <4>3. p \in Objects => sem[p] - 1 \in Nat
          BY <4>1, <4>2
        <4> QED BY <4>1, <4>2, <4>3
      <3> QED BY <1>1, <1>2, <2>3, <3>1 DEF TypeOK, Take
    <2>4. ASSUME TakeAndGiveBack(d)
          PROVE  TypeOK'
      <3>1. uses' \in [Threads -> 0 .. MaxObjects] /\ calls' \in [Threads -> Singletons]
        BY <1>2, <2>4 DEF TypeOK, TakeAndGiveBack
      <3>2. pc' \in [Threads -> Stages]
        BY <2>4 DEF TypeOK, TakeAndGiveBack
      <3> QED BY <1>1, <2>4, <3>1, <3>2 DEF TypeOK, TakeAndGiveBack
    <2> QED BY <1>6, <2>1, <2>2, <2>3, <2>4 DEF DevStep
  <1>7. ASSUME UNCHANGED vars
        PROVE  TypeOK'
    BY <1>7 DEF vars, TypeOK
  <1> QED BY <1>3, <1>4, <1>5, <1>6, <1>7 DEF Next

(* Objects are created and never taken away.                               *)
LEMMA InstanceGrows ==
    ASSUME TypeOK, NEW t \in Threads, InstanceStep(t) \/ UseStep(t)
    PROVE  \A s \in Singletons : instance[s] \in Nat /\ instance'[s] \in Nat /\ instance'[s] >= instance[s]
  <1>1. \A s \in Singletons : instance[s] \in Nat
    BY Counting DEF TypeOK
  <1>2. UNCHANGED instance \/ instance' = [instance EXCEPT ![calls[t]] = @ + 1]
    BY UseFacts DEF InstanceStep, TestFlag, Create, SetFlag
  <1>3. \A s \in Singletons : instance'[s] = instance[s] \/ instance'[s] = instance[s] + 1
    BY <1>2 DEF TypeOK
  <1> QED BY <1>1, <1>3

(* The stages each thread passes.                                          *)
LEMMA StagesStep ==
    ASSUME TypeOK, FlagAfterFirst, CreatorHolds, StagesInScope, [Next]_vars
    PROVE  StagesInScope'
  <1> DEFINE T(t) == /\ pc[t] \notin {"connect", "test", "create"} => instance[calls[t]] >= 1
                     /\ calls[t] = "pool" => instance["sched"] >= 1
                     /\ pc[t] = "waitLock" \/ (pc[t] = "inSched" /\ t \in Clients) => uses[t] \in 1 .. instance["sched"]
             D(d) == /\ pc[d] \in {"wait", "schedule", "waitLock", "inSched"} => calls[d] = "pool"
                     /\ pc[d] \in {"schedule", "waitLock", "inSched"} => d = BoundDev
             C(c) == pc[c] = "done" => calls[c] = "pool"
             Q(c) == c \in queued => pc[c] = "done"
  <1>0. /\ StagesInScope <=> (\A t \in Threads : T(t)) /\ (\A d \in Devices : D(d)) /\ \A c \in Clients : C(c) /\ Q(c)
        /\ StagesInScope' <=> (\A t \in Threads : T(t)') /\ (\A d \in Devices : D(d)') /\ \A c \in Clients : C(c)' /\ Q(c)'
    BY DEF StagesInScope
  <1>1. ASSUME NEW t \in Threads, InstanceStep(t) \/ UseStep(t)
        PROVE  StagesInScope'
    <2>1. \A u \in Threads \ {t} : pc'[u] = pc[u] /\ calls'[u] = calls[u] /\ uses'[u] = uses[u]
      BY <1>1, OneThreadMoves DEF OthersStay
    <2>2. \A s \in Singletons : instance[s] \in Nat /\ instance'[s] \in Nat /\ instance'[s] >= instance[s]
      BY <1>1, InstanceGrows
    <2>3. \A u \in Threads : calls[u] \in Singletons /\ uses[u] \in Int
      BY Counting DEF TypeOK
    <2>4. ASSUME NEW u \in Threads \ {t}
          PROVE  /\ T(u)' /\ (u \in Devices => D(u)')
                 /\ u \in Clients => C(u)' /\ (u \in queued => pc'[u] = "done")
      BY <1>0, <2>1, <2>2, <2>3 DEF Singletons
    <2> DEFINE Mine == /\ T(t)' /\ (t \in Devices => D(t)') /\ (t \in Clients => C(t)' /\ Q(t)')
                       /\ \A c \in Clients \ {t} : c \in queued' => c \in queued
    <2> USE DEF Goto, CallInstance, TypeOK, Singletons, Threads
    <2>5. ASSUME TestFlag(t)
          PROVE  Mine
      <3>1. /\ pc[t] = "test" /\ pc'[t] = IF isInit[calls[t]] THEN "use" ELSE "create"
            /\ UNCHANGED <<instance, calls, uses, queued>>
        BY <2>5 DEF TestFlag
      <3>2. isInit[calls[t]] => instance[calls[t]] >= 1
        BY <2>3 DEF FlagAfterFirst
      <3> QED BY <1>0, <3>1, <3>2
    <2>6. ASSUME Create(t)
          PROVE  Mine
      <3>1. /\ pc[t] = "create" /\ pc'[t] = "setFlag" /\ instance'[calls[t]] = instance[calls[t]] + 1
            /\ UNCHANGED <<calls, uses, queued>>
        BY <2>6 DEF Create
      <3> HIDE DEF TypeOK
      <3> QED BY <1>0, <2>2, <2>3, <3>1
    <2>7. ASSUME SetFlag(t)
          PROVE  Mine
      <3>1. pc[t] = "setFlag" /\ pc'[t] = "use" /\ UNCHANGED <<instance, calls, uses, queued>>
        BY <2>7 DEF SetFlag
      <3> HIDE DEF TypeOK
      <3> QED BY <1>0, <2>2, <2>3, <3>1
    <2>8. ASSUME WaitForLock(t)
          PROVE  Mine
      <3>1. /\ pc'[t] = "waitLock" /\ uses'[t] = instance["sched"] /\ UNCHANGED <<instance, calls, queued>>
            /\ pc[t] = "schedule" \/ (t \in Clients /\ pc[t] = "use" /\ calls[t] = "sched")
        BY <2>8 DEF WaitForLock, NeedsLock
      <3>2. t \in Devices => t \notin Clients
        BY ThreadsAssumption
      <3>3. instance["sched"] \in Nat /\ instance["sched"] >= 1
        <4>1. pc[t] = "schedule" => instance[calls[t]] >= 1
          BY <1>0
        <4>2. calls[t] \in {"sched", "pool"}
          BY <2>3
        <4>3. calls[t] = "sched" /\ pc[t] = "use" => instance["sched"] >= 1
          BY <1>0
        <4> HIDE DEF TypeOK
        <4> QED BY <1>0, <2>2, <3>1, <4>1, <4>2, <4>3
      <3> HIDE DEF TypeOK
      <3> QED BY <1>0, <2>2, <2>3, <3>1, <3>2, <3>3
    <2>9. ASSUME EnterSched(t)
          PROVE  Mine
      <3>1. /\ pc[t] = "waitLock" /\ pc'[t] = "inSched" /\ UNCHANGED <<instance, calls, queued>>
            /\ t \in Clients => uses' = uses
        BY <2>9 DEF EnterSched
      <3> HIDE DEF TypeOK
      <3> QED BY <1>0, <2>2, <2>3, <3>1
    <2>10. ASSUME LeaveSched(t)
           PROVE  Mine
      <3>1. /\ pc[t] = "inSched" /\ pc'[t] = "test" /\ calls'[t] = "pool"
            /\ queued' \subseteq queued /\ UNCHANGED instance
        BY <2>10 DEF LeaveSched
      <3>2. instance["sched"] >= 1
        <4>1. calls[t] \in {"sched", "pool"} /\ instance[calls[t]] >= 1
          BY <1>0, <2>3, <3>1
        <4> HIDE DEF TypeOK
        <4> QED BY <1>0, <4>1
      <3> HIDE DEF TypeOK
      <3> QED BY <1>0, <2>2, <2>3, <3>1, <3>2
    <2>11. ASSUME t \in Clients, Connect(t)
           PROVE  Mine
      <3>1. pc[t] = "connect" /\ pc'[t] = "test" /\ UNCHANGED <<instance, calls, uses, queued>> /\ t \notin Devices
        BY <2>11, ThreadsAssumption DEF Connect
      <3> HIDE DEF TypeOK
      <3> QED BY <1>0, <2>2, <2>3, <3>1
    <2>12. ASSUME t \in Clients, Push(t)
           PROVE  Mine
      <3>1. /\ pc[t] = "use" /\ pc'[t] = "done" /\ UNCHANGED <<instance, calls, uses>> /\ t \notin Devices
            /\ calls[t] = "pool" /\ queued' = queued \cup {t}
        BY <2>12, ThreadsAssumption DEF Push
      <3> HIDE DEF TypeOK
      <3> QED BY <1>0, <2>2, <2>3, <3>1
    <2>13. ASSUME t \in Devices, DevStep(t)
           PROVE  Mine
      <3>1. t \notin Clients /\ UNCHANGED <<instance, queued>>
        BY <2>13, ThreadsAssumption DEF DevStep, BeginLoop, StartWaiting, Take, TakeAndGiveBack
      <3>2. CASE BeginLoop(t)
        <4>1. pc[t] = "use" /\ calls[t] = "sched" /\ pc'[t] = "test" /\ calls'[t] = "pool"
          BY <3>2 DEF BeginLoop
        <4> HIDE DEF TypeOK
        <4> QED BY <1>0, <2>2, <2>3, <3>1, <4>1
      <3>3. CASE StartWaiting(t)
        <4>1. pc[t] = "use" /\ calls[t] = "pool" /\ pc'[t] = "wait" /\ calls' = calls
          BY <3>3 DEF StartWaiting
        <4> HIDE DEF TypeOK
        <4> QED BY <1>0, <2>2, <2>3, <3>1, <4>1
      <3>4. CASE Take(t)
        <4>1. pc[t] = "wait" /\ pc'[t] = "schedule" /\ calls' = calls /\ t = BoundDev
          BY <3>4 DEF Take, TokenThere
        <4> HIDE DEF TypeOK
        <4> QED BY <1>0, <2>2, <2>3, <3>1, <4>1
      <3>5. CASE TakeAndGiveBack(t)
        <4>1. pc[t] = "wait" /\ pc'[t] = "test" /\ calls'[t] = "pool"
          BY <3>5 DEF TakeAndGiveBack, TokenThere
        <4>2. calls[t] = "pool"
          BY <1>0, <2>13, <4>1
        <4> HIDE DEF TypeOK
        <4> QED BY <1>0, <2>2, <2>3, <3>1, <4>1, <4>2
      <3> QED BY <2>13, <3>2, <3>3, <3>4, <3>5 DEF DevStep
    <2> HIDE DEF TypeOK, Singletons, Goto, CallInstance, T, D, C, Threads
    <2>14. Mine
      BY <1>1, <2>5, <2>6, <2>7, <2>8, <2>9, <2>10, <2>11, <2>12, <2>13 DEF InstanceStep, UseStep, SchedStep
    <2> QED BY <1>0, <2>4, <2>14 DEF Threads
  <1>2. ASSUME UNCHANGED vars
        PROVE  StagesInScope'
    BY <1>2 DEF vars, StagesInScope
  <1> QED BY <1>1, <1>2, NextSteps

-----------------------------------------------------------------------------
(* Tokens and the scheduler's lock.                                        *)

(* No tokens before there is a pool.                                       *)
LEMMA UnusedStep ==
    ASSUME TypeOK, FlagAfterFirst, StagesInScope, UnusedAreEmpty, [Next]_vars
    PROVE  UnusedAreEmpty'
  <1>1. ASSUME NEW t \in Threads, InstanceStep(t) \/ UseStep(t)
        PROVE  UnusedAreEmpty'
    <2>1. instance["pool"] \in Nat /\ instance'["pool"] \in Nat /\ instance'["pool"] >= instance["pool"]
      BY <1>1, InstanceGrows DEF Singletons
    <2>2. \A p \in Objects : p \in Int
      BY DEF Objects
    <2>3. CASE sem' = sem
      BY <2>1, <2>2, <2>3 DEF UnusedAreEmpty
    <2>4. CASE \E p : sem' = [sem EXCEPT ![p] = @ + TokensPosted] /\ p = instance["pool"]
      <3>1. \A p \in Objects : p > instance["pool"] => sem'[p] = sem[p]
        BY <2>1, <2>2, <2>4 DEF TypeOK
      <3> QED BY <2>1, <2>2, <3>1 DEF UnusedAreEmpty
    <2>5. CASE \E p : sem' = [sem EXCEPT ![p] = @ - 1] /\ p = instance["pool"]
      <3>1. \A p \in Objects : p > instance["pool"] => sem'[p] = sem[p]
        BY <2>1, <2>2, <2>5 DEF TypeOK
      <3> QED BY <2>1, <2>2, <3>1 DEF UnusedAreEmpty
    <2>6. sem' = sem \/ Push(t) \/ Take(t)
      BY <1>1 DEF InstanceStep, UseStep, SchedStep, DevStep, TestFlag, Create, SetFlag, WaitForLock, EnterSched,
                  LeaveSched, Connect, BeginLoop, StartWaiting, TakeAndGiveBack
    <2> QED BY <2>3, <2>4, <2>5, <2>6 DEF Push, Take, TokenThere
  <1>2. ASSUME UNCHANGED vars
        PROVE  UnusedAreEmpty'
    BY <1>2 DEF vars, UnusedAreEmpty
  <1> QED BY <1>1, <1>2, NextSteps

(* Threads in the scheduler and locks that are held can be counted.        *)
LEMMA CountingLocks ==
    /\ IsFiniteSet(InSched) /\ Cardinality(InSched) \in Nat
    /\ IsFiniteSet(HeldLocks) /\ Cardinality(HeldLocks) \in Nat
    /\ IsFiniteSet(InSched') /\ IsFiniteSet(HeldLocks')
  <1>1. IsFiniteSet(Threads)
    BY FiniteAssumption, FS_Union DEF Threads
  <1>2. IsFiniteSet(Objects)
    BY Counting, FS_Interval DEF Objects
  <1>3. InSched \subseteq Threads /\ InSched' \subseteq Threads /\ HeldLocks \subseteq Objects /\ HeldLocks' \subseteq Objects
    BY DEF InSched, HeldLocks
  <1>4. IsFiniteSet(InSched) /\ IsFiniteSet(HeldLocks) /\ IsFiniteSet(InSched') /\ IsFiniteSet(HeldLocks')
    BY <1>1, <1>2, <1>3, FS_Subset
  <1> QED BY <1>4, FS_CardinalityType

(* Locks of the schedulers there are bound the threads that are in one.    *)
LEMMA ExclusionFromLocks ==
    ASSUME TypeOK, LocksHeld
    PROVE  SchedulerExclusive
  <1>1. instance["sched"] \in Nat
    BY Counting DEF TypeOK, Singletons
  <1>2. Cardinality(HeldLocks) <= instance["sched"]
    <2>1. IsFiniteSet(1 .. instance["sched"]) /\ Cardinality(1 .. instance["sched"]) = instance["sched"]
      <3>1. PICK n \in Nat : n = instance["sched"]
        BY <1>1
      <3>2. IsFiniteSet(1 .. n) /\ Cardinality(1 .. n) = IF 1 > n THEN 0 ELSE n-1+1
        BY FS_Interval
      <3>3. (IF 1 > n THEN 0 ELSE n-1+1) = n
        OBVIOUS
      <3> QED BY <3>1, <3>2, <3>3
    <2>2. Cardinality(HeldLocks) <= Cardinality(1 .. instance["sched"])
      BY <2>1, FS_Subset DEF LocksHeld
    <2> QED BY <2>1, <2>2
  <1> QED BY <1>1, <1>2, CountingLocks DEF LocksHeld, SchedulerExclusive

(* The threads that are in the scheduler: each that enters takes a lock    *)
(* that was free, each that leaves gives up one at most.                   *)
LEMMA LockStep ==
    ASSUME TypeOK, StagesInScope, LocksHeld, [Next]_vars
    PROVE  LocksHeld'
  <1>1. ASSUME NEW t \in Threads, InstanceStep(t) \/ UseStep(t)
        PROVE  LocksHeld'
    <2>1. \A u \in Threads \ {t} : pc'[u] = pc[u]
      BY <1>1, OneThreadMoves DEF OthersStay
    <2>2. instance["sched"] \in Nat /\ instance'["sched"] \in Nat /\ instance'["sched"] >= instance["sched"]
      BY <1>1, InstanceGrows DEF Singletons
    <2>3. 1 .. instance["sched"] \subseteq 1 .. instance'["sched"]
      BY <2>2
    <2>4. CASE EnterSched(t)
      <3>1. PICK o : /\ o = uses[t] /\ procLock' = [procLock EXCEPT ![o] = t] /\ procLock[o] = None
                     /\ pc[t] = "waitLock" /\ pc' = [pc EXCEPT ![t] = "inSched"] /\ instance' = instance
        BY <2>4 DEF EnterSched, LockFree, Goto
      <3>2. o \in 1 .. instance["sched"] /\ o \in Objects
        <4>1. o \in 1 .. instance["sched"] /\ instance["sched"] \in 0 .. MaxObjects
          BY <3>1 DEF StagesInScope, TypeOK, Singletons
        <4> QED BY <4>1, Counting DEF Objects
      <3>3. InSched' = InSched \cup {t} /\ t \notin InSched
        BY <3>1 DEF InSched, TypeOK
      <3>4. HeldLocks' = HeldLocks \cup {o} /\ o \notin HeldLocks
        BY <3>1, <3>2, NoneAssumption DEF HeldLocks, TypeOK
      <3>5. /\ Cardinality(InSched') = Cardinality(InSched) + 1
            /\ Cardinality(HeldLocks') = Cardinality(HeldLocks) + 1
        BY <3>3, <3>4, CountingLocks, FS_AddElement
      <3>6. HeldLocks' \subseteq 1 .. instance'["sched"]
        BY <3>1, <3>2, <3>4 DEF LocksHeld
      <3> HIDE DEF InSched, HeldLocks
      <3>7. Cardinality(InSched') <= Cardinality(HeldLocks')
        BY <3>5, CountingLocks DEF LocksHeld
      <3> QED BY <3>6, <3>7 DEF LocksHeld
    <2>5. CASE LeaveSched(t)
      <3>1. PICK o : /\ procLock' = [procLock EXCEPT ![o] = None] /\ pc[t] = "inSched"
                     /\ pc' = [pc EXCEPT ![t] = "test"] /\ instance' = instance
        BY <2>5 DEF LeaveSched, CallInstance, Goto
      <3>2. InSched' = InSched \ {t} /\ t \in InSched
        BY <3>1 DEF InSched, TypeOK
      <3>3. HeldLocks' = HeldLocks \ {o}
        BY <3>1, NoneAssumption DEF HeldLocks, TypeOK
      <3>4. Cardinality(InSched') = Cardinality(InSched) - 1
        BY <3>2, CountingLocks, FS_RemoveElement
      <3>5. Cardinality(HeldLocks') >= Cardinality(HeldLocks) - 1
        BY <3>3, CountingLocks, FS_RemoveElement
      <3> HIDE DEF InSched, HeldLocks
      <3>6. Cardinality(InSched') <= Cardinality(HeldLocks')
        <4>1. Cardinality(InSched) <= Cardinality(HeldLocks)
          BY DEF LocksHeld
        <4>2. Cardinality(HeldLocks') \in Nat
          BY CountingLocks, FS_CardinalityType
        <4> QED BY <3>4, <3>5, <4>1, <4>2, CountingLocks
      <3> QED BY <3>1, <3>3, <3>6 DEF LocksHeld
    <2>6. CASE ~EnterSched(t) /\ ~LeaveSched(t)
      <3>1. UNCHANGED procLock /\ pc'[t] # "inSched" /\ pc[t] # "inSched"
        <4> DEFINE Outside == UNCHANGED procLock /\ pc'[t] # "inSched" /\ pc[t] # "inSched"
        <4>1. InstanceStep(t) => Outside
          BY DEF InstanceStep, TestFlag, Create, SetFlag, Goto, TypeOK
        <4>2. WaitForLock(t) => Outside
          BY DEF WaitForLock, NeedsLock, Goto, TypeOK
        <4>3. Connect(t) \/ Push(t) => Outside
          BY DEF Connect, Push, Goto, TypeOK
        <4>4. DevStep(t) => Outside
          BY DEF DevStep, BeginLoop, StartWaiting, Take, TakeAndGiveBack, TokenThere, Goto, CallInstance, TypeOK
        <4> QED BY <1>1, <2>6, <4>1, <4>2, <4>3, <4>4 DEF UseStep, SchedStep
      <3>2. InSched' = InSched /\ HeldLocks' = HeldLocks
        BY <2>1, <3>1 DEF InSched, HeldLocks
      <3> QED BY <2>3, <3>2 DEF LocksHeld
    <2> QED BY <2>4, <2>5, <2>6
  <1>2. ASSUME UNCHANGED vars
        PROVE  LocksHeld'
    BY <1>2 DEF vars, LocksHeld, InSched, HeldLocks
  <1> QED BY <1>1, <1>2, NextSteps

(* Tokens and queued commands.                                             *)
LEMMA TokensStep ==
    ASSUME TypeOK, CreatorHolds, FlagAfterFirst, CreatorsCounted, StagesInScope, UnusedAreEmpty, TokensMatchCommands, [Next]_vars
    PROVE  TokensMatchCommands'
  <1> DEFINE Busy == {"schedule", "waitLock", "inSched"}
             taken == IF pc[BoundDev] \in Busy THEN 1 ELSE 0
  <1>0. IsFiniteSet(queued) /\ Cardinality(queued) \in Nat
    BY FiniteAssumption, FS_Subset, FS_CardinalityType DEF TypeOK
  <1>1. ASSUME NEW t \in Threads, InstanceStep(t) \/ UseStep(t), instance'["pool"] = 1
        PROVE  sem'[1] + taken' = Cardinality(queued')
    <2>1. \A u \in Threads \ {t} : pc'[u] = pc[u]
      BY <1>1, OneThreadMoves DEF OthersStay
    <2>2. BoundDev \in Threads /\ BoundDev \in Devices
      BY BoundDevAssumption DEF Threads
    <2>3. 1 \in Objects
      <3>1. instance' \in [Singletons -> 0 .. MaxObjects]
        BY <1>1, InstanceLayer DEF Next, InstanceStep, UseStep, Threads
      <3> QED BY <1>1, <3>1, Counting DEF Objects, Singletons
    <2>4. sem[1] \in Nat
      BY <2>3 DEF TypeOK
    <2>5. CASE instance["pool"] # 1
      <3>1. Create(t)
        BY <1>1, <2>5, UseFacts DEF InstanceStep, TestFlag, SetFlag
      <3>2. instance["pool"] = 0
        <4>1. instance["pool"] \in Nat /\ instance'["pool"] >= instance["pool"]
          BY <1>1, InstanceGrows DEF Singletons
        <4> QED BY <1>1, <2>5, <4>1
      <3>3. sem[1] = 0
        BY <2>3, <3>2 DEF UnusedAreEmpty
      <3>4. queued = {}
        BY <3>2 DEF StagesInScope, TypeOK, Threads
      <3>5. pc[BoundDev] \notin Busy
        BY <2>2, <3>2 DEF StagesInScope, Threads
      <3>6. sem' = sem /\ queued' = queued /\ pc'[t] = "setFlag"
        BY <3>1 DEF Create, Goto, TypeOK
      <3> QED BY <2>1, <2>2, <3>3, <3>4, <3>5, <3>6, FS_EmptySet
    <2>6. CASE instance["pool"] = 1
      <3>0. sem[1] + taken = Cardinality(queued)
        BY <2>6 DEF TokensMatchCommands
      <3>1. CASE t \in Clients /\ Push(t)
        <4>1. /\ sem' = [sem EXCEPT ![1] = @ + 1] /\ queued' = queued \cup {t}
              /\ pc[t] = "use" /\ pc'[t] = "done"
          BY <2>6, <3>1 DEF Push, TokensPosted, Goto, TypeOK
        <4>2. t \notin queued
          BY <3>1, <4>1 DEF StagesInScope
        <4>3. Cardinality(queued') = Cardinality(queued) + 1
          BY <1>0, <4>1, <4>2, FS_AddElement
        <4>4. sem'[1] = sem[1] + 1
          BY <2>3, <4>1 DEF TypeOK
        <4>5. taken' = taken
          BY <2>1, <2>2, <4>1
        <4> HIDE DEF taken
        <4>6. taken \in Nat
          BY DEF taken
        <4> QED BY <2>4, <3>0, <4>3, <4>4, <4>5, <4>6
      <3>2. CASE Take(t)
        <4>1. /\ t = BoundDev /\ sem' = [sem EXCEPT ![1] = @ - 1] /\ queued' = queued
              /\ pc[t] = "wait" /\ pc'[t] = "schedule"
          BY <2>6, <3>2 DEF Take, TokenThere, Goto, TypeOK
        <4>2. sem'[1] = sem[1] - 1
          BY <2>3, <4>1 DEF TypeOK
        <4> QED BY <2>4, <3>0, <4>1, <4>2
      <3>3. CASE LeaveSched(t)
        <4>1. pc[t] = "inSched" /\ pc'[t] = "test" /\ sem' = sem
          BY <3>3 DEF LeaveSched, CallInstance, Goto, TypeOK
        <4>2. CASE t \in Devices
          <5>1. t = BoundDev
            BY <4>1, <4>2 DEF StagesInScope
          <5>2. PICK c \in queued : queued' = queued \ {c}
            BY <3>3, <4>2 DEF LeaveSched
          <5>3. Cardinality(queued') = Cardinality(queued) - 1
            BY <1>0, <5>2, FS_RemoveElement
          <5> QED BY <1>0, <2>4, <3>0, <4>1, <5>1, <5>3
        <4>3. CASE t \notin Devices
          <5>1. queued' = queued /\ t # BoundDev
            BY <2>2, <3>3, <4>3 DEF LeaveSched
          <5> QED BY <2>1, <2>2, <3>0, <4>1, <5>1
        <4> QED BY <4>2, <4>3
      <3>4. CASE ~(t \in Clients /\ Push(t)) /\ ~Take(t) /\ ~LeaveSched(t)
        <4>1. UNCHANGED <<sem, queued>>
          BY <1>1, <3>4 DEF InstanceStep, UseStep, SchedStep, DevStep, TestFlag, Create, SetFlag, WaitForLock,
                            EnterSched, Connect, BeginLoop, StartWaiting, TakeAndGiveBack
        <4>2. t = BoundDev => (pc[t] \in Busy <=> pc'[t] \in Busy)
          <5>1. InstanceStep(t) => pc[t] \notin Busy /\ pc'[t] \notin Busy
            BY DEF InstanceStep, TestFlag, Create, SetFlag, Goto, TypeOK
          <5>2. EnterSched(t) => pc[t] \in Busy /\ pc'[t] \in Busy
            BY DEF EnterSched, Goto, TypeOK
          <5>3. t \in Devices /\ WaitForLock(t) => pc[t] \in Busy /\ pc'[t] \in Busy
            BY ThreadsAssumption DEF WaitForLock, NeedsLock, Goto, TypeOK
          <5>4. BeginLoop(t) \/ StartWaiting(t) \/ TakeAndGiveBack(t) => pc[t] \notin Busy /\ pc'[t] \notin Busy
            BY DEF BeginLoop, StartWaiting, TakeAndGiveBack, TokenThere, Goto, CallInstance, TypeOK
          <5>5. t = BoundDev => t \in Devices /\ t \notin Clients
            BY <2>2, ThreadsAssumption
          <5> QED BY <1>1, <3>4, <5>1, <5>2, <5>3, <5>4, <5>5 DEF UseStep, SchedStep, DevStep
        <4> QED BY <2>1, <2>2, <3>0, <4>1, <4>2
      <3> QED BY <3>1, <3>2, <3>3, <3>4
    <2> QED BY <2>5, <2>6
  <1>2. ASSUME UNCHANGED vars
        PROVE  TokensMatchCommands'
    BY <1>2 DEF vars, TokensMatchCommands
  <1> QED BY <1>1, <1>2, NextSteps DEF TokensMatchCommands

-----------------------------------------------------------------------------
(* The theorems.                                                           *)

(* StartupInv is an invariant of every interleaving of the first calls of  *)
(* Instance(); in particular no thread creates an object twice, so that    *)
(* MaxObjects bounds nothing.                                              *)
THEOREM StartupInvariant == Spec => []StartupInv
  <1> DEFINE Inv == /\ TypeOK /\ CreatorHolds /\ FlagAfterFirst /\ CreatorsCounted
                    /\ StagesInScope /\ UnusedAreEmpty /\ LocksHeld /\ TokensMatchCommands
  <1>1. Inv /\ [Next]_vars => Inv'
    <2> SUFFICES ASSUME Inv, [Next]_vars PROVE Inv'
      OBVIOUS
    <2>1. TypeOK' /\ CreatorHolds' /\ FlagAfterFirst' /\ CreatorsCounted'
      BY TypeStep, InstanceLayer
    <2>2. StagesInScope' /\ UnusedAreEmpty'
      BY StagesStep, UnusedStep
    <2>3. LocksHeld' /\ TokensMatchCommands'
      BY LockStep, TokensStep
    <2> QED BY <2>1, <2>2, <2>3
  <1>2. Init => Inv
    BY InitStartup DEF StartupInv
  <1>3. Inv => StartupInv
    BY ExclusionFromLocks DEF StartupInv
  <1> HIDE DEF Inv
  <1> QED BY <1>1, <1>2, <1>3, PTL DEF Spec

(* Whatever the first calls of Instance() do to each other, never are more *)
(* threads in the scheduler at once than schedulers were created: one, as  *)
(* long as the race did not happen.                                        *)
THEOREM LockExcludes == Spec => []SchedulerExclusive
  <1>1. StartupInv => SchedulerExclusive
    BY DEF StartupInv
  <1> QED BY <1>1, StartupInvariant, PTL

(* No token is lost or surplus unless the pool was created twice.          *)
THEOREM TokensMatch == Spec => []TokensMatchCommands
  <1>1. StartupInv => TokensMatchCommands
    BY DEF StartupInv
  <1> QED BY <1>1, StartupInvariant, PTL
=============================================================================
