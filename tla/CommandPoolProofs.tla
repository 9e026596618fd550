------------------------- MODULE CommandPoolProofs -------------------------
(***************************************************************************)
(* Proofs about CommandPool, for any set of clients and of devices and any *)
(* bounds.                                                                 *)
(***************************************************************************)
EXTENDS CommandPool, SequenceTheorems, FiniteSetTheorems, WellFoundedInduction, TLAPS

(* RemoveAt drops exactly one position of a sequence.                      *)
LEMMA RemoveAtFacts ==
    ASSUME NEW S, NEW s \in Seq(S), NEW k \in 1 .. Len(s)
    PROVE  /\ RemoveAt(s, k) \in Seq(S)
           /\ Len(RemoveAt(s, k)) = Len(s) - 1
           /\ \A i \in 1 .. Len(s) - 1 : RemoveAt(s, k)[i] = IF i < k THEN s[i] ELSE s[i + 1]
  <1> DEFINE a == SubSeq(s, 1, k - 1)
             b == SubSeq(s, k + 1, Len(s))
  <1>1. /\ Len(s) \in Nat
        /\ \A i \in 1 .. Len(s) : s[i] \in S
    BY LenProperties, ElementOfSeq
  <1>2. /\ a \in Seq(S) /\ Len(a) = k - 1
        /\ \A i \in 1 .. k - 1 : a[i] = s[i]
    BY <1>1, SubSeqProperties
  <1>3. /\ b \in Seq(S) /\ Len(b) = Len(s) - k
        /\ \A i \in 1 .. Len(s) - k : b[i] = s[k + i]
    <2>1. /\ b \in Seq(S)
          /\ Len(b) = IF k + 1 <= Len(s) THEN Len(s) - (k + 1) + 1 ELSE 0
          /\ \A i \in 1 .. Len(s) - (k + 1) + 1 : b[i] = s[(k + 1) + i - 1]
      BY <1>1, SubSeqProperties, k + 1 \in Int, Len(s) \in Int
    <2> HIDE DEF b
    <2> QED BY <1>1, <2>1
  <1>4. RemoveAt(s, k) = a \o b
    BY DEF RemoveAt
  <1> HIDE DEF a, b
  <1>5. /\ a \o b \in Seq(S) /\ Len(a \o b) = Len(a) + Len(b)
        /\ \A i \in 1 .. Len(a) + Len(b) : (a \o b)[i] = IF i <= Len(a) THEN a[i] ELSE b[i - Len(a)]
    BY <1>2, <1>3, ConcatProperties
  <1>6. ASSUME NEW i \in 1 .. Len(s) - 1
        PROVE  (a \o b)[i] = IF i < k THEN s[i] ELSE s[i + 1]
    <2>1. i < k => (a \o b)[i] = s[i]
      BY <1>1, <1>2, <1>3, <1>5
    <2>2. ASSUME ~(i < k)
          PROVE  (a \o b)[i] = s[i + 1]
      <3>1. (a \o b)[i] = b[i - (k - 1)]
        BY <2>2, <1>1, <1>2, <1>3, <1>5
      <3>2. i - (k - 1) \in 1 .. Len(s) - k /\ k + (i - (k - 1)) = i + 1
        BY <2>2, <1>1
      <3> QED BY <2>2, <3>1, <3>2, <1>1, <1>3
    <2> QED BY <2>1, <2>2
  <1> QED BY <1>1, <1>2, <1>3, <1>4, <1>5, <1>6

(* Init establishes the types.                                             *)
LEMMA InitTypeOK == Init => TypeOK
  BY DevicesAssumption DEF Init, TypeOK, RunPC, DevPC

(* Moving a program counter keeps its type.                                *)
LEMMA PCTypes ==
    ASSUME TypeOK
    PROVE  /\ \A c \in Clients, from, to \in RunPC : Goto(c, from, to) => rpc' \in [Clients -> RunPC]
           /\ \A d \in Devices, from, to \in DevPC : Step(d, from, to) => dpc' \in [Devices -> DevPC]
  <1>1. \A c \in Clients, from, to \in RunPC : Goto(c, from, to) => rpc' \in [Clients -> RunPC]
    BY DEF TypeOK, Goto
  <1>2. \A d \in Devices, from, to \in DevPC : Step(d, from, to) => dpc' \in [Devices -> DevPC]
    BY DEF TypeOK, Step
  <1> QED BY <1>1, <1>2

(* Every step of a Run thread keeps the types.                             *)
LEMMA RunTypeOK ==
    ASSUME TypeOK, ListedOnce, NEW c \in Clients
    PROVE  /\ RunInternal(c) => TypeOK'
           /\ \A kind \in Kinds : PushBack(c, kind) => TypeOK'
           /\ Disconnect(c) \/ SpuriousWakeup(c) => TypeOK'
  <1> USE DEF poolVars, queueVars, schedVars, sums, vmVars, devVars, runVars, history
  <1>0. \A from, to \in RunPC : Goto(c, from, to) => rpc' \in [Clients -> RunPC]
    BY PCTypes
  <1>1. CreateVM(c) => TypeOK'
    BY <1>0 DEF TypeOK, CreateVM, Weight, RunPC
  <1>2. ASSUME CreateQueue(c)
        PROVE  TypeOK'
    <2>1. queues' \in Seq(Clients) /\ refs' \in [Clients -> Int] /\ rpc' \in [Clients -> RunPC]
      BY <1>0, <1>2 DEF TypeOK, CreateQueue, RunPC
    <2> QED BY <1>2, <2>1 DEF TypeOK, CreateQueue
  <1>3. BindDevice(c) => TypeOK'
    BY <1>0 DEF TypeOK, BindDevice, RunPC
  <1>4. ASSUME PushToken(c)
        PROVE  TypeOK'
    <2>1. rpc' \in [Clients -> RunPC]
      BY <1>4 DEF TypeOK, PushToken, AfterPush, RunPC
    <2> QED BY <1>4, <2>1 DEF TypeOK, PushToken
  <1>5. ASSUME FinishAck(c)
        PROVE  TypeOK'
    <2>1. finSem' \in [Clients -> Nat] /\ rpc' \in [Clients -> RunPC]
      BY <1>0, <1>5 DEF TypeOK, FinishAck, FinishSignalled, RunPC
    <2> QED BY <1>5, <2>1 DEF TypeOK, FinishAck
  <1>6. Drained(c) \/ DrainWait(c) => TypeOK'
    BY <1>0 DEF TypeOK, Drained, DrainWait, RunPC
  <1>7. ASSUME DestroyQueueAndVM(c)
        PROVE  TypeOK'
    <2>1. IndexOfQueue(c) \in DOMAIN queues
      BY <1>7 DEF ListedOnce, IndexOfQueue, DestroyQueueAndVM, Goto
    <2>2. queues' \in Seq(Clients)
      BY <1>7, <2>1, RemoveAtFacts DEF TypeOK, DestroyQueueAndVM
    <2>3. /\ basedInner' \in Int /\ weightLeng' \in Int /\ timeLeng' \in Int
          /\ VMs' \subseteq Clients
      <3>1. used[c] \in Nat /\ used[c] * used[c] \in Nat
        BY DEF TypeOK
      <3>2. CASE UNCHANGED <<VMs, sums>>
        BY <3>2 DEF TypeOK
      <3>3. CASE VMs' = VMs \ {c} /\ SumsRelease(c)
        BY SMTT(20), <3>1, <3>3 DEF TypeOK, SumsRelease, Weight
      <3> QED BY <1>7, <3>2, <3>3 DEF DestroyQueueAndVM
    <2>4. rpc' \in [Clients -> RunPC]
      BY <1>0, <1>7 DEF DestroyQueueAndVM, RunPC
    <2>5. refs' \in [Clients -> Int]
      BY <1>7 DEF TypeOK, DestroyQueueAndVM
    <2> QED BY <1>7, <2>2, <2>3, <2>4, <2>5 DEF TypeOK, DestroyQueueAndVM
  <1>8. ASSUME NEW kind \in Kinds, PushBack(c, kind)
        PROVE  TypeOK'
    <2> DEFINE comm == [n |-> pushed[c] + 1, kind |-> kind]
    <2>1. comm \in Cmd
      BY <1>8, BoundsAssumption DEF TypeOK, PushBack, Cmd
    <2>2. queue' = [queue EXCEPT ![c] = Append(queue[c], comm)]
      BY <1>8 DEF PushBack, PushedBack
    <2> HIDE DEF comm
    <2>3. isIncrease' \in [Clients -> BOOLEAN]
      <3>1. isIncrease' = [isIncrease EXCEPT ![c] = IsEmpty(c)] /\ IsEmpty(c) \in BOOLEAN
        BY <1>8 DEF PushBack, IsEmpty
      <3> HIDE DEF IsEmpty
      <3> QED BY <3>1 DEF TypeOK
    <2>4. queue' \in [Clients -> Seq(Cmd)]
      BY <2>1, <2>2 DEF TypeOK
    <2>5. rpc' \in [Clients -> RunPC] /\ pushed' \in [Clients -> Nat]
      BY <1>0, <1>8 DEF TypeOK, PushBack, RunPC
    <2> QED BY <1>8, <2>3, <2>4, <2>5 DEF TypeOK, PushBack
  <1>9. Disconnect(c) \/ SpuriousWakeup(c) => TypeOK'
    BY <1>0 DEF TypeOK, Disconnect, SpuriousWakeup, RunPC
  <1> QED BY <1>1, <1>2, <1>3, <1>4, <1>5, <1>6, <1>7, <1>8, <1>9 DEF RunInternal

(* Every step of a DevScheduler thread keeps the types.                    *)
LEMMA DevTypeOK ==
    ASSUME TypeOK, LocalsInScope, FrontIsRunning, NEW d \in Devices
    PROVE  Take(d) \/ DevInternal(d) => TypeOK'
  <1> USE DEF poolVars, queueVars, schedVars, sums, vmVars, devVars, runVars, history
  <1>0. \A from, to \in DevPC : Step(d, from, to) => dpc' \in [Devices -> DevPC]
    BY PCTypes
  <1>1. Take(d) => TypeOK'
    BY <1>0 DEF TypeOK, Take, DevPC
  <1>2. CheckPasses(d) => TypeOK'
    BY <1>0 DEF TypeOK, CheckPasses, DevPC
  <1>3. CheckFails(d) => TypeOK'
    BY <1>0 DEF TypeOK, CheckFails, DevPC
  <1>4. ASSUME Schedule(d)
        PROVE  TypeOK'
    <2> PICK q \in Clients : /\ Chosen(q)
                             /\ skip' = [skip EXCEPT ![q] = TRUE]
                             /\ dqueue' = [dqueue EXCEPT ![d] = q]
                             /\ dcomm' = [dcomm EXCEPT ![d] = Head(queue[q])]
      BY <1>4 DEF Schedule, Skipped, Oldest
    <2>1. queue[q] # <<>> /\ queue[q] \in Seq(Cmd)
      BY DEF Chosen, Eligible, TypeOK
    <2>2. Head(queue[q]) \in Cmd
      BY <2>1, HeadTailProperties
    <2>3. skip' \in [Clients -> BOOLEAN]
      BY DEF TypeOK
    <2>4. dcomm' \in [Devices -> Cmd \cup {None}]
      BY <2>2 DEF TypeOK
    <2>p. dpc' \in [Devices -> DevPC]
      BY <1>0, <1>4 DEF Schedule, DevPC
    <2> QED BY <2>p, <1>4, <2>3, <2>4 DEF TypeOK, Schedule
  <1>5. ASSUME Exec(d)
        PROVE  TypeOK'
    <2>1. dqueue[d] \in Clients
      BY <1>5 DEF Exec, Step, LocalsInScope, InService
    <2>p. dpc' \in [Devices -> DevPC]
      BY <1>0, <1>5 DEF Exec, DevPC
    <2> QED BY SMTT(20), <2>p, <1>5, <2>1 DEF TypeOK, Exec
  <1>6. ASSUME Account(d)
        PROVE  TypeOK'
    <2>1. dqueue[d] \in Clients
      BY <1>6 DEF Account, Step, LocalsInScope, InService
    <2> PICK u \in ExecTimes(dcomm[d].kind) :
               /\ basedInner' = basedInner + u * Weight
               /\ timeLeng' = timeLeng + (2 * used[dqueue[d]] * u + u * u)
               /\ used' = [used EXCEPT ![dqueue[d]] = @ + u]
      BY <1>6 DEF Account
    <2>2. u \in Nat
      BY BoundsAssumption DEF ExecTimes
    <2>3. used[dqueue[d]] \in Nat
      BY <2>1 DEF TypeOK
    <2>4. basedInner' \in Int /\ timeLeng' \in Int
      BY <2>2, <2>3 DEF TypeOK, Weight
    <2>5. used' \in [Clients -> Nat]
      <3>1. used[dqueue[d]] + u \in Nat
        BY <2>2, <2>3
      <3> QED BY <2>1, <3>1 DEF TypeOK
    <2>p. dpc' \in [Devices -> DevPC]
      BY <1>0, <1>6 DEF Account, DevPC
    <2> QED BY <2>p, <1>6, <2>4, <2>5 DEF TypeOK, Account
  <1>7. ASSUME Pop(d)
        PROVE  TypeOK'
    <2>1. dqueue[d] \in Clients /\ queue[dqueue[d]] # <<>>
      BY <1>7 DEF Pop, Step, LocalsInScope, InService, FrontIsRunning
    <2>2. Tail(queue[dqueue[d]]) \in Seq(Cmd)
      BY <2>1, HeadTailProperties DEF TypeOK
    <2>p. dpc' \in [Devices -> DevPC]
      BY <1>0, <1>7 DEF Pop, DevPC
    <2> QED BY <2>p, <1>7, <2>1, <2>2 DEF TypeOK, Pop
  <1>8. Reload(d) => TypeOK'
    BY <1>0 DEF TypeOK, Reload, DevPC
  <1>9. ASSUME Unskip(d)
        PROVE  TypeOK'
    <2>1. skip' \in [Clients -> BOOLEAN]
      BY <1>9 DEF TypeOK, Unskip
    <2>p. dpc' \in [Devices -> DevPC]
      BY <1>0, <1>9 DEF Unskip, DevPC
    <2> QED BY <2>p, <1>9, <2>1 DEF TypeOK, Unskip
  <1> QED BY <1>1, <1>2, <1>3, <1>4, <1>5, <1>6, <1>7, <1>8, <1>9 DEF DevInternal

-----------------------------------------------------------------------------
(* The parts of PoolInv other than the types, by what they talk about.     *)
Rest == /\ LocalsInScope /\ LockHolder /\ OnlyFirstDev /\ ListedOnce
        /\ SkipMarksOwner /\ FrontIsRunning /\ ScheduleFindsWork /\ DestroyedIsIdle
        /\ RunsOnBindingDev /\ QueueWindow /\ FinishIsLast

(* Init establishes the rest.                                              *)
LEMMA InitRest == Init => Rest
  <1> SUFFICES ASSUME Init PROVE Rest
    OBVIOUS
  <1>1. LocalsInScope /\ LockHolder /\ ScheduleFindsWork /\ SkipMarksOwner /\ FrontIsRunning
    BY DevicesAssumption DEF Init, LocalsInScope, LockHolder, ScheduleFindsWork, SkipMarksOwner,
                             FrontIsRunning, InService
  <1>2. OnlyFirstDev /\ ListedOnce /\ DestroyedIsIdle
    BY DEF Init, OnlyFirstDev, ListedOnce, DestroyedIsIdle, InService
  <1>3. QueueWindow /\ FinishIsLast /\ RunsOnBindingDev
    BY DEF Init, QueueWindow, FinishIsLast, RunsOnBindingDev, FrontServed, Finishing, InService
  <1> QED BY <1>1, <1>2, <1>3 DEF Rest

(* What only the devices' variables decide survives a step that leaves them alone. *)
LEMMA DevFrame ==
    ASSUME Rest, UNCHANGED <<devVars, skip, schedLock>>
    PROVE  /\ LocalsInScope' /\ LockHolder' /\ SkipMarksOwner'
           /\ \A c : FrontServed(c)' <=> FrontServed(c)
           /\ \A d : InService(d)' <=> InService(d)
  BY DEF Rest, devVars, LocalsInScope, LockHolder, SkipMarksOwner, FrontServed, InService

(* A step of a Run thread that only moves its program counter, between places that agree on
   being listed, on being bound and on clFinish.                           *)
LEMMA RunMoveRest ==
    ASSUME TypeOK, Rest, NEW c \in Clients, NEW from, NEW to, Goto(c, from, to),
           UNCHANGED <<devVars, skip, schedLock, queues, queue, bindingDev, executed, pushed, finSem>>,
           <<from, to>> \in {<<"new", "queue">>, <<"serve", "drain">>,
                             <<"drain", "asleep">>, <<"asleep", "drain">>}
             \/ (<<from, to>> = <<"drain", "destroy">> /\ queue[c] = <<>>)
    PROVE  Rest'
  <1> USE DEF devVars
  <1>0. rpc[c] = from /\ rpc' = [rpc EXCEPT ![c] = to]
    BY DEF Goto
  <1>1. LocalsInScope' /\ LockHolder' /\ SkipMarksOwner'
    BY DevFrame
  <1>2. OnlyFirstDev'
    BY <1>0 DEF Rest, OnlyFirstDev, InService, TypeOK
  <1>3. ListedOnce'
    BY <1>0 DEF Rest, ListedOnce, TypeOK
  <1>4. FrontIsRunning' /\ ScheduleFindsWork'
    BY DEF Rest, FrontIsRunning, ScheduleFindsWork, Eligible
  <1>5. DestroyedIsIdle'
    BY <1>0 DEF Rest, DestroyedIsIdle, TypeOK
  <1>6. QueueWindow'
    BY DevFrame DEF Rest, QueueWindow
  <1>7. FinishIsLast'
    BY SMTT(20), <1>0, DevFrame DEF Rest, FinishIsLast, Finishing, AfterPush, TypeOK
  <1>b. RunsOnBindingDev'
    BY DEF Rest, RunsOnBindingDev, InService
  <1> QED BY <1>1, <1>2, <1>3, <1>4, <1>5, <1>6, <1>7, <1>b DEF Rest

(* CreateQueue adds one queue to the pool's list.                          *)
LEMMA CreateQueueRest ==
    ASSUME TypeOK, Rest, NEW c \in Clients, CreateQueue(c)
    PROVE  Rest'
  <1> USE DEF devVars, history
  <1>0. /\ rpc[c] = "queue" /\ rpc' = [rpc EXCEPT ![c] = "bind"] /\ queues' = Append(queues, c)
        /\ UNCHANGED <<queue, skip, bindingDev, schedLock, devVars, finSem, history>>
    BY DEF CreateQueue, Goto, queueVars
  <1>1. LocalsInScope' /\ LockHolder' /\ SkipMarksOwner'
    BY <1>0, DevFrame
  <1>2. OnlyFirstDev'
    BY <1>0 DEF Rest, OnlyFirstDev, InService, TypeOK
  <1>3. /\ Len(queues) \in Nat /\ Len(queues') = Len(queues) + 1
        /\ \A i \in 1 .. Len(queues) : queues'[i] = queues[i]
        /\ queues'[Len(queues) + 1] = c
        /\ DOMAIN queues = 1 .. Len(queues) /\ DOMAIN queues' = 1 .. Len(queues) + 1
    BY <1>0 DEF TypeOK
  <1>4. ListedOnce'
    <2>1. \A i \in DOMAIN queues : queues[i] # c
      BY <1>0 DEF Rest, ListedOnce
    <2>2. ASSUME NEW b \in Clients
          PROVE  (\E i \in DOMAIN queues' : queues'[i] = b) <=> rpc'[b] \notin {"new", "queue", "gone"}
      <3>1. CASE b = c
        <4>1. Len(queues) + 1 \in DOMAIN queues' /\ queues'[Len(queues) + 1] = b
          BY <3>1, <1>3
        <4>2. rpc'[b] = "bind"
          BY <3>1, <1>0 DEF TypeOK
        <4> QED BY <4>1, <4>2
      <3>2. CASE b # c
        <4>1. (\E i \in DOMAIN queues' : queues'[i] = b) <=> (\E i \in DOMAIN queues : queues[i] = b)
          BY <3>2, <1>3
        <4> QED BY <4>1, <3>2, <1>0 DEF Rest, ListedOnce, TypeOK
      <3> QED BY <3>1, <3>2
    <2>3. ASSUME NEW i \in DOMAIN queues', NEW j \in DOMAIN queues', queues'[i] = queues'[j]
          PROVE  i = j
      BY <2>1, <2>3, <1>3 DEF Rest, ListedOnce
    <2> QED BY <2>2, <2>3 DEF ListedOnce
  <1>5. FrontIsRunning' /\ ScheduleFindsWork'
    BY <1>0, <1>3 DEF Rest, FrontIsRunning, ScheduleFindsWork, Eligible
  <1>6. DestroyedIsIdle'
    BY <1>0 DEF Rest, DestroyedIsIdle, TypeOK
  <1>7. QueueWindow'
    BY <1>0, DevFrame DEF Rest, QueueWindow
  <1>8. FinishIsLast'
    BY <1>0, DevFrame DEF Rest, FinishIsLast, Finishing, AfterPush, TypeOK
  <1>b. RunsOnBindingDev'
    BY <1>0 DEF Rest, RunsOnBindingDev, InService
  <1> QED BY <1>1, <1>2, <1>4, <1>5, <1>6, <1>7, <1>8, <1>b DEF Rest

(* BindDevice binds a queue that never held a command.                     *)
LEMMA BindDeviceRest ==
    ASSUME TypeOK, Rest, NEW c \in Clients, BindDevice(c)
    PROVE  Rest'
  <1> USE DEF devVars, history
  <1>0. /\ rpc[c] = "bind" /\ rpc' = [rpc EXCEPT ![c] = "serve"]
        /\ bindingDev' = [bindingDev EXCEPT ![c] = FirstDev]
        /\ UNCHANGED <<queues, queue, skip, schedLock, devVars, finSem, history>>
    BY DEF BindDevice, Goto, poolVars, schedVars
  <1>1. LocalsInScope' /\ LockHolder' /\ SkipMarksOwner'
    BY <1>0, DevFrame
  <1>2. OnlyFirstDev'
    BY <1>0 DEF Rest, OnlyFirstDev, InService, TypeOK
  <1>3. ListedOnce'
    BY <1>0 DEF Rest, ListedOnce, TypeOK
  <1>4. FrontIsRunning' /\ ScheduleFindsWork'
    BY <1>0 DEF Rest, FrontIsRunning, ScheduleFindsWork, Eligible
  <1>5. DestroyedIsIdle'
    BY <1>0 DEF Rest, DestroyedIsIdle, TypeOK
  <1>6. QueueWindow'
    BY <1>0, DevFrame DEF Rest, QueueWindow
  <1>7. FinishIsLast'
    BY <1>0, DevFrame DEF Rest, FinishIsLast, Finishing, AfterPush, TypeOK
  <1>b. RunsOnBindingDev'
    BY <1>0 DEF Rest, RunsOnBindingDev, OnlyFirstDev, InService, TypeOK
  <1> QED BY <1>1, <1>2, <1>3, <1>4, <1>5, <1>6, <1>7, <1>b DEF Rest

(* Only FirstDev is ever in service, so it is the only device to look at.  *)
LEMMA OneServer ==
    ASSUME Rest, NEW d \in Devices, InService(d) \/ dpc[d] = "schedule"
    PROVE  d = FirstDev
  BY DEF Rest, OnlyFirstDev

(* So a front that was already executed is one the first device serves.     *)
LEMMA FrontServedByFirst ==
    ASSUME Rest, NEW c
    PROVE  FrontServed(c) <=> dqueue[FirstDev] = c /\ dpc[FirstDev] \in {"account", "pop"}
  BY DevicesAssumption DEF Rest, OnlyFirstDev, FrontServed, InService

(* PushBack appends the client's newest command to its queue.              *)
LEMMA PushBackRest ==
    ASSUME TypeOK, Rest, NEW c \in Clients, NEW kind \in Kinds, PushBack(c, kind)
    PROVE  Rest'
  <1> USE DEF devVars
  <1> DEFINE comm == [n |-> pushed[c] + 1, kind |-> kind]
  <1>0. /\ rpc[c] = "serve" /\ rpc' = [rpc EXCEPT ![c] = "push"]
        /\ queue' = [queue EXCEPT ![c] = Append(queue[c], comm)]
        /\ pushed' = [pushed EXCEPT ![c] = @ + 1]
        /\ UNCHANGED <<queues, skip, bindingDev, schedLock, devVars, finSem, executed>>
    BY DEF PushBack, PushedBack, Goto, poolVars, schedVars
  <1>c. comm \in Cmd /\ comm.n = pushed[c] + 1 /\ comm.kind = kind
    BY BoundsAssumption DEF TypeOK, PushBack, Cmd
  <1> HIDE DEF comm
  <1>q. /\ queue[c] \in Seq(Cmd) /\ Len(queue[c]) \in Nat
        /\ queue'[c] = Append(queue[c], comm)
        /\ Len(queue'[c]) = Len(queue[c]) + 1
        /\ DOMAIN queue[c] = 1 .. Len(queue[c]) /\ DOMAIN queue'[c] = 1 .. Len(queue[c]) + 1
        /\ \A i \in 1 .. Len(queue[c]) : queue'[c][i] = queue[c][i]
        /\ queue'[c][Len(queue[c]) + 1] = comm
        /\ \A b \in Clients : b # c => queue'[b] = queue[b]
    BY <1>0, <1>c DEF TypeOK
  <1>p. /\ pushed[c] \in Nat /\ executed[c] \in Nat /\ pushed'[c] = pushed[c] + 1
        /\ \A b \in Clients : b # c => pushed'[b] = pushed[b]
        /\ rpc'[c] = "push" /\ \A b \in Clients : b # c => rpc'[b] = rpc[b]
    BY <1>0 DEF TypeOK
  <1>1. LocalsInScope' /\ LockHolder' /\ SkipMarksOwner'
    BY <1>0, DevFrame
  <1>2. OnlyFirstDev'
    <2>1. \A b \in Clients : b # c => (rpc'[b] = rpc[b] /\ queue'[b] = queue[b])
      BY <1>q, <1>p
    <2> QED BY <2>1, <1>0, <1>p DEF Rest, OnlyFirstDev, InService
  <1>3. ListedOnce'
    BY <1>0 DEF Rest, ListedOnce, TypeOK
  <1>4. FrontIsRunning'
    <2> SUFFICES ASSUME NEW d \in Devices, dpc[d] \in {"exec", "account", "pop"}
                 PROVE  queue'[dqueue[d]] # <<>> /\ Head(queue'[dqueue[d]]) = dcomm[d]
      BY <1>0 DEF FrontIsRunning
    <2>1. /\ dqueue[d] \in Clients /\ queue[dqueue[d]] # <<>> /\ Head(queue[dqueue[d]]) = dcomm[d]
      BY DEF Rest, FrontIsRunning, LocalsInScope, InService
    <2>2. CASE dqueue[d] = c
      <3>1. queue[c] # <<>> /\ Len(queue[c]) >= 1
        BY <2>1, <2>2, <1>q
      <3>2. queue'[c] # <<>> /\ Head(queue'[c]) = queue'[c][1] /\ Head(queue[c]) = queue[c][1]
        BY <3>1, <1>q
      <3> QED BY <2>1, <2>2, <3>1, <3>2, <1>q
    <2>3. CASE dqueue[d] # c
      BY <2>1, <2>3, <1>q
    <2> QED BY <2>2, <2>3
  <1>5. ScheduleFindsWork'
    <2> SUFFICES ASSUME NEW i \in DOMAIN queues, Eligible(queues[i])
                 PROVE  ~skip[queues[i]] /\ queue'[queues[i]] # <<>>
      BY <1>0 DEF Rest, ScheduleFindsWork, Eligible
    <2>1. queues[i] \in Clients
      BY DEF TypeOK
    <2>2. queue'[c] # <<>>
      BY SMTT(20), <1>q
    <2> QED BY <2>1, <2>2, <1>q DEF Eligible
  <1>6. DestroyedIsIdle'
    BY <1>0, <1>q, <1>p DEF Rest, DestroyedIsIdle
  <1>7. QueueWindow'
    <2> SUFFICES ASSUME NEW b \in Clients
                 PROVE  /\ executed[b] + Len(queue'[b]) = pushed'[b] + (IF FrontServed(b) THEN 1 ELSE 0)
                        /\ \A i \in DOMAIN queue'[b] : queue'[b][i].n = pushed'[b] - Len(queue'[b]) + i
      BY <1>0, DevFrame DEF QueueWindow
    <2>1. CASE b = c
      <3>1. /\ executed[c] + Len(queue[c]) = pushed[c] + (IF FrontServed(c) THEN 1 ELSE 0)
            /\ \A i \in DOMAIN queue[c] : queue[c][i].n = pushed[c] - Len(queue[c]) + i
        BY DEF Rest, QueueWindow
      <3>2. ASSUME NEW i \in 1 .. Len(queue[c]) + 1
            PROVE  queue'[c][i].n = pushed'[c] - Len(queue'[c]) + i
        <4>1. CASE i = Len(queue[c]) + 1
          BY <4>1, <1>q, <1>p, <1>c
        <4>2. CASE i # Len(queue[c]) + 1
          <5>1. i \in 1 .. Len(queue[c])
            BY <4>2, <1>q
          <5>2. queue'[c][i].n = pushed[c] - Len(queue[c]) + i
            BY <5>1, <3>1, <1>q
          <5> QED BY <5>2, <1>q, <1>p
        <4> QED BY <4>1, <4>2
      <3>3. executed[c] + Len(queue'[c]) = pushed'[c] + (IF FrontServed(c) THEN 1 ELSE 0)
        BY <3>1, <1>q, <1>p
      <3> QED BY <2>1, <3>2, <3>3, <1>q
    <2>2. CASE b # c
      BY <2>2, <1>q, <1>p DEF Rest, QueueWindow
    <2> QED BY <2>1, <2>2
  <1>8. FinishIsLast'
    <2> SUFFICES ASSUME NEW b \in Clients
                 PROVE  /\ finSem[b] > 0 => Finishing(b)' /\ executed[b] = pushed'[b]
                        /\ finSem[b] <= 1
                        /\ \A i \in DOMAIN queue'[b] : queue'[b][i].kind = "finish" =>
                              \/ i = 1 /\ FrontServed(b)
                              \/ i = Len(queue'[b]) /\ Finishing(b)'
      BY <1>0, DevFrame DEF FinishIsLast
    <2>1. CASE b = c
      <3>1. /\ finSem[c] <= 1 /\ finSem[c] = 0
            /\ \A i \in DOMAIN queue[c] : queue[c][i].kind = "finish" => i = 1 /\ FrontServed(c)
        <4>1. ~Finishing(c)
          BY <1>0 DEF Finishing
        <4>2. finSem[c] \in Nat /\ ~(finSem[c] > 0)
          BY <4>1 DEF Rest, FinishIsLast, TypeOK
        <4> QED BY <4>1, <4>2 DEF Rest, FinishIsLast
      <3>2. Last(queue'[c]) = comm
        BY <1>q DEF Last
      <3>3. comm.kind = "finish" => Finishing(c)'
        BY <3>2, <1>p DEF Finishing, AfterPush
      <3>4. ASSUME NEW i \in 1 .. Len(queue[c]) + 1, queue'[c][i].kind = "finish"
            PROVE  \/ i = 1 /\ FrontServed(c)
                   \/ i = Len(queue'[c]) /\ Finishing(c)'
        <4>1. CASE i = Len(queue[c]) + 1
          BY <4>1, <3>3, <3>4, <1>q
        <4>2. CASE i # Len(queue[c]) + 1
          <5>1. i \in 1 .. Len(queue[c])
            BY <4>2, <1>q
          <5> QED BY <5>1, <3>1, <3>4, <1>q
        <4> QED BY <4>1, <4>2
      <3> QED BY <2>1, <3>1, <3>4, <1>q
    <2>2. CASE b # c
      <3>1. Finishing(b)' <=> Finishing(b)
        BY <2>2, <1>q, <1>p DEF Finishing, AfterPush
      <3> QED BY <2>2, <3>1, <1>q, <1>p DEF Rest, FinishIsLast
    <2> QED BY <2>1, <2>2
  <1>b. RunsOnBindingDev'
    BY <1>0 DEF Rest, RunsOnBindingDev, InService
  <1> QED BY <1>1, <1>2, <1>3, <1>4, <1>5, <1>6, <1>7, <1>8, <1>b DEF Rest

(* PushToken decides where the handler goes on, and nothing else PoolInv looks at. *)
LEMMA PushTokenRest ==
    ASSUME TypeOK, Rest, NEW c \in Clients, PushToken(c)
    PROVE  Rest'
  <1> USE DEF devVars, history
  <1>0. /\ rpc[c] = "push" /\ rpc' = [rpc EXCEPT ![c] = AfterPush(c)]
        /\ UNCHANGED <<queues, queue, skip, bindingDev, schedLock, devVars, finSem, history>>
    BY DEF PushToken, queueVars, schedVars
  <1>a. AfterPush(c) \in {"finish", "serve"}
    BY DEF AfterPush
  <1>p. rpc'[c] = AfterPush(c) /\ \A b \in Clients : b # c => rpc'[b] = rpc[b]
    BY <1>0 DEF TypeOK
  <1>1. LocalsInScope' /\ LockHolder' /\ SkipMarksOwner'
    BY <1>0, DevFrame
  <1>2. OnlyFirstDev'
    BY <1>0, <1>a, <1>p DEF Rest, OnlyFirstDev, InService
  <1>3. ListedOnce'
    BY <1>0, <1>a, <1>p DEF Rest, ListedOnce
  <1>4. FrontIsRunning' /\ ScheduleFindsWork'
    BY <1>0 DEF Rest, FrontIsRunning, ScheduleFindsWork, Eligible
  <1>5. DestroyedIsIdle'
    BY <1>0, <1>a, <1>p DEF Rest, DestroyedIsIdle
  <1>6. QueueWindow'
    BY <1>0, DevFrame DEF Rest, QueueWindow
  <1>7. FinishIsLast'
    <2>1. ASSUME NEW b \in Clients PROVE Finishing(b)' <=> Finishing(b)
      <3>1. CASE b = c
        BY <3>1, <1>0, <1>a, <1>p DEF Finishing
      <3>2. CASE b # c
        BY <3>2, <1>0, <1>p DEF Finishing, AfterPush
      <3> QED BY <3>1, <3>2
    <2> QED BY <2>1, <1>0, DevFrame DEF Rest, FinishIsLast
  <1>b. RunsOnBindingDev'
    BY <1>0 DEF Rest, RunsOnBindingDev, InService
  <1> QED BY <1>1, <1>2, <1>3, <1>4, <1>5, <1>6, <1>7, <1>b DEF Rest

(* FinishAck takes the only post of the client's clFinish, whose command was its last one. *)
LEMMA FinishAckRest ==
    ASSUME TypeOK, Rest, NEW c \in Clients, FinishAck(c)
    PROVE  Rest'
  <1> USE DEF devVars, history
  <1>0. /\ rpc[c] = "finish" /\ rpc' = [rpc EXCEPT ![c] = "serve"]
        /\ finSem[c] > 0 /\ finSem' = [finSem EXCEPT ![c] = @ - 1]
        /\ UNCHANGED <<queues, queue, skip, bindingDev, schedLock, devVars, history>>
    BY DEF FinishAck, FinishSignalled, Goto, poolVars, queueVars, schedVars
  <1>p. /\ rpc'[c] = "serve" /\ \A b \in Clients : b # c => rpc'[b] = rpc[b]
        /\ finSem'[c] = finSem[c] - 1 /\ \A b \in Clients : b # c => finSem'[b] = finSem[b]
        /\ finSem[c] \in Nat
    BY <1>0 DEF TypeOK
  <1>1. LocalsInScope' /\ LockHolder' /\ SkipMarksOwner'
    BY <1>0, DevFrame
  <1>2. OnlyFirstDev'
    BY <1>0, <1>p DEF Rest, OnlyFirstDev, InService
  <1>3. ListedOnce'
    BY <1>0, <1>p DEF Rest, ListedOnce
  <1>4. FrontIsRunning' /\ ScheduleFindsWork'
    BY <1>0 DEF Rest, FrontIsRunning, ScheduleFindsWork, Eligible
  <1>5. DestroyedIsIdle'
    BY <1>0, <1>p DEF Rest, DestroyedIsIdle
  <1>6. QueueWindow'
    BY <1>0, DevFrame DEF Rest, QueueWindow
  <1>7. FinishIsLast'
    <2> SUFFICES ASSUME NEW b \in Clients
                 PROVE  /\ finSem'[b] > 0 => Finishing(b)' /\ executed[b] = pushed[b]
                        /\ finSem'[b] <= 1
                        /\ \A i \in DOMAIN queue[b] : queue[b][i].kind = "finish" =>
                              \/ i = 1 /\ FrontServed(b)
                              \/ i = Len(queue[b]) /\ Finishing(b)'
      BY <1>0, DevFrame DEF FinishIsLast
    <2>1. CASE b = c
      <3>1. finSem[c] = 1 /\ executed[c] = pushed[c]
        BY <1>0, <1>p DEF Rest, FinishIsLast
      <3>2. /\ executed[c] \in Nat /\ pushed[c] \in Nat /\ Len(queue[c]) \in Nat
            /\ DOMAIN queue[c] = 1 .. Len(queue[c])
        BY DEF TypeOK
      <3>3. executed[c] + Len(queue[c]) = pushed[c] + (IF FrontServed(c) THEN 1 ELSE 0)
        BY DEF Rest, QueueWindow
      <3>4. Len(queue[c]) = IF FrontServed(c) THEN 1 ELSE 0
        BY <3>1, <3>2, <3>3
      <3>5. \A i \in DOMAIN queue[c] : i = 1 /\ FrontServed(c)
        BY <3>2, <3>4
      <3> QED BY <2>1, <3>1, <3>5, <1>p
    <2>2. CASE b # c
      BY <2>2, <1>0, <1>p DEF Rest, FinishIsLast, Finishing, AfterPush
    <2> QED BY <2>1, <2>2
  <1>b. RunsOnBindingDev'
    BY <1>0 DEF Rest, RunsOnBindingDev, InService
  <1> QED BY <1>1, <1>2, <1>3, <1>4, <1>5, <1>6, <1>7, <1>b DEF Rest

(* No device works on a queue whose client is about to destroy it.         *)
LEMMA DestroyIsSafe ==
    ASSUME TypeOK, Rest, NEW c \in Clients, rpc[c] = "destroy", SchedFree
    PROVE  queue[c] = <<>> /\ \A d \in Devices : dqueue[d] # c
  <1>1. queue[c] = <<>>
    BY DEF Rest, OnlyFirstDev
  <1>2. ASSUME NEW d \in Devices, dqueue[d] = c
        PROVE  FALSE
    <2>1. InService(d)
      BY <1>2, ClientsAssumption DEF Rest, LocalsInScope
    <2>2. dpc[d] \notin {"exec", "account", "pop"}
      BY <1>1, <1>2 DEF Rest, FrontIsRunning
    <2>3. dpc[d] \notin {"pop", "reload", "unskip"}
      BY DevicesAssumption DEF Rest, LockHolder, SchedFree
    <2> QED BY <2>1, <2>2, <2>3 DEF InService
  <1> QED BY <1>1, <1>2

(* DestroyQueue takes the queue, and no other, off the pool's list.        *)
LEMMA DestroyRest ==
    ASSUME TypeOK, Rest, NEW c \in Clients, DestroyQueueAndVM(c)
    PROVE  Rest'
  <1> USE DEF devVars, history
  <1> DEFINE k == IndexOfQueue(c)
  <1>0. /\ rpc[c] = "destroy" /\ rpc' = [rpc EXCEPT ![c] = "gone"] /\ SchedFree
        /\ queues' = RemoveAt(queues, k)
        /\ UNCHANGED <<queue, skip, bindingDev, schedLock, devVars, finSem, history>>
    BY DEF DestroyQueueAndVM, Goto, queueVars
  <1>p. rpc'[c] = "gone" /\ \A b \in Clients : b # c => rpc'[b] = rpc[b]
    BY <1>0 DEF TypeOK
  <1>k. k \in 1 .. Len(queues) /\ queues[k] = c
    <2>1. \E i \in DOMAIN queues : queues[i] = c
      BY <1>0 DEF Rest, ListedOnce
    <2>2. DOMAIN queues = 1 .. Len(queues)
      BY DEF TypeOK
    <2> QED BY <2>1, <2>2 DEF IndexOfQueue
  <1> HIDE DEF k
  <1>r. /\ Len(queues) \in Nat /\ DOMAIN queues = 1 .. Len(queues)
        /\ DOMAIN queues' = 1 .. Len(queues) - 1
        /\ \A i \in 1 .. Len(queues) - 1 : queues'[i] = IF i < k THEN queues[i] ELSE queues[i + 1]
    <2>1. queues \in Seq(Clients) /\ Len(queues) \in Nat
      BY DEF TypeOK
    <2>2. /\ queues' \in Seq(Clients) /\ Len(queues') = Len(queues) - 1
          /\ \A i \in 1 .. Len(queues) - 1 : queues'[i] = IF i < k THEN queues[i] ELSE queues[i + 1]
      BY <2>1, <1>0, <1>k, RemoveAtFacts
    <2> QED BY <2>1, <2>2
  <1>d. queue[c] = <<>> /\ \A d \in Devices : dqueue[d] # c
    BY <1>0, DestroyIsSafe
  <1>s. ASSUME NEW b \in Clients, b # c, NEW i \in DOMAIN queues, queues[i] = b
        PROVE  \E j \in DOMAIN queues' : queues'[j] = b
    <2>1. i # k
      BY <1>s, <1>k
    <2>2. CASE i < k
      <3>1. i \in 1 .. Len(queues) - 1 /\ queues'[i] = b
        BY <2>2, <1>s, <1>k, <1>r
      <3> QED BY <3>1, <1>r
    <2>3. ASSUME ~(i < k)
          PROVE  \E j \in DOMAIN queues' : queues'[j] = b
      <3>1. i - 1 \in 1 .. Len(queues) - 1 /\ ~(i - 1 < k) /\ (i - 1) + 1 = i
        BY <2>1, <2>3, <1>s, <1>k, <1>r
      <3>2. queues'[i - 1] = b
        BY <3>1, <1>s, <1>r
      <3> QED BY <3>1, <3>2, <1>r
    <2> QED BY <2>2, <2>3
  <1>1. LocalsInScope' /\ LockHolder' /\ SkipMarksOwner'
    BY <1>0, DevFrame
  <1>2. OnlyFirstDev'
    BY <1>0, <1>p, <1>d DEF Rest, OnlyFirstDev, InService
  <1>3. ListedOnce'
    <2>0. \A i \in DOMAIN queues, j \in DOMAIN queues : queues[i] = queues[j] => i = j
      BY DEF Rest, ListedOnce
    <2>1. ASSUME NEW j \in DOMAIN queues'
          PROVE  \E i \in DOMAIN queues : i # k /\ queues'[j] = queues[i] /\ i = (IF j < k THEN j ELSE j + 1)
      <3>1. j < k => j \in DOMAIN queues /\ queues'[j] = queues[j]
        BY <1>k, <1>r
      <3>2. ~(j < k) => j + 1 \in DOMAIN queues /\ queues'[j] = queues[j + 1] /\ j + 1 # k
        BY <1>k, <1>r
      <3> QED BY <3>1, <3>2, <1>r, <1>k
    <2>2. ASSUME NEW b \in Clients
          PROVE  (\E i \in DOMAIN queues' : queues'[i] = b) <=> rpc'[b] \notin {"new", "queue", "gone"}
      <3>1. CASE b = c
        BY <3>1, <2>0, <2>1, <1>k, <1>p, <1>r
      <3>2. CASE b # c
        BY <3>2, <2>1, <1>s, <1>p DEF Rest, ListedOnce
      <3> QED BY <3>1, <3>2
    <2>3. ASSUME NEW i \in DOMAIN queues', NEW j \in DOMAIN queues', queues'[i] = queues'[j]
          PROVE  i = j
      <3>1. (IF i < k THEN i ELSE i + 1) = (IF j < k THEN j ELSE j + 1)
        BY <2>0, <2>1, <2>3
      <3> QED BY <3>1, <1>k, <1>r
    <2> QED BY <2>2, <2>3 DEF ListedOnce
  <1>4. FrontIsRunning'
    BY <1>0 DEF Rest, FrontIsRunning
  <1>5. ScheduleFindsWork'
    <2> SUFFICES ASSUME NEW i \in DOMAIN queues, Eligible(queues[i])
                 PROVE  \E j \in DOMAIN queues' : Eligible(queues'[j])
      BY <1>0 DEF Rest, ScheduleFindsWork, Eligible
    <2>1. queues[i] \in Clients /\ queues[i] # c
      BY <1>d DEF TypeOK, Eligible
    <2> QED BY <2>1, <1>s
  <1>6. DestroyedIsIdle'
    BY <1>0, <1>p, <1>d DEF Rest, DestroyedIsIdle
  <1>7. QueueWindow'
    BY <1>0, DevFrame DEF Rest, QueueWindow
  <1>8. FinishIsLast'
    BY <1>0, <1>p, DevFrame DEF Rest, FinishIsLast, Finishing, AfterPush
  <1>b. RunsOnBindingDev'
    BY <1>0 DEF Rest, RunsOnBindingDev, InService
  <1> QED BY <1>1, <1>2, <1>3, <1>4, <1>5, <1>6, <1>7, <1>8, <1>b DEF Rest

-----------------------------------------------------------------------------
(* A step of a DevScheduler thread that moves between places where it serves the same queue
   or none.  It gets to "schedule" only when check() saw work for it.      *)
LEMMA DevMoveRest ==
    ASSUME TypeOK, Rest, NEW d \in Devices, NEW from, NEW to, Step(d, from, to),
           UNCHANGED <<queues, queue, skip, bindingDev, schedLock, dqueue, dcomm, rpc, finSem, history>>,
           \/ <<from, to>> \in {<<"take", "check">>, <<"check", "take">>, <<"reload", "unskip">>}
           \/ <<from, to>> = <<"check", "schedule">> /\ Check(d)
    PROVE  Rest'
  <1> USE DEF history
  <1>0. dpc[d] = from /\ dpc' = [dpc EXCEPT ![d] = to]
    BY DEF Step
  <1>p. dpc'[d] = to /\ \A e \in Devices : e # d => dpc'[e] = dpc[e]
    BY <1>0 DEF TypeOK
  <1>s. \A e \in Devices : InService(e)' <=> InService(e)
    BY <1>0, <1>p DEF InService
  <1>f. \A c : FrontServed(c)' <=> FrontServed(c)
    BY <1>0, <1>p DEF FrontServed
  <1>c. ASSUME from = "check", to = "schedule"
        PROVE  d = FirstDev /\ \E i \in DOMAIN queues : Eligible(queues[i])
    <2>1. PICK i \in DOMAIN queues : Eligible(queues[i]) /\ bindingDev[queues[i]] \in {None, d}
      BY <1>c DEF Check
    <2>2. queues[i] \in Clients
      BY DEF TypeOK
    <2>3. bindingDev[queues[i]] = FirstDev
      BY <2>1, <2>2 DEF Rest, OnlyFirstDev, Eligible
    <2> QED BY <2>1, <2>3, DevicesAssumption
  <1>1. LocalsInScope'
    BY <1>s DEF Rest, LocalsInScope
  <1>2. LockHolder'
    BY <1>0, <1>p DEF Rest, LockHolder
  <1>3. OnlyFirstDev'
    <2>1. \A e \in Devices : InService(e)' \/ dpc'[e] = "schedule" => e = FirstDev
      BY <1>c, <1>s, <1>0, <1>p DEF Rest, OnlyFirstDev
    <2> QED BY <2>1 DEF Rest, OnlyFirstDev
  <1>4. ListedOnce'
    BY DEF Rest, ListedOnce
  <1>5. SkipMarksOwner'
    BY <1>s DEF Rest, SkipMarksOwner
  <1>6. FrontIsRunning'
    BY <1>0, <1>p DEF Rest, FrontIsRunning
  <1>7. ScheduleFindsWork'
    BY <1>c, <1>0, <1>p DEF Rest, ScheduleFindsWork, Eligible
  <1>8. DestroyedIsIdle'
    BY DEF Rest, DestroyedIsIdle
  <1>9. QueueWindow' /\ FinishIsLast'
    BY <1>f DEF Rest, QueueWindow, FinishIsLast, Finishing, AfterPush
  <1>b. RunsOnBindingDev'
    BY <1>s DEF Rest, RunsOnBindingDev
  <1> QED BY <1>1, <1>2, <1>3, <1>4, <1>5, <1>6, <1>7, <1>8, <1>9, <1>b DEF Rest

(* Schedule marks a queue nobody serves.                                   *)
LEMMA ScheduleRest ==
    ASSUME TypeOK, Rest, NEW d \in Devices, Schedule(d)
    PROVE  Rest'
  <1> USE DEF history
  <1> PICK q \in Clients : /\ Chosen(q)
                           /\ skip' = [skip EXCEPT ![q] = TRUE]
                           /\ dqueue' = [dqueue EXCEPT ![d] = q]
                           /\ dcomm' = [dcomm EXCEPT ![d] = Head(queue[q])]
    BY DEF Schedule, Skipped, Oldest
  <1>0. /\ dpc[d] = "schedule" /\ dpc' = [dpc EXCEPT ![d] = "exec"]
        /\ UNCHANGED <<queues, queue, bindingDev, schedLock, rpc, finSem, history>>
    BY DEF Schedule, Step, poolVars, schedVars, runVars
  <1>q. ~skip[q] /\ queue[q] # <<>> /\ queue[q] \in Seq(Cmd) /\ Head(queue[q]) \in Cmd
    <2>1. ~skip[q] /\ queue[q] # <<>> /\ queue[q] \in Seq(Cmd)
      BY DEF Chosen, Eligible, TypeOK
    <2> QED BY <2>1, HeadTailProperties
  <1>p. /\ dpc'[d] = "exec" /\ dqueue'[d] = q /\ dcomm'[d] = Head(queue[q])
        /\ \A e \in Devices : e # d => dpc'[e] = dpc[e] /\ dqueue'[e] = dqueue[e] /\ dcomm'[e] = dcomm[e]
    BY <1>0 DEF TypeOK
  <1>d. /\ d = FirstDev
        /\ \A e \in Devices : ~InService(e)
        /\ \A e \in Devices : InService(e)' <=> e = d
    <2>1. d = FirstDev
      BY <1>0, OneServer
    <2>2. \A e \in Devices : ~InService(e)
      BY <2>1, <1>0, OneServer DEF InService
    <2> QED BY <2>1, <2>2, <1>p DEF InService
  <1>f. \A c : ~FrontServed(c) /\ ~FrontServed(c)'
    BY <1>d, <1>p DEF FrontServed, InService
  <1>1. LocalsInScope'
    BY <1>d, <1>p, <1>q DEF Rest, LocalsInScope
  <1>2. LockHolder'
    BY <1>0, <1>p DEF Rest, LockHolder
  <1>3. OnlyFirstDev'
    BY <1>0, <1>p, <1>d DEF Rest, OnlyFirstDev
  <1>4. ListedOnce'
    BY <1>0 DEF Rest, ListedOnce
  <1>5. SkipMarksOwner'
    <2>1. \A c \in Clients : ~skip[c]
      BY <1>d DEF Rest, SkipMarksOwner
    <2>2. skip'[q] /\ \A c \in Clients : c # q => ~skip'[c]
      BY <2>1 DEF TypeOK
    <2> QED BY <2>2, <1>d, <1>p DEF SkipMarksOwner
  <1>6. FrontIsRunning'
    BY <1>0, <1>p, <1>d, <1>q DEF FrontIsRunning, InService
  <1>7. ScheduleFindsWork'
    BY <1>0, <1>p, <1>d DEF Rest, ScheduleFindsWork, OnlyFirstDev
  <1>8. DestroyedIsIdle'
    BY <1>0, <1>p, <1>q DEF Rest, DestroyedIsIdle
  <1>9. QueueWindow' /\ FinishIsLast'
    BY <1>f, <1>0 DEF Rest, QueueWindow, FinishIsLast, Finishing, AfterPush
  <1>b. RunsOnBindingDev'
    BY <1>0, <1>d, <1>p, <1>q DEF Rest, RunsOnBindingDev, OnlyFirstDev
  <1> QED BY <1>1, <1>2, <1>3, <1>4, <1>5, <1>6, <1>7, <1>8, <1>9, <1>b DEF Rest

(* Exec executes the oldest command its client has not seen executed.      *)
LEMMA ExecRest ==
    ASSUME TypeOK, Rest, NEW d \in Devices, Exec(d)
    PROVE  Rest'
  <1> DEFINE q == dqueue[d]
             comm == dcomm[d]
  <1>0. /\ dpc[d] = "exec" /\ dpc' = [dpc EXCEPT ![d] = "account"]
        /\ executed' = [executed EXCEPT ![q] = @ + 1]
        /\ finSem' = IF comm.kind = "finish" THEN [finSem EXCEPT ![q] = @ + 1] ELSE finSem
        /\ UNCHANGED <<queues, queue, skip, bindingDev, schedLock, dqueue, dcomm, rpc, pushed>>
    BY DEF Exec, Step, PostsFinish, poolVars, queueVars, schedVars
  <1>q. q \in Clients /\ queue[q] # <<>> /\ Head(queue[q]) = comm
    BY <1>0 DEF Rest, LocalsInScope, FrontIsRunning, InService
  <1> HIDE DEF q, comm
  <1>p. dpc'[d] = "account" /\ \A e \in Devices : e # d => dpc'[e] = dpc[e]
    BY <1>0 DEF TypeOK
  <1>e. /\ executed[q] \in Nat /\ pushed[q] \in Nat /\ finSem[q] \in Nat
        /\ executed'[q] = executed[q] + 1 /\ \A c \in Clients : c # q => executed'[c] = executed[c]
        /\ finSem'[q] = IF comm.kind = "finish" THEN finSem[q] + 1 ELSE finSem[q]
        /\ \A c \in Clients : c # q => finSem'[c] = finSem[c]
    BY <1>0, <1>q DEF TypeOK
  <1>d. d = FirstDev /\ \A e \in Devices : InService(e)' <=> InService(e)
    BY <1>0, <1>p, OneServer DEF InService
  <1>f. ~FrontServed(q) /\ FrontServed(q)' /\ \A c : c # q => (FrontServed(c)' <=> FrontServed(c))
    <2>1. \A c : FrontServed(c) <=> dqueue[d] = c /\ dpc[d] \in {"account", "pop"}
      BY <1>d, FrontServedByFirst
    <2>2. \A c : ~FrontServed(c)
      BY <2>1, <1>0
    <2>3. FrontServed(q)'
      BY <1>0, <1>p DEF FrontServed, q
    <2>4. \A c : c # q => ~FrontServed(c)'
      BY <2>1, <2>2, <1>0, <1>p DEF FrontServed, q
    <2> QED BY <2>2, <2>3, <2>4
  <1>n. /\ Len(queue[q]) \in Nat \ {0} /\ DOMAIN queue[q] = 1 .. Len(queue[q])
        /\ queue[q][1] = comm
    BY <1>q DEF TypeOK
  <1>w. /\ executed[q] + Len(queue[q]) = pushed[q]
        /\ \A i \in DOMAIN queue[q] : queue[q][i].n = pushed[q] - Len(queue[q]) + i
    BY SMTT(20), <1>q, <1>f, <1>n, <1>e DEF Rest, QueueWindow
  <1>1. LocalsInScope' /\ SkipMarksOwner'
    BY <1>d, <1>0 DEF Rest, LocalsInScope, SkipMarksOwner
  <1>2. LockHolder'
    BY <1>0, <1>p DEF Rest, LockHolder
  <1>3. OnlyFirstDev'
    BY <1>0, <1>p, <1>d DEF Rest, OnlyFirstDev
  <1>4. ListedOnce'
    BY <1>0 DEF Rest, ListedOnce
  <1>6. FrontIsRunning'
    BY <1>0, <1>p DEF Rest, FrontIsRunning
  <1>7. ScheduleFindsWork'
    BY <1>0, <1>p DEF Rest, ScheduleFindsWork, Eligible
  <1>8. DestroyedIsIdle'
    BY <1>0 DEF Rest, DestroyedIsIdle
  <1>9. QueueWindow'
    <2> SUFFICES ASSUME NEW c \in Clients
                 PROVE  /\ executed'[c] + Len(queue[c]) = pushed[c] + (IF FrontServed(c)' THEN 1 ELSE 0)
                        /\ \A i \in DOMAIN queue[c] : queue[c][i].n = pushed[c] - Len(queue[c]) + i
      BY <1>0 DEF QueueWindow
    <2>1. CASE c = q
      <3>1. executed'[q] + Len(queue[q]) = pushed[q] + 1
        BY <1>w, <1>e, <1>n
      <3>2. FrontServed(c)'
        BY <2>1, <1>0, <1>p DEF FrontServed, q
      <3> QED BY <2>1, <3>1, <3>2, <1>w
    <2>2. CASE c # q
      BY <2>2, <1>e, <1>f DEF Rest, QueueWindow
    <2> QED BY <2>1, <2>2
  <1>10. FinishIsLast'
    <2>0. \A c \in Clients : Finishing(c)' <=> Finishing(c)
      BY <1>0 DEF Finishing, AfterPush
    <2> SUFFICES ASSUME NEW c \in Clients
                 PROVE  /\ finSem'[c] > 0 => Finishing(c) /\ executed'[c] = pushed[c]
                        /\ finSem'[c] <= 1
                        /\ \A i \in DOMAIN queue[c] : queue[c][i].kind = "finish" =>
                              \/ i = 1 /\ FrontServed(c)'
                              \/ i = Len(queue[c]) /\ Finishing(c)
      BY <2>0, <1>0 DEF FinishIsLast
    <2>1. CASE c = q
      <3>1. finSem[q] = 0
        <4>1. finSem[q] > 0 => executed[q] = pushed[q]
          BY <1>q DEF Rest, FinishIsLast
        <4> QED BY <4>1, <1>w, <1>e, <1>n
      <3>2. \A i \in DOMAIN queue[q] : queue[q][i].kind = "finish" => i = Len(queue[q]) /\ Finishing(q)
        BY <1>q, <1>f DEF Rest, FinishIsLast
      <3>3. comm.kind = "finish" => Len(queue[q]) = 1 /\ Finishing(q)
        <4>1. 1 \in DOMAIN queue[q]
          BY <1>n
        <4> QED BY <4>1, <3>2, <1>n
      <3>4. comm.kind = "finish" => executed'[q] = pushed[q]
        BY <3>3, <1>w, <1>e
      <3> QED BY <2>1, <3>1, <3>2, <3>3, <3>4, <1>e
    <2>2. CASE c # q
      BY <2>2, <1>e, <1>f DEF Rest, FinishIsLast
    <2> QED BY <2>1, <2>2
  <1>b. RunsOnBindingDev'
    BY <1>0, <1>d DEF Rest, RunsOnBindingDev
  <1> QED BY <1>1, <1>2, <1>3, <1>4, <1>6, <1>7, <1>8, <1>9, <1>10, <1>b DEF Rest

(* Account takes the scheduler's lock.                                     *)
LEMMA AccountRest ==
    ASSUME TypeOK, Rest, NEW d \in Devices, Account(d)
    PROVE  Rest'
  <1> USE DEF history
  <1>0. /\ dpc[d] = "account" /\ dpc' = [dpc EXCEPT ![d] = "pop"]
        /\ schedLock = None /\ schedLock' = d
        /\ UNCHANGED <<queues, queue, skip, bindingDev, dqueue, dcomm, rpc, finSem, history>>
    BY DEF Account, Step, SchedFree, poolVars, queueVars, runVars
  <1>p. dpc'[d] = "pop" /\ \A e \in Devices : e # d => dpc'[e] = dpc[e]
    BY <1>0 DEF TypeOK
  <1>s. \A e \in Devices : InService(e)' <=> InService(e)
    BY <1>0, <1>p DEF InService
  <1>f. \A c : FrontServed(c)' <=> FrontServed(c)
    BY <1>0, <1>p DEF FrontServed
  <1>1. LocalsInScope' /\ SkipMarksOwner'
    BY <1>s, <1>0 DEF Rest, LocalsInScope, SkipMarksOwner
  <1>2. LockHolder'
    BY <1>0, <1>p, DevicesAssumption DEF Rest, LockHolder
  <1>3. OnlyFirstDev'
    BY <1>s, <1>0, <1>p DEF Rest, OnlyFirstDev
  <1>4. ListedOnce'
    BY <1>0 DEF Rest, ListedOnce
  <1>6. FrontIsRunning'
    BY <1>0, <1>p DEF Rest, FrontIsRunning
  <1>7. ScheduleFindsWork'
    BY <1>0, <1>p DEF Rest, ScheduleFindsWork, Eligible
  <1>8. DestroyedIsIdle'
    BY <1>0 DEF Rest, DestroyedIsIdle
  <1>9. QueueWindow' /\ FinishIsLast'
    BY <1>f, <1>0 DEF Rest, QueueWindow, FinishIsLast, Finishing, AfterPush
  <1>b. RunsOnBindingDev'
    BY <1>0, <1>s DEF Rest, RunsOnBindingDev
  <1> QED BY <1>1, <1>2, <1>3, <1>4, <1>6, <1>7, <1>8, <1>9, <1>b DEF Rest

(* Pop removes the command that was executed.                              *)
LEMMA PopRest ==
    ASSUME TypeOK, Rest, NEW d \in Devices, Pop(d)
    PROVE  Rest'
  <1> USE DEF history
  <1> DEFINE q == dqueue[d]
  <1>q. dpc[d] = "pop" /\ q \in Clients /\ queue[q] # <<>> /\ queue[q] \in Seq(Cmd)
    BY DEF Pop, Step, Rest, LocalsInScope, FrontIsRunning, InService, TypeOK
  <1>0. /\ dpc' = [dpc EXCEPT ![d] = "reload"]
        /\ rpc[q] # "push"
        /\ queue' = [queue EXCEPT ![q] = Tail(queue[q])]
        /\ UNCHANGED <<queues, skip, bindingDev, schedLock, dqueue, dcomm, rpc, finSem, history>>
    BY <1>q DEF Pop, Step, QueueLocked, TypeOK, poolVars, schedVars, runVars
  <1> HIDE DEF q
  <1>p. dpc'[d] = "reload" /\ \A e \in Devices : e # d => dpc'[e] = dpc[e]
    BY <1>0 DEF TypeOK
  <1>t. /\ queue'[q] = Tail(queue[q]) /\ queue'[q] \in Seq(Cmd)
        /\ Len(queue[q]) \in Nat \ {0} /\ Len(queue'[q]) = Len(queue[q]) - 1
        /\ DOMAIN queue[q] = 1 .. Len(queue[q]) /\ DOMAIN queue'[q] = 1 .. Len(queue[q]) - 1
        /\ \A i \in 1 .. Len(queue[q]) - 1 : queue'[q][i] = queue[q][i + 1]
        /\ \A c \in Clients : c # q => queue'[c] = queue[c]
    BY <1>0, <1>q, HeadTailProperties DEF TypeOK
  <1>d. /\ d = FirstDev
        /\ \A e \in Devices : e # d => ~InService(e) /\ dpc[e] # "schedule"
        /\ \A e \in Devices : InService(e)' <=> InService(e)
    BY <1>0, <1>p, <1>q, OneServer DEF InService
  <1>f. FrontServed(q) /\ \A c : ~FrontServed(c)' /\ (c # q => ~FrontServed(c))
    <2>1. \A c : FrontServed(c) <=> dqueue[d] = c /\ dpc[d] \in {"account", "pop"}
      BY <1>d, FrontServedByFirst
    <2>2. \A c : ~FrontServed(c)'
      BY <1>d, <1>p DEF FrontServed, InService
    <2> QED BY <2>1, <2>2, <1>q DEF q
  <1>w. /\ executed[q] + Len(queue[q]) = pushed[q] + 1
        /\ \A i \in DOMAIN queue[q] : queue[q][i].n = pushed[q] - Len(queue[q]) + i
        /\ executed[q] \in Nat /\ pushed[q] \in Nat
    BY <1>q, <1>f DEF Rest, QueueWindow, TypeOK
  <1>1. LocalsInScope' /\ SkipMarksOwner'
    BY <1>d, <1>0 DEF Rest, LocalsInScope, SkipMarksOwner
  <1>2. LockHolder'
    <2>1. \A e \in Devices : dpc'[e] \in {"pop", "reload", "unskip"} <=> dpc[e] \in {"pop", "reload", "unskip"}
      BY <1>p, <1>q
    <2> QED BY <2>1, <1>0 DEF Rest, LockHolder
  <1>3. OnlyFirstDev'
    <2>1. \A c \in Clients : queue[c] = <<>> => queue'[c] = <<>>
      BY <1>q, <1>t
    <2> QED BY <2>1, <1>0, <1>p, <1>d DEF Rest, OnlyFirstDev
  <1>4. ListedOnce'
    BY <1>0 DEF Rest, ListedOnce
  <1>6. FrontIsRunning'
    BY <1>d, <1>p DEF FrontIsRunning, InService
  <1>7. ScheduleFindsWork'
    BY <1>d, <1>p DEF ScheduleFindsWork
  <1>8. DestroyedIsIdle'
    <2>1. \A c \in Clients : queue[c] = <<>> => queue'[c] = <<>>
      BY <1>q, <1>t
    <2> QED BY <2>1, <1>0 DEF Rest, DestroyedIsIdle
  <1>9. QueueWindow'
    <2>1. /\ executed[q] + Len(queue'[q]) = pushed[q]
          /\ \A i \in 1 .. Len(queue[q]) - 1 : queue'[q][i].n = pushed[q] - Len(queue'[q]) + i
      <3>1. executed[q] + Len(queue'[q]) = pushed[q]
        BY <1>w, <1>t
      <3>2. ASSUME NEW i \in 1 .. Len(queue[q]) - 1
            PROVE  queue'[q][i].n = pushed[q] - Len(queue'[q]) + i
        <4>1. i + 1 \in DOMAIN queue[q]
          BY <1>t
        <4>2. queue'[q][i].n = pushed[q] - Len(queue[q]) + (i + 1)
          BY <4>1, <1>w, <1>t
        <4>3. pushed[q] - Len(queue[q]) + (i + 1) = pushed[q] - (Len(queue[q]) - 1) + i
          <5>1. i \in Int /\ pushed[q] \in Int /\ Len(queue[q]) \in Int
            BY <1>t, <1>w
          <5> QED BY <5>1
        <4>4. Len(queue'[q]) = Len(queue[q]) - 1
          BY <1>t
        <4> QED BY <4>2, <4>3, <4>4
      <3> QED BY <3>1, <3>2
    <2> SUFFICES ASSUME NEW c \in Clients
                 PROVE  /\ executed[c] + Len(queue'[c]) = pushed[c]
                        /\ \A i \in DOMAIN queue'[c] : queue'[c][i].n = pushed[c] - Len(queue'[c]) + i
      <3>1. \A c \in Clients : pushed[c] \in Nat
        BY DEF TypeOK
      <3> QED BY <3>1, <1>0, <1>f DEF QueueWindow
    <2>2. CASE c = q
      BY <2>1, <2>2, <1>t
    <2>3. CASE c # q
      <3>1. pushed[c] \in Nat
        BY DEF TypeOK
      <3> QED BY <2>3, <3>1, <1>t, <1>f DEF Rest, QueueWindow
    <2> QED BY <2>2, <2>3
  <1>10. FinishIsLast'
    <2>0. \A c \in Clients : Finishing(c)' <=> Finishing(c)
      <3>1. ASSUME NEW c \in Clients PROVE rpc[c] = "push" => queue'[c] = queue[c]
        BY <1>0, <1>t
      <3> QED BY <3>1, <1>0 DEF Finishing, AfterPush
    <2> SUFFICES ASSUME NEW c \in Clients
                 PROVE  \A i \in DOMAIN queue'[c] : queue'[c][i].kind = "finish" =>
                              i = Len(queue'[c]) /\ Finishing(c)
      BY <2>0, <1>0 DEF Rest, FinishIsLast
    <2>1. CASE c = q
      <3> SUFFICES ASSUME NEW i \in 1 .. Len(queue[q]) - 1, queue'[q][i].kind = "finish"
                   PROVE  i = Len(queue'[q]) /\ Finishing(q)
        BY <2>1, <1>t
      <3>1. i + 1 \in DOMAIN queue[q] /\ queue[q][i + 1].kind = "finish" /\ i + 1 # 1
        BY <1>t
      <3>2. i + 1 = Len(queue[q]) /\ Finishing(q)
        BY <3>1, <1>q DEF Rest, FinishIsLast
      <3> QED BY <3>2, <1>t
    <2>2. CASE c # q
      BY <2>2, <1>t, <1>f DEF Rest, FinishIsLast
    <2> QED BY <2>1, <2>2
  <1>b. RunsOnBindingDev'
    BY <1>0, <1>d DEF Rest, RunsOnBindingDev
  <1> QED BY <1>1, <1>2, <1>3, <1>4, <1>6, <1>7, <1>8, <1>9, <1>10, <1>b DEF Rest

(* Unskip lets go of the queue and of the scheduler's lock.                *)
LEMMA UnskipRest ==
    ASSUME TypeOK, Rest, NEW d \in Devices, Unskip(d)
    PROVE  Rest'
  <1> USE DEF history
  <1> DEFINE q == dqueue[d]
  <1>q. dpc[d] = "unskip" /\ q \in Clients
    BY DEF Unskip, Step, Rest, LocalsInScope, InService
  <1>0. /\ dpc' = [dpc EXCEPT ![d] = "take"] /\ skip' = [skip EXCEPT ![q] = FALSE]
        /\ schedLock' = None
        /\ dqueue' = [dqueue EXCEPT ![d] = None] /\ dcomm' = [dcomm EXCEPT ![d] = None]
        /\ UNCHANGED <<queues, queue, bindingDev, rpc, finSem, history>>
    BY DEF Unskip, Step, poolVars, vmVars, runVars
  <1> HIDE DEF q
  <1>p. /\ dpc'[d] = "take" /\ dqueue'[d] = None /\ dcomm'[d] = None
        /\ \A e \in Devices : e # d => dpc'[e] = dpc[e] /\ dqueue'[e] = dqueue[e] /\ dcomm'[e] = dcomm[e]
    BY <1>0 DEF TypeOK
  <1>d. /\ d = FirstDev
        /\ \A e \in Devices : ~InService(e)' /\ dpc'[e] # "schedule"
        /\ \A e \in Devices : InService(e) <=> e = d
    <2>1. d = FirstDev
      BY <1>q, OneServer DEF InService
    <2>2. \A e \in Devices : e # d => ~InService(e) /\ dpc[e] # "schedule"
      BY <2>1, OneServer
    <2> QED BY <2>1, <2>2, <1>p, <1>q DEF InService
  <1>f. \A c : ~FrontServed(c) /\ ~FrontServed(c)'
    BY <1>d, <1>q, <1>p DEF FrontServed, InService
  <1>1. LocalsInScope'
    BY <1>d, <1>p DEF Rest, LocalsInScope
  <1>2. LockHolder'
    BY <1>0, <1>d, DevicesAssumption DEF LockHolder, InService
  <1>3. OnlyFirstDev'
    BY <1>0, <1>d DEF Rest, OnlyFirstDev
  <1>4. ListedOnce'
    BY <1>0 DEF Rest, ListedOnce
  <1>5. SkipMarksOwner'
    <2>1. \A c \in Clients : c # q => ~skip[c]
      BY <1>d DEF Rest, SkipMarksOwner, q
    <2>2. \A c \in Clients : ~skip'[c]
      BY <2>1, <1>0 DEF TypeOK
    <2> QED BY <2>2, <1>d DEF SkipMarksOwner
  <1>6. FrontIsRunning'
    BY <1>d DEF FrontIsRunning, InService
  <1>7. ScheduleFindsWork'
    BY <1>d DEF ScheduleFindsWork
  <1>8. DestroyedIsIdle'
    <2>1. \A e \in Devices : dqueue'[e] \in {dqueue[e], None}
      BY <1>p
    <2> QED BY <2>1, <1>0, ClientsAssumption DEF Rest, DestroyedIsIdle
  <1>9. QueueWindow' /\ FinishIsLast'
    BY <1>f, <1>0 DEF Rest, QueueWindow, FinishIsLast, Finishing, AfterPush
  <1>b. RunsOnBindingDev'
    BY <1>d DEF RunsOnBindingDev
  <1> QED BY <1>1, <1>2, <1>3, <1>4, <1>5, <1>6, <1>7, <1>8, <1>9, <1>b DEF Rest

-----------------------------------------------------------------------------
(* One step of any thread keeps the rest.                                  *)
LEMMA StepRest ==
    ASSUME TypeOK, Rest, [Next]_vars
    PROVE  Rest'
  <1> USE DEF poolVars, queueVars, schedVars, sums, vmVars, devVars, runVars, history
  <1>1. ASSUME NEW c \in Clients, RunInternal(c)
        PROVE  Rest'
    <2>1. CASE CreateVM(c)
      BY <2>1, RunMoveRest DEF CreateVM
    <2>2. CASE CreateQueue(c)
      BY <2>2, CreateQueueRest
    <2>3. CASE BindDevice(c)
      BY <2>3, BindDeviceRest
    <2>4. CASE PushToken(c)
      BY <2>4, PushTokenRest
    <2>5. CASE FinishAck(c)
      BY <2>5, FinishAckRest
    <2>6. CASE Drained(c)
      BY <2>6, RunMoveRest DEF Drained, IsEmpty
    <2>7. CASE DrainWait(c)
      BY <2>7, RunMoveRest DEF DrainWait
    <2>8. CASE DestroyQueueAndVM(c)
      BY <2>8, DestroyRest
    <2> QED BY <1>1, <2>1, <2>2, <2>3, <2>4, <2>5, <2>6, <2>7, <2>8 DEF RunInternal
  <1>2. ASSUME NEW c \in Clients, NEW kind \in Kinds, PushBack(c, kind)
        PROVE  Rest'
    BY <1>2, PushBackRest
  <1>3. ASSUME NEW c \in Clients, Disconnect(c) \/ SpuriousWakeup(c)
        PROVE  Rest'
    <2>1. CASE Disconnect(c)
      BY <2>1, RunMoveRest DEF Disconnect
    <2>2. CASE SpuriousWakeup(c)
      BY <2>2, RunMoveRest DEF SpuriousWakeup
    <2> QED BY <1>3, <2>1, <2>2
  <1>4. ASSUME NEW d \in Devices, Take(d) \/ DevInternal(d)
        PROVE  Rest'
    <2>1. CASE Take(d)
      BY <2>1, DevMoveRest DEF Take
    <2>2. CASE CheckPasses(d)
      BY <2>2, DevMoveRest DEF CheckPasses
    <2>3. CASE CheckFails(d)
      BY <2>3, DevMoveRest DEF CheckFails
    <2>4. CASE Schedule(d)
      BY <2>4, ScheduleRest
    <2>5. CASE Exec(d)
      BY <2>5, ExecRest
    <2>6. CASE Account(d)
      BY <2>6, AccountRest
    <2>7. CASE Pop(d)
      BY <2>7, PopRest
    <2>8. CASE Reload(d)
      BY <2>8, DevMoveRest DEF Reload
    <2>9. CASE Unskip(d)
      BY <2>9, UnskipRest
    <2> QED BY <1>4, <2>1, <2>2, <2>3, <2>4, <2>5, <2>6, <2>7, <2>8, <2>9 DEF DevInternal
  <1>5. CASE UNCHANGED vars
    BY <1>5 DEF vars, Rest, LocalsInScope, LockHolder, OnlyFirstDev, ListedOnce, SkipMarksOwner,
                FrontIsRunning, ScheduleFindsWork, DestroyedIsIdle, QueueWindow, FinishIsLast,
                RunsOnBindingDev, InService, FrontServed, Finishing, AfterPush, Eligible
  <1> QED BY <1>1, <1>2, <1>3, <1>4, <1>5 DEF Next

-----------------------------------------------------------------------------
(* Numbers and sets.                                                       *)

Below == {z \in Nat \X Nat : z[1] < z[2]}

(* There is a first of some numbers.                                       *)
LEMMA Smallest ==
    ASSUME NEW T \in SUBSET Nat, T # {}
    PROVE  \E x \in T : \A y \in T : x <= y
  <1>1. IsWellFoundedOn(Below, Nat)
    BY NatLessThanWellFounded DEF OpToRel, Below
  <1>2. PICK x \in T : \A y \in T : ~ (<<y, x>> \in Below)
    BY <1>1, WFMin
  <1>3. ASSUME NEW y \in T PROVE x <= y
    <2>1. ~ (<<y, x>> \in Below) /\ <<y, x>> \in Nat \X Nat
      BY <1>2
    <2>2. ~ (y < x)
      BY <2>1 DEF Below
    <2> QED BY <2>2
  <1> QED BY <1>3

-----------------------------------------------------------------------------
(* Sums over sets of VMs.  A statement about every finite set is proved by *)
(* looking at a smallest set for which it fails.                           *)

Sum(f, T) == SumFunctionOnSet(f, T)
One(s) == CHOOSE x \in s : TRUE

\* g gives the sum of f over each set in D.
SumsUp(f, D, g) == g = [s \in D |-> IF s = {} THEN 0 ELSE f[One(s)] + g[s \ {One(s)}]]

(* Removing an element makes a set smaller.                                *)
LEMMA Smaller ==
    ASSUME NEW s, IsFiniteSet(s), NEW x \in s
    PROVE  /\ IsFiniteSet(s \ {x})
           /\ Cardinality(s) \in Nat /\ Cardinality(s \ {x}) \in Nat
           /\ Cardinality(s \ {x}) = Cardinality(s) - 1
  BY FS_RemoveElement, FS_CardinalityType

(* Of the finite sets in a collection one is smallest.                     *)
LEMMA SmallestSet ==
    ASSUME NEW D, D # {}, \A s \in D : IsFiniteSet(s)
    PROVE  \E s \in D : \A t \in D : Cardinality(s) <= Cardinality(t)
  <1> DEFINE sizes == {Cardinality(s) : s \in D}
  <1>1. sizes \in SUBSET Nat /\ sizes # {}
    BY FS_CardinalityType
  <1>2. PICK n \in sizes : \A m \in sizes : n <= m
    BY <1>1, Smallest
  <1> QED BY <1>2

(* One takes a member.                                                     *)
LEMMA OneIsMember == \A s : s # {} => One(s) \in s
  BY DEF One

(* A finite set's subsets have their sums.                                 *)
LEMMA SumsExist ==
    ASSUME NEW f, NEW T, IsFiniteSet(T)
    PROVE  \E g : SumsUp(f, SUBSET T, g)
  <1> DEFINE Layer(n) == {s \in SUBSET T : Cardinality(s) <= n}
             bad == {n \in Nat : ~ \E g : SumsUp(f, Layer(n), g)}
  <1>0. \A s \in SUBSET T : IsFiniteSet(s) /\ Cardinality(s) \in Nat /\ Cardinality(s) <= Cardinality(T)
    BY FS_Subset, FS_CardinalityType
  <1>1. ASSUME bad # {} PROVE FALSE
    <2>1. PICK n \in bad : \A m \in bad : n <= m
      BY <1>1, Smallest
    <2>2. CASE n = 0
      <3>1. \A s \in Layer(0) : s = {}
        BY <1>0, FS_EmptySet
      <3>2. SumsUp(f, Layer(0), [s \in Layer(0) |-> 0])
        BY <3>1 DEF SumsUp
      <3> QED BY <3>2, <2>1, <2>2
    <2>3. CASE n # 0
      <3>1. n - 1 \in Nat /\ n - 1 \notin bad
        <4>1. n \in Nat
          BY <2>1
        <4> HIDE DEF bad
        <4> QED BY <4>1, <2>1, <2>3
      <3>2. PICK g : SumsUp(f, Layer(n - 1), g)
        BY <3>1
      <3> DEFINE h == [s \in Layer(n) |-> IF s = {} THEN 0 ELSE f[One(s)] + g[s \ {One(s)}]]
      <3>3. ASSUME NEW s \in Layer(n), s # {} PROVE g[s \ {One(s)}] = h[s \ {One(s)}]
        <4>1. One(s) \in s
          BY <3>3, OneIsMember
        <4>2. Cardinality(s \ {One(s)}) <= n - 1 /\ Cardinality(s \ {One(s)}) <= n
          <5>1. Cardinality(s \ {One(s)}) = Cardinality(s) - 1 /\ Cardinality(s) \in Nat /\ Cardinality(s) <= n
            BY <4>1, <1>0, Smaller
          <5> QED BY <5>1, <2>1
        <4>3. s \ {One(s)} \in Layer(n - 1) /\ s \ {One(s)} \in Layer(n)
          BY <4>2
        <4> QED BY <4>3, <3>2 DEF SumsUp
      <3>4. SumsUp(f, Layer(n), h)
        BY <3>3 DEF SumsUp
      <3> QED BY <3>4, <2>1
    <2> QED BY <2>2, <2>3
  <1>2. Cardinality(T) \in Nat /\ Layer(Cardinality(T)) = SUBSET T
    BY <1>0, FS_CardinalityType
  <1> QED BY <1>1, <1>2

(* They are the only ones, also on fewer sets.                             *)
LEMMA SumsUnique ==
    ASSUME NEW f, NEW T, IsFiniteSet(T), NEW S, S \subseteq T,
           NEW g, SumsUp(f, SUBSET S, g), NEW h, SumsUp(f, SUBSET T, h)
    PROVE  \A s \in SUBSET S : g[s] = h[s]
  <1> DEFINE bad == {s \in SUBSET S : g[s] # h[s]}
  <1>0. \A s \in SUBSET S : IsFiniteSet(s)
    BY FS_Subset
  <1>1. ASSUME bad # {} PROVE FALSE
    <2>1. PICK s \in bad : \A t \in bad : Cardinality(s) <= Cardinality(t)
      BY <1>0, <1>1, SmallestSet
    <2>2. s # {}
      BY <2>1 DEF SumsUp
    <2>3. One(s) \in s
      BY <2>2, OneIsMember
    <2>4. s \ {One(s)} \notin bad
      <3>1. Cardinality(s \ {One(s)}) = Cardinality(s) - 1 /\ Cardinality(s) \in Nat
        BY <2>3, <1>0, Smaller
      <3> QED BY <3>1, <2>1
    <2>5. g[s] = f[One(s)] + g[s \ {One(s)}]
      BY <2>2 DEF SumsUp
    <2>6. h[s] = f[One(s)] + h[s \ {One(s)}]
      BY <2>2 DEF SumsUp
    <2> QED BY <2>1, <2>4, <2>5, <2>6
  <1> QED BY <1>1

(* What the fold computes.                                                 *)
LEMMA SumIs ==
    ASSUME NEW f, NEW T, IsFiniteSet(T), NEW h, SumsUp(f, SUBSET T, h), NEW S \in SUBSET T
    PROVE  Sum(f, S) = h[S]
  <1> DEFINE g == CHOOSE g : SumsUp(f, SUBSET S, g)
  <1>1. Sum(f, S) = g[S]
    BY DEF Sum, SumFunctionOnSet, FoldFunctionOnSet, MapThenFoldSet, SumsUp, One
  <1>2. \E i : SumsUp(f, SUBSET S, i)
    BY FS_Subset, SumsExist
  <1>3. SumsUp(f, SUBSET S, g)
    BY <1>2
  <1> HIDE DEF g
  <1> QED BY <1>1, <1>3, SumsUnique

(* The sum over nothing is 0, and a sum that is not can be taken apart at  *)
(* its chosen element.                                                     *)
LEMMA SumParts ==
    ASSUME NEW f, NEW T, IsFiniteSet(T)
    PROVE  /\ Sum(f, {}) = 0
           /\ T # {} => Sum(f, T) = f[One(T)] + Sum(f, T \ {One(T)})
  <1>1. PICK h : SumsUp(f, SUBSET T, h)
    BY SumsExist
  <1>2. /\ h[{}] = 0
        /\ T # {} => h[T] = f[One(T)] + h[T \ {One(T)}]
    BY <1>1 DEF SumsUp
  <1>3. Sum(f, {}) = h[{}] /\ Sum(f, T) = h[T] /\ Sum(f, T \ {One(T)}) = h[T \ {One(T)}]
    BY <1>1, SumIs
  <1> QED BY <1>2, <1>3

(* A sum of numbers is one, and not negative.                              *)
LEMMA SumType ==
    ASSUME NEW f, NEW T, IsFiniteSet(T), \A x \in T : f[x] \in Nat
    PROVE  Sum(f, T) \in Nat
  <1> DEFINE bad == {s \in SUBSET T : Sum(f, s) \notin Nat}
  <1>0. \A s \in SUBSET T : IsFiniteSet(s)
    BY FS_Subset
  <1>1. ASSUME bad # {} PROVE FALSE
    <2>1. PICK s \in bad : \A t \in bad : Cardinality(s) <= Cardinality(t)
      BY <1>0, <1>1, SmallestSet
    <2>2. s # {}
      <3>1. Sum(f, {}) = 0
        BY SumParts
      <3> QED BY <3>1, <2>1
    <2>3. One(s) \in s
      BY <2>2, OneIsMember
    <2>4. s \ {One(s)} \notin bad
      <3>1. Cardinality(s \ {One(s)}) = Cardinality(s) - 1 /\ Cardinality(s) \in Nat
        BY <2>3, <1>0, Smaller
      <3> QED BY <3>1, <2>1
    <2>5. Sum(f, s) = f[One(s)] + Sum(f, s \ {One(s)})
      BY <2>2, <1>0, SumParts
    <2>6. f[One(s)] \in Nat /\ Sum(f, s \ {One(s)}) \in Nat
      BY <2>3, <2>4
    <2> HIDE DEF bad
    <2>7. Sum(f, s) \in Nat
      BY <2>5, <2>6
    <2> QED BY <2>1, <2>7 DEF bad
  <1> QED BY <1>1

(* A sum can be taken apart at any element.                                *)
LEMMA SumTakeOut ==
    ASSUME NEW f, NEW T, IsFiniteSet(T), \A x \in T : f[x] \in Nat, NEW y \in T
    PROVE  Sum(f, T) = f[y] + Sum(f, T \ {y})
  <1> DEFINE bad == {s \in SUBSET T : \E z \in s : Sum(f, s) # f[z] + Sum(f, s \ {z})}
  <1>0. \A s \in SUBSET T : IsFiniteSet(s) /\ Sum(f, s) \in Nat
    BY FS_Subset, SumType
  <1>1. ASSUME bad # {} PROVE FALSE
    <2>1. PICK s \in bad : \A t \in bad : Cardinality(s) <= Cardinality(t)
      BY <1>0, <1>1, SmallestSet
    <2>2. PICK z \in s : Sum(f, s) # f[z] + Sum(f, s \ {z})
      BY <2>1
    <2> DEFINE x == One(s)
    <2>3. x \in s /\ Sum(f, s) = f[x] + Sum(f, s \ {x})
      BY <2>2, <1>0, SumParts, OneIsMember
    <2> HIDE DEF x
    <2>4. x # z
      BY <2>2, <2>3
    <2>5. s \ {x} \notin bad /\ s \ {z} \notin bad
      <3>1. /\ Cardinality(s \ {x}) = Cardinality(s) - 1 /\ Cardinality(s) \in Nat
            /\ Cardinality(s \ {z}) = Cardinality(s) - 1
        BY <2>3, <1>0, Smaller
      <3> QED BY <3>1, <2>1
    <2>6. /\ Sum(f, s \ {x}) = f[z] + Sum(f, (s \ {x}) \ {z})
          /\ Sum(f, s \ {z}) = f[x] + Sum(f, (s \ {z}) \ {x})
      BY <2>3, <2>4, <2>5
    <2>7. (s \ {x}) \ {z} = (s \ {z}) \ {x}
      OBVIOUS
    <2>8. f[x] \in Nat /\ f[z] \in Nat /\ Sum(f, (s \ {x}) \ {z}) \in Nat
      BY <2>3, <1>0
    <2> HIDE DEF bad
    <2> QED BY <2>2, <2>3, <2>6, <2>7, <2>8
  <1> QED BY <1>1

(* Only the terms matter.                                                  *)
LEMMA SumSame ==
    ASSUME NEW f, NEW h, NEW T, IsFiniteSet(T), \A x \in T : f[x] = h[x]
    PROVE  Sum(f, T) = Sum(h, T)
  <1> DEFINE bad == {s \in SUBSET T : Sum(f, s) # Sum(h, s)}
  <1>0. \A s \in SUBSET T : IsFiniteSet(s)
    BY FS_Subset
  <1>1. ASSUME bad # {} PROVE FALSE
    <2>1. PICK s \in bad : \A t \in bad : Cardinality(s) <= Cardinality(t)
      BY <1>0, <1>1, SmallestSet
    <2>2. s # {}
      BY <2>1, <1>0, SumParts
    <2>3. One(s) \in s
      BY <2>2, OneIsMember
    <2>4. s \ {One(s)} \notin bad
      <3>1. Cardinality(s \ {One(s)}) = Cardinality(s) - 1 /\ Cardinality(s) \in Nat
        BY <2>3, <1>0, Smaller
      <3> QED BY <3>1, <2>1
    <2>5. /\ Sum(f, s) = f[One(s)] + Sum(f, s \ {One(s)})
          /\ Sum(h, s) = h[One(s)] + Sum(h, s \ {One(s)})
      BY <2>2, <1>0, SumParts
    <2>6. f[One(s)] = h[One(s)]
      BY <2>3
    <2> QED BY <2>1, <2>4, <2>5, <2>6
  <1> QED BY <1>1

(* One term changes.                                                       *)
LEMMA SumChange ==
    ASSUME NEW f, NEW h, NEW T, IsFiniteSet(T), \A x \in T : f[x] \in Nat /\ h[x] \in Nat,
           NEW y \in T, \A x \in T \ {y} : f[x] = h[x]
    PROVE  Sum(h, T) = Sum(f, T) + (h[y] - f[y])
  <1>1. IsFiniteSet(T \ {y})
    BY Smaller
  <1>2. Sum(f, T \ {y}) = Sum(h, T \ {y})
    BY <1>1, SumSame
  <1>3. Sum(f, T) = f[y] + Sum(f, T \ {y}) /\ Sum(h, T) = h[y] + Sum(h, T \ {y})
    BY SumTakeOut
  <1>4. Sum(f, T \ {y}) \in Nat /\ f[y] \in Nat /\ h[y] \in Nat
    BY <1>1, SumType
  <1> QED BY <1>2, <1>3, <1>4

-----------------------------------------------------------------------------
(* The scheduler's sums.                                                   *)

(* A command is executed for a client that the scheduler still knows.      *)
LEMMA ServedIsLive ==
    ASSUME TypeOK, Rest, VMsLive, NEW d \in Devices, dpc[d] \in {"exec", "account", "pop"}
    PROVE  /\ dqueue[d] \in VMs /\ dqueue[d] \in Clients
           /\ rpc[dqueue[d]] # "new"
  <1>1. dqueue[d] \in Clients /\ queue[dqueue[d]] # <<>>
    BY DEF Rest, FrontIsRunning, LocalsInScope, InService
  <1>2. rpc[dqueue[d]] \notin {"new", "gone"}
    BY <1>1 DEF Rest, OnlyFirstDev
  <1> QED BY <1>1, <1>2 DEF VMsLive

(* A step keeps a VM in the list from CreateVM to DestroyVM.               *)
LEMMA VMsStep ==
    ASSUME TypeOK, Rest, VMsLive, [Next]_vars
    PROVE  VMsLive'
  <1> USE DEF vmVars, schedVars, runVars
  <1>0. /\ VMs \subseteq Clients /\ used \in [Clients -> Nat] /\ refs \in [Clients -> Int]
        /\ rpc \in [Clients -> RunPC]
    BY DEF TypeOK
  <1>1. ASSUME NEW c \in Clients, CreateVM(c) PROVE VMsLive'
    BY <1>0, <1>1 DEF CreateVM, VMsLive, Goto
  <1>2. ASSUME NEW c \in Clients, CreateQueue(c) PROVE VMsLive'
    BY <1>0, <1>2 DEF CreateQueue, VMsLive, Goto
  <1>3. ASSUME NEW c \in Clients, BindDevice(c) PROVE VMsLive'
    BY <1>0, <1>3 DEF BindDevice, VMsLive, Goto
  <1>4. ASSUME NEW c \in Clients, PushToken(c) PROVE VMsLive'
    <2>1. rpc[c] = "push" /\ rpc' = [rpc EXCEPT ![c] = AfterPush(c)] /\ AfterPush(c) \in {"finish", "serve"}
      BY <1>4 DEF PushToken, AfterPush
    <2>2. UNCHANGED <<VMs, used, refs>>
      BY <1>4 DEF PushToken
    <2> QED BY <1>0, <2>1, <2>2 DEF VMsLive
  <1>5. ASSUME NEW c \in Clients, FinishAck(c) \/ Drained(c) \/ DrainWait(c) PROVE VMsLive'
    BY <1>0, <1>5 DEF FinishAck, Drained, DrainWait, VMsLive, Goto
  <1>6. ASSUME NEW c \in Clients, DestroyQueueAndVM(c) PROVE VMsLive'
    <2>1. rpc[c] = "destroy" /\ rpc' = [rpc EXCEPT ![c] = "gone"] /\ refs' = [refs EXCEPT ![c] = @ - 1] /\ used' = used
      BY <1>6 DEF DestroyQueueAndVM, Goto
    <2>2. refs[c] = 1 /\ refs'[c] = 0
      BY <1>0, <2>1 DEF VMsLive
    <2>3. VMs' = VMs \ {c}
      BY <2>2, <1>6 DEF DestroyQueueAndVM
    <2> QED BY <1>0, <2>1, <2>2, <2>3 DEF VMsLive
  <1>7. ASSUME NEW c \in Clients, (\E kind \in Kinds : PushBack(c, kind)) \/ Disconnect(c) \/ SpuriousWakeup(c)
        PROVE  VMsLive'
    <2>1. UNCHANGED <<VMs, used, refs>>
      BY <1>7 DEF PushBack, Disconnect, SpuriousWakeup
    <2>2. \E from \in {"serve", "asleep"}, to \in {"push", "drain"} : Goto(c, from, to)
      BY <1>7 DEF PushBack, Disconnect, SpuriousWakeup
    <2> QED BY <1>0, <2>1, <2>2 DEF VMsLive, Goto
  <1>8. ASSUME NEW d \in Devices, DevInternal(d) \/ Take(d), ~Account(d)
        PROVE  VMsLive'
    <2>1. UNCHANGED <<VMs, used, refs, rpc>>
      BY <1>8 DEF DevInternal, Take, CheckPasses, CheckFails, Schedule, Pop, Reload, Unskip, Exec
    <2> QED BY <2>1 DEF VMsLive
  <1>9. ASSUME NEW d \in Devices, Account(d) PROVE VMsLive'
    <2>1. /\ UNCHANGED <<VMs, refs, rpc>>
          /\ \A c \in Clients : c # dqueue[d] => used'[c] = used[c]
      BY <1>0, <1>9 DEF Account
    <2>2. rpc[dqueue[d]] # "new"
      BY <1>9, ServedIsLive DEF Account, Step
    <2> QED BY <2>1, <2>2 DEF VMsLive
  <1>10. CASE UNCHANGED vars
    BY <1>10 DEF vars, VMsLive
  <1> QED BY <1>1, <1>2, <1>3, <1>4, <1>5, <1>6, <1>7, <1>8, <1>9, <1>10 DEF Next, RunInternal

\* The terms of the three sums.
UsedTerms == [c \in Clients |-> Weight * used[c]]
WeightTerms == [c \in Clients |-> Weight * Weight]
SquareTerms == [c \in Clients |-> used[c] * used[c]]

(* What SumsMatchVMs says of a state and of the next.                      *)
LEMMA SumsMean ==
    /\ SumsMatchVMs <=> /\ basedInner = Sum(UsedTerms, VMs)
                        /\ weightLeng = Sum(WeightTerms, VMs)
                        /\ timeLeng = Sum(SquareTerms, VMs)
    /\ SumsMatchVMs' <=> /\ basedInner' = Sum(UsedTerms', VMs')
                         /\ weightLeng' = Sum(WeightTerms', VMs')
                         /\ timeLeng' = Sum(SquareTerms', VMs')
  BY DEF SumsMatchVMs, Sum, UsedTerms, WeightTerms, SquareTerms

(* They are numbers.                                                       *)
LEMMA TermsType ==
    ASSUME TypeOK
    PROVE  /\ IsFiniteSet(VMs) /\ VMs \subseteq Clients
           /\ \A c \in Clients : /\ UsedTerms[c] = used[c] /\ WeightTerms[c] = 1 /\ SquareTerms[c] = used[c] * used[c]
                                 /\ used[c] \in Nat /\ used[c] * used[c] \in Nat
  <1>1. IsFiniteSet(VMs) /\ VMs \subseteq Clients
    BY FiniteAssumption, FS_Subset DEF TypeOK
  <1>2. ASSUME NEW c \in Clients PROVE used[c] \in Nat /\ used[c] * used[c] \in Nat /\ 1 * used[c] = used[c]
    BY DEF TypeOK
  <1> QED BY <1>1, <1>2 DEF UsedTerms, WeightTerms, SquareTerms, Weight

(* A VM that enters the list or leaves it takes its terms along.           *)
LEMMA SumsGrow ==
    ASSUME NEW f, NEW T, IsFiniteSet(T), NEW y, y \notin T, \A x \in T \cup {y} : f[x] \in Nat
    PROVE  Sum(f, T \cup {y}) = Sum(f, T) + f[y] /\ Sum(f, T) \in Nat
  <1>1. IsFiniteSet(T \cup {y}) /\ (T \cup {y}) \ {y} = T
    BY FS_AddElement
  <1>2. Sum(f, T \cup {y}) = f[y] + Sum(f, T)
    BY <1>1, SumTakeOut
  <1>3. Sum(f, T) \in Nat /\ f[y] \in Nat
    BY SumType
  <1> QED BY <1>2, <1>3

(* CreateVM, DestroyVM and the accounting after Exec keep the sums right.  *)
LEMMA SumsStep ==
    ASSUME TypeOK, TypeOK', Rest, VMsLive, SumsMatchVMs, [Next]_vars
    PROVE  SumsMatchVMs'
  <1> USE DEF sums, vmVars, schedVars
  <1>0. /\ basedInner = Sum(UsedTerms, VMs)
        /\ weightLeng = Sum(WeightTerms, VMs)
        /\ timeLeng = Sum(SquareTerms, VMs)
    BY SumsMean
  <1>1. ASSUME NEW c \in Clients, CreateVM(c) PROVE SumsMatchVMs'
    <2>1. /\ VMs' = VMs \cup {c} /\ used' = used
          /\ weightLeng' = weightLeng + 1 /\ UNCHANGED <<basedInner, timeLeng>>
          /\ c \notin VMs /\ used[c] = 0
      BY <1>1 DEF CreateVM, Weight, VMsLive, Goto
    <2>2. UsedTerms' = UsedTerms /\ WeightTerms' = WeightTerms /\ SquareTerms' = SquareTerms
      BY <2>1 DEF UsedTerms, WeightTerms, SquareTerms
    <2>3. \A x \in VMs \cup {c} : UsedTerms[x] \in Nat /\ WeightTerms[x] \in Nat /\ SquareTerms[x] \in Nat
      BY TermsType
    <2>4. /\ Sum(UsedTerms, VMs \cup {c}) = Sum(UsedTerms, VMs) + UsedTerms[c]
          /\ Sum(UsedTerms, VMs) \in Nat
      BY <2>1, <2>3, TermsType, SumsGrow
    <2>5. Sum(WeightTerms, VMs \cup {c}) = Sum(WeightTerms, VMs) + WeightTerms[c]
      BY <2>1, <2>3, TermsType, SumsGrow
    <2>6. /\ Sum(SquareTerms, VMs \cup {c}) = Sum(SquareTerms, VMs) + SquareTerms[c]
          /\ Sum(SquareTerms, VMs) \in Nat
      BY <2>1, <2>3, TermsType, SumsGrow
    <2>7. UsedTerms[c] = 0 /\ WeightTerms[c] = 1 /\ SquareTerms[c] = 0
      BY <2>1, TermsType
    <2>8. /\ basedInner = Sum(UsedTerms, VMs \cup {c})
          /\ weightLeng + 1 = Sum(WeightTerms, VMs \cup {c})
          /\ timeLeng = Sum(SquareTerms, VMs \cup {c})
      BY <1>0, <2>4, <2>5, <2>6, <2>7
    <2> QED BY <2>8, <2>1, <2>2, SumsMean
  <1>2. ASSUME NEW c \in Clients, DestroyQueueAndVM(c) PROVE SumsMatchVMs'
    <2>1. /\ VMs' = VMs \ {c} /\ used' = used /\ c \in VMs
          /\ basedInner' = basedInner - used[c] /\ weightLeng' = weightLeng - 1
          /\ timeLeng' = timeLeng - used[c] * used[c]
      <3>1. rpc[c] = "destroy" /\ refs' = [refs EXCEPT ![c] = @ - 1] /\ refs[c] = 1
        BY <1>2 DEF DestroyQueueAndVM, Goto, VMsLive
      <3>2. refs'[c] = 0
        BY <3>1 DEF TypeOK
      <3>3. VMs' = VMs \ {c} /\ SumsRelease(c)
        BY <3>2, <1>2 DEF DestroyQueueAndVM
      <3>4. used[c] \in Nat /\ 1 * used[c] = used[c]
        BY DEF TypeOK
      <3>5. c \in VMs /\ used' = used
        BY <3>1, <1>2 DEF VMsLive, DestroyQueueAndVM
      <3> QED BY <3>3, <3>4, <3>5 DEF SumsRelease, Weight
    <2>2. UsedTerms' = UsedTerms /\ WeightTerms' = WeightTerms /\ SquareTerms' = SquareTerms
      BY <2>1 DEF UsedTerms, WeightTerms, SquareTerms
    <2>3. /\ \A x \in VMs : UsedTerms[x] \in Nat /\ WeightTerms[x] \in Nat /\ SquareTerms[x] \in Nat
          /\ IsFiniteSet(VMs) /\ IsFiniteSet(VMs \ {c})
      BY TermsType, FS_RemoveElement
    <2>4. /\ Sum(UsedTerms, VMs) = UsedTerms[c] + Sum(UsedTerms, VMs \ {c})
          /\ Sum(UsedTerms, VMs \ {c}) \in Nat
      <3>1. (\A x \in VMs : UsedTerms[x] \in Nat) /\ (\A x \in VMs \ {c} : UsedTerms[x] \in Nat)
        BY <2>3
      <3>2. Sum(UsedTerms, VMs) = UsedTerms[c] + Sum(UsedTerms, VMs \ {c})
        BY <3>1, <2>1, <2>3, SumTakeOut
      <3> QED BY <3>1, <3>2, <2>3, SumType
    <2>5. /\ Sum(WeightTerms, VMs) = WeightTerms[c] + Sum(WeightTerms, VMs \ {c})
          /\ Sum(WeightTerms, VMs \ {c}) \in Nat
      <3>1. (\A x \in VMs : WeightTerms[x] \in Nat) /\ (\A x \in VMs \ {c} : WeightTerms[x] \in Nat)
        BY <2>3
      <3>2. Sum(WeightTerms, VMs) = WeightTerms[c] + Sum(WeightTerms, VMs \ {c})
        BY <3>1, <2>1, <2>3, SumTakeOut
      <3> QED BY <3>1, <3>2, <2>3, SumType
    <2>6. /\ Sum(SquareTerms, VMs) = SquareTerms[c] + Sum(SquareTerms, VMs \ {c})
          /\ Sum(SquareTerms, VMs \ {c}) \in Nat
      <3>1. (\A x \in VMs : SquareTerms[x] \in Nat) /\ (\A x \in VMs \ {c} : SquareTerms[x] \in Nat)
        BY <2>3
      <3>2. Sum(SquareTerms, VMs) = SquareTerms[c] + Sum(SquareTerms, VMs \ {c})
        BY <3>1, <2>1, <2>3, SumTakeOut
      <3> QED BY <3>1, <3>2, <2>3, SumType
    <2>7. /\ UsedTerms[c] = used[c] /\ WeightTerms[c] = 1 /\ SquareTerms[c] = used[c] * used[c]
          /\ used[c] \in Nat /\ used[c] * used[c] \in Nat
      BY TermsType
    <2>8. /\ basedInner - used[c] = Sum(UsedTerms, VMs \ {c})
          /\ weightLeng - 1 = Sum(WeightTerms, VMs \ {c})
      <3>1. basedInner = used[c] + Sum(UsedTerms, VMs \ {c}) /\ weightLeng = 1 + Sum(WeightTerms, VMs \ {c})
        BY <1>0, <2>4, <2>5, <2>7
      <3> QED BY <3>1, <2>4, <2>5, <2>7
    <2>9. timeLeng - used[c] * used[c] = Sum(SquareTerms, VMs \ {c})
      <3> DEFINE square == used[c] * used[c]
      <3>1. timeLeng = square + Sum(SquareTerms, VMs \ {c}) /\ square \in Nat
        BY <1>0, <2>6, <2>7
      <3> HIDE DEF square
      <3>2. timeLeng - square = Sum(SquareTerms, VMs \ {c})
        BY <3>1, <2>6
      <3> QED BY <3>2 DEF square
    <2> QED BY <2>8, <2>9, <2>1, <2>2, SumsMean
  <1>3. ASSUME NEW d \in Devices, Account(d) PROVE SumsMatchVMs'
    <2> DEFINE q == dqueue[d]
    <2>1. q \in VMs /\ q \in Clients
      BY <1>3, ServedIsLive DEF Account, Step
    <2>2. PICK u \in Nat : /\ basedInner' = basedInner + u * Weight
                           /\ timeLeng' = timeLeng + (2 * used[q] * u + u * u)
                           /\ used' = [used EXCEPT ![q] = @ + u]
      BY <1>3, BoundsAssumption DEF Account, ExecTimes
    <2>3. VMs' = VMs /\ weightLeng' = weightLeng
      BY <1>3 DEF Account
    <2>4. /\ used[q] \in Nat /\ used'[q] = used[q] + u /\ used' \in [Clients -> Nat]
          /\ \A x \in Clients \ {q} : used'[x] = used[x]
      BY <2>1, <2>2 DEF TypeOK
    <2>5. /\ \A x \in Clients : UsedTerms'[x] = used'[x] /\ SquareTerms'[x] = used'[x] * used'[x]
          /\ \A x \in Clients : UsedTerms'[x] \in Nat /\ SquareTerms'[x] \in Nat
      <3>1. ASSUME NEW x \in Clients PROVE used'[x] \in Nat /\ used'[x] * used'[x] \in Nat /\ 1 * used'[x] = used'[x]
        BY <2>4
      <3> QED BY <3>1 DEF UsedTerms, SquareTerms, Weight
    <2>6. /\ \A x \in Clients : /\ UsedTerms[x] = used[x] /\ SquareTerms[x] = used[x] * used[x]
                                /\ UsedTerms[x] \in Nat /\ SquareTerms[x] \in Nat
          /\ IsFiniteSet(VMs) /\ VMs \subseteq Clients
      BY TermsType
    <2>7. \A x \in VMs \ {q} : UsedTerms[x] = UsedTerms'[x] /\ SquareTerms[x] = SquareTerms'[x]
      BY <2>4, <2>5, <2>6
    <2> HIDE DEF q
    <2>8. Sum(UsedTerms', VMs) = Sum(UsedTerms, VMs) + (UsedTerms'[q] - UsedTerms[q])
      BY <2>1, <2>5, <2>6, <2>7, SumChange
    <2>9. Sum(SquareTerms', VMs) = Sum(SquareTerms, VMs) + (SquareTerms'[q] - SquareTerms[q])
      BY <2>1, <2>5, <2>6, <2>7, SumChange
    <2>10. UsedTerms'[q] - UsedTerms[q] = u * Weight
      BY <2>1, <2>4, <2>5, <2>6, <2>2 DEF Weight
    <2>11. SquareTerms'[q] - SquareTerms[q] = 2 * used[q] * u + u * u
      <3>1. SquareTerms'[q] = (used[q] + u) * (used[q] + u) /\ SquareTerms[q] = used[q] * used[q]
        BY <2>1, <2>4, <2>5, <2>6
      <3>2. \A a, b \in Nat : (a + b) * (a + b) - a * a = 2 * a * b + b * b
        OBVIOUS
      <3> QED BY <3>1, <3>2, <2>2, <2>4
    <2>12. WeightTerms' = WeightTerms
      BY DEF WeightTerms
    <2> QED BY <1>0, <2>2, <2>3, <2>8, <2>9, <2>10, <2>11, <2>12, SumsMean
  <1>4. ASSUME UNCHANGED <<basedInner, weightLeng, timeLeng, VMs, used>> PROVE SumsMatchVMs'
    BY <1>4 DEF SumsMatchVMs
  <1>5. CASE UNCHANGED vars
    BY <1>5, <1>4 DEF vars
  <1>6. ASSUME NEW c \in Clients, \/ RunInternal(c) /\ ~CreateVM(c) /\ ~DestroyQueueAndVM(c)
                                \/ (\E kind \in Kinds : PushBack(c, kind)) \/ Disconnect(c) \/ SpuriousWakeup(c)
        PROVE  SumsMatchVMs'
    BY <1>6, <1>4 DEF RunInternal, CreateQueue, BindDevice, PushToken, FinishAck, Drained, DrainWait,
                      PushBack, Disconnect, SpuriousWakeup
  <1>7. ASSUME NEW d \in Devices, DevInternal(d) \/ Take(d), ~Account(d) PROVE SumsMatchVMs'
    BY <1>7, <1>4 DEF DevInternal, Take, CheckPasses, CheckFails, Schedule, Pop, Reload, Unskip, Exec
  <1> QED BY <1>1, <1>2, <1>3, <1>5, <1>6, <1>7 DEF Next

-----------------------------------------------------------------------------
(* Tokens.                                                                 *)

\* Devices with a token they have not used, and queues that a token stands for.
Holding == {d \in Devices : dpc[d] \in {"check", "schedule"}}
Covered == Claims \ Posting

(* These can be counted.                                                   *)
LEMMA TokenSets ==
    /\ IsFiniteSet(Holding) /\ IsFiniteSet(Covered) /\ Cardinality(Holding) \in Nat /\ Cardinality(Covered) \in Nat
    /\ IsFiniteSet(Holding') /\ IsFiniteSet(Covered') /\ Cardinality(Holding') \in Nat /\ Cardinality(Covered') \in Nat
    /\ Tokens = sem + Cardinality(Holding) /\ Tokens' = sem' + Cardinality(Holding')
  <1>1. Holding \subseteq Devices /\ Holding' \subseteq Devices /\ Covered \subseteq Clients /\ Covered' \subseteq Clients
    BY DEF Holding, Covered, Claims
  <1>2. IsFiniteSet(Holding) /\ IsFiniteSet(Holding') /\ IsFiniteSet(Covered) /\ IsFiniteSet(Covered')
    BY <1>1, FiniteAssumption, FS_Subset
  <1>3. Tokens = sem + Cardinality(Holding) /\ Tokens' = sem' + Cardinality(Holding')
    BY DEF Tokens, Holding
  <1> QED BY <1>2, <1>3, FS_CardinalityType

(* A token is posted with a queue it stands for, or taken by a device that *)
(* will use it; one is used with such a queue, or given back.              *)
LEMMA TokenCount ==
    ASSUME TypeOK, Tokens <= Cardinality(Covered),
           \/ /\ sem' = sem /\ Holding' = Holding /\ Covered \subseteq Covered'
           \/ /\ sem' = sem + 1 /\ Holding' = Holding
              /\ \E q : q \notin Covered /\ Covered' = Covered \cup {q}
           \/ /\ sem' = sem /\ Covered' = Covered
              /\ \E d \in Holding : Holding' = Holding \ {d}
           \/ /\ sem' = sem /\ \E d \in Holding : Holding' = Holding \ {d}
              /\ \E q : Covered' = Covered \ {q}
           \/ /\ sem' = sem - 1 /\ Covered' = Covered
              /\ \E d : d \notin Holding /\ Holding' = Holding \cup {d}
           \/ /\ sem' = sem + 1 /\ Covered' = Covered
              /\ \E d \in Holding : Holding' = Holding \ {d}
    PROVE  Tokens' <= Cardinality(Covered')
  <1> DEFINE h == Cardinality(Holding)
             hn == Cardinality(Holding')
             k == Cardinality(Covered)
             kn == Cardinality(Covered')
  <1>1. /\ h \in Nat /\ hn \in Nat /\ k \in Nat /\ kn \in Nat /\ sem \in Nat
        /\ sem + h <= k /\ Tokens' = sem' + hn
    BY TokenSets DEF TypeOK
  <1>2. Covered \subseteq Covered' => k <= kn
    BY TokenSets, FS_Subset
  <1>3. Holding' = Holding => hn = h
    OBVIOUS
  <1>4. (\E q : q \notin Covered /\ Covered' = Covered \cup {q}) => kn = k + 1
    BY TokenSets, FS_AddElement
  <1>5. (\E d \in Holding : Holding' = Holding \ {d}) => hn = h - 1
    BY TokenSets, FS_RemoveElement
  <1>6. (\E d : d \notin Holding /\ Holding' = Holding \cup {d}) => hn = h + 1
    BY TokenSets, FS_AddElement
  <1>7. (\E q : Covered' = Covered \ {q}) => kn = k \/ kn = k - 1
    BY TokenSets, FS_RemoveElement
  <1>8. Covered' = Covered => kn = k
    OBVIOUS
  <1>9. \/ sem' = sem /\ hn = h /\ k <= kn
        \/ sem' = sem + 1 /\ hn = h /\ kn = k + 1
        \/ sem' = sem /\ hn = h - 1 /\ (kn = k \/ kn = k - 1)
        \/ sem' = sem - 1 /\ hn = h + 1 /\ kn = k
        \/ sem' = sem + 1 /\ hn = h - 1 /\ kn = k
    BY <1>2, <1>3, <1>4, <1>5, <1>6, <1>7, <1>8
  <1> HIDE DEF h, hn, k, kn
  <1>10. sem' + hn <= kn
    BY <1>1, <1>9
  <1> QED BY <1>1, <1>10 DEF kn

(* A Run thread posts a token for a queue that gets its first command.     *)
LEMMA RunTokens ==
    ASSUME TypeOK, TokensCovered, NEW c \in Clients,
           RunInternal(c) \/ (\E kind \in Kinds : PushBack(c, kind)) \/ Disconnect(c) \/ SpuriousWakeup(c)
    PROVE  TokensCovered'
  <1> USE DEF poolVars, queueVars, schedVars, devVars, runVars, history
  <1>0. /\ rpc \in [Clients -> RunPC] /\ isIncrease \in [Clients -> BOOLEAN] /\ queue \in [Clients -> Seq(Cmd)]
        /\ Tokens <= Cardinality(Covered) /\ \A b \in Clients : rpc[b] = "push" => queue[b] # <<>>
    BY DEF TypeOK, TokensCovered, Covered
  <1>1. CASE PushToken(c)
    <2>1. /\ rpc[c] = "push" /\ rpc' = [rpc EXCEPT ![c] = AfterPush(c)] /\ AfterPush(c) \in {"finish", "serve"}
          /\ isIncrease' = [isIncrease EXCEPT ![c] = FALSE]
          /\ sem' = IF isIncrease[c] /\ ~skip[c] THEN sem + 1 ELSE sem
          /\ UNCHANGED <<queue, skip, dpc, dqueue>>
      BY <1>1 DEF PushToken, AfterPush, PostsForFirst
    <2>2. Posting' = Posting \ {c} /\ Claims' = Claims /\ Holding' = Holding
      BY <1>0, <2>1 DEF Posting, Claims, Holding
    <2>3. CASE isIncrease[c] /\ ~skip[c]
      <3>1. c \in Posting /\ c \in Claims
        BY <1>0, <2>1, <2>3 DEF Posting, Claims
      <3>2. c \notin Covered /\ Covered' = Covered \cup {c}
        BY <2>2, <3>1 DEF Covered
      <3>3. Tokens' <= Cardinality(Covered')
        BY <1>0, <2>1, <2>2, <2>3, <3>2, TokenCount
      <3> QED BY <3>3, <1>0, <2>1 DEF TokensCovered, Covered
    <2>4. CASE ~(isIncrease[c] /\ ~skip[c])
      <3>1. Covered \subseteq Covered' /\ sem' = sem
        BY <2>1, <2>2, <2>4 DEF Covered
      <3>2. Tokens' <= Cardinality(Covered')
        BY <1>0, <2>2, <3>1, TokenCount
      <3> QED BY <3>2, <1>0, <2>1 DEF TokensCovered, Covered
    <2> QED BY <2>3, <2>4
  <1>2. ASSUME NEW kind \in Kinds, PushBack(c, kind)
        PROVE  TokensCovered'
    <2> DEFINE longer == Append(queue[c], [n |-> pushed[c] + 1, kind |-> kind])
    <2>1. /\ rpc[c] = "serve" /\ rpc' = [rpc EXCEPT ![c] = "push"]
          /\ isIncrease' = [isIncrease EXCEPT ![c] = (queue[c] = <<>>)]
          /\ queue' = [queue EXCEPT ![c] = longer]
          /\ UNCHANGED <<sem, skip, dpc, dqueue>>
      BY <1>2 DEF PushBack, PushedBack, IsEmpty, Goto
    <2>2. longer # <<>>
      <3>1. Len(longer) = Len(queue[c]) + 1 /\ Len(queue[c]) \in Nat
        BY <1>0
      <3> HIDE DEF longer
      <3> QED BY <3>1
    <2> HIDE DEF longer
    <2>3. /\ queue'[c] # <<>> /\ \A b \in Clients : b # c => queue'[b] = queue[b]
          /\ isIncrease'[c] = (queue[c] = <<>>) /\ \A b \in Clients : b # c => isIncrease'[b] = isIncrease[b]
          /\ rpc'[c] = "push" /\ \A b \in Clients : b # c => rpc'[b] = rpc[b]
      BY <1>0, <2>1, <2>2
    <2>4. c \in Covered' <=> c \in Covered
      BY <2>1, <2>3 DEF Covered, Claims, Posting
    <2>5. \A b \in Clients : b # c => (b \in Covered' <=> b \in Covered)
      BY <2>1, <2>3 DEF Covered, Claims, Posting
    <2>6. Covered' = Covered
      BY <2>4, <2>5 DEF Covered, Claims
    <2>7. Holding' = Holding
      BY <2>1 DEF Holding
    <2>8. Tokens' <= Cardinality(Covered')
      BY <1>0, <2>1, <2>6, <2>7, TokenCount
    <2>9. \A b \in Clients : rpc'[b] = "push" => queue'[b] # <<>>
      BY <1>0, <2>3
    <2> QED BY <2>8, <2>9 DEF TokensCovered, Covered
  <1>3. CASE \/ RunInternal(c) /\ ~PushToken(c)
             \/ Disconnect(c) \/ SpuriousWakeup(c)
    <2>1. /\ UNCHANGED <<sem, queue, skip, dpc, dqueue, isIncrease>>
          /\ \E from, to \in RunPC \ {"push"} : Goto(c, from, to)
      <3>1. UNCHANGED <<sem, queue, skip, dpc, dqueue, isIncrease>>
        BY <1>3 DEF RunInternal, CreateVM, CreateQueue, BindDevice, FinishAck, Drained, DrainWait, DestroyQueueAndVM,
                    Disconnect, SpuriousWakeup
      <3>2. \E from, to \in RunPC \ {"push"} : Goto(c, from, to)
        BY <1>3 DEF RunInternal, CreateVM, CreateQueue, BindDevice, FinishAck, Drained, DrainWait, DestroyQueueAndVM,
                    Disconnect, SpuriousWakeup, RunPC
      <3> QED BY <3>1, <3>2
    <2>2. \A b \in Clients : rpc'[b] = "push" <=> rpc[b] = "push"
      BY <1>0, <2>1 DEF Goto
    <2>3. Covered' = Covered /\ Holding' = Holding
      BY <2>1, <2>2 DEF Covered, Claims, Posting, Holding
    <2>4. Tokens' <= Cardinality(Covered')
      BY <1>0, <2>1, <2>3, TokenCount
    <2> QED BY <2>4, <1>0, <2>1, <2>2 DEF TokensCovered, Covered
  <1> QED BY <1>1, <1>2, <1>3

(* A device gives a token back or uses it, and posts one for what is left. *)
LEMMA DevTokens ==
    ASSUME TypeOK, Rest, TokensCovered, NEW d \in Devices, Take(d) \/ DevInternal(d)
    PROVE  TokensCovered'
  <1> USE DEF poolVars, queueVars, schedVars, runVars, history
  <1> DEFINE q == dqueue[d]
  <1>0. /\ dpc \in [Devices -> DevPC] /\ skip \in [Clients -> BOOLEAN] /\ queue \in [Clients -> Seq(Cmd)]
        /\ dqueue \in [Devices -> Clients \cup {None}]
        /\ Tokens <= Cardinality(Covered) /\ \A b \in Clients : rpc[b] = "push" => queue[b] # <<>>
    BY DEF TypeOK, TokensCovered, Covered
  <1>m. \A from, to : Step(d, from, to) => dpc[d] = from /\ dpc'[d] = to /\ \A e \in Devices : e # d => dpc'[e] = dpc[e]
    BY <1>0 DEF Step
  <1>p. UNCHANGED <<rpc, isIncrease>> /\ Posting' = Posting
    BY DEF Take, DevInternal, CheckPasses, CheckFails, Schedule, Exec, Account, Pop, Reload, Unskip, Posting
  <1>w. ASSUME Tokens' <= Cardinality(Covered'), \A b \in Clients : rpc[b] = "push" => queue'[b] # <<>>
        PROVE  TokensCovered'
    BY <1>w, <1>p DEF TokensCovered, Covered
  <1>s. InService(d) => /\ q \in Clients /\ skip[q]
                        /\ \A e \in Devices : InService(e) /\ dqueue[e] = q => e = d
    BY DEF Rest, LocalsInScope, SkipMarksOwner
  <1>1. CASE Take(d)
    <2>1. dpc[d] = "take" /\ dpc'[d] = "check" /\ sem' = sem - 1 /\ UNCHANGED <<queue, skip, dqueue>>
      BY <1>1, <1>m DEF Take
    <2>2. Covered' = Covered
      BY <1>1, <1>m, <1>p, <2>1 DEF Covered, Claims, Take
    <2>3. d \notin Holding /\ Holding' = Holding \cup {d}
      BY <1>1, <1>m, <2>1 DEF Holding, Take
    <2> QED BY <1>0, <1>w, <2>1, <2>2, <2>3, TokenCount
  <1>2. CASE CheckFails(d)
    <2>1. dpc[d] = "check" /\ dpc'[d] = "take" /\ sem' = sem + 1 /\ UNCHANGED <<queue, skip, dqueue>>
      BY <1>2, <1>m DEF CheckFails
    <2>2. Covered' = Covered
      BY <1>2, <1>m, <1>p, <2>1 DEF Covered, Claims, CheckFails
    <2>3. d \in Holding /\ Holding' = Holding \ {d}
      BY <1>2, <1>m, <2>1 DEF Holding, CheckFails
    <2> QED BY <1>0, <1>w, <2>1, <2>2, <2>3, TokenCount
  <1>3. CASE CheckPasses(d)
    <2>1. dpc[d] = "check" /\ dpc'[d] = "schedule" /\ UNCHANGED <<sem, queue, skip, dqueue>>
      BY <1>3, <1>m DEF CheckPasses
    <2>2. Covered' = Covered /\ Holding' = Holding
      BY <1>3, <1>m, <1>p, <2>1 DEF Covered, Claims, CheckPasses, Holding
    <2> QED BY <1>0, <1>w, <2>1, <2>2, TokenCount
  <1>4. CASE Schedule(d)
    <2>1. PICK r \in Clients : /\ skip' = [skip EXCEPT ![r] = TRUE]
                               /\ dqueue' = [dqueue EXCEPT ![d] = r]
      BY <1>4 DEF Schedule, Skipped
    <2>2. dpc[d] = "schedule" /\ dpc'[d] = "exec" /\ UNCHANGED <<sem, queue>>
      BY <1>4, <1>m DEF Schedule
    <2>3. Holding' = Holding \ {d} /\ d \in Holding
      BY <1>4, <1>m, <2>2 DEF Holding, Schedule
    <2>4. \A e \in Devices : dpc[e] = "unskip" <=> dpc'[e] = "unskip"
      BY <1>4, <1>m, <2>2 DEF Schedule
    <2>5. \A e \in Devices : dpc[e] = "unskip" => dqueue'[e] = dqueue[e]
      BY <1>0, <2>1, <2>2
    <2>6. \A b \in Clients : b # r => (b \in Claims' <=> b \in Claims)
      BY <1>0, <2>1, <2>2, <2>4, <2>5 DEF Claims
    <2>7. r \notin Claims'
      <3>1. skip'[r]
        BY <1>0, <2>1
      <3>2. \A e \in Devices : ~(dpc[e] = "unskip")
        BY <2>2 DEF Rest, OnlyFirstDev, InService
      <3> QED BY <3>1, <3>2, <2>4 DEF Claims
    <2>8. Claims' = Claims \ {r}
      BY <2>6, <2>7 DEF Claims
    <2>9. Covered' = Covered \ {r}
      BY <2>8, <1>p DEF Covered
    <2>10. Tokens' <= Cardinality(Covered')
      BY <1>0, <2>2, <2>3, <2>9, TokenCount
    <2> QED BY <1>0, <1>w, <2>2, <2>10
  <1>5. CASE Exec(d) \/ Account(d)
    <2>1. /\ UNCHANGED <<sem, queue, skip, dqueue>>
          /\ dpc[d] \in {"exec", "account"} /\ dpc'[d] \in {"account", "pop"}
          /\ \A e \in Devices : e # d => dpc'[e] = dpc[e]
      BY <1>5, <1>m DEF Exec, Account
    <2>2. Covered' = Covered /\ Holding' = Holding
      BY <1>p, <2>1 DEF Covered, Claims, Holding
    <2> QED BY <1>0, <1>w, <2>1, <2>2, TokenCount
  <1>6. CASE Pop(d)
    <2>1. /\ dpc[d] = "pop" /\ dpc'[d] = "reload" /\ \A e \in Devices : e # d => dpc'[e] = dpc[e]
          /\ UNCHANGED <<sem, skip, dqueue>> /\ rpc[q] # "push"
      BY <1>6, <1>m DEF Pop, QueueLocked
    <2>2. \A b \in Clients : b # q => queue'[b] = queue[b]
      BY <1>0, <1>6 DEF Pop
    <2>3. q \in Clients /\ skip[q] /\ \A e \in Devices : dpc[e] = "unskip" => dqueue[e] # q
      BY <1>s, <2>1 DEF InService
    <2>4. q \notin Claims /\ q \notin Claims'
      BY <2>1, <2>3 DEF Claims
    <2>5. \A b \in Clients : b # q => (b \in Claims' <=> b \in Claims)
      BY <2>1, <2>2 DEF Claims
    <2>6. Claims' = Claims
      BY <2>4, <2>5 DEF Claims
    <2>7. Covered' = Covered /\ Holding' = Holding
      BY <1>p, <2>1, <2>6 DEF Covered, Holding
    <2>8. Tokens' <= Cardinality(Covered')
      BY <1>0, <2>1, <2>7, TokenCount
    <2>9. \A b \in Clients : rpc[b] = "push" => queue'[b] # <<>>
      BY <1>0, <2>1, <2>2
    <2> QED BY <1>w, <2>8, <2>9
  <1>7. CASE Reload(d)
    <2>1. /\ dpc[d] = "reload" /\ dpc'[d] = "unskip" /\ \A e \in Devices : e # d => dpc'[e] = dpc[e]
          /\ UNCHANGED <<queue, skip, dqueue>> /\ rpc[q] # "push"
          /\ sem' = IF queue[q] # <<>> THEN sem + 1 ELSE sem
      BY <1>7, <1>m DEF Reload, QueueLocked
    <2>2. q \in Clients /\ skip[q] /\ \A e \in Devices : dpc[e] = "unskip" => dqueue[e] # q
      BY <1>s, <2>1 DEF InService
    <2>3. q \notin Claims /\ q \notin Posting
      BY <2>1, <2>2 DEF Claims, Posting
    <2>4. \A b \in Clients : b # q => (b \in Claims' <=> b \in Claims)
      BY <2>1 DEF Claims
    <2>5. q \in Claims' <=> queue[q] # <<>>
      BY <2>1, <2>2 DEF Claims
    <2>6. Claims' = IF queue[q] # <<>> THEN Claims \cup {q} ELSE Claims
      BY <2>2, <2>3, <2>4, <2>5 DEF Claims
    <2>7. q \notin Covered /\ Covered' = IF queue[q] # <<>> THEN Covered \cup {q} ELSE Covered
      BY <1>p, <2>3, <2>6 DEF Covered
    <2>8. Holding' = Holding
      BY <2>1 DEF Holding
    <2> HIDE DEF q
    <2>9. CASE queue[q] # <<>>
      <3>1. sem' = sem + 1 /\ Covered' = Covered \cup {q}
        BY <2>1, <2>7, <2>9
      <3>2. Tokens' <= Cardinality(Covered')
        BY <1>0, <2>7, <2>8, <3>1, TokenCount
      <3> QED BY <1>0, <1>w, <2>1, <3>2
    <2>10. CASE ~(queue[q] # <<>>)
      <3>1. sem' = sem /\ Covered' = Covered
        BY <2>1, <2>7, <2>10
      <3>2. Tokens' <= Cardinality(Covered')
        BY <1>0, <2>8, <3>1, TokenCount
      <3> QED BY <1>0, <1>w, <2>1, <3>2
    <2> QED BY <2>9, <2>10
  <1>8. CASE Unskip(d)
    <2>1. /\ dpc[d] = "unskip" /\ dpc'[d] = "take" /\ \A e \in Devices : e # d => dpc'[e] = dpc[e]
          /\ UNCHANGED <<sem, queue>>
          /\ skip' = [skip EXCEPT ![q] = FALSE] /\ dqueue' = [dqueue EXCEPT ![d] = None]
      BY <1>8, <1>m DEF Unskip
    <2>2. q \in Clients
      BY <1>s, <2>1 DEF InService
    <2>3. q \in Claims' <=> q \in Claims
      BY <1>0, <2>1, <2>2 DEF Claims
    <2>4. ASSUME NEW b \in Clients, b # q PROVE b \in Claims' <=> b \in Claims
      <3>1. skip'[b] = skip[b]
        BY <1>0, <2>1, <2>4
      <3>2. \A e \in Devices : dpc'[e] = "unskip" /\ dqueue'[e] = b <=> dpc[e] = "unskip" /\ dqueue[e] = b
        BY <1>0, <2>1, <2>4
      <3> QED BY <3>1, <3>2, <2>1 DEF Claims
    <2>5. Claims' = Claims
      BY <2>3, <2>4 DEF Claims
    <2>6. Covered' = Covered /\ Holding' = Holding
      BY <1>p, <2>1, <2>5 DEF Covered, Holding
    <2>7. Tokens' <= Cardinality(Covered')
      BY <1>0, <2>1, <2>6, TokenCount
    <2> QED BY <1>0, <1>w, <2>1, <2>7
  <1> QED BY <1>1, <1>2, <1>3, <1>4, <1>5, <1>6, <1>7, <1>8 DEF DevInternal

-----------------------------------------------------------------------------
(* What follows from the sums and the tokens.                              *)

(* With the same inner product, the larger time is not the closer one.     *)
LEMMA CosineLags ==
    ASSUME NEW i \in Nat, i > 0, NEW t \in Nat, NEW a \in Nat, NEW b \in Nat,
           ~ (i * i * (t + 2 * b * 1 + 1 * 1) < i * i * (t + 2 * a * 1 + 1 * 1))
    PROVE  a <= b
  <1> DEFINE k == i * i
             x == t + 2 * a * 1 + 1 * 1
             y == t + 2 * b * 1 + 1 * 1
  <1>1. k \in Nat /\ k > 0
    OBVIOUS
  <1>2. x \in Nat /\ y \in Nat /\ (x <= y => a <= b)
    OBVIOUS
  <1>3. ~ (k * y < k * x)
    OBVIOUS
  <1> HIDE DEF k, x, y
  <1>4. y < x => k * y < k * x
    BY <1>1, <1>2
  <1> QED BY <1>2, <1>3, <1>4

-----------------------------------------------------------------------------
(* Init has no VMs, and sums of nothing.                                   *)
LEMMA InitSums == Init => VMsLive /\ SumsMatchVMs
  <1> SUFFICES ASSUME Init PROVE VMsLive /\ SumsMatchVMs
    OBVIOUS
  <1>1. VMsLive
    BY DEF Init, VMsLive
  <1>2. Sum(UsedTerms, {}) = 0 /\ Sum(WeightTerms, {}) = 0 /\ Sum(SquareTerms, {}) = 0
    BY SumParts, FS_EmptySet
  <1>3. basedInner = 0 /\ weightLeng = 0 /\ timeLeng = 0 /\ VMs = {}
    BY DEF Init
  <1> QED BY <1>1, <1>2, <1>3, SumsMean

(* Init has no tokens.                                                      *)
LEMMA InitTokens == Init => TokensCovered
  <1> SUFFICES ASSUME Init PROVE TokensCovered
    OBVIOUS
  <1>1. sem = 0 /\ Holding = {} /\ Covered = {}
    BY DEF Init, Holding, Covered, Claims
  <1>2. Tokens <= Cardinality(Covered)
    BY <1>1, TokenSets, FS_EmptySet
  <1> QED BY <1>2 DEF Init, TokensCovered, Covered

(* The invariant is inductive.                                             *)
LEMMA StepInv == PoolInv /\ [Next]_vars => PoolInv'
  <1> SUFFICES ASSUME PoolInv, [Next]_vars
               PROVE  PoolInv'
    OBVIOUS
  <1>0. TypeOK /\ Rest /\ ListedOnce /\ LocalsInScope /\ FrontIsRunning
    BY DEF PoolInv, Rest
  <1>1. TypeOK'
    <2>1. CASE UNCHANGED vars
      BY <2>1, <1>0 DEF vars, poolVars, queueVars, schedVars, sums, vmVars, devVars, runVars, history,
                        TypeOK
    <2>2. CASE Next
      BY <2>2, <1>0, RunTypeOK, DevTypeOK DEF Next
    <2> QED BY <2>1, <2>2
  <1>2. Rest'
    BY <1>0, StepRest
  <1>3. VMsLive' /\ SumsMatchVMs'
    BY <1>0, <1>1, VMsStep, SumsStep DEF PoolInv
  <1>4. TokensCovered'
    <2>1. TokensCovered
      BY DEF PoolInv
    <2>2. CASE UNCHANGED vars
      BY <2>1, <2>2 DEF vars, poolVars, queueVars, devVars, runVars, TokensCovered, Tokens, Claims, Posting
    <2>3. CASE Next
      BY <2>1, <2>3, <1>0, RunTokens, DevTokens DEF Next
    <2> QED BY <2>2, <2>3
  <1> QED BY <1>1, <1>2, <1>3, <1>4 DEF PoolInv, Rest

(* PoolInv holds in every reachable state: TypeOK, skip_ as the mark of the one device that
   serves a queue (SkipMarksOwner), the command that Exec and Pop work on (FrontIsRunning), the
   assertion on InOrderSchedule's result (ScheduleFindsWork) and safe destruction
   (DestroyedIsIdle) are among its conjuncts.                              *)
THEOREM PoolInvariant == Spec => []PoolInv
  <1>1. Init => PoolInv
    BY InitTypeOK, InitRest, InitSums, InitTokens DEF PoolInv, Rest
  <1> QED BY <1>1, StepInv, PTL DEF Spec

(* No state of any instance breaks the types of the pool's, the scheduler's and the threads'
   variables; sem never goes negative.                                     *)
THEOREM TypeCorrect == Spec => []TypeOK
  <1>1. PoolInv => TypeOK
    BY DEF PoolInv
  <1> QED BY <1>1, PoolInvariant, PTL

(* skip_ marks exactly the queues in service and no two devices serve one client. *)
THEOREM ServedByOne == Spec => []SkipMarksOwner
  <1>1. PoolInv => SkipMarksOwner
    BY DEF PoolInv
  <1> QED BY <1>1, PoolInvariant, PTL

(* Pop removes the command front() returned.                               *)
THEOREM PopsWhatItRan == Spec => []FrontIsRunning
  <1>1. PoolInv => FrontIsRunning
    BY DEF PoolInv
  <1> QED BY <1>1, PoolInvariant, PTL

(* assert(client_queue != nullptr) never fails, although check() takes no lock. *)
THEOREM AssertHolds == Spec => []ScheduleFindsWork
  <1>1. PoolInv => ScheduleFindsWork
    BY DEF PoolInv
  <1> QED BY <1>1, PoolInvariant, PTL

(* A queue is destroyed only when it is empty and no device works on it.   *)
THEOREM SafeDestruction == Spec => []DestroyedIsIdle
  <1>1. PoolInv => DestroyedIsIdle
    BY DEF PoolInv
  <1> QED BY <1>1, PoolInvariant, PTL

(* A command runs on the device its queue is bound to.                     *)
THEOREM BindingRespected == Spec => []RunsOnBindingDev
  <1>1. PoolInv => RunsOnBindingDev
    BY DEF PoolInv
  <1> QED BY <1>1, PoolInvariant, PTL

(* A client's commands are executed once each, in the order it pushed them. *)
THEOREM InOrder == Spec => []ExecutedInOrder
  <1>1. PoolInv => ExecutedInOrder
    <2> SUFFICES ASSUME PoolInv, NEW d \in Devices, dpc[d] = "exec"
                 PROVE  dcomm[d].n = executed[dqueue[d]] + 1
      BY DEF ExecutedInOrder
    <2> DEFINE q == dqueue[d]
    <2>0. Rest
      BY DEF PoolInv, Rest
    <2>1. q \in Clients /\ queue[q] # <<>> /\ Head(queue[q]) = dcomm[d] /\ d = FirstDev
      BY <2>0, OneServer DEF PoolInv, LocalsInScope, FrontIsRunning, InService
    <2>2. ~FrontServed(q)
      BY <2>0, <2>1, FrontServedByFirst
    <2> HIDE DEF q
    <2>3. /\ executed[q] \in Nat /\ pushed[q] \in Nat /\ Len(queue[q]) \in Nat \ {0}
          /\ 1 \in DOMAIN queue[q] /\ queue[q][1] = dcomm[d]
      BY <2>1 DEF PoolInv, TypeOK
    <2>4. executed[q] + Len(queue[q]) = pushed[q] /\ dcomm[d].n = pushed[q] - Len(queue[q]) + 1
      BY <2>1, <2>2, <2>3 DEF PoolInv, QueueWindow
    <2> QED BY <2>3, <2>4 DEF q
  <1> QED BY <1>1, PoolInvariant, PTL

(* clFinish is acknowledged only when all its client pushed was executed.  *)
THEOREM FinishWaits == Spec => []FinishMeansDone
  <1>1. PoolInv => FinishMeansDone
    BY DEF PoolInv, FinishIsLast, FinishMeansDone
  <1> QED BY <1>1, PoolInvariant, PTL

(* The scheduler's sums are those of the VMs it knows, whatever clients came, went and executed. *)
THEOREM SumsRight == Spec => []SumsMatchVMs
  <1>1. PoolInv => SumsMatchVMs
    BY DEF PoolInv
  <1> QED BY <1>1, PoolInvariant, PTL

(* The queue InOrderSchedule chooses has had no more time than any other that could be chosen:
   the sums it compares by are those of the VMs.                           *)
THEOREM ServesLeastUsed == Spec => LeastUsedFirst
  <1> DEFINE Least == \A d \in Devices : dpc[d] = "schedule" /\ dpc'[d] = "exec" =>
                          \A c \in Clients : Eligible(c) => used[dqueue'[d]] <= used[c]
  <1>1. PoolInv /\ [Next]_vars => Least
    <2> SUFFICES ASSUME PoolInv, [Next]_vars, NEW d \in Devices, dpc[d] = "schedule", dpc'[d] = "exec",
                        NEW c \in Clients, Eligible(c)
                 PROVE  used[dqueue'[d]] <= used[c]
      OBVIOUS
    <2>0. TypeOK /\ Rest /\ VMsLive /\ SumsMatchVMs
      BY DEF PoolInv, Rest
    <2>1. Schedule(d)
      <3>1. ASSUME NEW e \in Devices, e # d, Take(e) \/ DevInternal(e) PROVE dpc'[d] = dpc[d]
        BY <3>1, <2>0 DEF TypeOK, Take, DevInternal, CheckPasses, CheckFails, Schedule, Exec, Account, Pop, Reload, Unskip, Step
      <3>2. ASSUME NEW b \in Clients, RunInternal(b) \/ (\E kind \in Kinds : PushBack(b, kind)) \/ Disconnect(b) \/ SpuriousWakeup(b)
            PROVE  dpc' = dpc
        BY <3>2 DEF RunInternal, CreateVM, CreateQueue, BindDevice, PushToken, FinishAck, Drained, DrainWait,
                    DestroyQueueAndVM, PushBack, Disconnect, SpuriousWakeup, devVars
      <3>3. ~ UNCHANGED vars
        BY DEF vars, devVars
      <3>4. Take(d) \/ DevInternal(d)
        BY <3>1, <3>2, <3>3 DEF Next
      <3>5. ~Take(d) /\ ~CheckPasses(d) /\ ~CheckFails(d) /\ ~Exec(d) /\ ~Account(d) /\ ~Pop(d) /\ ~Reload(d) /\ ~Unskip(d)
        BY DEF Take, CheckPasses, CheckFails, Exec, Account, Pop, Reload, Unskip, Step
      <3> QED BY <3>4, <3>5 DEF DevInternal
    <2>2. PICK q \in Clients : Chosen(q) /\ dqueue'[d] = q
      BY <2>0, <2>1 DEF Schedule, TypeOK
    <2>3. PICK j \in DOMAIN queues : queues[j] = c
      <3>1. queue[c] # <<>>
        BY DEF Eligible
      <3>2. rpc[c] \notin {"new", "queue", "bind", "destroy", "gone"}
        BY <2>0, <3>1 DEF Rest, OnlyFirstDev
      <3> QED BY <2>0, <3>2 DEF Rest, ListedOnce
    <2>4. ~ CosLess(q, c)
      BY <2>2, <2>3 DEF Chosen
    <2>5. basedInner \in Nat /\ timeLeng \in Nat
      <3>1. basedInner = Sum(UsedTerms, VMs) /\ timeLeng = Sum(SquareTerms, VMs)
        BY <2>0, SumsMean
      <3>2. IsFiniteSet(VMs) /\ (\A x \in VMs : UsedTerms[x] \in Nat) /\ (\A x \in VMs : SquareTerms[x] \in Nat)
        BY <2>0, TermsType
      <3> QED BY <3>1, <3>2, SumType
    <2>6. basedInner + 1 \in Nat /\ basedInner + 1 > 0 /\ used[q] \in Nat /\ used[c] \in Nat
      BY <2>0, <2>5 DEF TypeOK
    <2>7. ~ ((basedInner + 1) * (basedInner + 1) * (timeLeng + 2 * used[c] * 1 + 1 * 1)
              < (basedInner + 1) * (basedInner + 1) * (timeLeng + 2 * used[q] * 1 + 1 * 1))
      BY <2>4 DEF CosLess, InnerProduct, TimeLeng, EstExecTime, Weight
    <2>8. used[q] <= used[c]
      BY <2>5, <2>6, <2>7, CosineLags
    <2> QED BY <2>2, <2>8
  <1>2. PoolInv /\ [Next]_vars => [Least]_vars
    BY <1>1
  <1> QED BY <1>2, PoolInvariant, PTL DEF Spec, LeastUsedFirst

(* No token is without a queue that it stands for.                         *)
THEOREM TokensBounded == Spec => []NoSurplusToken
  <1>1. PoolInv => NoSurplusToken
    <2> SUFFICES ASSUME PoolInv PROVE NoSurplusToken
      OBVIOUS
    <2>1. IsFiniteSet(Claims)
      BY FiniteAssumption, FS_Subset, Claims \in SUBSET Clients DEF Claims
    <2>2. Cardinality(Covered) <= Cardinality(Claims) /\ Cardinality(Claims) \in Nat
      BY <2>1, FS_Subset, FS_CardinalityType, Covered \in SUBSET Claims DEF Covered
    <2>3. sem \in Nat /\ Tokens <= Cardinality(Covered)
      BY DEF PoolInv, TypeOK, TokensCovered, Covered
    <2> QED BY <2>2, <2>3, TokenSets DEF NoSurplusToken
  <1> QED BY <1>1, PoolInvariant, PTL

-----------------------------------------------------------------------------
(* CommandPool implements ClientService.                                   *)

\* The refinement mapping.
phases == [c \in Clients |-> Phase(c)]
pendings == [c \in Clients |-> Unserved(c)]

(* The service starts as the pool does.                                    *)
LEMMA InitService == Init => Service!Init
  <1> SUFFICES ASSUME Init PROVE Service!Init
    OBVIOUS
  <1>1. \A c \in Clients : Phase(c) = "new"
    BY DEF Init, Phase
  <1>2. \A c \in Clients : Unserved(c) = <<>>
    BY DEF Init, Unserved, FrontServed
  <1> QED BY <1>1, <1>2 DEF Service!Init

(* A step that changes neither a client's phase nor what is left to execute is none of the
   service's.                                                              *)
LEMMA Stutter ==
    ASSUME \A c \in Clients : Phase(c)' = Phase(c) /\ Unserved(c)' = Unserved(c)
    PROVE  UNCHANGED Service!vars
  BY DEF Service!vars

(* The phase depends on the client's own program counter, and within Push on its queue. *)
LEMMA SamePhase ==
    ASSUME NEW c \in Clients, rpc'[c] = rpc[c], rpc[c] = "push" => queue'[c] = queue[c]
    PROVE  Phase(c)' = Phase(c)
  <1>1. CASE rpc[c] = "push"
    BY <1>1 DEF Phase, AfterPush
  <1>2. CASE rpc[c] # "push"
    BY <1>2 DEF Phase
  <1> QED BY <1>1, <1>2

(* What is left to execute depends on the queue and on whether its front was executed. *)
LEMMA SameUnserved ==
    ASSUME NEW c \in Clients, queue'[c] = queue[c], FrontServed(c)' <=> FrontServed(c)
    PROVE  Unserved(c)' = Unserved(c)
  BY DEF Unserved

(* Moves of a Run thread within one phase.                                 *)
LEMMA RunMoveStutters ==
    ASSUME TypeOK, NEW c \in Clients, NEW from, NEW to, Goto(c, from, to),
           UNCHANGED <<queue, devVars>>,
           <<from, to>> \in {<<"new", "queue">>, <<"queue", "bind">>, <<"serve", "drain">>,
                             <<"drain", "asleep">>, <<"asleep", "drain">>, <<"drain", "destroy">>}
    PROVE  UNCHANGED Service!vars
  <1>1. \A b \in Clients : Unserved(b)' = Unserved(b)
    BY DEF Unserved, FrontServed, devVars
  <1>2. ASSUME NEW b \in Clients
        PROVE  Phase(b)' = Phase(b)
    <2>1. CASE b = c
      <3>1. rpc[b] = from /\ rpc'[b] = to
        BY <2>1 DEF Goto, TypeOK
      <3> QED BY <3>1 DEF Phase
    <2>2. CASE b # c
      BY <2>2, SamePhase DEF Goto, TypeOK
    <2> QED BY <2>1, <2>2
  <1> QED BY <1>1, <1>2, Stutter

(* Facts about numbers and sequences that the next proof needs on their own. *)
LEMMA OneMore == ASSUME NEW a \in Nat, NEW l \in Nat, a + l = a + 1
                 PROVE  l = 1
  OBVIOUS

(* Nothing is left behind the only element of a sequence.                  *)
LEMMA TailOfOne ==
    ASSUME NEW S, NEW s \in Seq(S), Len(s) = 1
    PROVE  Tail(s) = <<>>
  <1>1. s # <<>>
    OBVIOUS
  <1>2. Tail(s) \in Seq(S) /\ Len(Tail(s)) = 0
    BY <1>1, HeadTailProperties
  <1> QED BY <1>2, EmptySeq

(* The steps of a client's Run thread are steps of its service.            *)
LEMMA RunStepsServe ==
    ASSUME PoolInv, NEW c \in Clients, RunInternal(c) \/ Disconnect(c) \/ SpuriousWakeup(c)
    PROVE  [Service!Next]_Service!vars
  <1> USE DEF poolVars, queueVars, schedVars, devVars, runVars
  <1>0. TypeOK /\ Rest
    BY DEF PoolInv, Rest
  <1>1. CASE CreateVM(c) \/ CreateQueue(c) \/ Drained(c) \/ DrainWait(c) \/ Disconnect(c) \/ SpuriousWakeup(c)
    BY <1>0, <1>1, RunMoveStutters
       DEF CreateVM, CreateQueue, Drained, DrainWait, Disconnect, SpuriousWakeup
  <1>2. CASE PushToken(c)
    <2>1. \A b \in Clients : Unserved(b)' = Unserved(b)
      BY <1>2 DEF PushToken, Unserved, FrontServed
    <2>2. Phase(c)' = Phase(c)
      <3>1. rpc[c] = "push" /\ rpc'[c] = AfterPush(c) /\ AfterPush(c) \in {"finish", "serve"}
        BY <1>0, <1>2 DEF PushToken, TypeOK, AfterPush
      <3> QED BY <3>1 DEF Phase
    <2>3. \A b \in Clients : b # c => Phase(b)' = Phase(b)
      BY <1>0, <1>2, SamePhase DEF PushToken, TypeOK
    <2> QED BY <2>1, <2>2, <2>3, Stutter
  <1>3. CASE BindDevice(c)
    <2>1. \A b \in Clients : Unserved(b)' = Unserved(b)
      BY <1>3 DEF BindDevice, Unserved, FrontServed
    <2>2. Phase(c) = "new" /\ Phase(c)' = "serve"
      BY <1>0, <1>3 DEF BindDevice, Goto, TypeOK, Phase
    <2>3. \A b \in Clients : b # c => Phase(b)' = Phase(b)
      BY <1>0, <1>3, SamePhase DEF BindDevice, Goto, TypeOK
    <2>4. Service!Connect(c)
      BY <2>1, <2>2, <2>3 DEF Service!Connect, Service!Enter
    <2> QED BY <2>4 DEF Service!Next
  <1>4. CASE FinishAck(c)
    <2>0. /\ rpc[c] = "finish" /\ rpc' = [rpc EXCEPT ![c] = "serve"] /\ finSem[c] > 0
          /\ UNCHANGED <<queue, devVars>>
      BY <1>4 DEF FinishAck, FinishSignalled, Goto
    <2>1. \A b \in Clients : Unserved(b)' = Unserved(b)
      BY <2>0 DEF Unserved, FrontServed
    <2>2. Phase(c) = "finish" /\ Phase(c)' = "serve"
      BY <1>0, <2>0 DEF TypeOK, Phase
    <2>3. \A b \in Clients : b # c => Phase(b)' = Phase(b)
      BY <1>0, <2>0, SamePhase DEF TypeOK
    <2>4. Unserved(c) = <<>>
      <3>1. executed[c] = pushed[c] /\ executed[c] + Len(queue[c]) = pushed[c] + (IF FrontServed(c) THEN 1 ELSE 0)
        BY <2>0 DEF PoolInv, FinishIsLast, QueueWindow
      <3>2. queue[c] \in Seq(Cmd) /\ executed[c] \in Nat /\ pushed[c] \in Nat
        BY <1>0 DEF TypeOK
      <3>3. CASE FrontServed(c)
        <4>1. Len(queue[c]) = 1
          <5>1. executed[c] + Len(queue[c]) = executed[c] + 1
            BY <3>1, <3>3
          <5>2. Len(queue[c]) \in Nat /\ executed[c] \in Nat
            BY <3>2
          <5> QED BY <5>1, <5>2, OneMore
        <4>2. Tail(queue[c]) = <<>>
          BY <3>2, <4>1, TailOfOne
        <4> QED BY <3>3, <4>2 DEF Unserved
      <3>4. CASE ~FrontServed(c)
        <4>1. Len(queue[c]) = 0
          BY <3>1, <3>2, <3>4
        <4> QED BY <3>2, <3>4, <4>1 DEF Unserved
      <3> QED BY <3>3, <3>4
    <2>5. Service!FinishReturn(c)
      BY <2>1, <2>2, <2>3, <2>4 DEF Service!FinishReturn, Service!Enter
    <2> QED BY <2>5 DEF Service!Next
  <1>5. CASE DestroyQueueAndVM(c)
    <2>0. /\ rpc[c] = "destroy" /\ rpc' = [rpc EXCEPT ![c] = "gone"] /\ SchedFree
          /\ UNCHANGED <<queue, devVars>>
      BY <1>5 DEF DestroyQueueAndVM, Goto
    <2>1. \A b \in Clients : Unserved(b)' = Unserved(b)
      BY <2>0 DEF Unserved, FrontServed
    <2>2. Phase(c) = "serve" /\ Phase(c)' = "gone"
      BY <1>0, <2>0 DEF TypeOK, Phase
    <2>3. \A b \in Clients : b # c => Phase(b)' = Phase(b)
      BY <1>0, <2>0, SamePhase DEF TypeOK
    <2>4. Unserved(c) = <<>>
      BY <1>0, <2>0, DestroyIsSafe DEF Unserved, FrontServed
    <2>5. Service!Close(c)
      BY <2>1, <2>2, <2>3, <2>4 DEF Service!Close, Service!Enter
    <2> QED BY <2>5 DEF Service!Next
  <1> QED BY <1>1, <1>2, <1>3, <1>4, <1>5 DEF RunInternal

(* A push submits its command; a clFinish enters its waiting phase with it. *)
LEMMA PushServes ==
    ASSUME PoolInv, NEW c \in Clients, NEW kind \in Kinds, PushBack(c, kind)
    PROVE  Service!Next
  <1> DEFINE comm == [n |-> pushed[c] + 1, kind |-> kind]
  <1>0. /\ rpc[c] = "serve" /\ rpc' = [rpc EXCEPT ![c] = "push"]
        /\ queue' = [queue EXCEPT ![c] = Append(queue[c], comm)]
        /\ UNCHANGED devVars
    BY DEF PushBack, PushedBack, Goto
  <1>t. TypeOK /\ Rest
    BY DEF PoolInv, Rest
  <1>c. comm \in Cmd
    BY <1>t, BoundsAssumption DEF TypeOK, PushBack, Cmd
  <1> HIDE DEF comm
  <1>1. Phase(c) = "serve" /\ Phase(c)' \in {"serve", "finish"}
    <2>1. rpc'[c] = "push"
      BY <1>0, <1>t DEF TypeOK
    <2> QED BY <1>0, <2>1 DEF Phase, AfterPush
  <1>2. \A b \in Clients : b # c => Phase(b)' = Phase(b) /\ Unserved(b)' = Unserved(b)
    <2>1. \A b \in Clients : b # c => rpc'[b] = rpc[b] /\ queue'[b] = queue[b]
      BY <1>0, <1>t DEF TypeOK
    <2>2. \A b \in Clients : FrontServed(b)' <=> FrontServed(b)
      BY <1>0 DEF FrontServed, devVars
    <2> QED BY <2>1, <2>2, SamePhase, SameUnserved
  <1>3. Unserved(c)' = Append(Unserved(c), comm)
    <2>1. queue'[c] = Append(queue[c], comm) /\ queue[c] \in Seq(Cmd)
      BY <1>0, <1>t DEF TypeOK
    <2>2. FrontServed(c)' <=> FrontServed(c)
      BY <1>0 DEF FrontServed, devVars
    <2>3. FrontServed(c) => queue[c] # <<>>
      BY <1>t DEF Rest, FrontIsRunning, FrontServed
    <2>4. CASE FrontServed(c)
      <3>1. Tail(queue'[c]) = Append(Tail(queue[c]), comm)
        BY <2>1, <2>3, <2>4, HeadTailAppend
      <3> QED BY <2>2, <2>4, <3>1 DEF Unserved
    <2>5. CASE ~FrontServed(c)
      BY <2>1, <2>2, <2>5 DEF Unserved
    <2> QED BY <2>4, <2>5
  <1>4. Service!Submit(c, comm, Phase(c)')
    <2>1. Service!Enter(c, "serve", Phase(c)')
      BY <1>1, <1>2 DEF Service!Enter
    <2>2. pendings' = [pendings EXCEPT ![c] = Append(@, comm)]
      BY <1>2, <1>3 DEF pendings
    <2> QED BY <1>1, <2>1, <2>2 DEF Service!Submit, pendings
  <1> QED BY <1>c, <1>1, <1>4 DEF Service!Next

(* Exec executes the client's oldest command; no other step of a device shows. *)
LEMMA DevStepsServe ==
    ASSUME PoolInv, NEW d \in Devices, Take(d) \/ DevInternal(d)
    PROVE  [Service!Next]_Service!vars
  <1> USE DEF poolVars, queueVars, schedVars, runVars
  <1>0. TypeOK /\ Rest
    BY DEF PoolInv, Rest
  <1>1. ASSUME UNCHANGED <<queue, rpc, dqueue>>, NEW from, NEW to, Step(d, from, to),
               from \in {"account", "pop"} <=> to \in {"account", "pop"}
        PROVE  UNCHANGED Service!vars
    <2>1. \A b \in Clients : FrontServed(b)' <=> FrontServed(b)
      BY <1>0, <1>1 DEF FrontServed, Step, TypeOK
    <2>2. \A b \in Clients : Phase(b)' = Phase(b) /\ Unserved(b)' = Unserved(b)
      BY <1>1, <2>1, SamePhase, SameUnserved
    <2> QED BY <2>2, Stutter
  <1>2. CASE Take(d) \/ CheckPasses(d) \/ CheckFails(d) \/ Account(d) \/ Reload(d)
    <2>1. CASE Take(d)
      BY <2>1, <1>1 DEF Take
    <2>2. CASE CheckPasses(d)
      BY <2>2, <1>1 DEF CheckPasses
    <2>3. CASE CheckFails(d)
      BY <2>3, <1>1 DEF CheckFails
    <2>4. CASE Account(d)
      BY <2>4, <1>1 DEF Account
    <2>5. CASE Reload(d)
      BY <2>5, <1>1 DEF Reload
    <2> QED BY <1>2, <2>1, <2>2, <2>3, <2>4, <2>5
  <1>3. CASE Schedule(d) \/ Unskip(d)
    <2>0. \E from, to \in {"schedule", "exec", "unskip", "take"} : Step(d, from, to)
      BY <1>3 DEF Schedule, Unskip
    <2>q. UNCHANGED <<queue, rpc>> /\ \A e \in Devices : e # d => dqueue'[e] = dqueue[e]
      BY <1>0, <1>3 DEF Schedule, Unskip, TypeOK
    <2>1. \A b \in Clients : FrontServed(b)' <=> FrontServed(b)
      <3>1. /\ dpc[d] \notin {"account", "pop"} /\ dpc'[d] \notin {"account", "pop"}
            /\ \A e \in Devices : e # d => dpc'[e] = dpc[e]
        BY <1>0, <2>0 DEF Step, TypeOK
      <3> QED BY <2>q, <3>1 DEF FrontServed
    <2>2. \A b \in Clients : Phase(b)' = Phase(b) /\ Unserved(b)' = Unserved(b)
      BY <2>q, <2>1, SamePhase, SameUnserved
    <2> QED BY <2>2, Stutter
  <1>4. CASE Exec(d)
    <2> DEFINE q == dqueue[d]
    <2>0. /\ dpc[d] = "exec" /\ dpc' = [dpc EXCEPT ![d] = "account"]
          /\ UNCHANGED <<queue, rpc, dqueue>>
      BY <1>4 DEF Exec, Step
    <2>1. q \in Clients /\ queue[q] # <<>>
      BY <1>0, <2>0 DEF Rest, LocalsInScope, FrontIsRunning, InService
    <2>d. d = FirstDev
      BY <1>0, <2>0, OneServer DEF InService
    <2>2. \A b : ~FrontServed(b)
      BY <1>0, <2>0, <2>d, FrontServedByFirst
    <2>3. \A b : FrontServed(b)' <=> b = q
      <3>1. dpc'[d] = "account" /\ \A e \in Devices : e # d => dpc'[e] = dpc[e]
        BY <1>0, <2>0 DEF TypeOK
      <3>2. \A e \in Devices : e # d => dpc[e] \notin {"account", "pop"}
        BY <1>0, <2>d, OneServer DEF InService
      <3> QED BY <2>0, <3>1, <3>2 DEF FrontServed
    <2>4. Unserved(q) = queue[q] /\ \A b \in Clients : b = q => Unserved(b)' = Tail(queue[b])
      BY <2>0, <2>2, <2>3 DEF Unserved
    <2>5. \A b \in Clients : b # q => Unserved(b)' = Unserved(b)
      BY <2>0, <2>2, <2>3 DEF Unserved
    <2>6. \A b \in Clients : Phase(b)' = Phase(b)
      BY <2>0, SamePhase
    <2>7. Service!Execute(q)
      <3> HIDE DEF q
      <3>1. pendings[q] = queue[q] /\ phases' = phases
        BY <2>1, <2>4, <2>6 DEF pendings, phases
      <3>2. pendings' = [pendings EXCEPT ![q] = Tail(@)]
        BY <2>1, <2>4, <2>5 DEF pendings
      <3> QED BY <2>1, <3>1, <3>2 DEF Service!Execute, pendings, phases
    <2> QED BY <2>1, <2>7 DEF Service!Next
  <1>5. CASE Pop(d)
    <2> DEFINE q == dqueue[d]
    <2>0. /\ dpc[d] = "pop" /\ dpc' = [dpc EXCEPT ![d] = "reload"] /\ rpc[q] # "push"
          /\ queue' = [queue EXCEPT ![q] = IF @ = <<>> THEN @ ELSE Tail(@)]
          /\ UNCHANGED <<rpc, dqueue>>
      BY <1>5 DEF Pop, Step, QueueLocked
    <2>1. q \in Clients /\ queue[q] # <<>>
      BY <1>0, <2>0 DEF Rest, LocalsInScope, FrontIsRunning, InService
    <2>d. d = FirstDev
      BY <1>0, <2>0, OneServer DEF InService
    <2>2. FrontServed(q) /\ \A b : b # q => ~FrontServed(b)
      BY <1>0, <2>0, <2>d, FrontServedByFirst
    <2>3. \A b : ~FrontServed(b)'
      <3>1. dpc'[d] = "reload" /\ \A e \in Devices : e # d => dpc'[e] = dpc[e]
        BY <1>0, <2>0 DEF TypeOK
      <3>2. \A e \in Devices : e # d => dpc[e] \notin {"account", "pop"}
        BY <1>0, <2>d, OneServer DEF InService
      <3> QED BY <3>1, <3>2 DEF FrontServed
    <2>4. queue'[q] = Tail(queue[q]) /\ \A b \in Clients : b # q => queue'[b] = queue[b]
      BY <1>0, <2>0, <2>1 DEF TypeOK
    <2>5. \A b \in Clients : Unserved(b)' = Unserved(b)
      BY <2>2, <2>3, <2>4 DEF Unserved
    <2>6. \A b \in Clients : Phase(b)' = Phase(b)
      BY <2>0, <2>4, SamePhase
    <2> QED BY <2>5, <2>6, Stutter
  <1> QED BY <1>2, <1>3, <1>4, <1>5 DEF DevInternal

(* Every client is served as ClientService promises: in order, once, with clFinish and the
   end of the connection only after everything was executed.               *)
THEOREM PoolImplementsService == Spec => ImplementsService
  <1>1. PoolInv /\ [Next]_vars => [Service!Next]_Service!vars
    <2> SUFFICES ASSUME PoolInv, [Next]_vars
                 PROVE  [Service!Next]_Service!vars
      OBVIOUS
    <2>1. CASE UNCHANGED vars
      <3>1. \A c \in Clients : Phase(c)' = Phase(c) /\ Unserved(c)' = Unserved(c)
        BY <2>1 DEF vars, queueVars, devVars, runVars, Phase, AfterPush, Unserved, FrontServed
      <3> QED BY <3>1, Stutter
    <2>2. CASE Next
      BY <2>2, RunStepsServe, PushServes, DevStepsServe DEF Next
    <2> QED BY <2>1, <2>2
  <1> QED BY <1>1, InitService, PoolInvariant, PTL DEF Spec, ImplementsService, Service!Spec
=============================================================================
