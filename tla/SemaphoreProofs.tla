--------------------------- MODULE SemaphoreProofs ---------------------------
(***************************************************************************)
(* For every finite set of threads, every initial count and every width of *)
(* the counter: the wait channel is exactly the set of sleeping threads,   *)
(* no wakeup is lost, and every step of the code is a step of the atomic   *)
(* semaphore.                                                              *)
(***************************************************************************)
EXTENDS Semaphore, FiniteSetTheorems, TLAPS

(* The inductive invariant.                                                 *)
IInv == TypeOK /\ ChannelIsSleepers /\ NoLostWakeup

(* Counting the woken threads makes sense: there are finitely many.         *)
LEMMA WokenFinite == IsFiniteSet(Woken) /\ Cardinality(Woken) \in Nat
<1>1. Woken \subseteq Threads
  BY DEF Woken
<1>2. IsFiniteSet(Woken)
  BY <1>1, FS_Subset, SemaphoreAssumption DEF SemaphoreAssumption
<1> QED
  BY <1>2, FS_CardinalityType

(* The next state has finitely many woken threads too.                      *)
LEMMA WokenFiniteNext == IsFiniteSet(Woken') /\ Cardinality(Woken') \in Nat
<1>1. Woken' \subseteq Threads
  BY DEF Woken
<1>2. IsFiniteSet(Woken')
  BY <1>1, FS_Subset, SemaphoreAssumption DEF SemaphoreAssumption
<1> QED
  BY <1>2, FS_CardinalityType

(* Initially nobody sleeps.                                                 *)
LEMMA InitIInv == Init => IInv
BY SemaphoreAssumption DEF SemaphoreAssumption, Init, IInv, TypeOK, ChannelIsSleepers, NoLostWakeup

(* Calling P moves a thread that neither sleeps nor was woken.              *)
LEMMA CallPIInv ==
  ASSUME IInv, NEW t \in Threads, CallP(t)
  PROVE  IInv'
<1> USE DEF IInv, CallP
<1>1. TypeOK'
  BY DEF TypeOK
<1>2. ChannelIsSleepers'
  BY DEF TypeOK, ChannelIsSleepers
<1>3. Woken' = Woken
  BY DEF TypeOK, Woken
<1>4. NoLostWakeup'
  BY <1>3 DEF NoLostWakeup
<1> QED
  BY <1>1, <1>2, <1>4

(* A thread goes to sleep only at count 0, where nothing can be lost.       *)
LEMMA SleepIInv ==
  ASSUME IInv, NEW t \in Threads, P_sleep(t)
  PROVE  IInv'
<1> USE DEF IInv, P_sleep, Testing, MustSleep
<1>1. TypeOK'
  BY DEF TypeOK
<1>2. pc[t] # "asleep" /\ sem_wchan \in Seq(Threads)
  BY DEF TypeOK
<1>3. /\ Len(sem_wchan') = Len(sem_wchan) + 1
      /\ \A i \in 1 .. Len(sem_wchan) : sem_wchan'[i] = sem_wchan[i]
      /\ sem_wchan'[Len(sem_wchan) + 1] = t
      /\ Len(sem_wchan) \in Nat
      /\ DOMAIN sem_wchan = 1 .. Len(sem_wchan)
      /\ DOMAIN sem_wchan' = 1 .. (Len(sem_wchan) + 1)
  BY <1>2
<1>4. \A i \in DOMAIN sem_wchan : sem_wchan[i] # t
  BY <1>2 DEF ChannelIsSleepers
<1>5. ChannelIsSleepers'
  <2>1. ASSUME NEW u \in Threads
        PROVE  pc'[u] = "asleep" <=> \E i \in DOMAIN sem_wchan' : sem_wchan'[i] = u
    BY <1>3 DEF TypeOK, ChannelIsSleepers
  <2>2. ASSUME NEW i \in DOMAIN sem_wchan', NEW j \in DOMAIN sem_wchan', sem_wchan'[i] = sem_wchan'[j]
        PROVE  i = j
    BY <2>2, <1>3, <1>4 DEF ChannelIsSleepers
  <2> QED
    BY <2>1, <2>2 DEF ChannelIsSleepers
<1>6. NoLostWakeup'
  BY WokenFiniteNext DEF NoLostWakeup
<1> QED
  BY <1>1, <1>5, <1>6

(* A woken thread that takes a unit lowers both sides of NoLostWakeup, a    *)
(* newcomer only the count.                                                 *)
LEMMA TakeIInv ==
  ASSUME IInv, NEW t \in Threads, P_take(t)
  PROVE  IInv'
<1> USE DEF IInv, P_take, Testing, MustSleep
<1>1. TypeOK'
  BY SemaphoreAssumption DEF TypeOK, SemaphoreAssumption
<1>2. ChannelIsSleepers'
  BY DEF TypeOK, ChannelIsSleepers
<1>3. sem_count \in Int /\ sem_count' = sem_count - 1
  BY DEF TypeOK
<1>4. Cardinality(Woken') >= Cardinality(Woken) - 1
  <2>1. CASE pc[t] = "woken"
    <3>1. Woken' = Woken \ {t} /\ t \in Woken
      BY <2>1 DEF TypeOK, Woken
    <3>2. Cardinality(Woken') = Cardinality(Woken) - 1
      BY <3>1, FS_RemoveElement, WokenFinite
    <3> QED
      BY <3>2, WokenFinite
  <2>2. CASE pc[t] = "enter"
    <3>1. Woken' = Woken
      BY <2>2 DEF TypeOK, Woken
    <3> QED
      BY <3>1, WokenFinite
  <2> QED
    BY <2>1, <2>2
<1>5. NoLostWakeup'
  BY <1>3, <1>4, WokenFinite, WokenFiniteNext DEF NoLostWakeup
<1> QED
  BY <1>1, <1>2, <1>5

(* V raises the count and, when somebody sleeps, the number of woken        *)
(* threads with it.                                                         *)
LEMMA VIInv ==
  ASSUME IInv, V
  PROVE  IInv'
<1> USE DEF IInv, V
<1>0. sem_count \in Int /\ sem_count' = sem_count + 1 /\ sem_count' \in 0 .. MaxCount
  BY SemaphoreAssumption DEF TypeOK, SemaphoreAssumption
<1>1. CASE sem_wchan = << >>
  <2>1. UNCHANGED <<pc, sem_wchan>>
    BY <1>1 DEF wchan_wakeone
  <2>2. TypeOK' /\ ChannelIsSleepers'
    BY <1>0, <2>1 DEF TypeOK, ChannelIsSleepers
  <2> QED
    BY <1>1, <2>1, <2>2 DEF NoLostWakeup
<1>2. CASE sem_wchan # << >>
  <2> DEFINE h == Head(sem_wchan)
  <2>1. pc' = [pc EXCEPT ![h] = "woken"] /\ sem_wchan' = Tail(sem_wchan)
    BY <1>2 DEF wchan_wakeone
  <2>2. /\ sem_wchan \in Seq(Threads) /\ Len(sem_wchan) \in Nat \ {0}
        /\ h = sem_wchan[1] /\ h \in Threads
        /\ sem_wchan' \in Seq(Threads)
        /\ DOMAIN sem_wchan = 1 .. Len(sem_wchan)
        /\ DOMAIN sem_wchan' = 1 .. (Len(sem_wchan) - 1)
        /\ \A i \in 1 .. (Len(sem_wchan) - 1) : sem_wchan'[i] = sem_wchan[i + 1]
    BY <1>2, <2>1 DEF TypeOK
  <2> HIDE DEF h
  <2>3. TypeOK'
    BY <1>0, <2>1, <2>2 DEF TypeOK
  <2>4. pc[h] = "asleep"
    BY <2>2 DEF ChannelIsSleepers
  <2>5. ASSUME NEW i \in DOMAIN sem_wchan', sem_wchan'[i] = h
        PROVE  FALSE
    <3>1. i + 1 \in DOMAIN sem_wchan /\ 1 \in DOMAIN sem_wchan /\ sem_wchan[i + 1] = sem_wchan[1]
      BY <2>5, <2>2
    <3>2. i + 1 = 1 /\ i \in 1 .. (Len(sem_wchan) - 1)
      BY <3>1, <2>2 DEF ChannelIsSleepers
    <3> QED
      BY <3>2, <2>2
  <2>6. ASSUME NEW u \in Threads
        PROVE  pc'[u] = "asleep" <=> \E i \in DOMAIN sem_wchan' : sem_wchan'[i] = u
    <3>1. CASE u = h
      BY <3>1, <2>1, <2>2, <2>5 DEF TypeOK
    <3>2. CASE u # h
      <4>1. pc'[u] = pc[u]
        BY <3>2, <2>1 DEF TypeOK
      <4>2. ASSUME pc[u] = "asleep"
            PROVE  \E i \in DOMAIN sem_wchan' : sem_wchan'[i] = u
        <5>1. PICK k \in DOMAIN sem_wchan : sem_wchan[k] = u
          BY <4>2 DEF ChannelIsSleepers
        <5>2. k # 1 /\ k - 1 \in DOMAIN sem_wchan' /\ (k - 1) + 1 = k
          BY <5>1, <3>2, <2>2
        <5> QED
          BY <5>1, <5>2, <2>2
      <4>3. ASSUME NEW i \in DOMAIN sem_wchan', sem_wchan'[i] = u
            PROVE  pc[u] = "asleep"
        <5>1. i + 1 \in DOMAIN sem_wchan /\ sem_wchan[i + 1] = u
          BY <4>3, <2>2
        <5> QED
          BY <5>1 DEF ChannelIsSleepers
      <4> QED
        BY <4>1, <4>2, <4>3
    <3> QED
      BY <3>1, <3>2
  <2>7. ASSUME NEW i \in DOMAIN sem_wchan', NEW j \in DOMAIN sem_wchan', sem_wchan'[i] = sem_wchan'[j]
        PROVE  i = j
    <3>1. i + 1 \in DOMAIN sem_wchan /\ j + 1 \in DOMAIN sem_wchan /\ sem_wchan[i + 1] = sem_wchan[j + 1]
      BY <2>7, <2>2
    <3>2. i + 1 = j + 1
      BY <3>1 DEF ChannelIsSleepers
    <3> QED
      BY <3>2, <2>2
  <2>8. ChannelIsSleepers'
    BY <2>6, <2>7 DEF ChannelIsSleepers
  <2>9. Woken' = Woken \cup {h} /\ h \notin Woken
    BY <2>1, <2>2, <2>4 DEF TypeOK, Woken
  <2>10. Cardinality(Woken') = Cardinality(Woken) + 1
    BY <2>9, FS_AddElement, WokenFinite
  <2>11. NoLostWakeup'
    BY <1>0, <1>2, <2>10, WokenFinite DEF NoLostWakeup
  <2> QED
    BY <2>3, <2>8, <2>11
<1> QED
  BY <1>1, <1>2

(* The invariant survives every step.                                       *)
LEMMA NextIInv == IInv /\ [Next]_vars => IInv'
<1> SUFFICES ASSUME IInv, [Next]_vars
             PROVE  IInv'
  OBVIOUS
<1>1. CASE UNCHANGED vars
  BY <1>1 DEF vars, IInv, TypeOK, ChannelIsSleepers, NoLostWakeup, Woken
<1>2. CASE V
  BY <1>2, VIInv
<1>3. ASSUME NEW t \in Threads, CallP(t) \/ P_sleep(t) \/ P_take(t)
      PROVE  IInv'
  BY <1>3, CallPIInv, SleepIInv, TakeIInv
<1> QED
  BY <1>1, <1>2, <1>3 DEF Next

(* The inductive invariant holds in every reachable state of the semaphore. *)
THEOREM Inductive == Spec => []IInv
BY InitIInv, NextIInv, PTL DEF Spec

(* No wakeup is lost: while threads sleep in P, at least sem_count threads  *)
(* that V woke are on their way to test the count.                          *)
THEOREM WakeupsNotLost == Spec => []NoLostWakeup
<1>1. IInv => NoLostWakeup
  BY DEF IInv
<1> QED
  BY <1>1, Inductive, PTL

(* The channel that V serves is exactly the set of threads asleep in P.     *)
THEOREM SleepersFound == Spec => []ChannelIsSleepers
<1>1. IInv => ChannelIsSleepers
  BY DEF IInv
<1> QED
  BY <1>1, Inductive, PTL

(* One step of the code is one step of the atomic semaphore, or none.       *)
LEMMA StepSimulation == IInv /\ [Next]_vars => [Atomic!Next]_(Atomic!vars)
<1> SUFFICES ASSUME IInv, [Next]_vars
             PROVE  [Atomic!Next]_(Atomic!vars)
  OBVIOUS
<1> USE DEF Atomic!Next, Atomic!vars
<1>1. CASE UNCHANGED vars
  BY <1>1 DEF vars, Waiting
<1>2. CASE V
  <2>1. Waiting' = Waiting
    <3>1. CASE sem_wchan = << >>
      BY <1>2, <3>1 DEF V, wchan_wakeone, Waiting
    <3>2. CASE sem_wchan # << >>
      <4>1. Head(sem_wchan) = sem_wchan[1] /\ 1 \in DOMAIN sem_wchan /\ Head(sem_wchan) \in Threads
        BY <3>2 DEF IInv, TypeOK
      <4>2. pc[Head(sem_wchan)] = "asleep"
        BY <4>1 DEF IInv, ChannelIsSleepers
      <4> QED
        BY <1>2, <3>2, <4>1, <4>2 DEF IInv, TypeOK, V, wchan_wakeone, Waiting
    <3> QED
      BY <3>1, <3>2
  <2> QED
    BY <1>2, <2>1 DEF V, Atomic!V
<1>3. ASSUME NEW t \in Threads, CallP(t)
      PROVE  Atomic!CallP(t)
  BY <1>3 DEF CallP, Atomic!CallP, Waiting, IInv, TypeOK
<1>4. ASSUME NEW t \in Threads, P_sleep(t)
      PROVE  UNCHANGED Atomic!vars
  BY <1>4 DEF P_sleep, Testing, Waiting, IInv, TypeOK
<1>5. ASSUME NEW t \in Threads, P_take(t)
      PROVE  Atomic!ReturnP(t)
  BY <1>5 DEF P_take, Testing, MustSleep, Atomic!ReturnP, Waiting, IInv, TypeOK
<1> QED
  BY <1>1, <1>2, <1>3, <1>4, <1>5 DEF Next

(* The safety half of ImplementsAtomic: seen through sem_count and the set  *)
(* of threads inside P, the code does only what the atomic semaphore does.  *)
THEOREM RefinesAtomic == Spec => Atomic!Init /\ [][Atomic!Next]_(Atomic!vars)
<1>1. Init => Atomic!Init
  BY DEF Init, Atomic!Init, Waiting
<1> QED
  BY <1>1, StepSimulation, Inductive, PTL DEF Spec

=============================================================================
