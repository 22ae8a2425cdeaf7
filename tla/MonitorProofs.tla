---------------------------- MODULE MonitorProofs ----------------------------
(***************************************************************************)
(* For every set of threads: the lock excludes, the assertions on its      *)
(* owner hold, every waiter is found by a signal, and the lock and the     *)
(* condition variable implement the atomic monitor.                        *)
(***************************************************************************)
EXTENDS Monitor, TLAPS

(* The threads inside P(lk_sem) are those whose control is there.           *)
InsideP == lk_waiting = {t \in Threads : pc[t] = "P"}

(* Everybody in cv_wait who has given up the lock is on the channel, once,  *)
(* or is the holder of cv_lock.                                             *)
WaitersFound ==
  /\ \A t \in Threads : pc[t] = "asleep" <=> t \in OnChannel
  /\ \A i, j \in DOMAIN cv_wchan : cv_wchan[i] = cv_wchan[j] => i = j
  /\ \A t \in Threads : cv_lock = t <=> pc[t] \in {"wait_release", "wait_sleep"}

(* The inductive invariant.                                                 *)
IInv == TypeOK /\ MutualExclusion /\ OwnerAssertions /\ WaitersFound /\ InsideP

(* What Goto does to the locations.                                         *)
LEMMA GotoMoves ==
  ASSUME pc \in [Threads -> Locations], NEW t \in Threads, NEW l \in Locations, Goto(t, l)
  PROVE  /\ pc' \in [Threads -> Locations]
         /\ pc'[t] = l
         /\ \A u \in Threads : u # t => pc'[u] = pc[u]
BY DEF Goto

(* The channel holds each sleeper once (the part of WaitersFound that       *)
(* depends only on the channel and the locations).                          *)
ChannelOK ==
  /\ \A t \in Threads : pc[t] = "asleep" <=> t \in OnChannel
  /\ \A i, j \in DOMAIN cv_wchan : cv_wchan[i] = cv_wchan[j] => i = j

(* The holder of cv_lock is the thread in the middle of cv_wait.            *)
CvLockOK == \A t \in Threads : cv_lock = t <=> pc[t] \in {"wait_release", "wait_sleep"}

(* WaitersFound is these two.                                               *)
LEMMA Parts == WaitersFound <=> ChannelOK /\ CvLockOK
BY DEF WaitersFound, ChannelOK, CvLockOK

(* The same in the next state.                                              *)
LEMMA PartsNext == ChannelOK' /\ CvLockOK' => WaitersFound'
BY DEF WaitersFound, ChannelOK, CvLockOK

(* Moving a thread that neither sleeps nor falls asleep keeps the channel.  *)
LEMMA ChannelKept ==
  ASSUME ChannelOK, pc \in [Threads -> Locations], UNCHANGED cv_wchan,
         NEW t \in Threads, NEW l \in Locations, Goto(t, l), pc[t] # "asleep", l # "asleep"
  PROVE  ChannelOK'
BY GotoMoves DEF ChannelOK, OnChannel

(* Queueing a thread that is not asleep.                                    *)
LEMMA ChannelAppend ==
  ASSUME ChannelOK, TypeOK, NEW t \in Threads, pc[t] # "asleep",
         Goto(t, "asleep"), cv_wchan' = Append(cv_wchan, t)
  PROVE  ChannelOK' /\ cv_wchan' \in Seq(Threads)
<1>1. cv_wchan \in Seq(Threads) /\ cv_wchan' \in Seq(Threads)
  BY DEF TypeOK
<1>2. /\ Len(cv_wchan') = Len(cv_wchan) + 1
      /\ \A i \in 1 .. Len(cv_wchan) : cv_wchan'[i] = cv_wchan[i]
      /\ cv_wchan'[Len(cv_wchan) + 1] = t
      /\ Len(cv_wchan) \in Nat
      /\ DOMAIN cv_wchan = 1 .. Len(cv_wchan)
      /\ DOMAIN cv_wchan' = 1 .. (Len(cv_wchan) + 1)
  BY <1>1
<1>3. pc'[t] = "asleep" /\ \A u \in Threads : u # t => pc'[u] = pc[u]
  BY GotoMoves DEF TypeOK, Locations
<1>4. \A i \in DOMAIN cv_wchan : cv_wchan[i] # t
  BY DEF ChannelOK, OnChannel
<1>5. OnChannel' = OnChannel \cup {t}
  BY <1>2 DEF OnChannel
<1>6. \A u \in Threads : pc'[u] = "asleep" <=> u \in OnChannel'
  BY <1>3, <1>5 DEF ChannelOK
<1>7. ASSUME NEW i \in DOMAIN cv_wchan', NEW j \in DOMAIN cv_wchan', cv_wchan'[i] = cv_wchan'[j]
      PROVE  i = j
  BY <1>7, <1>2, <1>4 DEF ChannelOK
<1> QED
  BY <1>1, <1>6, <1>7 DEF ChannelOK

(* Waking the head.                                                         *)
LEMMA ChannelWakeone ==
  ASSUME ChannelOK, TypeOK, wchan_wakeone, cv_wchan # << >>
  PROVE  /\ ChannelOK' /\ cv_wchan' \in Seq(Threads)
         /\ Head(cv_wchan) \in Threads /\ pc[Head(cv_wchan)] = "asleep"
         /\ Goto(Head(cv_wchan), "woken")
<1> DEFINE h == Head(cv_wchan)
<1>1. cv_wchan' = Tail(cv_wchan) /\ Goto(h, "woken")
  BY DEF wchan_wakeone
<1>2. /\ cv_wchan \in Seq(Threads) /\ Len(cv_wchan) \in Nat \ {0}
      /\ h = cv_wchan[1] /\ h \in Threads
      /\ cv_wchan' \in Seq(Threads)
      /\ DOMAIN cv_wchan = 1 .. Len(cv_wchan)
      /\ DOMAIN cv_wchan' = 1 .. (Len(cv_wchan) - 1)
      /\ \A i \in 1 .. (Len(cv_wchan) - 1) : cv_wchan'[i] = cv_wchan[i + 1]
  BY <1>1 DEF TypeOK
<1> HIDE DEF h
<1>3. pc[h] = "asleep"
  BY <1>2 DEF ChannelOK, OnChannel
<1>4. pc'[h] = "woken" /\ \A u \in Threads : u # h => pc'[u] = pc[u]
  BY <1>1, <1>2, GotoMoves DEF TypeOK, Locations
<1>5. ASSUME NEW i \in DOMAIN cv_wchan', cv_wchan'[i] = h
      PROVE  FALSE
  <2>1. i + 1 \in DOMAIN cv_wchan /\ 1 \in DOMAIN cv_wchan /\ cv_wchan[i + 1] = cv_wchan[1]
    BY <1>5, <1>2
  <2>2. i + 1 = 1 /\ i \in 1 .. (Len(cv_wchan) - 1)
    BY <2>1, <1>2 DEF ChannelOK
  <2> QED
    BY <2>2, <1>2
<1>6. ASSUME NEW u \in Threads, u # h
      PROVE  u \in OnChannel' <=> u \in OnChannel
  <2>1. ASSUME NEW k \in DOMAIN cv_wchan, cv_wchan[k] = u
        PROVE  u \in OnChannel'
    <3>1. k # 1 /\ k - 1 \in DOMAIN cv_wchan' /\ (k - 1) + 1 = k
      BY <2>1, <1>6, <1>2
    <3>2. cv_wchan'[k - 1] = u
      BY <3>1, <2>1, <1>2
    <3> QED
      BY <3>1, <3>2 DEF OnChannel
  <2>2. ASSUME NEW i \in DOMAIN cv_wchan', cv_wchan'[i] = u
        PROVE  u \in OnChannel
    <3>1. i + 1 \in DOMAIN cv_wchan /\ cv_wchan[i + 1] = u
      BY <2>2, <1>2
    <3> QED
      BY <3>1 DEF OnChannel
  <2> QED
    BY <2>1, <2>2 DEF OnChannel
<1>7. h \notin OnChannel'
  BY <1>5 DEF OnChannel
<1>8. \A u \in Threads : pc'[u] = "asleep" <=> u \in OnChannel'
  BY <1>4, <1>6, <1>7 DEF ChannelOK
<1>9. ASSUME NEW i \in DOMAIN cv_wchan', NEW j \in DOMAIN cv_wchan', cv_wchan'[i] = cv_wchan'[j]
      PROVE  i = j
  <2>1. i + 1 \in DOMAIN cv_wchan /\ j + 1 \in DOMAIN cv_wchan /\ cv_wchan[i + 1] = cv_wchan[j + 1]
    BY <1>9, <1>2
  <2>2. i + 1 = j + 1
    BY <2>1 DEF ChannelOK
  <2> QED
    BY <2>2, <1>2
<1>10. ChannelOK'
  BY <1>8, <1>9 DEF ChannelOK
<1> QED
  BY <1>1, <1>2, <1>3, <1>10 DEF h

(* Waking everybody.                                                        *)
LEMMA ChannelWakeall ==
  ASSUME ChannelOK, TypeOK, wchan_wakeall
  PROVE  /\ ChannelOK' /\ cv_wchan' \in Seq(Threads)
         /\ pc' = [t \in Threads |-> IF pc[t] = "asleep" THEN "woken" ELSE pc[t]]
<1>1. pc' = [t \in Threads |-> IF pc[t] = "asleep" THEN "woken" ELSE pc[t]]
  BY DEF wchan_wakeall, ChannelOK
<1>2. cv_wchan' = << >> /\ OnChannel' = {}
  BY DEF wchan_wakeall, OnChannel
<1> QED
  BY <1>1, <1>2 DEF ChannelOK

(* Calling P.                                                               *)
LEMMA AcquireIInv ==
  ASSUME IInv, NEW t \in Threads, lock_acquire(t)
  PROVE  IInv'
<1> USE DEF IInv
<1>1. /\ pc[t] = "out" /\ Goto(t, "P") /\ "P" \in Locations
      /\ pc \in [Threads -> Locations]
  BY DEF lock_acquire, Locations, TypeOK
<1>2. /\ pc' \in [Threads -> Locations] /\ pc'[t] = "P"
      /\ \A u \in Threads : u # t => pc'[u] = pc[u]
  BY <1>1, GotoMoves
<1>3. ChannelOK /\ CvLockOK
  BY Parts
<1>4. ChannelOK' /\ cv_wchan' \in Seq(Threads)
  BY <1>1, <1>3, ChannelKept DEF lock_acquire, TypeOK
<1>5. TypeOK'
  BY <1>1, <1>2, <1>4, MonitorAssumption DEF lock_acquire, LkSem!CallP, MonitorAssumption, TypeOK, MutualExclusion, Inside
<1>6. MutualExclusion'
  BY <1>1, <1>2 DEF lock_acquire, LkSem!CallP, TypeOK, MutualExclusion, Inside
<1>7. OwnerAssertions'
  BY <1>1, <1>2, MonitorAssumption DEF lock_acquire, LkSem!CallP, MonitorAssumption, TypeOK, MutualExclusion, Inside, OwnerAssertions
<1>8. CvLockOK'
  BY <1>1, <1>2, <1>3, MonitorAssumption DEF lock_acquire, LkSem!CallP, MonitorAssumption, TypeOK, CvLockOK
<1>9. InsideP'
  BY <1>1, <1>2 DEF lock_acquire, LkSem!CallP, TypeOK, InsideP
<1> QED
  BY <1>4, <1>5, <1>6, <1>7, <1>8, <1>9, PartsNext

(* Coming out of P: nobody else was inside, for the semaphore was up.       *)
LEMMA PIInv ==
  ASSUME IInv, NEW t \in Threads, lock_P(t)
  PROVE  IInv'
<1> USE DEF IInv
<1>1. /\ pc[t] = "P" /\ Goto(t, "got") /\ "got" \in Locations
      /\ pc \in [Threads -> Locations]
  BY DEF lock_P, Locations, TypeOK
<1>2. /\ pc' \in [Threads -> Locations] /\ pc'[t] = "got"
      /\ \A u \in Threads : u # t => pc'[u] = pc[u]
  BY <1>1, GotoMoves
<1>3. ChannelOK /\ CvLockOK
  BY Parts
<1>4. ChannelOK' /\ cv_wchan' \in Seq(Threads)
  BY <1>1, <1>3, ChannelKept DEF lock_P, TypeOK
<1>5. TypeOK'
  BY <1>1, <1>2, <1>4, MonitorAssumption DEF lock_P, LkSem!ReturnP, MonitorAssumption, TypeOK, MutualExclusion, Inside
<1>6. MutualExclusion'
  BY <1>1, <1>2 DEF lock_P, LkSem!ReturnP, TypeOK, MutualExclusion, Inside
<1>7. OwnerAssertions'
  BY <1>1, <1>2, MonitorAssumption DEF lock_P, LkSem!ReturnP, MonitorAssumption, TypeOK, MutualExclusion, Inside, OwnerAssertions
<1>8. CvLockOK'
  BY <1>1, <1>2, <1>3, MonitorAssumption DEF lock_P, LkSem!ReturnP, MonitorAssumption, TypeOK, CvLockOK
<1>9. InsideP'
  BY <1>1, <1>2 DEF lock_P, LkSem!ReturnP, TypeOK, InsideP
<1> QED
  BY <1>4, <1>5, <1>6, <1>7, <1>8, <1>9, PartsNext

(* Recording the owner.                                                     *)
LEMMA OwnIInv ==
  ASSUME IInv, NEW t \in Threads, lock_own(t)
  PROVE  IInv'
<1> USE DEF IInv
<1>1. /\ pc[t] = "got" /\ Goto(t, "in") /\ "in" \in Locations
      /\ pc \in [Threads -> Locations]
  BY DEF lock_own, Locations, TypeOK
<1>2. /\ pc' \in [Threads -> Locations] /\ pc'[t] = "in"
      /\ \A u \in Threads : u # t => pc'[u] = pc[u]
  BY <1>1, GotoMoves
<1>3. ChannelOK /\ CvLockOK
  BY Parts
<1>4. ChannelOK' /\ cv_wchan' \in Seq(Threads)
  BY <1>1, <1>3, ChannelKept DEF lock_own, TypeOK
<1>5. TypeOK'
  BY <1>1, <1>2, <1>4, MonitorAssumption DEF lock_own, MonitorAssumption, TypeOK, MutualExclusion, Inside
<1>6. MutualExclusion'
  BY <1>1, <1>2 DEF lock_own, TypeOK, MutualExclusion, Inside
<1>7. OwnerAssertions'
  BY <1>1, <1>2, MonitorAssumption DEF lock_own, MonitorAssumption, TypeOK, MutualExclusion, Inside, OwnerAssertions
<1>8. CvLockOK'
  BY <1>1, <1>2, <1>3, MonitorAssumption DEF lock_own, MonitorAssumption, TypeOK, CvLockOK
<1>9. InsideP'
  BY <1>1, <1>2 DEF lock_own, TypeOK, InsideP
<1> QED
  BY <1>4, <1>5, <1>6, <1>7, <1>8, <1>9, PartsNext

(* Leaving: the semaphore was down.                                         *)
LEMMA ReleaseIInv ==
  ASSUME IInv, NEW t \in Threads, lock_release(t)
  PROVE  IInv'
<1> USE DEF IInv
<1>1. /\ pc[t] = "in" /\ Goto(t, "out") /\ "out" \in Locations
      /\ pc \in [Threads -> Locations]
  BY DEF lock_release, Locations, TypeOK
<1>2. /\ pc' \in [Threads -> Locations] /\ pc'[t] = "out"
      /\ \A u \in Threads : u # t => pc'[u] = pc[u]
  BY <1>1, GotoMoves
<1>3. ChannelOK /\ CvLockOK
  BY Parts
<1>4. ChannelOK' /\ cv_wchan' \in Seq(Threads)
  BY <1>1, <1>3, ChannelKept DEF lock_release, TypeOK
<1>5. TypeOK'
  BY <1>1, <1>2, <1>4, MonitorAssumption DEF lock_release, ReleaseLock, LkSem!V, MonitorAssumption, TypeOK, MutualExclusion, Inside
<1>6. MutualExclusion'
  BY <1>1, <1>2 DEF lock_release, ReleaseLock, LkSem!V, TypeOK, MutualExclusion, Inside
<1>7. OwnerAssertions'
  BY <1>1, <1>2, MonitorAssumption DEF lock_release, ReleaseLock, LkSem!V, MonitorAssumption, TypeOK, MutualExclusion, Inside, OwnerAssertions
<1>8. CvLockOK'
  BY <1>1, <1>2, <1>3, MonitorAssumption DEF lock_release, ReleaseLock, LkSem!V, MonitorAssumption, TypeOK, CvLockOK
<1>9. InsideP'
  BY <1>1, <1>2 DEF lock_release, ReleaseLock, LkSem!V, TypeOK, InsideP
<1> QED
  BY <1>4, <1>5, <1>6, <1>7, <1>8, <1>9, PartsNext

(* Taking cv_lock at the beginning of cv_wait.                              *)
LEMMA WaitIInv ==
  ASSUME IInv, NEW t \in Threads, cv_wait(t)
  PROVE  IInv'
<1> USE DEF IInv
<1>1. /\ pc[t] = "in" /\ Goto(t, "wait_release") /\ "wait_release" \in Locations
      /\ pc \in [Threads -> Locations]
  BY DEF cv_wait, Locations, TypeOK
<1>2. /\ pc' \in [Threads -> Locations] /\ pc'[t] = "wait_release"
      /\ \A u \in Threads : u # t => pc'[u] = pc[u]
  BY <1>1, GotoMoves
<1>3. ChannelOK /\ CvLockOK
  BY Parts
<1>4. ChannelOK' /\ cv_wchan' \in Seq(Threads)
  BY <1>1, <1>3, ChannelKept DEF cv_wait, TypeOK
<1>5. TypeOK'
  BY <1>1, <1>2, <1>4, MonitorAssumption DEF cv_wait, MonitorAssumption, TypeOK, MutualExclusion, Inside
<1>6. MutualExclusion'
  BY <1>1, <1>2 DEF cv_wait, TypeOK, MutualExclusion, Inside
<1>7. OwnerAssertions'
  BY <1>1, <1>2, MonitorAssumption DEF cv_wait, MonitorAssumption, TypeOK, MutualExclusion, Inside, OwnerAssertions
<1>8. CvLockOK'
  BY <1>1, <1>2, <1>3, MonitorAssumption DEF cv_wait, MonitorAssumption, TypeOK, CvLockOK
<1>9. InsideP'
  BY <1>1, <1>2 DEF cv_wait, TypeOK, InsideP
<1> QED
  BY <1>4, <1>5, <1>6, <1>7, <1>8, <1>9, PartsNext

(* Giving up the lock in cv_wait.                                           *)
LEMMA WaitReleaseIInv ==
  ASSUME IInv, NEW t \in Threads, cv_wait_release(t)
  PROVE  IInv'
<1> USE DEF IInv
<1>1. /\ pc[t] = "wait_release" /\ Goto(t, "wait_sleep") /\ "wait_sleep" \in Locations
      /\ pc \in [Threads -> Locations]
  BY DEF cv_wait_release, Locations, TypeOK
<1>2. /\ pc' \in [Threads -> Locations] /\ pc'[t] = "wait_sleep"
      /\ \A u \in Threads : u # t => pc'[u] = pc[u]
  BY <1>1, GotoMoves
<1>3. ChannelOK /\ CvLockOK
  BY Parts
<1>4. ChannelOK' /\ cv_wchan' \in Seq(Threads)
  BY <1>1, <1>3, ChannelKept DEF cv_wait_release, TypeOK
<1>5. TypeOK'
  BY <1>1, <1>2, <1>4, MonitorAssumption DEF cv_wait_release, ReleaseLock, LkSem!V, MonitorAssumption, TypeOK, MutualExclusion, Inside
<1>6. MutualExclusion'
  BY <1>1, <1>2 DEF cv_wait_release, ReleaseLock, LkSem!V, TypeOK, MutualExclusion, Inside
<1>7. OwnerAssertions'
  BY <1>1, <1>2, MonitorAssumption DEF cv_wait_release, ReleaseLock, LkSem!V, MonitorAssumption, TypeOK, MutualExclusion, Inside, OwnerAssertions
<1>8. CvLockOK'
  BY <1>1, <1>2, <1>3, MonitorAssumption DEF cv_wait_release, ReleaseLock, LkSem!V, MonitorAssumption, TypeOK, CvLockOK
<1>9. InsideP'
  BY <1>1, <1>2 DEF cv_wait_release, ReleaseLock, LkSem!V, TypeOK, InsideP
<1> QED
  BY <1>4, <1>5, <1>6, <1>7, <1>8, <1>9, PartsNext

(* Falling asleep in cv_wait.                                               *)
LEMMA WaitSleepIInv ==
  ASSUME IInv, NEW t \in Threads, cv_wait_sleep(t)
  PROVE  IInv'
<1> USE DEF IInv
<1>1. /\ pc[t] = "wait_sleep" /\ Goto(t, "asleep") /\ "asleep" \in Locations
      /\ pc \in [Threads -> Locations]
  BY DEF cv_wait_sleep, Locations, TypeOK
<1>2. /\ pc' \in [Threads -> Locations] /\ pc'[t] = "asleep"
      /\ \A u \in Threads : u # t => pc'[u] = pc[u]
  BY <1>1, GotoMoves
<1>3. ChannelOK /\ CvLockOK
  BY Parts
<1>4. ChannelOK' /\ cv_wchan' \in Seq(Threads)
  BY <1>1, <1>3, ChannelAppend DEF cv_wait_sleep, TypeOK
<1>5. TypeOK'
  BY <1>1, <1>2, <1>4, MonitorAssumption DEF cv_wait_sleep, MonitorAssumption, TypeOK, MutualExclusion, Inside
<1>6. MutualExclusion'
  BY <1>1, <1>2 DEF cv_wait_sleep, TypeOK, MutualExclusion, Inside
<1>7. OwnerAssertions'
  BY <1>1, <1>2, MonitorAssumption DEF cv_wait_sleep, MonitorAssumption, TypeOK, MutualExclusion, Inside, OwnerAssertions
<1>8. CvLockOK'
  BY <1>1, <1>2, <1>3, MonitorAssumption DEF cv_wait_sleep, MonitorAssumption, TypeOK, CvLockOK
<1>9. InsideP'
  BY <1>1, <1>2 DEF cv_wait_sleep, TypeOK, InsideP
<1> QED
  BY <1>4, <1>5, <1>6, <1>7, <1>8, <1>9, PartsNext

(* Going for the lock again after a wakeup.                                 *)
LEMMA WaitWokenIInv ==
  ASSUME IInv, NEW t \in Threads, cv_wait_woken(t)
  PROVE  IInv'
<1> USE DEF IInv
<1>1. /\ pc[t] = "woken" /\ Goto(t, "P") /\ "P" \in Locations
      /\ pc \in [Threads -> Locations]
  BY DEF cv_wait_woken, Locations, TypeOK
<1>2. /\ pc' \in [Threads -> Locations] /\ pc'[t] = "P"
      /\ \A u \in Threads : u # t => pc'[u] = pc[u]
  BY <1>1, GotoMoves
<1>3. ChannelOK /\ CvLockOK
  BY Parts
<1>4. ChannelOK' /\ cv_wchan' \in Seq(Threads)
  BY <1>1, <1>3, ChannelKept DEF cv_wait_woken, TypeOK
<1>5. TypeOK'
  BY <1>1, <1>2, <1>4, MonitorAssumption DEF cv_wait_woken, LkSem!CallP, MonitorAssumption, TypeOK, MutualExclusion, Inside
<1>6. MutualExclusion'
  BY <1>1, <1>2 DEF cv_wait_woken, LkSem!CallP, TypeOK, MutualExclusion, Inside
<1>7. OwnerAssertions'
  BY <1>1, <1>2, MonitorAssumption DEF cv_wait_woken, LkSem!CallP, MonitorAssumption, TypeOK, MutualExclusion, Inside, OwnerAssertions
<1>8. CvLockOK'
  BY <1>1, <1>2, <1>3, MonitorAssumption DEF cv_wait_woken, LkSem!CallP, MonitorAssumption, TypeOK, CvLockOK
<1>9. InsideP'
  BY <1>1, <1>2 DEF cv_wait_woken, LkSem!CallP, TypeOK, InsideP
<1> QED
  BY <1>4, <1>5, <1>6, <1>7, <1>8, <1>9, PartsNext

(* Waking sleepers: they are outside the lock and do not hold cv_lock.      *)
LEMMA WakeIInv ==
  ASSUME IInv, UNCHANGED <<lk_sem, lk_waiting, lk_owner, cv_lock>>,
         ChannelOK', cv_wchan' \in Seq(Threads), pc' \in [Threads -> Locations],
         \A u \in Threads : pc'[u] = pc[u] \/ (pc[u] = "asleep" /\ pc'[u] = "woken")
  PROVE  IInv'
<1> USE DEF IInv
<1>1. CvLockOK /\ CvLockOK'
  BY Parts DEF CvLockOK
<1>2. TypeOK'
  BY DEF TypeOK
<1>3. \A u \in Threads : Inside(u)' = Inside(u)
  BY DEF Inside
<1>4. MutualExclusion'
  BY <1>3 DEF MutualExclusion
<1>5. OwnerAssertions'
  BY DEF OwnerAssertions
<1>6. InsideP'
  BY DEF InsideP
<1> QED
  BY <1>1, <1>2, <1>4, <1>5, <1>6, PartsNext

(* A signal.                                                                *)
LEMMA SignalIInv ==
  ASSUME IInv, NEW t \in Threads, cv_signal(t)
  PROVE  IInv'
<1>1. ChannelOK /\ TypeOK /\ wchan_wakeone /\ UNCHANGED <<lk_sem, lk_waiting, lk_owner, cv_lock>>
  BY Parts DEF IInv, cv_signal
<1>2. CASE cv_wchan = << >>
  <2>1. UNCHANGED <<cv_wchan, pc>>
    BY <1>1, <1>2 DEF wchan_wakeone
  <2>2. ChannelOK' /\ cv_wchan' \in Seq(Threads) /\ pc' \in [Threads -> Locations]
    BY <1>1, <2>1 DEF ChannelOK, OnChannel, TypeOK
  <2> QED
    BY <1>1, <2>1, <2>2, WakeIInv
<1>3. CASE cv_wchan # << >>
  <2>1. /\ ChannelOK' /\ cv_wchan' \in Seq(Threads)
        /\ Head(cv_wchan) \in Threads /\ pc[Head(cv_wchan)] = "asleep"
        /\ Goto(Head(cv_wchan), "woken")
    BY <1>1, <1>3, ChannelWakeone
  <2>2. /\ pc' \in [Threads -> Locations]
        /\ \A u \in Threads : pc'[u] = pc[u] \/ (pc[u] = "asleep" /\ pc'[u] = "woken")
    BY <1>1, <2>1 DEF Goto, TypeOK, Locations
  <2> QED
    BY <1>1, <2>1, <2>2, WakeIInv
<1> QED
  BY <1>2, <1>3

(* A broadcast.                                                             *)
LEMMA BroadcastIInv ==
  ASSUME IInv, NEW t \in Threads, cv_broadcast(t)
  PROVE  IInv'
<1>1. ChannelOK /\ TypeOK /\ wchan_wakeall /\ UNCHANGED <<lk_sem, lk_waiting, lk_owner, cv_lock>>
  BY Parts DEF IInv, cv_broadcast
<1>2. /\ ChannelOK' /\ cv_wchan' \in Seq(Threads)
      /\ pc' = [u \in Threads |-> IF pc[u] = "asleep" THEN "woken" ELSE pc[u]]
  BY <1>1, ChannelWakeall
<1>3. /\ pc' \in [Threads -> Locations]
      /\ \A u \in Threads : pc'[u] = pc[u] \/ (pc[u] = "asleep" /\ pc'[u] = "woken")
  BY <1>1, <1>2 DEF TypeOK, Locations
<1> QED
  BY <1>1, <1>2, <1>3, WakeIInv

(* The invariant survives every step.                                       *)
LEMMA NextIInv == IInv /\ [Next]_vars => IInv'
<1> SUFFICES ASSUME IInv, [Next]_vars
             PROVE  IInv'
  OBVIOUS
<1>1. CASE UNCHANGED vars
  BY <1>1 DEF vars, IInv, TypeOK, MutualExclusion, Inside, OwnerAssertions, WaitersFound, OnChannel, InsideP
<1>2. ASSUME NEW t \in Threads,
             \/ lock_acquire(t) \/ lock_release(t)
             \/ cv_wait(t) \/ cv_signal(t) \/ cv_broadcast(t)
             \/ Progress(t)
      PROVE  IInv'
  BY <1>2, AcquireIInv, PIInv, OwnIInv, ReleaseIInv, WaitIInv, WaitReleaseIInv, WaitSleepIInv,
     WaitWokenIInv, SignalIInv, BroadcastIInv DEF Progress
<1> QED
  BY <1>1, <1>2 DEF Next

(* A new lock is free and nobody waits.                                     *)
LEMMA InitIInv == Init => IInv
BY MonitorAssumption
   DEF MonitorAssumption, Init, LkSem!Init, IInv, TypeOK, Locations, MutualExclusion, Inside,
       OwnerAssertions, WaitersFound, OnChannel, InsideP

(* The inductive invariant holds in every reachable state.                  *)
THEOREM Inductive == Spec => []IInv
BY InitIInv, NextIInv, PTL DEF Spec

(* Only one thread can hold the lock at the same time.                      *)
THEOREM LockExcludes == Spec => []MutualExclusion
<1>1. IInv => MutualExclusion
  BY DEF IInv
<1> QED
  BY <1>1, Inductive, PTL

(* The assertions of lock_acquire and lock_release about the owner hold.    *)
THEOREM OwnerCorrect == Spec => []OwnerAssertions
<1>1. IInv => OwnerAssertions
  BY DEF IInv
<1> QED
  BY <1>1, Inductive, PTL

(* No signal is lost: whoever can signal finds every waiter on the channel. *)
THEOREM SignalsNotLost == Spec => []NoLostSignal
<1>1. IInv => NoLostSignal
  BY MonitorAssumption DEF IInv, WaitersFound, NoLostSignal, MonitorAssumption
<1> QED
  BY <1>1, Inductive, PTL

(* The sets of the refinement mapping.                                      *)
Entering == {t \in Threads : pc[t] \in {"P", "got", "woken"}}
CvWaiting == {t \in Threads : pc[t] \in {"wait_sleep", "asleep"}}

(* Every step of the code is a step of the atomic monitor, or none.  The    *)
(* lock is taken when the owner is recorded; a thread begins to wait when   *)
(* it gives up the lock, and whoever signals then still finds cv_lock held. *)
LEMMA StepSimulation == IInv /\ [Next]_vars => [Promise!Next]_(Promise!vars)
<1> SUFFICES ASSUME IInv, [Next]_vars
             PROVE  [Promise!Next]_(Promise!vars)
  OBVIOUS
<1> USE DEF Promise!Next, Promise!vars
<1>0. pc \in [Threads -> Locations] /\ cv_wchan \in Seq(Threads) /\ lk_owner \in Threads \cup {None}
  BY DEF IInv, TypeOK
<1>1. CASE UNCHANGED vars
  BY <1>1 DEF vars
<1>2. ASSUME NEW t \in Threads, lock_acquire(t)
      PROVE  Promise!CallAcquire(t)
  BY <1>2, <1>0 DEF lock_acquire, Goto, Promise!CallAcquire
<1>3. ASSUME NEW t \in Threads, lock_P(t)
      PROVE  UNCHANGED Promise!vars
  BY <1>3, <1>0 DEF lock_P, Goto
<1>4. ASSUME NEW t \in Threads, lock_own(t)
      PROVE  Promise!Acquire(t)
  BY <1>4, <1>0 DEF lock_own, Goto, Promise!Acquire, IInv, OwnerAssertions
<1>5. ASSUME NEW t \in Threads, lock_release(t)
      PROVE  Promise!Release(t)
  BY <1>5, <1>0 DEF lock_release, ReleaseLock, Goto, Promise!Release
<1>6. ASSUME NEW t \in Threads, cv_wait(t)
      PROVE  UNCHANGED Promise!vars
  BY <1>6, <1>0 DEF cv_wait, Goto
<1>7. ASSUME NEW t \in Threads, cv_wait_release(t)
      PROVE  Promise!Wait(t)
  BY <1>7, <1>0 DEF cv_wait_release, ReleaseLock, Goto, Promise!Wait
<1>8. ASSUME NEW t \in Threads, cv_wait_sleep(t)
      PROVE  UNCHANGED Promise!vars
  BY <1>8, <1>0 DEF cv_wait_sleep, Goto
<1>9. ASSUME NEW t \in Threads, cv_wait_woken(t)
      PROVE  UNCHANGED Promise!vars
  BY <1>9, <1>0 DEF cv_wait_woken, Goto
<1>10. ASSUME NEW t \in Threads, cv_signal(t)
       PROVE  Promise!Signal(t) \/ UNCHANGED Promise!vars
  <2>1. ChannelOK /\ TypeOK /\ wchan_wakeone /\ lk_owner = t /\ UNCHANGED lk_owner
    BY <1>10, Parts DEF IInv, cv_signal
  <2>2. CASE cv_wchan = << >>
    BY <2>1, <2>2 DEF wchan_wakeone
  <2>3. CASE cv_wchan # << >>
    <3> DEFINE h == Head(cv_wchan)
    <3>1. h \in Threads /\ pc[h] = "asleep" /\ Goto(h, "woken")
      BY <2>1, <2>3, ChannelWakeone
    <3> HIDE DEF h
    <3>2. /\ h \in CvWaiting
          /\ CvWaiting' = CvWaiting \ {h}
          /\ Entering' = Entering \cup {h}
      BY <3>1, <1>0 DEF Goto, CvWaiting, Entering
    <3> QED
      BY <2>1, <3>2 DEF Promise!Signal, CvWaiting, Entering
  <2> QED
    BY <2>2, <2>3
<1>11. ASSUME NEW t \in Threads, cv_broadcast(t)
       PROVE  Promise!Broadcast(t)
  <2>1. /\ ChannelOK /\ TypeOK /\ wchan_wakeall
        /\ lk_owner = t /\ UNCHANGED lk_owner
        /\ cv_lock = None
    BY <1>11, Parts DEF IInv, cv_broadcast
  <2>2. pc' = [u \in Threads |-> IF pc[u] = "asleep" THEN "woken" ELSE pc[u]]
    BY <2>1, ChannelWakeall
  <2>3. \A u \in Threads : pc[u] # "wait_sleep"
    BY <2>1, Parts, MonitorAssumption DEF IInv, CvLockOK, MonitorAssumption
  <2>4. CvWaiting' = {} /\ Entering' = Entering \cup CvWaiting
    BY <2>2, <2>3, <1>0 DEF CvWaiting, Entering
  <2> QED
    BY <2>1, <2>4 DEF Promise!Broadcast, CvWaiting, Entering
<1> QED
  BY <1>1, <1>2, <1>3, <1>4, <1>5, <1>6, <1>7, <1>8, <1>9, <1>10, <1>11 DEF Next, Progress

(* The safety half of ImplementsMonitor: lock and condition variable do     *)
(* only what the atomic monitor does.                                       *)
THEOREM RefinesMonitor == Spec => Promise!Init /\ [][Promise!Next]_(Promise!vars)
<1>1. Init => Promise!Init
  BY DEF Init, Promise!Init
<1> QED
  BY <1>1, StepSimulation, Inductive, PTL DEF Spec

=============================================================================
