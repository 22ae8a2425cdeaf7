------------------------------- MODULE Monitor -------------------------------
(***************************************************************************)
(* The lock and the condition variable of kern/thread/synch.c, as built    *)
(* with options synch and USE_SEMAPHORE_FOR_LOCK: a lock is a semaphore    *)
(* of count 1, the owner field and a spinlock that protects it, a          *)
(* condition variable is a wait channel and its spinlock.  The semaphore   *)
(* is the atomic one that module Semaphore implements.                     *)
(*                                                                         *)
(* One action per critical section of lk_lock and cv_lock.  lk_lock is     *)
(* never held across two of them; cv_lock is, from the beginning of        *)
(* cv_wait until wchan_sleep has queued the caller, so it is a variable.   *)
(***************************************************************************)
EXTENDS Integers, Sequences, FiniteSets

CONSTANTS
  Threads,
  None           (* NULL, the owner of a free lock or spinlock             *)

ASSUME MonitorAssumption == None \notin Threads

VARIABLES
  lk_sem,        (* count of the lock's semaphore                          *)
  lk_waiting,    (* threads inside P(lk_sem)                               *)
  lk_owner,
  cv_lock,       (* the thread that holds the spinlock of the cv, or None  *)
  cv_wchan,      (* the threads asleep in cv_wait, in order                *)
  pc             (* where each thread is in the code                       *)

vars == <<lk_sem, lk_waiting, lk_owner, cv_lock, cv_wchan, pc>>

LkSem == INSTANCE AtomicSemaphore
           WITH initial_count <- 1, count <- lk_sem, waiting <- lk_waiting

Goto(t, l) == pc' = [pc EXCEPT ![t] = l]

(* lock_create and cv_create.                                               *)
Init ==
  /\ LkSem!Init
  /\ lk_owner = None
  /\ cv_lock = None /\ cv_wchan = << >>
  /\ pc = [t \in Threads |-> "out"]

(* lock_acquire: the assertion that the caller does not hold the lock, then *)
(* P; only after P the spinlock, and the owner.                             *)
lock_acquire(t) ==
  /\ pc[t] = "out" /\ lk_owner # t
  /\ LkSem!CallP(t)
  /\ Goto(t, "P")
  /\ UNCHANGED <<lk_owner, cv_lock, cv_wchan>>

lock_P(t) ==
  /\ pc[t] = "P"
  /\ LkSem!ReturnP(t)
  /\ Goto(t, "got")
  /\ UNCHANGED <<lk_owner, cv_lock, cv_wchan>>

lock_own(t) ==
  /\ pc[t] = "got"
  /\ lk_owner' = t
  /\ Goto(t, "in")
  /\ UNCHANGED <<lk_sem, lk_waiting, cv_lock, cv_wchan>>

(* The critical section of lock_release.                                    *)
ReleaseLockMutant == LkSem!V /\ UNCHANGED lk_owner

ReleaseLock == lk_owner' = None /\ LkSem!V

lock_releaseMutant(t) ==
  /\ pc[t] \in {"in", "out"}
  /\ ReleaseLock
  /\ Goto(t, "out")
  /\ UNCHANGED <<cv_lock, cv_wchan>>

lock_release(t) ==
  /\ pc[t] = "in" /\ lk_owner = t
  /\ ReleaseLock
  /\ Goto(t, "out")
  /\ UNCHANGED <<cv_lock, cv_wchan>>

(* cv_wait: cv_lock, lock_release, wchan_sleep, which gives cv_lock up when *)
(* the caller is on the channel and takes it again after the wakeup.        *)
cv_waitMutant(t) ==
  /\ pc[t] = "in" /\ lk_owner = t
  /\ Goto(t, "wait_release")
  /\ UNCHANGED <<lk_sem, lk_waiting, lk_owner, cv_lock, cv_wchan>>

cv_wait(t) ==
  /\ pc[t] = "in" /\ lk_owner = t
  /\ cv_lock = None
  /\ cv_lock' = t
  /\ Goto(t, "wait_release")
  /\ UNCHANGED <<lk_sem, lk_waiting, lk_owner, cv_wchan>>

cv_wait_release(t) ==
  /\ pc[t] = "wait_release" /\ lk_owner = t
  /\ ReleaseLock
  /\ Goto(t, "wait_sleep")
  /\ UNCHANGED <<cv_lock, cv_wchan>>

cv_wait_sleep(t) ==
  /\ pc[t] = "wait_sleep"
  /\ cv_wchan' = Append(cv_wchan, t)
  /\ cv_lock' = None
  /\ Goto(t, "asleep")
  /\ UNCHANGED <<lk_sem, lk_waiting, lk_owner>>

cv_wait_woken(t) ==
  /\ pc[t] = "woken" /\ lk_owner # t
  /\ cv_lock = None
  /\ LkSem!CallP(t)
  /\ Goto(t, "P")
  /\ UNCHANGED <<lk_owner, cv_lock, cv_wchan>>

(* wchan_wakeone and wchan_wakeall on the channel of the cv.                *)
wchan_wakeone ==
  IF cv_wchan = << >>
  THEN UNCHANGED <<cv_wchan, pc>>
  ELSE /\ cv_wchan' = Tail(cv_wchan)
       /\ Goto(Head(cv_wchan), "woken")

OnChannel == {cv_wchan[i] : i \in DOMAIN cv_wchan}

wchan_wakeall ==
  /\ cv_wchan' = << >>
  /\ pc' = [t \in Threads |-> IF t \in OnChannel THEN "woken" ELSE pc[t]]

cv_signal(t) ==
  /\ pc[t] = "in" /\ lk_owner = t
  /\ cv_lock = None
  /\ wchan_wakeone
  /\ UNCHANGED <<lk_sem, lk_waiting, lk_owner, cv_lock>>

cv_broadcast(t) ==
  /\ pc[t] = "in" /\ lk_owner = t
  /\ cv_lock = None
  /\ wchan_wakeall
  /\ UNCHANGED <<lk_sem, lk_waiting, lk_owner, cv_lock>>

(* The steps the kernel takes by itself once a thread is inside a call.     *)
Progress(t) ==
  \/ lock_P(t) \/ lock_own(t)
  \/ cv_wait_release(t) \/ cv_wait_sleep(t) \/ cv_wait_woken(t)

Next ==
  \E t \in Threads :
    \/ lock_acquire(t) \/ lock_release(t)
    \/ cv_wait(t) \/ cv_signal(t) \/ cv_broadcast(t)
    \/ Progress(t)

(* A runnable thread gets the processor and the spinlocks in the end; the   *)
(* holder of the lock owes nobody to release it.                            *)
Spec == Init /\ [][Next]_vars /\ \A t \in Threads : WF_vars(Progress(t))

-----------------------------------------------------------------------------
Locations ==
  {"out", "P", "got", "in", "wait_release", "wait_sleep", "asleep", "woken"}

TypeOK ==
  /\ lk_sem \in 0 .. 1
  /\ lk_waiting \subseteq Threads
  /\ lk_owner \in Threads \cup {None}
  /\ cv_lock \in Threads \cup {None}
  /\ cv_wchan \in Seq(Threads)
  /\ pc \in [Threads -> Locations]

(* Threads that came out of P and have not called V.                        *)
Inside(t) == pc[t] \in {"got", "in", "wait_release"}

(* Only one thread can hold the lock at the same time; the window between P *)
(* and the assignment of lk_owner included, and the semaphore is up exactly *)
(* when nobody is inside.                                                   *)
MutualExclusion ==
  /\ \A t, u \in Threads : Inside(t) /\ Inside(u) => t = u
  /\ lk_sem = IF \E t \in Threads : Inside(t) THEN 0 ELSE 1

(* The assertions KASSERT(lk_owner == NULL) of lock_acquire and             *)
(* KASSERT(lock_do_i_hold(lock)) of the other operations hold: the owner    *)
(* field lags behind the semaphore by one critical section, never more.     *)
OwnerAssertions ==
  \A t \in Threads :
    /\ pc[t] = "got" => lk_owner = None
    /\ lk_owner = t <=> pc[t] \in {"in", "wait_release"}

(* No signal is lost: a thread in a position to signal or broadcast finds   *)
(* on the channel everybody who gave up the lock in cv_wait before it got   *)
(* the lock; nobody is still between lock_release and wchan_sleep.          *)
NoLostSignal ==
  \A t \in Threads : pc[t] = "in" /\ cv_lock = None =>
    \A u \in Threads : pc[u] \in {"wait_sleep", "asleep"} => u \in OnChannel

(* The operations are atomic: the code implements the monitor of synch.h,   *)
(* where giving up the lock and starting to wait is one step.               *)
Promise ==
  INSTANCE AtomicMonitor
    WITH owner    <- lk_owner,
         entering <- {t \in Threads : pc[t] \in {"P", "got", "woken"}},
         waiting  <- {t \in Threads : pc[t] \in {"wait_sleep", "asleep"}}

ImplementsMonitor == Promise!Spec

=============================================================================
