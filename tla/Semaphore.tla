------------------------------ MODULE Semaphore ------------------------------
(***************************************************************************)
(* The semaphore of kern/thread/synch.c on the wait channel of             *)
(* kern/thread/thread.c.  sem_lock, held by every operation and handed to  *)
(* wchan_sleep, makes the test of the count and the enqueueing on the      *)
(* channel one step; a thread that is woken takes the lock again and tests *)
(* the count again, and a newcomer may have been faster.  V is also called *)
(* by interrupt handlers, so it has no thread.                             *)
(***************************************************************************)
EXTENDS Integers, Sequences, FiniteSets

CONSTANTS
  Threads,        (* threads that call P                                   *)
  initial_count,  (* argument of sem_create                                *)
  MaxCount        (* largest value of sem_count, an unsigned int: at the   *)
                  (* next V it wraps to 0 and the KASSERT of V panics      *)

ASSUME SemaphoreAssumption ==
  /\ IsFiniteSet(Threads)
  /\ MaxCount \in Nat
  /\ initial_count \in 0 .. MaxCount

VARIABLES
  sem_count,
  sem_wchan,      (* the threads asleep on the channel, in order           *)
  pc              (* thread -> "out", "enter": P before its first test,    *)
                  (* "asleep": in wchan_sleep, "woken": taken off the      *)
                  (* channel, about to take sem_lock and test again        *)

vars == <<sem_count, sem_wchan, pc>>

Init ==
  /\ sem_count = initial_count
  /\ sem_wchan = << >>
  /\ pc = [t \in Threads |-> "out"]

CallP(t) ==
  /\ pc[t] = "out"
  /\ pc' = [pc EXCEPT ![t] = "enter"]
  /\ UNCHANGED <<sem_count, sem_wchan>>

(* Holding sem_lock for the first time or again: the loop of P.             *)
Testing(t) == pc[t] \in {"enter", "woken"}

(* The test P makes, again after every wakeup.                              *)
MustSleepMutant(t) == sem_count = 0 /\ pc[t] = "enter"

MustSleep(t) == sem_count = 0

P_sleep(t) ==
  /\ Testing(t) /\ MustSleep(t)
  /\ sem_wchan' = Append(sem_wchan, t)
  /\ pc' = [pc EXCEPT ![t] = "asleep"]
  /\ UNCHANGED sem_count

P_take(t) ==
  /\ Testing(t) /\ ~ MustSleep(t)
  /\ sem_count' = sem_count - 1
  /\ pc' = [pc EXCEPT ![t] = "out"]
  /\ UNCHANGED sem_wchan

(* wchan_wakeone: the head of the channel becomes runnable, if there is one. *)
wchan_wakeoneMutant ==
  \/ /\ sem_wchan # << >> /\ sem_count = 0
     /\ pc' = [pc EXCEPT ![Head(sem_wchan)] = "woken"]
     /\ sem_wchan' = Tail(sem_wchan)
  \/ /\ sem_wchan = << >> \/ sem_count # 0
     /\ UNCHANGED <<pc, sem_wchan>>

wchan_wakeoneStaleHead ==
  \/ /\ sem_wchan # << >>
     /\ pc' = [pc EXCEPT ![Head(sem_wchan)] = "woken"]
     /\ UNCHANGED sem_wchan
  \/ /\ sem_wchan = << >>
     /\ UNCHANGED <<pc, sem_wchan>>

wchan_wakeone ==
  \/ /\ sem_wchan # << >>
     /\ pc' = [pc EXCEPT ![Head(sem_wchan)] = "woken"]
     /\ sem_wchan' = Tail(sem_wchan)
  \/ /\ sem_wchan = << >>
     /\ UNCHANGED <<pc, sem_wchan>>

V ==
  /\ sem_count < MaxCount
  /\ sem_count' = sem_count + 1
  /\ wchan_wakeone

Next == V \/ \E t \in Threads : CallP(t) \/ P_sleep(t) \/ P_take(t)

(* A thread in the loop of P gets the processor and sem_lock in the end.    *)
Spec == Init /\ [][Next]_vars /\ \A t \in Threads : WF_vars(P_sleep(t) \/ P_take(t))

-----------------------------------------------------------------------------
TypeOK ==
  /\ sem_count \in 0 .. MaxCount
  /\ sem_wchan \in Seq(Threads)
  /\ pc \in [Threads -> {"out", "enter", "asleep", "woken"}]

(* The channel holds the sleeping threads, each once: nobody sleeps where   *)
(* no V can find them.                                                      *)
ChannelIsSleepers ==
  /\ \A t \in Threads : pc[t] = "asleep" <=> \E i \in DOMAIN sem_wchan : sem_wchan[i] = t
  /\ \A i, j \in DOMAIN sem_wchan : sem_wchan[i] = sem_wchan[j] => i = j

Woken == {t \in Threads : pc[t] = "woken"}

(* No wakeup is lost: while threads sleep, every unit of the count has a    *)
(* woken thread on its way to it, although newcomers may take units that a  *)
(* V has woken a sleeper for.                                               *)
NoLostWakeup == sem_wchan # << >> => sem_count <= Cardinality(Woken)

(* P and V are the atomic operations synch.h promises, and a semaphore that *)
(* is up serves somebody who waits.                                         *)
Waiting == {t \in Threads : pc[t] # "out"}

Atomic == INSTANCE AtomicSemaphore WITH count <- sem_count, waiting <- Waiting

ImplementsAtomic == Atomic!Spec

=============================================================================
