---------------------------- MODULE AtomicMonitor ----------------------------
(***************************************************************************)
(* What kern/include/synch.h promises of a lock and a condition variable   *)
(* used together: "Only one thread can hold the lock at the same time",    *)
(* cv_wait does "Release the supplied lock, go to sleep, and, after waking *)
(* up again, re-acquire the lock", and "These operations must be atomic":  *)
(* releasing the lock and becoming a waiter is a single step.              *)
(***************************************************************************)
EXTENDS Integers

CONSTANTS
  Threads,
  None           (* no thread                                              *)

VARIABLES
  owner,         (* the thread that holds the lock, or None                *)
  entering,      (* threads that want the lock                             *)
  waiting        (* threads that wait on the condition variable            *)

vars == <<owner, entering, waiting>>

Init == owner = None /\ entering = {} /\ waiting = {}

CallAcquire(t) ==
  /\ owner # t /\ t \notin entering \cup waiting
  /\ entering' = entering \cup {t}
  /\ UNCHANGED <<owner, waiting>>

Acquire(t) ==
  /\ owner = None /\ t \in entering
  /\ owner' = t
  /\ entering' = entering \ {t}
  /\ UNCHANGED waiting

Release(t) ==
  /\ owner = t
  /\ owner' = None
  /\ UNCHANGED <<entering, waiting>>

Wait(t) ==
  /\ owner = t
  /\ owner' = None
  /\ waiting' = waiting \cup {t}
  /\ UNCHANGED entering

(* One waiter goes for the lock again (Mesa semantics: the caller keeps it). *)
Signal(t) ==
  /\ owner = t
  /\ \E u \in waiting : waiting' = waiting \ {u} /\ entering' = entering \cup {u}
  /\ UNCHANGED owner

Broadcast(t) ==
  /\ owner = t
  /\ waiting' = {} /\ entering' = entering \cup waiting
  /\ UNCHANGED owner

(* A signal without effect is a stuttering step; that it happens only when  *)
(* nobody waits is NoLostSignal of module Monitor.                          *)
Next ==
  \E t \in Threads :
    CallAcquire(t) \/ Acquire(t) \/ Release(t) \/ Wait(t) \/ Signal(t) \/ Broadcast(t)

(* A free lock that somebody wants is taken in the end.                    *)
Spec == Init /\ [][Next]_vars /\ WF_vars(\E t \in Threads : Acquire(t))

=============================================================================
