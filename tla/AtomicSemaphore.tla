--------------------------- MODULE AtomicSemaphore ---------------------------
(***************************************************************************)
(* What kern/include/synch.h promises of a semaphore: "Operations (both    *)
(* atomic): P (proberen): decrement count. If the count is 0, block until  *)
(* the count is 1 again before decrementing.  V (verhogen): increment      *)
(* count."                                                                 *)
(***************************************************************************)
EXTENDS Integers

CONSTANTS
  Threads,       (* threads that call P                                    *)
  initial_count  (* argument of sem_create                                 *)

VARIABLES
  count,         (* the value of the semaphore                             *)
  waiting        (* threads that have called P and not returned from it    *)

vars == <<count, waiting>>

Init == count = initial_count /\ waiting = {}

CallP(t) ==
  /\ t \notin waiting
  /\ waiting' = waiting \cup {t}
  /\ UNCHANGED count

ReturnP(t) ==
  /\ t \in waiting
  /\ count > 0
  /\ count' = count - 1
  /\ waiting' = waiting \ {t}

V ==
  /\ count' = count + 1
  /\ UNCHANGED waiting

Next == V \/ \E t \in Threads : CallP(t) \/ ReturnP(t)

(* A semaphore that is up never leaves all its callers blocked.             *)
Spec == Init /\ [][Next]_vars /\ WF_vars(\E t \in Threads : ReturnP(t))

=============================================================================
