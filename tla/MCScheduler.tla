----------------------------- MODULE MCScheduler -----------------------------
(* Scheduler with a few threads.  Two processors have a thread each, so     *)
(* that it takes four for a queue of two to be shared out.                  *)
EXTENDS Scheduler, TLC

CONSTANTS t1, t2, t3, t4

ThreadsMC == {t1, t2, t3, t4}

(* For liveness, where symmetry is not sound, fewer programs: three threads *)
(* compute, the boot thread of the second processor also sleeps, nobody     *)
(* exits.  Thread structures are alike, so they are taken in order.         *)
LiveInit == Init /\ c_curthread[1] = t1 /\ c_curthread[2] = t2

LiveNext ==
  /\ Next
  /\ \A t \in Threads : t_state'[t] # "zombie" /\ (t_state'[t] = "sleep" => t = t2)
  /\ t_state'[t4] # "none" => t_state'[t3] # "none"

LiveSpec == LiveInit /\ [][LiveNext]_vars /\ Fairness

Symmetry == Permutations({t1, t2, t3, t4})

=============================================================================
