----------------------------- MODULE MCSemaphore -----------------------------
(* Semaphore with four threads that call P.                                 *)
EXTENDS Semaphore

CONSTANTS t1, t2, t3, t4

ThreadsMC == {t1, t2, t3, t4}

=============================================================================
