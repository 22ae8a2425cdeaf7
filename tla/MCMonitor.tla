------------------------------ MODULE MCMonitor ------------------------------
(* Monitor with four threads that share a lock and a condition variable.    *)
EXTENDS Monitor

CONSTANTS t1, t2, t3, t4

ThreadsMC == {t1, t2, t3, t4}

=============================================================================
