------------------------------ MODULE MCMonitor ------------------------------
(* Instances of Monitor for TLC. *)
EXTENDS Monitor

CONSTANTS t1, t2, m1, m2

TwoThreads == {t1, t2}
TwoMonitors == {m1, m2}
=============================================================================
