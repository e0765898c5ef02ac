----------------------------- MODULE MCSafepoint -----------------------------
(* Three threads, one of them a daemon: instance of Safepoint for TLC. *)
EXTENDS Safepoint

CONSTANTS t1, t2, t3

ThreeThreads == {t1, t2, t3}
OneDaemon == {t2}
LeaveOnly == {"leave"}
=============================================================================
