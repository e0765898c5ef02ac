----------------------------- MODULE MCThreads -----------------------------
(* A main thread, a user thread and a daemon, for TLC. *)
EXTENDS Threads
CONSTANTS t1, t2, t3
=============================================================================
