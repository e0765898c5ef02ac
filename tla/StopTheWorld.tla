---------------------------- MODULE StopTheWorld ----------------------------
(***************************************************************************)
(* What the collector of RexVM is promised by its safepoints, and nothing  *)
(* of how: while it collects, no VM thread is a mutator, i.e. executes     *)
(* interpreted or native code.  Safepoint.tla is the protocol of           *)
(* garbage_collect.cpp and thread.cpp that has to keep this promise;       *)
(* Collector.tla relies on it (its mutator moves only outside a cycle).    *)
(***************************************************************************)

CONSTANT Threads

VARIABLES mutators,     \* the threads that may touch the heap
          collecting    \* GarbageCollect::process is running

vars == <<mutators, collecting>>

Init == /\ mutators \in SUBSET Threads
        /\ collecting = FALSE

\* A thread starts, or leaves its safepoint.
Enter(t) == /\ ~collecting
            /\ mutators' = mutators \cup {t}
            /\ UNCHANGED collecting

\* A thread reaches a safepoint, or terminates.
Leave(t) == /\ mutators' = mutators \ {t}
            /\ UNCHANGED collecting

BeginCollect == /\ ~collecting
                /\ mutators = {}
                /\ collecting' = TRUE
                /\ UNCHANGED mutators

EndCollect == /\ collecting
              /\ collecting' = FALSE
              /\ UNCHANGED mutators

Next == \/ \E t \in Threads : Enter(t) \/ Leave(t)
        \/ BeginCollect
        \/ EndCollect

Spec == Init /\ [][Next]_vars
=============================================================================
