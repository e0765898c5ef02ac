----------------------------- MODULE MCCollector -----------------------------
(* Instances of Collector for TLC. *)
EXTENDS Collector

CONSTANTS main, t, s, f

\* The main thread's oop, a string, and either another thread, of a class
\* with a finalize() of its own, or an object of such a class.
ThreadHeap == {main, s, t}
FinalizerHeap == {main, s, f}
OneThread == {main}
TwoThreads == {main, t}
OneString == {s}
FinalizableThread == {t}
FinalizableObject == {f}
=============================================================================
