---------------------------- MODULE MCClassInit -----------------------------
(* A class and its subclass, which is a Thread class; both have a <clinit>  *)
(* that may use either of them.                                             *)
EXTENDS ClassInit, TLC

CONSTANTS t1, t2, Base, Sub

ClassSet == {Base, Sub}
SuperOf == Sub :> Base
=============================================================================
