----------------------------- MODULE MCFinalizer -----------------------------
(* The handshake of Safepoint with its finalizer, for TLC. *)
EXTENDS Finalizer

CONSTANTS t1, f, o1

WholeHandshake == {"pred", "block", "woken", "leave"}
=============================================================================
