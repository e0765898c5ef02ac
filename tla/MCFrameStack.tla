---------------------------- MODULE MCFrameStack ----------------------------
(* Instances of FrameStack for TLC. *)
EXTENDS FrameStack

CONSTANTS a, b

TwoOops == {a, b}

JavaMethod(params, locals, returns) == [params |-> params, locals |-> locals,
                                  returns |-> returns, native |-> FALSE]
NativeMethod(params, returns) == [params |-> params, locals |-> params,
                                  returns |-> returns, native |-> TRUE]

\* <clinit> or run() with a local that is no parameter, printStackTrace, a
\* method with two arguments and a result, a native method.
FourMethods == {JavaMethod(0, 1, FALSE), JavaMethod(1, 1, FALSE),
                JavaMethod(2, 2, TRUE), NativeMethod(1, TRUE)}
=============================================================================
