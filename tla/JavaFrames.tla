------------------------------ MODULE JavaFrames ------------------------------
(***************************************************************************)
(* What the frames of one thread promise to the code that runs in them:    *)
(* every method has locals and an operand stack of its own, a call passes  *)
(* operands as the callee's first locals, a return pushes one value, and   *)
(* an exception discards operands.  Nothing else of a caller changes       *)
(* while its callees run.                                                  *)
(*                                                                         *)
(* FrameStack.tla, where all frames share one array, implements this.      *)
(***************************************************************************)
EXTENDS Naturals, Sequences, SequencesExt

CONSTANTS Values,     \* what a slot holds
          Undefined,  \* a local that has not been stored to
          MaxLocals   \* bound: locals of a method

VARIABLE stack        \* sequence of [native, locals, operands], the last runs

Init == stack = <<>>

Top == Last(stack)
Callers == Front(stack)
Running(locals, operands) ==
    stack' = Append(Callers, [Top EXCEPT !.locals = locals, !.operands = operands])

\* A callee: its locals are the arguments, then some that hold nothing.
Entry(args, n, native) == [native |-> native,
                           locals |-> args \o [i \in 1 .. n |-> Undefined],
                           operands |-> <<>>]

Push(v) == stack # <<>> /\ Running(Top.locals, Append(Top.operands, v))

Pop == /\ stack # <<>>
       /\ Top.operands # <<>>
       /\ Running(Top.locals, Front(Top.operands))

Load(i) == /\ stack # <<>>
           /\ i \in DOMAIN Top.locals
           /\ Top.locals[i] # Undefined
           /\ Push(Top.locals[i])

Store(i) == /\ stack # <<>>
            /\ i \in DOMAIN Top.locals
            /\ Top.operands # <<>>
            /\ Running([Top.locals EXCEPT ![i] = Last(Top.operands)],
                       Front(Top.operands))

\* A call that takes its k arguments from the operands.
Call(k, n, native) ==
    /\ stack # <<>>
    /\ k <= Len(Top.operands)
    /\ LET rest == Len(Top.operands) - k
           caller == [Top EXCEPT !.operands = SubSeq(@, 1, rest)]
           args == SubSeq(Top.operands, rest + 1, rest + k)
       IN  stack' = Append(Append(Callers, caller), Entry(args, n, native))

\* A call by C++ code, which brings the arguments along.
CallWith(args, n, native) == stack' = Append(stack, Entry(args, n, native))

\* The end of a method without a result, or whose result is taken by the
\* C++ code that called it.
Return == stack # <<>> /\ stack' = Callers

\* The caller gets the callee's last operand, from a native method any value.
ReturnValue(v) ==
    /\ Len(stack) > 1
    /\ Top.native \/ (Top.operands # <<>> /\ v = Last(Top.operands))
    /\ stack' = Append(Front(Callers),
                       [Last(Callers) EXCEPT !.operands = Append(@, v)])

\* An exception makes the frame that runs lose its operands.
Throw == stack # <<>> /\ Running(Top.locals, <<>>)

\* It leaves the frame; a caller that stops too loses its operands.
Unwind == /\ stack # <<>>
          /\ \/ stack' = Callers
             \/ /\ Len(stack) > 1
                /\ stack' = Append(Front(Callers),
                                   [Last(Callers) EXCEPT !.operands = <<>>])

\* Nobody catches it: a method reports it, and the first frame is over.
Report(v, n) == /\ Len(stack) = 1
                /\ stack' = <<[Top EXCEPT !.operands = <<>>], Entry(<<v>>, n, FALSE)>>

Catch(v) == stack # <<>> /\ Running(Top.locals, <<v>>)

Next == \/ \E v \in Values : Push(v) \/ Catch(v) \/ ReturnValue(v)
        \/ Pop
        \/ \E i \in 1 .. (IF stack = <<>> THEN 0 ELSE Len(Top.locals)) :
               Load(i) \/ Store(i)
        \/ \E v \in Values, n \in 0 .. MaxLocals : Report(v, n)
        \/ \E n \in 0 .. MaxLocals, native \in BOOLEAN :
               \/ \E k \in 0 .. MaxLocals : Call(k, n, native)
               \/ \E args \in BoundedSeq(Values, MaxLocals) :
                      CallWith(args, n, native)
        \/ Return
        \/ Throw
        \/ Unwind

Spec == Init /\ [][Next]_stack
=============================================================================
