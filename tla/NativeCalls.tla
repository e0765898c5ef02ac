----------------------------- MODULE NativeCalls -----------------------------
(***************************************************************************)
(* A native of native/core is a short piece of C++ made of the same few    *)
(* calls: find a class, make a mirror, intern a string, run Java code.     *)
(* Each of them takes a lock and may make others in turn.  A native has    *)
(* here the sequence of the calls it still has to make, the next one       *)
(* first; a call that makes others puts them in front.                     *)
(*                                                                         *)
(* Java code that a native runs calls natives again.  <<t, n>> is the n-th *)
(* of the levels of natives nested so in thread t, each with the frames of *)
(* the Java code that calls it; the modules call it t for short.           *)
(*                                                                         *)
(* Objects, of which only mirrors and pooled strings are modelled, are     *)
(* what a call returns: they are kept by the C++ variables of the native   *)
(* until it ends and by the Java frame of its caller from then on.         *)
(***************************************************************************)
EXTENDS Naturals, Sequences

CONSTANTS Threads, None,
          MaxCalls,   \* bounds the natives called
          MaxDepth    \* bounds how deep they nest

Levels == Threads \X (1 .. MaxDepth)

\* t is a level of the Java code that the native of o runs, or a deeper one.
Inside(t, o) == t[1] = o[1] /\ t[2] > o[2]

VARIABLES
    todo,    \* what is left of the native of each level
    found,   \* the class its last getClass returned
    got,     \* objects in its C++ variables
    held,    \* objects in the Java frames that call it
    heap,    \* objects that are not deleted
    refs,    \* the objects a mirror refers to
    calls    \* natives called so far

ASSUME CallsAssumption == None \notin Levels /\ MaxCalls \in Nat /\ MaxDepth \in Nat

callVars == <<todo, found, got, held, heap, refs, calls>>

\* A class, a member of a class, a constant pool or a string, by its name;
\* classes of one name are told apart by their copy.
Entity(name) == [name |-> name, copy |-> 1]
NoEntity == [name |-> "", copy |-> 0]

\* The object made for an entity, the n-th of those alive.
Oop(e, n) == [of |-> e, n |-> n]
FreshOop(e) == Oop(e, CHOOSE n \in 1 .. 3 : Oop(e, n) \notin heap)

\* The function f, with one more argument.
Extend(f, x, value) == [y \in DOMAIN f \cup {x} |-> IF y = x THEN value ELSE f[y]]

\* A call; its result goes to the C++ variables of the native, or to a field
\* of the mirror that is made for the entity into.
Step(do, e, into) == [do |-> do, of |-> e, into |-> into]

CallInit ==
    /\ todo = [t \in Levels |-> <<>>]
    /\ found = [t \in Levels |-> NoEntity]
    /\ got = [t \in Levels |-> {}]
    /\ held = [t \in Levels |-> {}]
    /\ heap = {}
    /\ refs = <<>>
    /\ calls = 0

Next1(t, do) == todo[t] # <<>> /\ Head(todo[t]).do = do
Here(t) == Head(todo[t])

\* The call is over, or makes the calls of more first.
Continue(t, more) == todo' = [todo EXCEPT ![t] = more \o Tail(@)]

\* The call returns an object: no other mirror is made before it is stored.
Returns(t, mirOop, o) ==
    LET into == Here(t).into
    IN IF into = NoEntity
       THEN /\ got' = [got EXCEPT ![t] = @ \cup {o}]
            /\ refs' = refs
       ELSE /\ refs' = [refs EXCEPT ![mirOop[into]] = @ \cup {o}]
            /\ got' = got

-----------------------------------------------------------------------------

\* The interpreter calls a native, on behalf of Java code that the natives
\* around it run.
Call(t, body) == /\ todo[t] = <<>>
                 /\ \A o \in Levels : Inside(t, o) => Next1(o, "java")
                 /\ calls < MaxCalls
                 /\ calls' = calls + 1
                 /\ todo' = [todo EXCEPT ![t] = body]
                 /\ UNCHANGED <<found, got, held, heap, refs>>

\* frame.returnRef: the result, with what it refers to, is in the operand
\* stack of the caller.
Return(t) == /\ Next1(t, "return")
             /\ held' = [held EXCEPT ![t] = @ \cup got[t]]
             /\ got' = [got EXCEPT ![t] = {}]
             /\ found' = [found EXCEPT ![t] = NoEntity]
             /\ Continue(t, <<>>)
             /\ UNCHANGED <<heap, refs, calls>>

\* Java code called from C++ (clinit, runMethodManual) returns or throws;
\* its frames are gone.
RunJava(t) == /\ Next1(t, "java")
              /\ \A u \in Levels : Inside(u, t) => todo[u] = <<>>
              /\ held' = [u \in Levels |-> IF Inside(u, t) THEN {} ELSE held[u]]
              /\ Continue(t, <<>>)
              /\ UNCHANGED <<found, got, heap, refs, calls>>

\* Java code forgets an object.
Forget(t) == /\ todo[t] = <<>>
             /\ \E o \in held[t] : held' = [held EXCEPT ![t] = @ \ {o}]
             /\ UNCHANGED <<todo, found, got, heap, refs, calls>>
=============================================================================
