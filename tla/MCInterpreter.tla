---------------------------- MODULE MCInterpreter ----------------------------
(* Instances of Interpreter for TLC. *)
EXTENDS Interpreter

ThreeFloats == {-1, 0, 1}

OneOfEach == [counter |-> [type |-> "I8", static |-> TRUE],
              next |-> [type |-> "REF", static |-> FALSE],
              ratio |-> [type |-> "F8", static |-> FALSE]]
FieldContents == [counter |-> 5, next |-> "object", ratio |-> 1]

TwoElements == [kind \in Kinds |-> IF kind = "ref" THEN <<"object", "null">>
                                   ELSE <<1, 0>>]

BoundaryLongs == {-128, -127, -16, -1, 0, 1, 100, 127}
FewConstants == [type \in Types |-> IF type \in Integral THEN {-1} ELSE
                                    IF type = "REF" THEN {"null"} ELSE {NaN}]

ThreeLookups == {<<>>, <<-2, 0, 3>>, <<7>>}
TwoTables == {<<-1, 1>>, <<3, 3>>}

-----------------------------------------------------------------------------
NoValue == Value("none", Unset)
Stack(values) == FoldLeft(LAMBDA st, v : Pushed(st, v.type, v.val), <<>>, values)
OnStack(values, n) == [slots |-> Stack(values),
                       locals |-> [i \in LocalIndex |-> NoValue],
                       readable |-> {}, budget |-> n]

\* Two integers, of all values; longs at the boundaries; floating-point numbers.
Arithmeticals == {<<Value("I4", a), Value("I4", b)>> : a, b \in Numbers(IntBits)}
    \cup {<<Value("I8", a), Value("I8", b)>> : a, b \in BoundaryLongs}
    \cup {<<Value("I8", a), Value("I4", b)>> : a \in BoundaryLongs, b \in Numbers(IntBits)}
    \cup {<<Value("F4", a), Value("F4", b)>> : a, b \in Data("F4")}
    \cup {<<Value("F8", a), Value("F8", b)>> : a, b \in Data("F8")}

\* What the array and field instructions find.
Accessed ==
    {<<Value("REF", r), Value("I4", i)>> : r \in Refs, i \in -1 .. 2}
    \cup {<<Value("REF", r), Value("I4", i), Value(type, IF type = "REF" THEN "object" ELSE 3)>> :
              r \in Refs, i \in -1 .. 2, type \in {"I4", "I8", "REF"}}
    \cup {<<Value("REF", r), Value(type, IF type = "REF" THEN r ELSE 1)>> :
              r \in Refs, type \in {"F4", "F8", "REF"}}

\* Every arrangement of values in up to five slots, the values all different.
Shapes == {shape \in UNION {[1 .. n -> {"I4", "I8", "REF"}] : n \in 1 .. 4} :
               WidthOf(shape) <= 5}
Different(shape) ==
    [i \in DOMAIN shape |-> Value(shape[i], IF shape[i] # "REF" THEN i
                                            ELSE <<"object", "int", "byte", "null">>[i])]

\* A method with a long and an int for its parameters.
Parameters(v, n) == [slots |-> <<>>,
                     locals |-> (0 :> Value("I8", v)) @@ (1 :> Half("I8"))
                                @@ (2 :> Value("I4", n)),
                     readable |-> {0, 2}, budget |-> 3]

Frames == {OnStack(values, 1) : values \in Arithmeticals \cup Accessed}
    \cup {OnStack(Different(shape), 2) : shape \in Shapes}
    \cup {Parameters(v, n) : v \in {100, -1}, n \in {7, -8}}
=============================================================================
