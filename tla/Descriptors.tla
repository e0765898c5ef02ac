----------------------------- MODULE Descriptors -----------------------------
(***************************************************************************)
(* Descriptors of fields and methods, of descriptor_parser.cpp and         *)
(* class_utils.cpp, and the tables of basic_type.cpp, over sequences of    *)
(* tokens (a letter, a bracket, a semicolon, or a part of the name of a    *)
(* class).                                                                 *)
(***************************************************************************)
EXTENDS Naturals, Sequences, SequencesExt

\* getPrimitiveClassNameByDescriptor
PrimitiveName == [Z |-> "boolean", B |-> "byte", C |-> "char", S |-> "short", I |-> "int",
                  J |-> "long", F |-> "float", D |-> "double", V |-> "void"]

\* getSlotTypeByPrimitiveClassName
SlotTypeOfClass(name) ==
    CASE name \in {<<"boolean">>, <<"byte">>, <<"short">>, <<"int">>, <<"char">>} -> "I4"
      [] name = <<"long">> -> "I8"
      [] name = <<"float">> -> "F4"
      [] name = <<"double">> -> "F8"
      [] name = <<"void">> -> "NONE"
      [] OTHER -> "REF"

\* getSlotTypeByDescriptorFirstChar
SlotTypeOfDescriptor(first) ==
    CASE first = "J" -> "I8"
      [] first = "F" -> "F4"
      [] first = "D" -> "F8"
      [] first \in {"L", "["} -> "REF"
      [] OTHER -> "I4"

WideSlot == {"I8", "F8"}

\* std::string_view::find, from position i on.
Find(d, token, i) ==
    CHOOSE k \in i .. Len(d) : d[k] = token /\ \A j \in i .. k - 1 : d[j] # token

\* How many brackets d begins with.
Brackets(d) == CHOOSE k \in 1 .. Len(d) - 1 : d[k + 1] # "[" /\ \A j \in 1 .. k : d[j] = "["

\* getSingleDescriptor: the length of the first type in d, its slots, and
\* what it is.  The name of a class begins at the second token, where a
\* semicolon cannot be.
SingleDescriptor(d) ==
    CASE d[1] \in {"B", "C", "S", "F", "I", "Z", "V"} ->
             [size |-> 1, slots |-> 1, type |-> "primitive"]
      [] d[1] \in {"J", "D"} -> [size |-> 1, slots |-> 2, type |-> "primitive"]
      [] d[1] = "L" -> [size |-> Find(d, ";", 3), slots |-> 1, type |-> "class"]
      [] d[1] = "[" ->
             LET n == Brackets(d)
             IN [size |-> IF d[n + 1] = "L" THEN Find(d, ";", n + 1) ELSE n + 1,
                 slots |-> 1, type |-> "array"]

From(d, i) == SubSeq(d, i, Len(d))

NameOf(d, one) == CASE one.type = "primitive" -> <<PrimitiveName[d[1]]>>
                    [] one.type = "class" -> SubSeq(d, 2, one.size - 1)
                    [] one.type = "array" -> SubSeq(d, 1, one.size)

\* How d is read, one type after the other: what is left of it, the names and
\* the slots so far.
TypesIn(d) ==
    LET after[k \in 0 .. Len(d)] ==
            IF k = 0 THEN [left |-> d, names |-> <<>>, slots |-> 0]
            ELSE LET before == after[k - 1]
                     one == SingleDescriptor(before.left)
                 IN IF before.left = <<>> THEN before
                    ELSE [left |-> From(before.left, one.size + 1),
                          names |-> Append(before.names, NameOf(before.left, one)),
                          slots |-> before.slots + one.slots]
    IN after[Len(d)]

\* parseDescriptor
ParseDescriptor(d) == TypesIn(d).names

\* parseMethodDescriptor
ParseMethodDescriptor(d) ==
    LET begin == Find(d, "(", 1)
        end == Find(d, ")", 1)
    IN [params |-> ParseDescriptor(SubSeq(d, begin + 1, end - 1)),
        returns |-> ParseDescriptor(From(d, end + 1))[1]]

\* getMethodParamSlotSizeFromDescriptor
SlotsOf(d) == TypesIn(d).slots
ParamSlotSizeFromDescriptor(d, static) ==
    (IF static THEN 0 ELSE 1) + SlotsOf(SubSeq(d, Find(d, "(", 1) + 1, Find(d, ")", 1) - 1))

\* getClassNameByFieldDescriptor
ClassNameByFieldDescriptor(d) ==
    CASE d[1] = "[" -> d
      [] d[1] = "L" -> SubSeq(d, 2, Len(d) - 1)
      [] OTHER -> <<PrimitiveName[d[1]]>>
=============================================================================
