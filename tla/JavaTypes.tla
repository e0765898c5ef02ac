------------------------------- MODULE JavaTypes -------------------------------
(***************************************************************************)
(* The values of the Java virtual machine, small: the widths of the        *)
(* integers are parameters, floating-point numbers are a few numbers of    *)
(* which only the order matters, references are names.                     *)
(***************************************************************************)
EXTENDS Integers, Sequences

CONSTANTS ByteBits, ShortBits, IntBits, LongBits,
          Floats,     \* the floating-point numbers, 0 is one of them
          NaN,
          Fields,     \* name |-> [type, static]
          MaxLocals   \* local variables of the method

PowersOfTwo == {2 ^ k : k \in 0 .. 6}

\* Shift distances are masked, which is "mod" for powers of two only.
ASSUME WidthsAssumption ==
    /\ {IntBits, LongBits} \subseteq PowersOfTwo
    /\ 0 < ByteBits /\ ByteBits < ShortBits
    /\ ShortBits < IntBits /\ IntBits < LongBits

ASSUME FloatsAssumption == Floats \subseteq Int /\ 0 \in Floats /\ NaN \notin Floats

Integral == {"I4", "I8"}
Floating == {"F4", "F8"}
Numeric == Integral \cup Floating
Types == Numeric \cup {"REF"}
Wide(type) == type \in {"I8", "F8"}

Numbers(bits) == -(2 ^ (bits - 1)) .. 2 ^ (bits - 1) - 1
Bits(type) == IF type = "I4" THEN IntBits ELSE LongBits

\* The kinds of arrays, and the type their elements are loaded as.
Kinds == {"byte", "char", "short", "int", "long", "float", "double", "ref"}
Loaded(kind) == CASE kind = "long" -> "I8" [] kind = "float" -> "F4"
                  [] kind = "double" -> "F8" [] kind = "ref" -> "REF"
                  [] OTHER -> "I4"

\* There is one object that is no array, and one array of each kind.
Null == "null"
Refs == {Null, "object"} \cup Kinds
OfKind(ref, kind) == ref \in {Null, kind}
IsObject(ref) == ref \in {Null, "object"}

Data(type) == CASE type \in Integral -> Numbers(Bits(type))
                [] type \in Floating -> Floats \cup {NaN}
                [] type = "REF" -> Refs

Value(type, v) == [type |-> type, val |-> v]
LocalIndex == 0 .. MaxLocals - 1
Conditions == {"eq", "ne", "lt", "ge", "gt", "le"}

\* The operators of integers and of floating-point numbers.
Shifts == {"shl", "shr", "ushr"}
BitOperations == {"and", "or", "xor"}
Divisions == {"div", "rem"}
Operations == {"add", "sub", "mul"} \cup Divisions

\* What i2l, f2d, i2b ... convert from and to.
Conversions == {c \in Numeric \X Numeric : c[1] # c[2]}
                   \cup ({"I4"} \X {"byte", "char", "short"})
=============================================================================
