------------------------------ MODULE Interpreter ------------------------------
(***************************************************************************)
(* The instruction handlers of interpreter.cpp that compute, move values   *)
(* and branch, over the operand stack and the local variables of a frame   *)
(* as RexVM has them: an array of slots, each with the type it was written *)
(* with.  A long or a double takes two, the value and a second half, in    *)
(* the code a 0 that looks like any other slot of its type.                *)
(* The handlers do not look at the types; that they fit is what a bytecode *)
(* verifier guarantees, and here the guards Verified, Boundary and         *)
(* "readable".                                                             *)
(*                                                                         *)
(* Undefined behaviour is a step that sets crashed, after which nothing    *)
(* is said.                                                                *)
(***************************************************************************)
EXTENDS JavaTypes, SequencesExt

CONSTANTS Literals,      \* type |-> constants in the code
          Lookups,       \* keys of the lookupswitch instructions
          Tables,        \* <<low, high>> of the tableswitch instructions
          InitialFrames, \* [slots, locals, readable, budget] to start from
          InitialArrays, \* kind |-> contents
          InitialFields  \* name |-> content

VARIABLES slots,    \* the operand stack: sequence of [type, val] and [half]
          locals,   \* local variable |-> [type, val] or [half]
          readable, \* where the verifier lets the code load from
          arrays, fields,
          opcode,   \* the instruction executed last
          jump,     \* 0 if it went on, else the number of its branch
          thrown,   \* what it threw
          crashed,  \* it was undefined behaviour
          budget    \* instructions still to be executed (a bound of the model)

memory == <<locals, readable, arrays, fields>>
vars == <<slots, memory, opcode, jump, thrown, crashed, budget>>

-----------------------------------------------------------------------------
(* Slots *)

Half(type) == [half |-> type]
IsHalf(slot) == "half" \in DOMAIN slot
IsFirst(slot) == ~IsHalf(slot) /\ Wide(slot.type)

\* Two slots of one wide value.
Pair(first, second) == IsFirst(first) /\ second = Half(first.type)

\* On a stack, and in the local variables one may load from, the halves of
\* wide values are next to each other.
PairedStack(stack) ==
    \A i \in DOMAIN stack :
        /\ IsFirst(stack[i]) => i < Len(stack) /\ Pair(stack[i], stack[i + 1])
        /\ IsHalf(stack[i]) => i > 1 /\ Pair(stack[i - 1], stack[i])
PairedLocals(variables, from) ==
    \A i \in from : /\ ~IsHalf(variables[i])
                    /\ IsFirst(variables[i]) => /\ i + 1 \in LocalIndex
                                               /\ Pair(variables[i], variables[i + 1])

\* The frames verified code starts with: whole values.
ASSUME FramesAssumption ==
    \A frame \in InitialFrames :
        /\ frame.slots \in Seq(Range(frame.slots))
        /\ PairedStack(frame.slots)
        /\ frame.locals = [i \in LocalIndex |-> frame.locals[i]]
        /\ frame.readable \subseteq LocalIndex
        /\ PairedLocals(frame.locals, frame.readable)

Init ==
    /\ \E frame \in InitialFrames : /\ slots = frame.slots
                                    /\ locals = frame.locals
                                    /\ readable = frame.readable
                                    /\ budget = frame.budget
    /\ arrays = InitialArrays
    /\ fields = InitialFields
    /\ opcode = <<"nop">>
    /\ jump = 0
    /\ thrown = "nothing"
    /\ crashed = FALSE

Slot(k) == slots[Len(slots) + 1 - k]
Below(k) == SubSeq(slots, 1, Len(slots) - k)

\* What push leaves on a stack: a wide value has a second half.
Pushed(stack, type, v) ==
    stack \o IF Wide(type) THEN <<Value(type, v), Half(type)>> ELSE <<Value(type, v)>>

\* The slots of the first k of these types.
WidthTo(types, k) == k + Cardinality({i \in 1 .. k : Wide(types[i])})
WidthOf(types) == WidthTo(types, Len(types))

\* After the pops of values of these types, first popped first: the k-th
\* value, and what is left.
Popped(types, k) == Slot(WidthTo(types, k)).val
Left(types) == Below(WidthOf(types))

\* What the verifier has proved: that no value reaches across the k-th slot,
\* and the types on top of the stack.
Boundary(k) == k <= Len(slots) /\ ~IsHalf(Slot(k))
Verified(types) ==
    \A k \in DOMAIN types : LET first == WidthTo(types, k)
                            IN  Boundary(first) /\ Slot(first).type = types[k]

Continue == jump' = 0 /\ UNCHANGED <<thrown, crashed>>

\* The handler pops, and pushes one result.
Gives(types, type, v) == /\ slots' = Pushed(Left(types), type, v)
                         /\ Continue
                         /\ UNCHANGED memory

Throw(types, what) == /\ slots' = Left(types)
                      /\ thrown' = what
                      /\ jump' = 0
                      /\ UNCHANGED <<memory, crashed>>

Crash == crashed' = TRUE /\ UNCHANGED <<slots, memory, opcode, jump, thrown>>

\* The instruction that is executed.
Code(instruction) == opcode' = instruction

-----------------------------------------------------------------------------
(* Constants and local variables *)

Const(type, v) == Code(<<"const", type, v>>) /\ Gives(<<>>, type, v)

PushLocal(i) == /\ slots' = Append(slots, locals[i])
                /\ Continue
                /\ UNCHANGED memory

PushLocalWide(i) == /\ slots' = slots \o <<locals[i], locals[i + 1]>>
                    /\ Continue
                    /\ UNCHANGED memory

Load(i) == /\ i \in readable
           /\ Code(<<"load", i>>)
           /\ IF Wide(locals[i].type) THEN PushLocalWide(i) ELSE PushLocal(i)

PopLocal(i) == /\ locals' = [locals EXCEPT ![i] = Slot(1)]
               /\ slots' = Below(1)

PopLocalWide(i) == /\ locals' = [locals EXCEPT ![i] = Slot(2), ![i + 1] = Slot(1)]
                   /\ slots' = Below(2)

\* For the verifier half of a value that is overwritten is gone, too.
Store(i) ==
    /\ slots # <<>>
    /\ Code(<<"store", i>>)
    /\ LET wide == IsHalf(Slot(1))
           torn == {j \in readable : j = i - 1 /\ Wide(locals[j].type)}
       IN  /\ wide => i + 1 \in LocalIndex
           /\ IF wide THEN PopLocalWide(i) ELSE PopLocal(i)
           /\ readable' = ((readable \ torn) \ {j \in {i + 1} : wide}) \cup {i}
    /\ Continue
    /\ UNCHANGED <<arrays, fields>>

-----------------------------------------------------------------------------
(* StackContext: they move slots and know nothing of wide values *)

Shuffle(name, boundaries, taken, given) ==
    /\ \A k \in boundaries : Boundary(k)
    /\ Code(<<name>>)
    /\ slots' = Below(taken) \o [i \in DOMAIN given |-> Slot(given[i])]
    /\ Continue
    /\ UNCHANGED memory

\* dup2_x1 with its first two pushes exchanged.
Dup2X1Swapped == Shuffle("dup2_x1", {2, 3}, 3, <<1, 2, 3, 2, 1>>)

Pop == Shuffle("pop", {1}, 1, <<>>)
Pop2 == Shuffle("pop2", {2}, 2, <<>>)
Dup == Shuffle("dup", {1}, 1, <<1, 1>>)
DupX1 == Shuffle("dup_x1", {1, 2}, 2, <<1, 2, 1>>)
DupX2 == Shuffle("dup_x2", {1, 3}, 3, <<1, 3, 2, 1>>)
Dup2 == Shuffle("dup2", {2}, 2, <<2, 1, 2, 1>>)
Dup2X1 == Shuffle("dup2_x1", {2, 3}, 3, <<2, 1, 3, 2, 1>>)
Dup2X2 == Shuffle("dup2_x2", {2, 4}, 4, <<2, 1, 4, 3, 2, 1>>)
SwapTop == Shuffle("swap", {1, 2}, 2, <<1, 2>>)

-----------------------------------------------------------------------------
(* Integers *)

Unsigned(n, bits) == n % 2 ^ bits
Signed(n, bits) == IF Unsigned(n, bits) < 2 ^ (bits - 1) THEN Unsigned(n, bits)
                   ELSE Unsigned(n, bits) - 2 ^ bits

\* A word as the set of the places where it has a 1.
Ones(n, bits) == {k \in 0 .. bits - 1 : (n \div 2 ^ k) % 2 = 1}
Word(ones) == MapThenSumSet(LAMBDA k : 2 ^ k, ones)

Result(op, a, b, bits) ==
    LET ua == Unsigned(a, bits)
        ub == Unsigned(b, bits)
        x == Ones(ua, bits)
        y == Ones(ub, bits)
    IN  Signed(CASE op = "add" -> ua + ub [] op = "sub" -> ua - ub
                 [] op = "mul" -> ua * ub [] op = "and" -> Word(x \cap y)
                 [] op = "or" -> Word(x \cup y) [] op = "xor" -> Word(SymDiff(x, y)), bits)

Compute(type, op) ==
    LET args == <<type, type>>
    IN  /\ Verified(args)
        /\ Code(<<"compute", type, op>>)
        /\ Gives(args, type, Result(op, Popped(args, 2), Popped(args, 1), Bits(type)))

\* C++ truncates.  MIN / -1 and MIN % -1 are undefined: they trap on amd64
\* and give MIN and 0 on aarch64.
Truncated(a, b) == LET q == (IF a < 0 THEN -a ELSE a) \div (IF b < 0 THEN -b ELSE b)
                   IN  IF (a < 0) <=> (b < 0) THEN q ELSE -q

Divide(type, op) ==
    LET args == <<type, type>>
        a == Popped(args, 2)
        b == Popped(args, 1)
        quotient == Truncated(a, b)
        result == IF op = "div" THEN quotient ELSE a - b * quotient
    IN  /\ Verified(args)
        /\ \/ /\ b = 0
              /\ Code(<<"compute", type, op>>)
              /\ Throw(args, "ArithmeticException")
           \/ /\ b # 0
              /\ Code(<<"compute", type, op>>)
              /\ Gives(args, type, Signed(result, Bits(type)))
           \/ b # 0 /\ quotient \notin Data(type) /\ Crash

\* A negation that overflows is undefined and wraps in every build.
Negate(type) == /\ Verified(<<type>>)
                /\ Code(<<"neg", type>>)
                /\ Gives(<<type>>, type, Signed(-Popped(<<type>>, 1), Bits(type)))

\* s & (bits - 1)
Masked(s, bits) == Word(Ones(Unsigned(s, IntBits), IntBits) \cap Ones(bits - 1, IntBits))

Shifted(op, a, s, bits) == CASE op = "shl" -> Signed(a * 2 ^ s, bits)
                             [] op = "shr" -> a \div 2 ^ s
                             [] op = "ushr" -> Signed(Unsigned(a, bits) \div 2 ^ s, bits)

\* The distance of a long masked like that of an int.
ShiftMaskedAsInt(type, op) ==
    LET args == <<"I4", type>>
        s == Masked(Popped(args, 1), IntBits)
    IN  /\ Verified(args)
        /\ Code(<<"compute", type, op>>)
        /\ Gives(args, type, Shifted(op, Popped(args, 2), s, Bits(type)))

Shift(type, op) ==
    LET args == <<"I4", type>>
        s == Masked(Popped(args, 1), Bits(type))
    IN  /\ Verified(args)
        /\ Code(<<"compute", type, op>>)
        /\ Gives(args, type, Shifted(op, Popped(args, 2), s, Bits(type)))

\* iinc, also wide.
Increment(i, n) ==
    /\ i \in readable /\ locals[i].type = "I4"
    /\ Code(<<"iinc", i, n>>)
    /\ locals' = [locals EXCEPT ![i] = Value("I4", Signed(@.val + n, IntBits))]
    /\ Continue
    /\ UNCHANGED <<slots, readable, arrays, fields>>

-----------------------------------------------------------------------------
(* Floating point: only the order of numbers is modelled *)

FloatCompute(type, op) ==
    LET args == <<type, type>>
    IN  /\ Verified(args)
        /\ Code(<<"compute", type, op>>)
        /\ IF op \in Divisions /\ Popped(args, 1) = 0
           THEN Throw(args, "ArithmeticException")
           ELSE \E v \in Data(type) : Gives(args, type, v)

FloatNegate(type) == /\ Verified(<<type>>)
                     /\ Code(<<"neg", type>>)
                     /\ \E v \in Data(type) : Gives(<<type>>, type, v)

\* i2l, l2i, i2b, i2c, i2s; those from and to floating-point numbers.
Cast(n, to) == CASE to = "I8" -> n
                 [] to = "I4" -> Signed(n, IntBits)
                 [] to = "byte" -> Signed(n, ByteBits)
                 [] to = "char" -> Unsigned(n, ShortBits)
                 [] to = "short" -> Signed(n, ShortBits)

Convert(from, to) ==
    LET n == Popped(<<from>>, 1)
    IN  /\ Verified(<<from>>)
        /\ Code(<<"convert", from, to>>)
        /\ IF {from, to} \cap Floating = {}
           THEN Gives(<<from>>, IF to = "I8" THEN "I8" ELSE "I4", Cast(n, to))
           ELSE \E v \in Data(to) : Gives(<<from>>, to, v)

\* lcmp, and fcmp_, dcmp_ with the default for operands that do not compare.
Compare(type, default) ==
    LET args == <<type, type>>
        a == Popped(args, 2)
        b == Popped(args, 1)
    IN  /\ Verified(args)
        /\ Code(<<"cmp", type, default>>)
        /\ Gives(args, "I4", IF NaN \in {a, b} THEN default
                             ELSE IF a > b THEN 1 ELSE IF a = b THEN 0 ELSE -1)

-----------------------------------------------------------------------------
(* Branches *)

\* The handler pops values of these types, and jumps if the target is not 0.
Branch(types, target) == /\ slots' = Left(types)
                         /\ jump' = target
                         /\ UNCHANGED <<memory, thrown, crashed>>

Nop == Code(<<"nop">>) /\ Branch(<<>>, 0)
Goto == Code(<<"goto">>) /\ Branch(<<>>, 1)

Ordered(cond, a, b) == CASE cond = "lt" -> a < b [] cond = "ge" -> a >= b
                         [] cond = "gt" -> a > b [] cond = "le" -> a <= b
Test(cond, a, b) == IF cond \in {"eq", "ne"} THEN (a = b) <=> (cond = "eq")
                    ELSE Ordered(cond, a, b)

If(cond) == /\ Verified(<<"I4">>)
            /\ Code(<<"if", cond>>)
            /\ Branch(<<"I4">>, IF Test(cond, Slot(1).val, 0) THEN 1 ELSE 0)

IfNull(cond) == /\ Verified(<<"REF">>)
                /\ Code(<<"ifnull", cond>>)
                /\ Branch(<<"REF">>, IF Test(cond, Slot(1).val, Null) THEN 1 ELSE 0)

IfCompare(type, cond) ==
    LET args == <<type, type>>
    IN  /\ Verified(args)
        /\ Code(<<"if_cmp", type, cond>>)
        /\ Branch(args, IF Test(cond, Popped(args, 2), Popped(args, 1)) THEN 1 ELSE 0)

TableSwitch(low, high) ==
    LET index == Slot(1).val
    IN  /\ Verified(<<"I4">>)
        /\ Code(<<"switch", [i \in 1 .. high - low + 1 |-> low + i - 1]>>)
        /\ Branch(<<"I4">>, IF index >= low /\ index <= high THEN index - low + 1 ELSE 0)

LookupSwitch(keys) ==
    /\ Verified(<<"I4">>)
    /\ Code(<<"switch", keys>>)
    /\ Branch(<<"I4">>, SelectInSeq(keys, LAMBDA key : key = Slot(1).val))

-----------------------------------------------------------------------------
(* Arrays and fields *)

\* No handler compares the index with the length.
InBounds(i, kind) == i \in 0 .. Len(arrays[kind]) - 1

ArrayLoad(kind) ==
    LET args == <<"I4", "REF">>
        index == Popped(args, 1)
        array == Popped(args, 2)
    IN  /\ Verified(args) /\ OfKind(array, kind)
        /\ \/ /\ array = Null
              /\ Code(<<"xaload", kind>>)
              /\ Throw(args, "NullPointerException")
           \/ /\ array # Null /\ InBounds(index, kind)
              /\ Code(<<"xaload", kind>>)
              /\ Gives(args, Loaded(kind), arrays[kind][index + 1])
           \/ array # Null /\ ~InBounds(index, kind) /\ Crash

\* The element types of the arrays: bytes are u1, characters char16_t.
Element(kind, v) == CASE kind = "byte" -> Unsigned(v, ByteBits)
                      [] kind = "char" -> Unsigned(v, ShortBits)
                      [] kind = "short" -> Signed(v, ShortBits)
                      [] OTHER -> v

ArrayStore(kind) ==
    LET args == <<Loaded(kind), "I4", "REF">>
        index == Popped(args, 2)
        array == Popped(args, 3)
    IN  /\ Verified(args) /\ OfKind(array, kind)
        /\ \/ /\ array = Null
              /\ Code(<<"xastore", kind>>)
              /\ Throw(args, "NullPointerException")
           \/ /\ array # Null /\ InBounds(index, kind)
              /\ Code(<<"xastore", kind>>)
              /\ arrays' = [arrays EXCEPT ![kind][index + 1] =
                                              Element(kind, Popped(args, 1))]
              /\ slots' = Left(args)
              /\ Continue
              /\ UNCHANGED <<locals, readable, fields>>
           \/ array # Null /\ ~InBounds(index, kind) /\ Crash

ArrayLength(kind) ==
    LET array == Slot(1).val
    IN  /\ Verified(<<"REF">>) /\ OfKind(array, kind)
        /\ Code(<<"arraylength", kind>>)
        /\ IF array = Null THEN Throw(<<"REF">>, "NullPointerException")
           ELSE Gives(<<"REF">>, "I4", Len(arrays[kind]))

GetStatic(f) == Code(<<"get", f>>) /\ Gives(<<>>, Fields[f].type, fields[f])

GetField(f) ==
    /\ Verified(<<"REF">>) /\ IsObject(Slot(1).val)
    /\ Code(<<"get", f>>)
    /\ IF Slot(1).val = Null THEN Throw(<<"REF">>, "NullPointerException")
       ELSE Gives(<<"REF">>, Fields[f].type, fields[f])

SetField(f, types) == /\ fields' = [fields EXCEPT ![f] = Popped(types, 1)]
                      /\ slots' = Left(types)
                      /\ Continue
                      /\ UNCHANGED <<locals, readable, arrays>>

PutStatic(f) == /\ Verified(<<Fields[f].type>>)
                /\ Code(<<"put", f>>)
                /\ SetField(f, <<Fields[f].type>>)

PutField(f) ==
    LET args == <<Fields[f].type, "REF">>
    IN  /\ Verified(args) /\ IsObject(Popped(args, 2))
        /\ Code(<<"put", f>>)
        /\ IF Popped(args, 2) = Null THEN Throw(args, "NullPointerException")
           ELSE SetField(f, args)

-----------------------------------------------------------------------------
StackInstruction == \/ Pop \/ Pop2 \/ SwapTop
                    \/ Dup \/ DupX1 \/ DupX2
                    \/ Dup2 \/ Dup2X1 \/ Dup2X2

Arithmetic ==
    \/ \E type \in Integral :
           \/ Negate(type)
           \/ \E op \in {"add", "sub", "mul"} \cup BitOperations : Compute(type, op)
           \/ \E op \in Divisions : Divide(type, op)
           \/ \E op \in Shifts : Shift(type, op)
    \/ \E type \in Floating : \/ FloatNegate(type)
                              \/ \E op \in Operations : FloatCompute(type, op)
                              \/ \E default \in {-1, 1} : Compare(type, default)
    \/ Compare("I8", -1)
    \/ \E c \in Conversions : Convert(c[1], c[2])

\* The instructions of local variables, in their short forms and after wide.
LocalInstruction(i) == \/ Load(i)
                       \/ Store(i)
                       \/ \E n \in Numbers(ByteBits) : Increment(i, n)

Branching ==
    \/ Nop \/ Goto
    \/ \E cond \in Conditions : If(cond) \/ IfCompare("I4", cond)
    \/ \E cond \in {"eq", "ne"} : IfNull(cond) \/ IfCompare("REF", cond)
    \/ \E table \in Tables : TableSwitch(table[1], table[2])
    \/ \E keys \in Lookups : LookupSwitch(keys)

Accesses ==
    \/ \E type \in Types : \E v \in Literals[type] : Const(type, v)
    \/ \E i \in LocalIndex : LocalInstruction(i)
    \/ \E kind \in Kinds : ArrayLoad(kind) \/ ArrayStore(kind) \/ ArrayLength(kind)
    \/ \E f \in DOMAIN Fields : IF Fields[f].static THEN GetStatic(f) \/ PutStatic(f)
                                ELSE GetField(f) \/ PutField(f)

Next == /\ thrown = "nothing" /\ ~crashed
        /\ budget > 0
        /\ budget' = budget - 1
        /\ StackInstruction \/ Arithmetic \/ Branching \/ Accesses

Spec == Init /\ [][Next]_vars

-----------------------------------------------------------------------------
\* The two halves of a long or a double stay together, the value below or in
\* front of a second half of the same type, through every sequence of
\* instructions that move single slots: dup_x2 and its kin, pop2, the moves
\* from and to local variables.
HalvesTogether == PairedStack(slots) /\ PairedLocals(locals, readable)

\* The handlers do what the Java virtual machine does with whole values.
Operands == SelectSeq(slots, LAMBDA slot : ~IsHalf(slot))
Unset == "unset"
Java == INSTANCE JavaOperands WITH
            operands <- IF thrown = "nothing" THEN Operands ELSE <<>>,
            locals <- [i \in LocalIndex |-> IF i \in readable THEN locals[i]
                                            ELSE Value("none", Unset)],
            Unset <- Value("none", Unset)
ImplementsJavaOperands == Java!Spec
=============================================================================
