----------------------------- MODULE JavaOperands -----------------------------
(***************************************************************************)
(* What the instructions of the Java virtual machine do to one frame, as   *)
(* its specification describes them: an operand is a value, whether it is  *)
(* wide or not, and integers are numbers brought back into their range.    *)
(*                                                                         *)
(* Interpreter.tla, the handlers of interpreter.cpp over an array of       *)
(* slots, implements this.  In three points it describes RexVM and not     *)
(* Java: floating-point division by zero throws (FloatCompute), an array   *)
(* of bytes gives unsigned ones (Stored), and an index out of bounds has   *)
(* no meaning (Within).                                                    *)
(***************************************************************************)
EXTENDS JavaTypes

CONSTANT Unset     \* a local variable that holds nothing

VARIABLES operands,  \* sequence of values, the last is on top
          locals,    \* value of each local variable
          arrays,    \* contents of each array
          fields,    \* contents of the fields
          opcode,    \* the instruction executed last
          jump,      \* 0 if it went on, else the number of its branch
          thrown     \* what it has thrown

memory == <<locals, arrays, fields>>
vars == <<operands, memory, opcode, jump, thrown>>

Category(v) == IF Wide(v.type) THEN 2 ELSE 1
IsValue(v) == v.type \in Types /\ v.val \in Data(v.type)

\* Any frame of verified code.
Init ==
    /\ \A i \in DOMAIN operands : IsValue(operands[i])
    /\ \A i \in LocalIndex : locals[i] = Unset \/ IsValue(locals[i])
    /\ jump = 0
    /\ thrown = "nothing"

Depth == Len(operands)
Top(i) == operands[Depth + 1 - i]
Has(types) == /\ Len(types) <= Depth
              /\ \A i \in DOMAIN types : Top(i).type = types[i]

\* The n values on top make room for others.
Replace(n, results) == operands' = SubSeq(operands, 1, Depth - n) \o results

Continues == jump' = 0 /\ thrown' = "nothing"
Throws(what) == /\ thrown' = what
                /\ operands' = <<>>
                /\ jump' = 0
                /\ UNCHANGED memory

-----------------------------------------------------------------------------
(* Constants, local variables, the stack instructions *)

Push(v) == Replace(0, <<v>>) /\ Continues /\ UNCHANGED memory

Constant(type, v) == v \in Data(type) /\ Push(Value(type, v))

Load(i) == locals[i] # Unset /\ Push(locals[i])

\* A value stored into one half of a wide one destroys it.
Store(i) ==
    LET v == Top(1)
        second(j) == Wide(v.type) /\ j = i + 1
        overlaps(j) == j = i - 1 /\ locals[j] # Unset /\ Category(locals[j]) = 2
    IN  /\ Depth > 0
        /\ i + Category(v) <= MaxLocals
        /\ locals' = [j \in DOMAIN locals |->
                         IF j = i THEN v
                         ELSE IF second(j) \/ overlaps(j) THEN Unset
                         ELSE locals[j]]
        /\ Replace(1, <<>>)
        /\ Continues
        /\ UNCHANGED <<arrays, fields>>

\* The forms of the stack instructions: the categories of the values taken,
\* top first, and which of them are put back.
Forms == [pop |-> {<< <<1>>, <<>> >>},
          pop2 |-> {<< <<1, 1>>, <<>> >>, << <<2>>, <<>> >>},
          dup |-> {<< <<1>>, <<1, 1>> >>},
          dup_x1 |-> {<< <<1, 1>>, <<1, 2, 1>> >>},
          dup_x2 |-> {<< <<1, 1, 1>>, <<1, 3, 2, 1>> >>,
                      << <<1, 2>>, <<1, 2, 1>> >>},
          dup2 |-> {<< <<1, 1>>, <<2, 1, 2, 1>> >>, << <<2>>, <<1, 1>> >>},
          dup2_x1 |-> {<< <<1, 1, 1>>, <<2, 1, 3, 2, 1>> >>,
                       << <<2, 1>>, <<1, 2, 1>> >>},
          dup2_x2 |-> {<< <<1, 1, 1, 1>>, <<2, 1, 4, 3, 2, 1>> >>,
                       << <<2, 1, 1>>, <<1, 3, 2, 1>> >>,
                       << <<1, 1, 2>>, <<2, 1, 3, 2, 1>> >>,
                       << <<2, 2>>, <<1, 2, 1>> >>},
          swap |-> {<< <<1, 1>>, <<1, 2>> >>}]

StackInstructions == {"pop", "pop2", "dup", "dup_x1", "dup_x2",
                      "dup2", "dup2_x1", "dup2_x2", "swap"}

Shuffle(name) ==
    \E form \in Forms[name] :
        LET taken == form[1]
            given == form[2]
        IN  /\ Len(taken) <= Depth
            /\ \A i \in DOMAIN taken : Category(Top(i)) = taken[i]
            /\ Replace(Len(taken), [i \in DOMAIN given |-> Top(given[i])])
            /\ Continues
            /\ UNCHANGED memory

-----------------------------------------------------------------------------
(* Arithmetic *)

\* The number of the type that is congruent to n.
Wrapped(n, bits) == CHOOSE m \in Numbers(bits) : (m - n) % 2 ^ bits = 0

Magnitude(n) == IF n < 0 THEN -n ELSE n
SameSign(a, b) == (a < 0) <=> (b < 0)

\* The largest in magnitude of those q for which |b * q| <= |a|.
Quotient(a, b) ==
    CHOOSE q \in -Magnitude(a) .. Magnitude(a) :
        /\ Magnitude(b * q) <= Magnitude(a)
        /\ Magnitude(a) < Magnitude(b * q) + Magnitude(b)
        /\ q = 0 \/ (q > 0 <=> SameSign(a, b))

Distance(b, bits) == b % bits

Bit(n, k) == (n \div 2 ^ k) % 2
BitByBit(Op(_, _), a, b, bits) ==
    CHOOSE m \in Numbers(bits) :
        \A k \in 0 .. bits - 1 : Bit(m, k) = Op(Bit(a, k), Bit(b, k))

Result(op, a, b, bits) ==
    CASE op = "add" -> Wrapped(a + b, bits)
      [] op = "sub" -> Wrapped(a - b, bits)
      [] op = "mul" -> Wrapped(a * b, bits)
      [] op = "div" -> Wrapped(Quotient(a, b), bits)
      [] op = "rem" -> a - b * Quotient(a, b)
      [] op = "shl" -> Wrapped(a * 2 ^ Distance(b, bits), bits)
      [] op = "shr" -> a \div 2 ^ Distance(b, bits)
      [] op = "ushr" -> LET s == Distance(b, bits)
                        IN  IF a >= 0 THEN a \div 2 ^ s
                            ELSE Wrapped((a \div 2 ^ s) + 2 ^ (bits - s), bits)
      [] op = "and" -> BitByBit(LAMBDA x, y : x * y, a, b, bits)
      [] op = "or" -> BitByBit(LAMBDA x, y : x + y - x * y, a, b, bits)
      [] op = "xor" -> BitByBit(LAMBDA x, y : (x + y) % 2, a, b, bits)

Compute(type, op) ==
    LET b == Top(1).val
        a == Top(2).val
    IN  /\ type \in Integral
        /\ Has(<<IF op \in Shifts THEN "I4" ELSE type, type>>)
        /\ IF op \in Divisions /\ b = 0 THEN Throws("ArithmeticException")
           ELSE /\ Replace(2, <<Value(type, Result(op, a, b, Bits(type)))>>)
                /\ Continues
                /\ UNCHANGED memory

Negate(type) ==
    /\ type \in Numeric
    /\ Has(<<type>>)
    /\ \E v \in IF type \in Integral THEN {Wrapped(-Top(1).val, Bits(type))}
             ELSE Data(type) : Replace(1, <<Value(type, v)>>)
    /\ Continues
    /\ UNCHANGED memory

\* Java has no exception here, the quotient is an infinity or NaN; RexVM
\* throws what the integer division does.
FloatCompute(type, op) ==
    /\ type \in Floating /\ op \in Operations
    /\ Has(<<type, type>>)
    /\ IF op \in Divisions /\ Top(1).val = 0 THEN Throws("ArithmeticException")
       ELSE /\ \E v \in Data(type) : Replace(2, <<Value(type, v)>>)
            /\ Continues
            /\ UNCHANGED memory

Increment(i, n) ==
    /\ locals[i] # Unset /\ locals[i].type = "I4"
    /\ locals' = [locals EXCEPT ![i].val = Wrapped(@ + n, IntBits)]
    /\ Continues
    /\ UNCHANGED <<operands, arrays, fields>>

\* Conversions; of floating-point numbers only the type is modelled.
Convert(from, to) ==
    /\ <<from, to>> \in Conversions
    /\ Has(<<from>>)
    /\ LET n == Top(1).val
       IN  \E v \in CASE {from, to} \cap Floating # {} -> Data(to)
                      [] to = "I8" -> {n}
                      [] to = "I4" -> {Wrapped(n, IntBits)}
                      [] to = "byte" -> {Wrapped(n, ByteBits)}
                      [] to = "short" -> {Wrapped(n, ShortBits)}
                      [] to = "char" -> {n % 2 ^ ShortBits} :
               Replace(1, <<Value(IF to \in Kinds THEN "I4" ELSE to, v)>>)
    /\ Continues
    /\ UNCHANGED memory

\* -1, 0 or 1; unordered operands give the default of the instruction.
Compare(type, default) ==
    /\ type \in {"I8", "F4", "F8"}
    /\ Has(<<type, type>>)
    /\ LET b == Top(1).val
           a == Top(2).val
           sign == IF NaN \in {a, b} THEN default
                   ELSE IF a < b THEN -1 ELSE IF a = b THEN 0 ELSE 1
       IN  Replace(2, <<Value("I4", sign)>>)
    /\ Continues
    /\ UNCHANGED memory

-----------------------------------------------------------------------------
(* Branches *)

Holds(cond, a, b) == CASE cond = "eq" -> a = b [] cond = "ne" -> a # b
                       [] cond = "lt" -> a < b [] cond = "ge" -> a >= b
                       [] cond = "gt" -> a > b [] cond = "le" -> a <= b

Jumps(n, target) == /\ Replace(n, <<>>)
                    /\ jump' = target
                    /\ thrown' = "nothing"
                    /\ UNCHANGED memory

If(cond) == Has(<<"I4">>) /\ Jumps(1, IF Holds(cond, Top(1).val, 0) THEN 1 ELSE 0)

IfCompare(type, cond) ==
    /\ type = "I4" \/ (type = "REF" /\ cond \in {"eq", "ne"})
    /\ Has(<<type, type>>)
    /\ Jumps(2, IF Holds(cond, Top(2).val, Top(1).val) THEN 1 ELSE 0)

IfNull(cond) == /\ cond \in {"eq", "ne"}
                /\ Has(<<"REF">>)
                /\ Jumps(1, IF Holds(cond, Top(1).val, Null) THEN 1 ELSE 0)

\* A switch goes to the branch whose key matches, or else to the default, 0.
Switch(keys) ==
    /\ Has(<<"I4">>)
    /\ \E target \in 0 .. Len(keys) :
           /\ IF target > 0 THEN keys[target] = Top(1).val
              ELSE \A i \in DOMAIN keys : keys[i] # Top(1).val
           /\ Jumps(1, target)

-----------------------------------------------------------------------------
(* Arrays and fields *)

\* In Java the elements of a byte array are signed.
Stored(kind, n) == CASE kind = "byte" -> n % 2 ^ ByteBits
                     [] kind = "short" -> Wrapped(n, ShortBits)
                     [] kind = "char" -> n % 2 ^ ShortBits
                     [] OTHER -> n

Within(i, kind) == i \in 0 .. Len(arrays[kind]) - 1

ArrayLoad(kind) ==
    /\ Has(<<"I4", "REF">>)
    /\ OfKind(Top(2).val, kind)
    /\ IF Top(2).val = Null THEN Throws("NullPointerException")
       ELSE /\ Within(Top(1).val, kind)
            /\ Replace(2, <<Value(Loaded(kind), arrays[kind][Top(1).val + 1])>>)
            /\ Continues
            /\ UNCHANGED memory

ArrayStore(kind) ==
    /\ Has(<<Loaded(kind), "I4", "REF">>)
    /\ OfKind(Top(3).val, kind)
    /\ IF Top(3).val = Null THEN Throws("NullPointerException")
       ELSE /\ Within(Top(2).val, kind)
            /\ arrays' = [arrays EXCEPT ![kind][Top(2).val + 1] =
                                            Stored(kind, Top(1).val)]
            /\ Replace(3, <<>>)
            /\ Continues
            /\ UNCHANGED <<locals, fields>>

ArrayLength(kind) ==
    /\ Has(<<"REF">>)
    /\ OfKind(Top(1).val, kind)
    /\ IF Top(1).val = Null THEN Throws("NullPointerException")
       ELSE /\ Replace(1, <<Value("I4", Len(arrays[kind]))>>)
            /\ Continues
            /\ UNCHANGED memory

Content(f) == Value(Fields[f].type, fields[f])

GetField(f) ==
    IF Fields[f].static THEN Push(Content(f))
    ELSE /\ Has(<<"REF">>)
         /\ IsObject(Top(1).val)
         /\ IF Top(1).val = Null THEN Throws("NullPointerException")
            ELSE /\ Replace(1, <<Content(f)>>)
                 /\ Continues
                 /\ UNCHANGED memory

PutField(f) ==
    LET taken == IF Fields[f].static THEN 1 ELSE 2
    IN  /\ Has(<<Fields[f].type, "REF">>) \/ (taken = 1 /\ Has(<<Fields[f].type>>))
        /\ taken = 1 \/ IsObject(Top(2).val)
        /\ IF taken = 2 /\ Top(2).val = Null THEN Throws("NullPointerException")
           ELSE /\ fields' = [fields EXCEPT ![f] = Top(1).val]
                /\ Replace(taken, <<>>)
                /\ Continues
                /\ UNCHANGED <<locals, arrays>>

-----------------------------------------------------------------------------
(* The instruction executed: its name, and then its operands in the code   *)

Operation(name) == opcode'[1] = name
Argument(i) == opcode'[i + 1]

Next ==
    \/ Operation("nop") /\ Jumps(0, 0)
    \/ Operation("goto") /\ Jumps(0, 1)
    \/ Operation("const") /\ Constant(Argument(1), Argument(2))
    \/ Operation("load") /\ Load(Argument(1))
    \/ Operation("store") /\ Store(Argument(1))
    \/ Operation("iinc") /\ Increment(Argument(1), Argument(2))
    \/ opcode'[1] \in StackInstructions /\ Shuffle(opcode'[1])
    \/ Operation("neg") /\ Negate(Argument(1))
    \/ Operation("compute") /\ Compute(Argument(1), Argument(2))
    \/ Operation("compute") /\ FloatCompute(Argument(1), Argument(2))
    \/ Operation("convert") /\ Convert(Argument(1), Argument(2))
    \/ Operation("cmp") /\ Compare(Argument(1), Argument(2))
    \/ Operation("if") /\ If(Argument(1))
    \/ Operation("ifnull") /\ IfNull(Argument(1))
    \/ Operation("if_cmp") /\ IfCompare(Argument(1), Argument(2))
    \/ Operation("switch") /\ Switch(Argument(1))
    \/ Operation("xaload") /\ ArrayLoad(Argument(1))
    \/ Operation("xastore") /\ ArrayStore(Argument(1))
    \/ Operation("arraylength") /\ ArrayLength(Argument(1))
    \/ Operation("get") /\ GetField(Argument(1))
    \/ Operation("put") /\ PutField(Argument(1))

Spec == Init /\ [][Next]_vars
=============================================================================
