---------------------------- MODULE ExecutionProofs ----------------------------
(***************************************************************************)
(* TLAPS proofs about the execution of bytecode.  Interpreter.tla, for any *)
(* widths, constants, fields and tables, any frame verified code may start *)
(* with and any sequence of instructions: the two halves of a long or a    *)
(* double are never separated.  Monitor.tla, for any set of threads, any   *)
(* nesting and any interleaving of wait, notify and the creation of the    *)
(* monitor.                                                                *)
(***************************************************************************)
EXTENDS Interpreter, Monitor, SequenceTheorems, FiniteSetTheorems, TLAPS

(* Stacks: sequences of slots in which halves are paired. *)

Stack(s) == s \in Seq(Range(s)) /\ PairedStack(s)

\* What holds of a stack as a sequence.
LEMMA StackIsSeq ==
  ASSUME NEW s, s \in Seq(Range(s))
  PROVE  /\ Len(s) \in Nat
         /\ DOMAIN s = 1 .. Len(s)
  BY LenProperties

\* A sequence of slots is one of its own slots.
LEMMA OwnRange ==
  ASSUME NEW S, NEW s \in Seq(S)
  PROVE  s \in Seq(Range(s))
  <1>1. Len(s) \in Nat /\ DOMAIN s = 1 .. Len(s) /\ s \in [1 .. Len(s) -> S]
    BY LenProperties
  <1>2. s \in [1 .. Len(s) -> Range(s)]
    BY <1>1 DEF Range
  <1>3. QED
    BY <1>1, <1>2

\* The first n slots of f are whole values.
Paired(f, n) ==
    \A i \in 1 .. n : /\ IsFirst(f[i]) => i < n /\ Pair(f[i], f[i + 1])
                      /\ IsHalf(f[i]) => i > 1 /\ Pair(f[i - 1], f[i])

\* The same of a stack and its length.
LEMMA StackIsPaired ==
  ASSUME NEW s, s \in Seq(Range(s))
  PROVE  Stack(s) <=> Paired(s, Len(s))
  BY StackIsSeq DEF Stack, PairedStack, Paired

\* A part that ends below a boundary is whole.
LEMMA CutPaired ==
  ASSUME NEW f, NEW g, NEW n \in Nat, NEW m \in Nat, m <= n, Paired(f, n),
         \A i \in 1 .. m : g[i] = f[i],
         m < n => ~IsHalf(f[m + 1])
  PROVE  Paired(g, m)
  <1> SUFFICES ASSUME NEW i \in 1 .. m
               PROVE  /\ IsFirst(g[i]) => i < m /\ Pair(g[i], g[i + 1])
                      /\ IsHalf(g[i]) => i > 1 /\ Pair(g[i - 1], g[i])
    BY DEF Paired
  <1>1. i \in 1 .. n /\ g[i] = f[i] /\ (i > 1 => g[i - 1] = f[i - 1])
    OBVIOUS
  <1>2. /\ IsFirst(f[i]) => i < n /\ Pair(f[i], f[i + 1])
        /\ IsHalf(f[i]) => i > 1 /\ Pair(f[i - 1], f[i])
    BY <1>1 DEF Paired
  <1>3. IsFirst(f[i]) => i < m
    <2> SUFFICES ASSUME IsFirst(f[i]), i = m PROVE FALSE
      OBVIOUS
    <2>1. m < n /\ IsHalf(f[m + 1])
      BY <1>2 DEF Pair, Half, IsHalf
    <2>2. QED
      BY <2>1
  <1>4. i < m => g[i + 1] = f[i + 1]
    OBVIOUS
  <1>5. QED
    BY <1>1, <1>2, <1>3, <1>4

\* What is put together from whole values is.
LEMMA ConcatPaired ==
  ASSUME NEW f, NEW g, NEW h, NEW n \in Nat, NEW m \in Nat, Paired(f, n), Paired(g, m),
         \A i \in 1 .. n + m : h[i] = IF i <= n THEN f[i] ELSE g[i - n]
  PROVE  Paired(h, n + m)
  <1> SUFFICES ASSUME NEW i \in 1 .. n + m
               PROVE  /\ IsFirst(h[i]) => i < n + m /\ Pair(h[i], h[i + 1])
                      /\ IsHalf(h[i]) => i > 1 /\ Pair(h[i - 1], h[i])
    BY DEF Paired
  <1>1. CASE i <= n
    <2>1. i \in 1 .. n /\ h[i] = f[i]
      BY <1>1
    <2>2. (i < n => h[i + 1] = f[i + 1]) /\ (i > 1 => h[i - 1] = f[i - 1])
      BY <1>1
    <2>3. /\ IsFirst(f[i]) => i < n /\ Pair(f[i], f[i + 1])
          /\ IsHalf(f[i]) => i > 1 /\ Pair(f[i - 1], f[i])
      BY <2>1 DEF Paired
    <2>4. i < n => i < n + m
      OBVIOUS
    <2>5. QED
      BY <2>1, <2>2, <2>3, <2>4
  <1>2. CASE i > n
    <2> DEFINE j == i - n
    <2>1. j \in 1 .. m /\ h[i] = g[j]
      BY <1>2
    <2>2. (j < m => h[i + 1] = g[j + 1]) /\ (j > 1 => h[i - 1] = g[j - 1])
      BY <1>2
    <2>3. /\ IsFirst(g[j]) => j < m /\ Pair(g[j], g[j + 1])
          /\ IsHalf(g[j]) => j > 1 /\ Pair(g[j - 1], g[j])
      BY <2>1 DEF Paired
    <2>4. (j < m => i < n + m) /\ (j > 1 => i > 1)
      OBVIOUS
    <2> HIDE DEF j
    <2>5. QED
      BY <2>1, <2>2, <2>3, <2>4
  <1>3. QED
    BY <1>1, <1>2

\* What the pops leave: the slots below a boundary.
LEMMA CutStack ==
  ASSUME NEW s, Stack(s), NEW k \in Nat, k <= Len(s),
         k = 0 \/ ~IsHalf(s[Len(s) + 1 - k])
  PROVE  Stack(SubSeq(s, 1, Len(s) - k))
  <1> DEFINE t == SubSeq(s, 1, Len(s) - k)
             n == Len(s)
             m == n - k
  <1>1. n \in Nat /\ m \in Nat /\ m <= n /\ DOMAIN s = 1 .. n
    BY StackIsSeq DEF Stack
  <1>2. /\ t \in Seq(Range(s))
        /\ Len(t) = m
        /\ \A i \in 1 .. m : t[i] = s[i]
    <2>1. \A i \in 1 .. m : s[i] \in Range(s)
      BY <1>1 DEF Range
    <2>2. 1 \in Int /\ m \in Int
      BY <1>1
    <2>3. /\ t \in Seq(Range(s))
          /\ Len(t) = IF 1 <= m THEN m - 1 + 1 ELSE 0
          /\ \A i \in 1 .. m - 1 + 1 : t[i] = s[1 + i - 1]
      <3> HIDE DEF n
      <3>1. Len(s) - k = m
        BY DEF n
      <3> HIDE DEF m
      <3>2. QED
        BY <2>1, <2>2, <3>1, SubSeqProperties
    <2> HIDE DEF t, m, n
    <2>4. QED
      BY <1>1, <2>3
  <1>3. m < n => ~IsHalf(s[m + 1])
    <2>1. m < n => k # 0 /\ n + 1 - k = m + 1
      BY <1>1
    <2>2. QED
      BY <2>1
  <1>4. Paired(s, n)
    BY StackIsPaired DEF Stack
  <1>5. t \in Seq(Range(t))
    BY <1>2, OwnRange
  <1> HIDE DEF t, m, n
  <1>6. Paired(t, m)
    BY <1>1, <1>2, <1>3, <1>4, CutPaired
  <1>7. Stack(t)
    BY <1>2, <1>5, <1>6, StackIsPaired
  <1>8. QED
    BY <1>7 DEF t

\* Pushing whole values keeps them whole.
LEMMA ConcatStacks ==
  ASSUME NEW a, NEW b, Stack(a), Stack(b)
  PROVE  Stack(a \o b)
  <1> DEFINE c == a \o b
             S == Range(a) \cup Range(b)
             n == Len(a)
             m == Len(b)
  <1>1. n \in Nat /\ m \in Nat
    BY StackIsSeq DEF Stack
  <1>2. a \in Seq(S) /\ b \in Seq(S)
    BY SeqMonotonic DEF Stack
  <1>3. /\ c \in Seq(S)
        /\ Len(c) = n + m
        /\ \A i \in 1 .. n + m : c[i] = IF i <= n THEN a[i] ELSE b[i - n]
    BY <1>2, ConcatProperties
  <1>4. c \in Seq(Range(c))
    BY <1>3, OwnRange
  <1>5. Paired(a, n) /\ Paired(b, m)
    BY StackIsPaired DEF Stack
  <1> HIDE DEF c, n, m
  <1>6. Paired(c, n + m)
    BY <1>1, <1>3, <1>5, ConcatPaired
  <1>7. Stack(c)
    BY <1>3, <1>4, <1>6, StackIsPaired
  <1>8. QED
    BY <1>7 DEF c

\* The smallest stacks.
LEMMA SmallStacks ==
  /\ Stack(<<>>)
  /\ \A x : ~IsHalf(x) /\ ~IsFirst(x) => Stack(<<x>>)
  /\ \A x, y : Pair(x, y) => Stack(<<x, y>>)
  <1>1. Stack(<<>>)
    BY DEF Stack, PairedStack
  <1>2. ASSUME NEW x, ~IsHalf(x), ~IsFirst(x) PROVE Stack(<<x>>)
    BY <1>2, OwnRange DEF Stack, PairedStack, Range
  <1>3. ASSUME NEW x, NEW y, Pair(x, y) PROVE Stack(<<x, y>>)
    <2>1. IsFirst(x) /\ ~IsHalf(x) /\ IsHalf(y) /\ ~IsFirst(y)
      BY <1>3 DEF Pair, IsFirst, IsHalf, Half
    <2>2. <<x, y>> \in Seq({x, y})
      OBVIOUS
    <2>3. <<x, y>> \in Seq(Range(<<x, y>>))
      BY <2>2, OwnRange
    <2>4. PairedStack(<<x, y>>)
      BY <1>3, <2>1 DEF PairedStack
    <2>5. QED
      BY <2>3, <2>4 DEF Stack
  <1>4. QED
    BY <1>1, <1>2, <1>3

\* push keeps a stack a stack, whatever the value.
LEMMA PushOnStack ==
  ASSUME NEW s, Stack(s), NEW type, NEW v
  PROVE  Stack(Pushed(s, type, v))
  <1>1. ~IsHalf(Value(type, v)) /\ (IsFirst(Value(type, v)) <=> Wide(type))
    BY DEF IsHalf, IsFirst, Value
  <1>2. CASE Wide(type)
    <2>1. Pair(Value(type, v), Half(type))
      BY <1>1, <1>2 DEF Pair, Value
    <2>2. QED
      BY <1>2, <2>1, SmallStacks, ConcatStacks DEF Pushed
  <1>3. CASE ~Wide(type)
    BY <1>1, <1>3, SmallStacks, ConcatStacks DEF Pushed
  <1>4. QED
    BY <1>2, <1>3
-----------------------------------------------------------------------------
(* What the instructions do to the stack. *)

\* The number of slots of some values is a number, 0 for none.
LEMMA Widths ==
  /\ \A types : \A k \in Nat : WidthTo(types, k) \in Nat
  /\ \A types : WidthTo(types, 0) = 0
  <1>1. ASSUME NEW types, NEW k \in Nat PROVE WidthTo(types, k) \in Nat
    <2> DEFINE W == {i \in 1 .. k : Wide(types[i])}
    <2>1. IsFiniteSet(1 .. k) /\ W \subseteq 1 .. k
      BY FS_Interval
    <2>2. IsFiniteSet(W)
      BY <2>1, FS_Subset
    <2>3. Cardinality(W) \in Nat
      BY <2>2, FS_CardinalityType
    <2> HIDE DEF W
    <2>4. k + Cardinality(W) \in Nat
      BY <2>3
    <2>5. QED
      BY <2>4 DEF WidthTo, W
  <1>2. ASSUME NEW types PROVE WidthTo(types, 0) = 0
    <2>1. {i \in 1 .. 0 : Wide(types[i])} = {}
      OBVIOUS
    <2>2. QED
      BY <2>1, FS_EmptySet DEF WidthTo
  <1>3. QED
    BY <1>1, <1>2

\* What is left when verified values have been popped.
LEMMA PopsLeaveStack ==
  ASSUME Stack(slots), NEW types,
         Len(types) \in Nat, DOMAIN types = 1 .. Len(types), Verified(types)
  PROVE  Stack(Left(types))
  <1> DEFINE k == WidthOf(types)
             n == Len(types)
  <1>1. k \in Nat
    BY Widths DEF WidthOf
  <1>2. k <= Len(slots) /\ (k = 0 \/ ~IsHalf(slots[Len(slots) + 1 - k]))
    <2>1. CASE n = 0
      <3>1. k = 0
        BY <2>1, Widths DEF WidthOf
      <3>2. Len(slots) \in Nat
        BY StackIsSeq DEF Stack
      <3> HIDE DEF k
      <3>3. QED
        BY <3>1, <3>2
    <2>2. CASE n # 0
      <3>1. n \in DOMAIN types
        BY <2>2
      <3>2. Boundary(WidthTo(types, n))
        BY <3>1 DEF Verified
      <3>3. QED
        BY <3>2 DEF Boundary, Slot, WidthOf
    <2>3. QED
      BY <2>1, <2>2
  <1> HIDE DEF k
  <1>3. Stack(SubSeq(slots, 1, Len(slots) - k))
    BY <1>1, <1>2, CutStack
  <1>4. QED
    BY <1>3 DEF Left, Below, k

\* Which copies of the slots on top are whole: each slot in the list "given" is
\* followed by the one above it, or that one begins beyond a boundary; each
\* follows the one below it, or is at a boundary.
Unbroken(given, boundaries) ==
    \A i \in DOMAIN given :
        /\ \/ i < Len(given) /\ given[i + 1] = given[i] - 1
           \/ given[i] = 1
           \/ given[i] - 1 \in boundaries
        /\ \/ i > 1 /\ given[i - 1] = given[i] + 1
           \/ given[i] \in boundaries

\* Slots given back unbroken are a stack.
LEMMA GivenIsStack ==
  ASSUME Stack(slots), NEW boundaries, \A k \in boundaries : Boundary(k),
         NEW given, Len(given) \in Nat, DOMAIN given = 1 .. Len(given),
         \A i \in DOMAIN given : given[i] \in 1 .. Len(slots),
         Unbroken(given, boundaries)
  PROVE  Stack([i \in DOMAIN given |-> Slot(given[i])])
  <1> DEFINE n == Len(slots)
             m == Len(given)
             t == [i \in 1 .. m |-> Slot(given[i])]
  <1>1. n \in Nat /\ m \in Nat /\ DOMAIN slots = 1 .. n
    BY StackIsSeq DEF Stack
  <1>2. Paired(slots, n)
    BY StackIsPaired DEF Stack
  <1>3. t \in Seq(Range(t)) /\ Len(t) = m
    <2>1. t \in [1 .. m -> Range(t)]
      BY DEF Range
    <2>2. t \in Seq(Range(t)) /\ DOMAIN t = 1 .. m
      BY <1>1, <2>1
    <2> HIDE DEF t
    <2>3. DOMAIN t = 1 .. Len(t) /\ Len(t) \in Nat
      BY <2>2, LenProperties
    <2>4. QED
      BY <1>1, <2>2, <2>3
  <1>4. ASSUME NEW i \in 1 .. m
        PROVE  /\ IsFirst(t[i]) => i < m /\ Pair(t[i], t[i + 1])
               /\ IsHalf(t[i]) => i > 1 /\ Pair(t[i - 1], t[i])
    <2> DEFINE p == n + 1 - given[i]
    <2>1. given[i] \in 1 .. n /\ p \in 1 .. n
      BY <1>1
    <2>2. t[i] = slots[p]
      BY DEF Slot
    <2>3. /\ IsFirst(slots[p]) => p < n /\ Pair(slots[p], slots[p + 1])
          /\ IsHalf(slots[p]) => p > 1 /\ Pair(slots[p - 1], slots[p])
      BY <1>2, <2>1 DEF Paired
    <2>4. ASSUME IsFirst(slots[p]) PROVE i < m /\ t[i + 1] = slots[p + 1]
      <3>1. given[i] # 1
        BY <1>1, <2>1, <2>3, <2>4
      <3>2. given[i] - 1 \notin boundaries
        <4>1. IsHalf(slots[p + 1])
          BY <2>3, <2>4 DEF Pair, Half, IsHalf
        <4>2. p + 1 = n + 1 - (given[i] - 1)
          BY <1>1, <2>1
        <4>3. IsHalf(Slot(given[i] - 1))
          BY <4>1, <4>2 DEF Slot
        <4>4. QED
          BY <4>3 DEF Boundary
      <3>3. i < m /\ given[i + 1] = given[i] - 1
        BY <3>1, <3>2 DEF Unbroken
      <3>4. i + 1 \in 1 .. m /\ p + 1 = n + 1 - given[i + 1]
        BY <1>1, <2>1, <3>3
      <3>5. t[i + 1] = slots[n + 1 - given[i + 1]]
        BY <3>4 DEF Slot
      <3>6. QED
        BY <3>3, <3>4, <3>5
    <2>5. ASSUME IsHalf(slots[p]) PROVE i > 1 /\ t[i - 1] = slots[p - 1]
      <3>1. given[i] \notin boundaries
        BY <2>5 DEF Boundary, Slot
      <3>2. i > 1 /\ given[i - 1] = given[i] + 1
        BY <3>1 DEF Unbroken
      <3>3. i - 1 \in 1 .. m /\ p - 1 = n + 1 - given[i - 1]
        BY <1>1, <2>1, <3>2
      <3>4. t[i - 1] = slots[n + 1 - given[i - 1]]
        BY <3>3 DEF Slot
      <3>5. QED
        BY <3>2, <3>3, <3>4
    <2> HIDE DEF p, t
    <2>6. QED
      BY <2>2, <2>3, <2>4, <2>5
  <1> HIDE DEF t, m
  <1>5. Paired(t, m)
    BY <1>4 DEF Paired
  <1>6. Stack(t)
    BY <1>3, <1>5, StackIsPaired
  <1>7. QED
    BY <1>6 DEF t, m

-----------------------------------------------------------------------------
(* The inductive invariant *)

Variables == /\ locals = [i \in LocalIndex |-> locals[i]]
             /\ readable \subseteq LocalIndex
             /\ PairedLocals(locals, readable)

\* The operand stack is a sequence of paired halves, and so are the local
\* variables the code may load from.
IInv == Stack(slots) /\ Variables

\* The frames verified code starts with are whole.
LEMMA InitIInv == Init => IInv
  BY FramesAssumption DEF Init, IInv, Stack, Variables

\* Handlers that pop, and push one result.
LEMMA GivesIInv ==
  ASSUME IInv, NEW types, Len(types) \in Nat, DOMAIN types = 1 .. Len(types),
         Verified(types), NEW type, NEW v, Gives(types, type, v)
  PROVE  IInv'
  <1>1. Stack(Pushed(Left(types), type, v))
    BY PopsLeaveStack, PushOnStack DEF IInv
  <1>2. QED
    BY <1>1 DEF IInv, Gives, memory, Variables

\* Handlers that pop and throw.
LEMMA ThrowIInv ==
  ASSUME IInv, NEW types, Len(types) \in Nat, DOMAIN types = 1 .. Len(types),
         Verified(types), NEW what, Throw(types, what)
  PROVE  IInv'
  BY PopsLeaveStack DEF IInv, Throw, memory, Variables

\* Handlers that pop and may jump.
LEMMA BranchIInv ==
  ASSUME IInv, NEW types, Len(types) \in Nat, DOMAIN types = 1 .. Len(types),
         Verified(types), NEW target, Branch(types, target)
  PROVE  IInv'
  BY PopsLeaveStack DEF IInv, Branch, memory, Variables

\* Undefined behaviour is the last step and changes no slot.
LEMMA CrashIInv == IInv /\ Crash => IInv'
  BY DEF IInv, Crash, memory, Variables

\* The stack instructions, if what they give back is unbroken.
LEMMA ShuffleIInv ==
  ASSUME IInv, NEW name, NEW boundaries, NEW taken \in Nat, NEW given,
         taken \in boundaries, Len(given) \in Nat, DOMAIN given = 1 .. Len(given),
         \A i \in DOMAIN given : given[i] \in 1 .. taken,
         Unbroken(given, boundaries), Shuffle(name, boundaries, taken, given)
  PROVE  IInv'
  <1> DEFINE back == [i \in DOMAIN given |-> Slot(given[i])]
  <1>1. Len(slots) \in Nat
    BY StackIsSeq DEF IInv, Stack
  <1>2. Boundary(taken) /\ \A k \in boundaries : Boundary(k)
    BY DEF Shuffle
  <1>3. Stack(Below(taken))
    <2>1. taken <= Len(slots) /\ ~IsHalf(slots[Len(slots) + 1 - taken])
      BY <1>2 DEF Boundary, Slot
    <2>2. QED
      BY <2>1, CutStack DEF IInv, Below
  <1>4. \A i \in DOMAIN given : given[i] \in 1 .. Len(slots)
    BY <1>1, <1>2 DEF Boundary
  <1>5. Stack(back)
    BY <1>2, <1>4, GivenIsStack DEF IInv
  <1> HIDE DEF back
  <1>6. Stack(Below(taken) \o back)
    BY <1>3, <1>5, ConcatStacks
  <1>7. slots' = Below(taken) \o back /\ UNCHANGED memory
    BY DEF Shuffle, back
  <1>8. QED
    BY <1>6, <1>7 DEF IInv, memory, Variables

-----------------------------------------------------------------------------
(* The instructions *)

\* The nine stack instructions: each gives back whole pieces.
LEMMA StackInstructionIInv == IInv /\ StackInstruction => IInv'
  <1> SUFFICES ASSUME IInv, StackInstruction PROVE IInv'
    OBVIOUS
  <1>1. CASE Pop
    BY <1>1, ShuffleIInv DEF Pop, Unbroken
  <1>2. CASE Pop2
    BY <1>2, ShuffleIInv DEF Pop2, Unbroken
  <1>3. CASE SwapTop
    BY <1>3, ShuffleIInv DEF SwapTop, Unbroken
  <1>4. CASE Dup
    BY <1>4, ShuffleIInv DEF Dup, Unbroken
  <1>5. CASE DupX1
    BY <1>5, ShuffleIInv DEF DupX1, Unbroken
  <1>6. CASE DupX2
    BY <1>6, ShuffleIInv DEF DupX2, Unbroken
  <1>7. CASE Dup2
    BY <1>7, ShuffleIInv DEF Dup2, Unbroken
  <1>8. CASE Dup2X1
    <2> DEFINE given == <<2, 1, 3, 2, 1>>
    <2>1. Len(given) = 5 /\ DOMAIN given = 1 .. 5
      OBVIOUS
    <2>2. Unbroken(given, {2, 3})
      <3> SUFFICES ASSUME NEW i \in 1 .. 5
                   PROVE  /\ \/ i < 5 /\ given[i + 1] = given[i] - 1
                             \/ given[i] = 1
                             \/ given[i] - 1 \in {2, 3}
                          /\ \/ i > 1 /\ given[i - 1] = given[i] + 1
                             \/ given[i] \in {2, 3}
        BY <2>1 DEF Unbroken
      <3>1. i \in {1, 2, 3, 4, 5}
        OBVIOUS
      <3>2. QED
        BY <3>1
    <2>3. \A i \in DOMAIN given : given[i] \in 1 .. 3
      BY <2>1
    <2> HIDE DEF given
    <2>4. Shuffle("dup2_x1", {2, 3}, 3, given)
      BY <1>8 DEF Dup2X1, given
    <2>5. QED
      BY <2>1, <2>2, <2>3, <2>4, ShuffleIInv
  <1>9. CASE Dup2X2
    <2> DEFINE given == <<2, 1, 4, 3, 2, 1>>
    <2>1. Len(given) = 6 /\ DOMAIN given = 1 .. 6
      OBVIOUS
    <2>2. Unbroken(given, {2, 4})
      <3> SUFFICES ASSUME NEW i \in 1 .. 6
                   PROVE  /\ \/ i < 6 /\ given[i + 1] = given[i] - 1
                             \/ given[i] = 1
                             \/ given[i] - 1 \in {2, 4}
                          /\ \/ i > 1 /\ given[i - 1] = given[i] + 1
                             \/ given[i] \in {2, 4}
        BY <2>1 DEF Unbroken
      <3>1. i \in {1, 2, 3, 4, 5, 6}
        OBVIOUS
      <3>2. QED
        BY <3>1
    <2>3. \A i \in DOMAIN given : given[i] \in 1 .. 4
      BY <2>1
    <2> HIDE DEF given
    <2>4. Shuffle("dup2_x2", {2, 4}, 4, given)
      BY <1>9 DEF Dup2X2, given
    <2>5. QED
      BY <2>1, <2>2, <2>3, <2>4, ShuffleIInv
  <1>10. QED
    BY <1>1, <1>2, <1>3, <1>4, <1>5, <1>6, <1>7, <1>8, <1>9 DEF StackInstruction

\* A load pushes a whole value, in one slot or in two.
LEMMA LoadIInv ==
  ASSUME IInv, NEW i, Load(i)
  PROVE  IInv'
  <1>1. i \in readable /\ ~IsHalf(locals[i])
    BY DEF IInv, Variables, PairedLocals, Load
  <1>2. CASE Wide(locals[i].type)
    <2>1. Pair(locals[i], locals[i + 1])
      BY <1>1, <1>2 DEF IInv, Variables, PairedLocals, IsFirst
    <2>2. Stack(slots \o <<locals[i], locals[i + 1]>>)
      BY <2>1, SmallStacks, ConcatStacks DEF IInv
    <2>3. QED
      BY <1>2, <2>2 DEF Load, PushLocalWide, IInv, memory, Variables
  <1>3. CASE ~Wide(locals[i].type)
    <2>1. Stack(<<locals[i]>>)
      BY <1>1, <1>3, SmallStacks DEF IsFirst
    <2>2. Stack(slots \o <<locals[i]>>)
      BY <2>1, ConcatStacks DEF IInv
    <2>3. Append(slots, locals[i]) = slots \o <<locals[i]>>
      <3>1. /\ slots \in Seq(Range(slots) \cup {locals[i]})
            /\ <<locals[i]>> \in Seq(Range(slots) \cup {locals[i]})
        BY SeqMonotonic DEF IInv, Stack
      <3>2. QED
        BY <3>1
    <2>4. QED
      BY <1>3, <2>2, <2>3 DEF Load, PushLocal, IInv, memory, Variables
  <1>4. QED
    BY <1>2, <1>3

\* iinc writes a value of one slot over one of one slot.
LEMMA IncrementIInv ==
  ASSUME IInv, NEW i, NEW n, Increment(i, n)
  PROVE  IInv'
  <1> DEFINE x == Value("I4", Signed(locals[i].val + n, IntBits))
  <1>1. ~IsHalf(x) /\ ~IsFirst(x)
    BY DEF IsHalf, IsFirst, Wide, Value
  <1>2. /\ i \in readable /\ i \in LocalIndex /\ ~IsHalf(locals[i])
        /\ locals' = [locals EXCEPT ![i] = x]
        /\ UNCHANGED <<slots, readable>>
    BY DEF IInv, Variables, PairedLocals, Increment
  <1> HIDE DEF x
  <1>3. Variables'
    <2>1. locals' = [j \in LocalIndex |-> locals'[j]]
      BY <1>2 DEF IInv, Variables
    <2>2. ASSUME NEW j \in readable
          PROVE  /\ ~IsHalf(locals'[j])
                 /\ IsFirst(locals'[j]) => /\ j + 1 \in LocalIndex
                                          /\ Pair(locals'[j], locals'[j + 1])
      <3>1. /\ ~IsHalf(locals[j])
            /\ IsFirst(locals[j]) => j + 1 \in LocalIndex /\ Pair(locals[j], locals[j + 1])
        BY DEF IInv, Variables, PairedLocals
      <3>2. j \in LocalIndex
        BY DEF IInv, Variables
      <3>3. CASE j = i
        BY <1>1, <1>2, <3>3 DEF IInv, Variables
      <3>4. CASE j # i
        <4>1. locals'[j] = locals[j]
          BY <1>2, <3>2, <3>4 DEF IInv, Variables
        <4>2. IsFirst(locals[j]) => j + 1 # i
          BY <1>2, <3>1 DEF Pair, Half, IsHalf
        <4>3. IsFirst(locals[j]) => locals'[j + 1] = locals[j + 1]
          BY <1>2, <3>1, <4>2 DEF IInv, Variables
        <4>4. QED
          BY <3>1, <4>1, <4>3
      <3>5. QED
        BY <3>3, <3>4
    <2>3. QED
      BY <1>2, <2>1, <2>2 DEF IInv, Variables, PairedLocals
  <1>4. QED
    BY <1>2, <1>3 DEF IInv

\* What PairedLocals says of one variable.
Sound(variables, j) ==
    /\ ~IsHalf(variables[j])
    /\ IsFirst(variables[j]) => j + 1 \in LocalIndex /\ Pair(variables[j], variables[j + 1])

\* A store takes a whole value off the stack, and what it overwrites is not
\* loaded from any more.
LEMMA StoreIInv ==
  ASSUME IInv, NEW i \in LocalIndex, Store(i)
  PROVE  IInv'
  <1> DEFINE n == Len(slots)
             top == Slot(1)
  <1>1. n \in Nat /\ n >= 1 /\ Paired(slots, n) /\ i \in Int
    <2>1. slots \in Seq(Range(slots)) /\ slots # <<>>
      BY DEF IInv, Stack, Store
    <2>2. n \in Nat \ {0}
      BY <2>1, EmptySeq
    <2>3. QED
      BY <2>1, <2>2, StackIsPaired DEF IInv, LocalIndex
  <1>2. top = slots[n]
    BY <1>1 DEF Slot
  <1>3. \A j \in readable : j \in LocalIndex /\ j \in Int /\ Sound(locals, j)
    BY DEF IInv, Variables, PairedLocals, Sound, LocalIndex
  <1>4. locals = [j \in LocalIndex |-> locals[j]]
    BY DEF IInv, Variables
  <1>5. CASE IsHalf(top)
    <2> DEFINE low == Slot(2)
    <2>1. n >= 2 /\ low = slots[n - 1] /\ Pair(low, top)
      BY <1>1, <1>2, <1>5 DEF Slot, Paired
    <2>2. ~IsHalf(low) /\ IsFirst(low)
      BY <2>1 DEF Pair, IsFirst
    <2>3. Stack(Below(2))
      <3>1. 2 <= Len(slots) /\ ~IsHalf(slots[Len(slots) + 1 - 2])
        BY <1>1, <2>1, <2>2
      <3>2. QED
        BY <3>1, CutStack DEF IInv, Below
    <2>4. /\ i + 1 \in LocalIndex
          /\ locals' = [locals EXCEPT ![i] = low, ![i + 1] = top]
          /\ slots' = Below(2)
          /\ readable' \subseteq readable \cup {i}
          /\ i + 1 \notin readable'
          /\ \A j \in readable' : j # i => ~(j = i - 1 /\ Wide(locals[j].type))
      BY <1>1, <1>5 DEF Store, PopLocalWide
    <2>5. locals'[i] = low /\ locals'[i + 1] = top
      BY <1>1, <1>4, <2>4
    <2>6. \A j \in LocalIndex : j \notin {i, i + 1} => locals'[j] = locals[j]
      BY <1>4, <2>4
    <2>7. locals' = [j \in LocalIndex |-> locals'[j]]
      BY <1>4, <2>4
    <2> HIDE DEF low, top
    <2>8. ASSUME NEW j \in readable' PROVE Sound(locals', j)
      <3>1. CASE j = i
        BY <2>1, <2>2, <2>4, <2>5, <3>1 DEF Sound
      <3>2. CASE j # i
        <4>1. j \in LocalIndex /\ j \in Int /\ Sound(locals, j) /\ j # i + 1
          BY <1>3, <2>4, <3>2
        <4>2. locals'[j] = locals[j]
          BY <2>6, <3>2, <4>1
        <4>3. IsFirst(locals[j]) => j + 1 \notin {i, i + 1}
          BY <1>1, <2>4, <3>2, <4>1 DEF IsFirst
        <4>4. IsFirst(locals[j]) => locals'[j + 1] = locals[j + 1]
          BY <2>6, <4>1, <4>3 DEF Sound
        <4>5. QED
          BY <4>1, <4>2, <4>4 DEF Sound
      <3>3. QED
        BY <3>1, <3>2
    <2>9. readable' \subseteq LocalIndex
      BY <1>3, <2>4
    <2>10. Variables'
      BY <2>7, <2>8, <2>9 DEF Variables, PairedLocals, Sound
    <2>11. QED
      BY <2>3, <2>4, <2>10 DEF IInv
  <1>6. CASE ~IsHalf(top)
    <2>1. ~IsFirst(top)
      BY <1>1, <1>2 DEF Paired
    <2>2. Stack(Below(1))
      <3>1. 1 <= Len(slots) /\ ~IsHalf(slots[Len(slots) + 1 - 1])
        BY <1>1, <1>2, <1>6
      <3>2. QED
        BY <3>1, CutStack DEF IInv, Below
    <2>3. /\ locals' = [locals EXCEPT ![i] = top]
          /\ slots' = Below(1)
          /\ readable' \subseteq readable \cup {i}
          /\ \A j \in readable' : j # i => ~(j = i - 1 /\ Wide(locals[j].type))
      BY <1>1, <1>6 DEF Store, PopLocal
    <2>4. locals'[i] = top
      BY <1>4, <2>3
    <2>5. \A j \in LocalIndex : j # i => locals'[j] = locals[j]
      BY <1>4, <2>3
    <2>6. locals' = [j \in LocalIndex |-> locals'[j]]
      BY <1>4, <2>3
    <2> HIDE DEF top
    <2>7. ASSUME NEW j \in readable' PROVE Sound(locals', j)
      <3>1. CASE j = i
        BY <1>6, <2>1, <2>4, <3>1 DEF Sound
      <3>2. CASE j # i
        <4>1. j \in LocalIndex /\ j \in Int /\ Sound(locals, j)
          BY <1>3, <2>3, <3>2
        <4>2. locals'[j] = locals[j]
          BY <2>5, <3>2, <4>1
        <4>3. IsFirst(locals[j]) => j + 1 # i
          BY <1>1, <2>3, <3>2, <4>1 DEF IsFirst
        <4>4. IsFirst(locals[j]) => locals'[j + 1] = locals[j + 1]
          BY <2>5, <4>1, <4>3 DEF Sound
        <4>5. QED
          BY <4>1, <4>2, <4>4 DEF Sound
      <3>3. QED
        BY <3>1, <3>2
    <2>8. readable' \subseteq LocalIndex
      BY <1>3, <2>3
    <2>9. Variables'
      BY <2>6, <2>7, <2>8 DEF Variables, PairedLocals, Sound
    <2>10. QED
      BY <2>2, <2>3, <2>9 DEF IInv
  <1>7. QED
    BY <1>5, <1>6

\* Stores to arrays and fields only pop.
LEMMA PopIInv ==
  ASSUME IInv, NEW types, Len(types) \in Nat, DOMAIN types = 1 .. Len(types),
         Verified(types), slots' = Left(types), UNCHANGED <<locals, readable>>
  PROVE  IInv'
  BY PopsLeaveStack DEF IInv, Variables

\* The sequences of types in the handlers are sequences.
LEMMA TypeLists ==
  /\ Len(<<>>) \in Nat /\ DOMAIN <<>> = 1 .. Len(<<>>)
  /\ \A a : Len(<<a>>) \in Nat /\ DOMAIN <<a>> = 1 .. Len(<<a>>)
  /\ \A a, b : Len(<<a, b>>) \in Nat /\ DOMAIN <<a, b>> = 1 .. Len(<<a, b>>)
  /\ \A a, b, c : /\ Len(<<a, b, c>>) \in Nat
                  /\ DOMAIN <<a, b, c>> = 1 .. Len(<<a, b, c>>)
  OBVIOUS

\* No instruction can pop below an empty list of types.
LEMMA NothingVerified == Verified(<<>>)
  BY DEF Verified

\* Arithmetic, conversions and comparisons.
LEMMA ArithmeticIInv == IInv /\ Arithmetic => IInv'
  <1> SUFFICES ASSUME IInv, Arithmetic PROVE IInv'
    OBVIOUS
  <1> USE TypeLists
  <1>1. ASSUME NEW type, Negate(type) PROVE IInv'
    BY <1>1, GivesIInv DEF Negate
  <1>2. ASSUME NEW type, NEW what, Compute(type, what) PROVE IInv'
    BY <1>2, GivesIInv DEF Compute
  <1>3. ASSUME NEW type, NEW what, Divide(type, what) PROVE IInv'
    BY <1>3, GivesIInv, ThrowIInv, CrashIInv DEF Divide
  <1>4. ASSUME NEW type, NEW what, Shift(type, what) PROVE IInv'
    BY <1>4, GivesIInv DEF Shift
  <1>5. ASSUME NEW type, FloatNegate(type) PROVE IInv'
    BY <1>5, GivesIInv DEF FloatNegate
  <1>6. ASSUME NEW type, NEW what, FloatCompute(type, what) PROVE IInv'
    BY <1>6, GivesIInv, ThrowIInv DEF FloatCompute
  <1>7. ASSUME NEW type, NEW default, Compare(type, default) PROVE IInv'
    BY <1>7, GivesIInv DEF Compare
  <1>8. ASSUME NEW from, NEW to, Convert(from, to) PROVE IInv'
    BY <1>8, GivesIInv DEF Convert
  <1>9. QED
    BY <1>1, <1>2, <1>3, <1>4, <1>5, <1>6, <1>7, <1>8 DEF Arithmetic

\* Jumps.
LEMMA BranchingIInv == IInv /\ Branching => IInv'
  <1> SUFFICES ASSUME IInv, Branching PROVE IInv'
    OBVIOUS
  <1> USE TypeLists
  <1>1. CASE Nop \/ Goto
    BY <1>1, NothingVerified, BranchIInv DEF Nop, Goto
  <1>2. ASSUME NEW cond, If(cond) PROVE IInv'
    BY <1>2, BranchIInv DEF If
  <1>3. ASSUME NEW cond, IfNull(cond) PROVE IInv'
    BY <1>3, BranchIInv DEF IfNull
  <1>4. ASSUME NEW type, NEW cond, IfCompare(type, cond) PROVE IInv'
    BY <1>4, BranchIInv DEF IfCompare
  <1>5. ASSUME NEW low, NEW high, TableSwitch(low, high) PROVE IInv'
    BY <1>5, BranchIInv DEF TableSwitch
  <1>6. ASSUME NEW keys, LookupSwitch(keys) PROVE IInv'
    BY <1>6, BranchIInv DEF LookupSwitch
  <1>7. QED
    BY <1>1, <1>2, <1>3, <1>4, <1>5, <1>6 DEF Branching

\* Constants, local variables, arrays and fields.
LEMMA AccessesIInv == IInv /\ Accesses => IInv'
  <1> SUFFICES ASSUME IInv, Accesses PROVE IInv'
    OBVIOUS
  <1> USE TypeLists
  <1>1. ASSUME NEW type, NEW v, Const(type, v) PROVE IInv'
    BY <1>1, NothingVerified, GivesIInv DEF Const
  <1>2. ASSUME NEW i \in LocalIndex, LocalInstruction(i) PROVE IInv'
    BY <1>2, LoadIInv, StoreIInv, IncrementIInv DEF LocalInstruction
  <1>3. ASSUME NEW kind, ArrayLoad(kind) PROVE IInv'
    BY <1>3, GivesIInv, ThrowIInv, CrashIInv DEF ArrayLoad
  <1>4. ASSUME NEW kind, ArrayStore(kind) PROVE IInv'
    BY <1>4, PopIInv, ThrowIInv, CrashIInv DEF ArrayStore
  <1>5. ASSUME NEW kind, ArrayLength(kind) PROVE IInv'
    BY <1>5, GivesIInv, ThrowIInv DEF ArrayLength
  <1>6. ASSUME NEW f, GetStatic(f) PROVE IInv'
    BY <1>6, NothingVerified, GivesIInv DEF GetStatic
  <1>7. ASSUME NEW f, PutStatic(f) PROVE IInv'
    BY <1>7, PopIInv DEF PutStatic, SetField
  <1>8. ASSUME NEW f, GetField(f) PROVE IInv'
    BY <1>8, GivesIInv, ThrowIInv DEF GetField
  <1>9. ASSUME NEW f, PutField(f) PROVE IInv'
    BY <1>9, PopIInv, ThrowIInv DEF PutField, SetField
  <1>10. QED
    BY <1>1, <1>2, <1>3, <1>4, <1>5, <1>6, <1>7, <1>8, <1>9 DEF Accesses

\* No instruction breaks the inductive invariant.
LEMMA NextIInv == IInv /\ [Next]_vars => IInv'
  <1>1. IInv /\ UNCHANGED vars => IInv'
    BY DEF IInv, Variables, vars, memory
  <1>2. QED
    BY <1>1, StackInstructionIInv, ArithmeticIInv, BranchingIInv, AccessesIInv DEF Next

\* The two halves of a long or a double are next to each other in every
\* state: no sequence of instructions that a verifier lets pass tears them
\* apart, although the handlers move single slots and know nothing of halves.
THEOREM NothingIsTorn == Spec => []HalvesTogether
  <1>1. IInv => HalvesTogether
    BY DEF IInv, Stack, Variables, HalvesTogether
  <1>2. QED
    BY <1>1, InitIInv, NextIInv, PTL DEF Spec

-----------------------------------------------------------------------------
(* The monitors that monitorenter, monitorexit and synchronized methods lock *)

InCall(t) == pc[t] \in {"get", "spin", "init", "act"}
Waiting(t) == pc[t] \in {"asleep", "woken", "leave"}

\* The spin lock is held exactly from LockSpin to InitMonitor.
SpinIsExclusive == \A t \in Threads : pc[t] = "init" <=> spin = t

\* An operation begins only where the program allows it, and the block it
\* belongs to lasts as long as the operation.
CallsAreLegal ==
    \A t \in Threads :
        /\ InCall(t) => IF op[t] = "lock" THEN depth[t] < MaxDepth
                                          ELSE depth[t] > 0
        /\ Waiting(t) => depth[t] > 0 /\ waited[t]

\* The recursion count of a mutex and its owner agree, and no mutex but the
\* object's is ever locked.
CountsAreRight ==
    \A m \in Monitors : /\ owner[m] = None <=> count[m] = 0
                        /\ owner[m] # None => m = monitor

\* NothingIsLeaked is not inductive: a waiter has given up one level, which
\* it takes back before it is out of wait().
WaiterGaveUpOne ==
    \A t \in Threads, m \in Monitors :
        owner[m] = t /\ pc[t] \in {"asleep", "woken"} => count[m] < depth[t]

\* A thread that has not waited owns the monitor once for every block.
OwnsItsBlocks ==
    \A t \in Threads :
        Inside(t) /\ ~waited[t] => /\ monitor # None
                                   /\ owner[monitor] = t
                                   /\ count[monitor] = depth[t]

MonitorIInv == /\ TypeOK
        /\ OneMonitor
        /\ NothingIsLeaked
        /\ SpinIsExclusive
        /\ CallsAreLegal
        /\ CountsAreRight
        /\ WaiterGaveUpOne
        /\ OwnsItsBlocks

\* The invariant holds in the initial state.
LEMMA InitMonitorIInv == MonitorInit => MonitorIInv
  <1> SUFFICES ASSUME MonitorInit PROVE MonitorIInv
    OBVIOUS
  <1> USE MonitorAssumption DEF MonitorInit
  <1>1. TypeOK
    <2>1. /\ monitor \in Monitors \cup {None} /\ spin \in Threads \cup {None}
          /\ created \in SUBSET Monitors
          /\ owner \in [Monitors -> Threads \cup {None}]
          /\ count \in [Monitors -> Nat]
      OBVIOUS
    <2>2. pc \in [Threads -> PC] /\ op \in [Threads -> Op]
      BY DEF PC, Op
    <2>3. /\ mon \in [Threads -> Monitors \cup {None}]
          /\ depth \in [Threads -> 0 .. MaxDepth]
          /\ waited \in [Threads -> BOOLEAN]
      OBVIOUS
    <2>4. QED
      BY <2>1, <2>2, <2>3 DEF TypeOK
  <1>2. OneMonitor /\ NothingIsLeaked /\ SpinIsExclusive
    BY DEF OneMonitor, HasMonitor, NothingIsLeaked, SpinIsExclusive
  <1>3. CallsAreLegal /\ CountsAreRight /\ WaiterGaveUpOne /\ OwnsItsBlocks
    BY DEF CallsAreLegal, InCall, Waiting, CountsAreRight, WaiterGaveUpOne,
       OwnsItsBlocks, Inside
  <1>4. QED
    BY <1>1, <1>2, <1>3 DEF MonitorIInv

\* The steps that lock and unlock nothing.
LEMMA QuietStep ==
  ASSUME MonitorIInv, NEW t \in Threads,
         \/ MonitorEnter(t) \/ MonitorExit(t) \/ CallWait(t) \/ CallNotify(t)
         \/ GetMonitor(t) \/ LockSpin(t) \/ WakeUp(t)
         \/ DoNotify(t) \/ DoNotifyAll(t)
  PROVE  MonitorIInv'
  <1> USE MonitorAssumption
          DEF MonitorIInv, TypeOK, PC, Op, wordVars, mutexVars, blockVars, Goes, Calls,
              Acts, OneMonitor, HasMonitor, NothingIsLeaked, SpinIsExclusive,
              CallsAreLegal, InCall, Waiting, CountsAreRight, WaiterGaveUpOne,
              OwnsItsBlocks, Inside
  <1>1. CASE MonitorEnter(t) \/ MonitorExit(t)
    BY <1>1 DEF MonitorEnter, MonitorExit
  <1>2. CASE CallWait(t) \/ CallNotify(t)
    BY <1>2 DEF CallWait, CallNotify
  <1>3. CASE GetMonitor(t)
    BY <1>3 DEF GetMonitor
  <1>4. CASE LockSpin(t)
    BY <1>4 DEF LockSpin
  <1>5. CASE WakeUp(t)
    BY <1>5 DEF WakeUp
  <1>6. CASE DoNotify(t)
    BY <1>6 DEF DoNotify, Sleepers
  <1>7. CASE DoNotifyAll(t)
    BY <1>7 DEF DoNotifyAll, Sleepers
  <1>8. QED
    BY <1>1, <1>2, <1>3, <1>4, <1>5, <1>6, <1>7

\* The second check under the spin lock creates at most one monitor.
LEMMA InitMonitorStep ==
  ASSUME MonitorIInv, NEW t \in Threads, InitMonitor(t)
  PROVE  MonitorIInv'
  <1> USE MonitorAssumption
          DEF MonitorIInv, TypeOK, PC, Op, wordVars, mutexVars, blockVars, Goes,
              InitMonitor
  <1>1. TypeOK'
    OBVIOUS
  <1>2. OneMonitor' /\ SpinIsExclusive'
    BY DEF OneMonitor, HasMonitor, SpinIsExclusive
  <1>3. NothingIsLeaked' /\ CallsAreLegal' /\ CountsAreRight' /\ WaiterGaveUpOne'
    BY DEF NothingIsLeaked, CallsAreLegal, InCall, Waiting, CountsAreRight,
       WaiterGaveUpOne
  <1>4. OwnsItsBlocks'
    BY DEF OwnsItsBlocks, Inside
  <1>5. QED
    BY <1>1, <1>2, <1>3, <1>4

\* The steps that lock or unlock the mutex.
LEMMA MutexStep ==
  ASSUME MonitorIInv, NEW t \in Threads,
         DoLock(t) \/ DoUnlock(t) \/ Sleep(t) \/ Relock(t) \/ LeaveWait(t)
  PROVE  MonitorIInv'
  <1> DEFINE m == mon[t]
  <1> USE MonitorAssumption
          DEF MonitorIInv, TypeOK, PC, Op, wordVars, mutexVars, blockVars, Goes, Acts,
              Lock, Unlock, OneMonitor, HasMonitor, NothingIsLeaked,
              SpinIsExclusive, CallsAreLegal, InCall, Waiting, CountsAreRight,
              WaiterGaveUpOne, OwnsItsBlocks, Inside
  <1>1. m \in Monitors /\ m = monitor
    BY DEF DoLock, DoUnlock, Sleep, Relock, LeaveWait
  <1>2. CASE DoLock(t)
    BY <1>1, <1>2 DEF DoLock
  <1>3. CASE DoUnlock(t)
    <2>1. TypeOK'
      BY <1>1, <1>3 DEF DoUnlock
    <2>2. CountsAreRight'
      BY <1>1, <1>3 DEF DoUnlock
    <2>3. OneMonitor' /\ SpinIsExclusive' /\ CallsAreLegal'
      BY <1>1, <1>3 DEF DoUnlock
    <2>4. ASSUME NEW u \in Threads, NEW n \in Monitors, owner'[n] = u
          PROVE  /\ count'[n] <= depth'[u]
                 /\ pc'[u] \in {"asleep", "woken"} => count'[n] < depth'[u]
      <3>1. CASE owner[m] = t /\ u = t
        BY <1>1, <1>3, <2>4, <3>1 DEF DoUnlock
      <3>2. CASE owner[m] # t /\ u = t
        BY <1>1, <1>3, <2>4, <3>2 DEF DoUnlock
      <3>3. CASE u # t
        BY <1>1, <1>3, <2>4, <3>3 DEF DoUnlock
      <3>4. QED
        BY <3>1, <3>2, <3>3
    <2>5. OwnsItsBlocks'
      BY <1>1, <1>3 DEF DoUnlock
    <2>6. QED
      BY <2>1, <2>2, <2>3, <2>4, <2>5
  <1>4. CASE Sleep(t)
    <2>1. TypeOK'
      BY <1>1, <1>4 DEF Sleep
    <2>2. CountsAreRight'
      BY <1>1, <1>4 DEF Sleep
    <2>3. OneMonitor' /\ SpinIsExclusive' /\ CallsAreLegal'
      BY <1>1, <1>4 DEF Sleep
    <2>4. ASSUME NEW u \in Threads, NEW n \in Monitors, owner'[n] = u
          PROVE  /\ count'[n] <= depth'[u]
                 /\ pc'[u] \in {"asleep", "woken"} => count'[n] < depth'[u]
      <3>1. CASE owner[m] = t /\ u = t
        BY <1>1, <1>4, <2>4, <3>1 DEF Sleep
      <3>2. CASE owner[m] # t /\ u = t
        BY <1>1, <1>4, <2>4, <3>2 DEF Sleep
      <3>3. CASE u # t
        BY <1>1, <1>4, <2>4, <3>3 DEF Sleep
      <3>4. QED
        BY <3>1, <3>2, <3>3
    <2>5. OwnsItsBlocks'
      BY <1>1, <1>4 DEF Sleep
    <2>6. QED
      BY <2>1, <2>2, <2>3, <2>4, <2>5
  <1>5. CASE Relock(t)
    <2>1. TypeOK' /\ CountsAreRight'
      BY <1>1, <1>5 DEF Relock
    <2>2. OneMonitor' /\ SpinIsExclusive' /\ CallsAreLegal'
      BY <1>1, <1>5 DEF Relock
    <2>3. NothingIsLeaked' /\ WaiterGaveUpOne'
      BY <1>1, <1>5 DEF Relock
    <2>4. OwnsItsBlocks'
      BY <1>1, <1>5 DEF Relock
    <2>5. QED
      BY <2>1, <2>2, <2>3, <2>4
  <1>6. CASE LeaveWait(t)
    <2>1. TypeOK' /\ CountsAreRight'
      BY <1>1, <1>6 DEF LeaveWait
    <2>2. OneMonitor' /\ SpinIsExclusive' /\ CallsAreLegal'
      BY <1>1, <1>6 DEF LeaveWait
    <2>3. NothingIsLeaked' /\ WaiterGaveUpOne'
      BY <1>1, <1>6 DEF LeaveWait
    <2>4. OwnsItsBlocks'
      BY <1>1, <1>6 DEF LeaveWait
    <2>5. QED
      BY <2>1, <2>2, <2>3, <2>4
  <1>7. QED
    BY <1>2, <1>3, <1>4, <1>5, <1>6

\* The inductive invariant of the monitors holds in every state.
LEMMA InductiveInvariant == MonitorSpec => []MonitorIInv
  <1>1. MonitorIInv /\ [MonitorNext]_monitorVars => MonitorIInv'
    <2> SUFFICES ASSUME MonitorIInv, [MonitorNext]_monitorVars PROVE MonitorIInv'
      OBVIOUS
    <2>1. CASE UNCHANGED monitorVars
      BY <2>1 DEF MonitorIInv, TypeOK, OneMonitor, HasMonitor, NothingIsLeaked,
         SpinIsExclusive, CallsAreLegal, InCall, Waiting, CountsAreRight,
         WaiterGaveUpOne, OwnsItsBlocks, Inside, monitorVars
    <2>2. QED
      BY <2>1, QuietStep, InitMonitorStep, MutexStep DEF MonitorNext, Program, VMStep
  <1>2. QED
    BY <1>1, InitMonitorIInv, PTL DEF MonitorSpec

\* Every variable keeps its type.
THEOREM TypeCorrect == MonitorSpec => []TypeOK
  <1>1. MonitorIInv => TypeOK
    BY DEF MonitorIInv
  <1>2. QED
    BY <1>1, InductiveInvariant, PTL

\* However many threads race to create it, an object has one monitor.
THEOREM UniqueMonitor == MonitorSpec => []OneMonitor
  <1>1. MonitorIInv => OneMonitor
    BY DEF MonitorIInv
  <1>2. QED
    BY <1>1, InductiveInvariant, PTL

\* No thread ends up owning a monitor more often than its blocks explain.
THEOREM LockAccounting == MonitorSpec => []NothingIsLeaked
  <1>1. MonitorIInv => NothingIsLeaked
    BY DEF MonitorIInv
  <1>2. QED
    BY <1>1, InductiveInvariant, PTL

\* Blocks in which nobody waits are mutually exclusive.
THEOREM Exclusion == MonitorSpec => []ExclusionWithoutWait
  <1>1. MonitorIInv => ExclusionWithoutWait
    BY DEF MonitorIInv, OwnsItsBlocks, ExclusionWithoutWait
  <1>2. QED
    BY <1>1, InductiveInvariant, PTL
=============================================================================
