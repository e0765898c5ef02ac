--------------------------- MODULE FrameStackProofs ---------------------------
(***************************************************************************)
(* TLAPS proofs about FrameStack.tla: for any methods, any depth of calls  *)
(* and any size of the array, the shared slots implement the frames of     *)
(* JavaFrames.tla, and what a frame can read has not been collected.       *)
(*                                                                         *)
(* Both rest on one fact: the slots of a frame, its operands included,     *)
(* lie below the base of every frame that was called after it.             *)
(***************************************************************************)
EXTENDS FrameStack, SequenceTheorems, TLAPS

TypeOK == /\ slots \in [0 .. Size - 1 -> Values]
          /\ frames \in Seq(Frames)
          /\ polling \in BOOLEAN
          /\ allocated \in SUBSET Oops
          /\ crashed \in BOOLEAN

\* What holds of each frame f, its fields alone.
Fits(f) ==
    /\ f.defined \subseteq 0 .. f.method.locals - 1
    /\ Memory(f) <= Size
    /\ TopSlot(f) < Size
    /\ f.sp >= -1 \/ (f.thrown # None /\ f.next \in {"stop", "more"})
    /\ f.thrown = None => f.next = "stop"
    /\ f.method.native => f.next \in {"stop", "more", "last"}

\* What holds of each frame f that has called g.
Calls(f, g) ==
    /\ f.sp >= -1
    /\ f.thrown # None => f.next \notin {"stop", "more"}
    /\ f.next = "report" => ~g.method.returns
    /\ ~g.manual => f.thrown = None \/ f.next = "invoke"

\* The first frame is the one of run() or main.
First(f) == ~f.method.native /\ ~f.method.returns

FramesFit(fs) == \A k \in 1 .. Len(fs) : Fits(fs[k])
FramesCall(fs) == \A k \in 1 .. Len(fs) - 1 : Calls(fs[k], fs[k + 1])
FirstReports(fs) == /\ fs # <<>> => First(fs[1])
                    /\ \A k \in 2 .. Len(fs) : fs[k].next # "report"
FramesAreDisjoint(fs) ==
    \A j, k \in 1 .. Len(fs) : j < k => TopSlot(fs[j]) < fs[k].base

WellFormed(fs) == /\ fs \in Seq(Frames)
                  /\ FramesFit(fs)
                  /\ FramesCall(fs)
                  /\ FirstReports(fs)
                  /\ FramesAreDisjoint(fs)

EntryPolls == polling => frames # <<>> /\ Top.thrown = None

Layout == TypeOK /\ WellFormed(frames) /\ EntryPolls

\* ReadableIsAlive where no frame has lain over another.
NoneCollected ==
    ~crashed => \A k \in DOMAIN frames :
        Readable(frames[k]) \subseteq allocated \cup {Prim, Undefined}

IInv == Layout /\ NoneCollected

-----------------------------------------------------------------------------
(* Sequences used as stacks *)

LEMMA FrontOf ==
  ASSUME NEW S, NEW s \in Seq(S), s # <<>>
  PROVE  /\ Len(s) \in Nat \ {0}
         /\ Front(s) \in Seq(S)
         /\ Len(Front(s)) = Len(s) - 1
         /\ \A i \in 1 .. Len(s) - 1 : Front(s)[i] = s[i]
         /\ Last(s) = s[Len(s)] /\ Last(s) \in S
  <1> DEFINE n == Len(s) - 1
  <1>1. n \in Nat /\ n + 1 = Len(s) /\ \A i \in 1 .. n + 1 : s[i] \in S
    BY EmptySeq, ElementOfSeq
  <1>2. /\ SubSeq(s, 1, n) \in Seq(S)
        /\ Len(SubSeq(s, 1, n)) = IF 1 <= n THEN n - 1 + 1 ELSE 0
        /\ \A i \in 1 .. n - 1 + 1 : SubSeq(s, 1, n)[i] = s[1 + i - 1]
    BY <1>1, SubSeqProperties, 1 \in Int, n \in Int
  <1>3. QED
    BY <1>1, <1>2 DEF Front, Last

\* A function on 1 .. n is a sequence of length n.
LEMMA FunctionIsSeq ==
  ASSUME NEW S, NEW n \in Nat, NEW f \in [1 .. n -> S]
  PROVE  f \in Seq(S) /\ Len(f) = n
  OBVIOUS

\* The last entry of a stack is replaced.
LEMMA Replaced ==
  ASSUME NEW S, NEW s \in Seq(S), s # <<>>, NEW x \in S
  PROVE  /\ Append(Front(s), x) \in Seq(S)
         /\ Len(Append(Front(s), x)) = Len(s)
         /\ \A i \in 1 .. Len(s) - 1 : Append(Front(s), x)[i] = s[i]
         /\ Append(Front(s), x)[Len(s)] = x
         /\ Front(Append(Front(s), x)) = Front(s)
         /\ Last(Append(Front(s), x)) = x
  <1> DEFINE f == Front(s)
             r == Append(f, x)
  <1>1. /\ Len(s) \in Nat \ {0} /\ f \in Seq(S) /\ Len(f) = Len(s) - 1
        /\ \A i \in 1 .. Len(s) - 1 : f[i] = s[i]
    BY FrontOf
  <1> HIDE DEF f
  <1>2. /\ r \in Seq(S) /\ r # <<>> /\ Len(r) = Len(f) + 1
        /\ \A i \in 1 .. Len(f) : r[i] = f[i]
        /\ r[Len(f) + 1] = x
    BY <1>1, AppendProperties
  <1> HIDE DEF r
  <1>3. /\ Front(r) \in Seq(S) /\ Len(Front(r)) = Len(r) - 1
        /\ \A i \in 1 .. Len(r) - 1 : Front(r)[i] = r[i]
        /\ Last(r) = r[Len(r)]
    BY <1>2, FrontOf
  <1>4. Front(r) = f
    <2>1. Len(Front(r)) = Len(f) /\ \A i \in 1 .. Len(f) : Front(r)[i] = f[i]
      BY <1>1, <1>2, <1>3
    <2>2. QED
      BY <1>1, <1>3, <2>1, SeqEqual
  <1>5. QED
    BY <1>1, <1>2, <1>3, <1>4 DEF f, r

-----------------------------------------------------------------------------
(* What a frame shows of the slots *)

LocalsIn(f, s) == [i \in 1 .. f.method.locals |->
                      IF i - 1 \in f.defined THEN s[f.base + i - 1] ELSE Undefined]
OperandsIn(f, s) ==
    IF f.thrown # None /\ f.next \in {"stop", "more", "last", "report"} THEN <<>>
    ELSE [i \in 1 .. f.sp + 1 |-> s[Memory(f) + i - 1]]
View(f, s) == [native |-> f.method.native,
               locals |-> LocalsIn(f, s),
               operands |-> OperandsIn(f, s)]
Views(fs, s) == [k \in DOMAIN fs |-> View(fs[k], s)]

\* The stack of JavaFrames.
J == Views(frames, slots)
JavaFrame == [native : BOOLEAN, locals : Seq(Values \cup {Undefined}),
              operands : Seq(Values)]

\* No frame shows a difference between s and s2.
SameViews(fs, s, s2) == \A k \in 1 .. Len(fs) : View(fs[k], s2) = View(fs[k], s)

Slots == [0 .. Size - 1 -> Values]
SameBelow(b, s, s2) == \A i \in 0 .. Size - 1 : i < b => s2[i] = s[i]

\* The fields of a frame and the slots it computes from them.
LEMMA FrameTypes ==
  ASSUME NEW f \in Frames
  PROVE  /\ f.method \in Methods
         /\ f.method.params \in Nat /\ f.method.locals \in Nat
         /\ f.method.params <= f.method.locals /\ f.method.locals <= MaxLocals
         /\ f.method.returns \in BOOLEAN /\ f.method.native \in BOOLEAN
         /\ f.method.native => f.method.params = f.method.locals
         /\ f.base \in Nat /\ f.sp \in Int /\ f.sp >= -3 /\ f.sp <= MaxOperands - 1
         /\ Memory(f) \in Nat /\ Memory(f) = f.base + f.method.locals
         /\ TopSlot(f) \in Int /\ TopSlot(f) = Memory(f) + f.sp
         /\ {Size, MaxFrames, MaxLocals, MaxOperands} \subseteq Nat
  <1> USE FrameStackAssumption
  <1>1. /\ f.method \in Methods /\ f.base \in 0 .. Size /\ f.sp \in -3 .. MaxOperands - 1
        /\ {Size, MaxFrames, MaxLocals, MaxOperands} \subseteq Nat
    BY DEF Frames
  <1>2. f.method \in Method /\ f.method.params <= f.method.locals
        /\ (f.method.native => f.method.params = f.method.locals)
    BY <1>1
  <1>3. /\ f.method.params \in Nat /\ f.method.locals \in Nat
        /\ f.method.locals <= MaxLocals
        /\ f.method.returns \in BOOLEAN /\ f.method.native \in BOOLEAN
    BY <1>1, <1>2 DEF Method
  <1>4. QED
    BY <1>1, <1>2, <1>3 DEF Memory, TopSlot

\* The slots below the top one decide what it shows.
LEMMA SameView ==
  ASSUME NEW f \in Frames, Fits(f), NEW s \in Slots, NEW s2 \in Slots,
         \A i \in 0 .. Size - 1 : i < Memory(f) \/ i <= TopSlot(f) => s2[i] = s[i]
  PROVE  View(f, s2) = View(f, s)
  <1> USE FrameTypes
  <1>1. LocalsIn(f, s2) = LocalsIn(f, s)
    <2>1. ASSUME NEW i \in 1 .. f.method.locals PROVE s2[f.base + i - 1] = s[f.base + i - 1]
      BY DEF Fits
    <2>2. QED
      BY <2>1 DEF LocalsIn
  <1>2. OperandsIn(f, s2) = OperandsIn(f, s)
    <2>1. ASSUME NEW i \in 1 .. f.sp + 1 PROVE s2[Memory(f) + i - 1] = s[Memory(f) + i - 1]
      BY DEF Fits
    <2>2. QED
      BY <2>1 DEF OperandsIn
  <1>3. QED
    BY <1>1, <1>2 DEF View

\* Both are sequences of values.
LEMMA ViewType ==
  ASSUME NEW f \in Frames, Fits(f), NEW s \in Slots
  PROVE  /\ View(f, s).locals \in Seq(Values \cup {Undefined})
         /\ Len(View(f, s).locals) = f.method.locals
         /\ View(f, s).operands \in Seq(Values)
         /\ f.thrown # None /\ f.next \in {"stop", "more", "last", "report"} => View(f, s).operands = <<>>
         /\ f.thrown = None \/ f.next \notin {"stop", "more", "last", "report"} =>
                /\ Len(View(f, s).operands) = f.sp + 1
                /\ \A i \in 1 .. f.sp + 1 : View(f, s).operands[i] = s[Memory(f) + i - 1]
  <1> USE FrameTypes
  <1>1. /\ LocalsIn(f, s) \in Seq(Values \cup {Undefined})
        /\ Len(LocalsIn(f, s)) = f.method.locals
    <2>1. \A i \in 1 .. f.method.locals : f.base + i - 1 \in 0 .. Size - 1
      BY DEF Fits
    <2>2. \A i \in 1 .. f.method.locals : s[f.base + i - 1] \in Values
      BY <2>1 DEF Slots
    <2>3. LocalsIn(f, s) \in [1 .. f.method.locals -> Values \cup {Undefined}]
      BY <2>2 DEF LocalsIn
    <2>4. QED
      BY <2>3, FunctionIsSeq
  <1>2. CASE f.thrown # None /\ f.next \in {"stop", "more", "last", "report"}
    BY <1>1, <1>2 DEF View, OperandsIn
  <1>3. CASE f.thrown = None \/ f.next \notin {"stop", "more", "last", "report"}
    <2>1. f.sp + 1 \in Nat
      BY <1>3 DEF Fits
    <2>2. \A i \in 1 .. f.sp + 1 : Memory(f) + i - 1 \in 0 .. Size - 1
      BY DEF Fits
    <2>3. OperandsIn(f, s) = [i \in 1 .. f.sp + 1 |-> s[Memory(f) + i - 1]]
      BY <1>3 DEF OperandsIn
    <2>4. OperandsIn(f, s) \in [1 .. f.sp + 1 -> Values]
      BY <2>2, <2>3 DEF Slots
    <2>5. OperandsIn(f, s) \in Seq(Values) /\ Len(OperandsIn(f, s)) = f.sp + 1
      BY <2>1, <2>4, FunctionIsSeq
    <2>6. QED
      BY <1>1, <1>3, <2>3, <2>5 DEF View
  <1>4. QED
    BY <1>2, <1>3

\* What a list of frames shows is a list, frame by frame.
LEMMA ViewsShape ==
  ASSUME NEW fs \in Seq(Frames), NEW s, NEW S,
         \A k \in 1 .. Len(fs) : View(fs[k], s) \in S
  PROVE  /\ Views(fs, s) \in Seq(S)
         /\ Len(Views(fs, s)) = Len(fs)
         /\ \A k \in 1 .. Len(fs) : Views(fs, s)[k] = View(fs[k], s)
  BY LenProperties DEF Views

\* The same without a type for what is shown.
LEMMA ViewsAt ==
  ASSUME NEW fs \in Seq(Frames), NEW s
  PROVE  /\ Len(Views(fs, s)) = Len(fs)
         /\ \A k \in 1 .. Len(fs) : Views(fs, s)[k] = View(fs[k], s)
  <1>1. \A k \in 1 .. Len(fs) : View(fs[k], s) \in {View(g, s) : g \in Frames}
    BY ElementOfSeq
  <1>2. QED
    BY <1>1, ViewsShape

\* A stack of frames and what it shows are pushed and popped alike.
LEMMA ViewsPushed ==
  ASSUME NEW fs \in Seq(Frames), NEW f \in Frames, NEW s, NEW s2, SameViews(fs, s, s2)
  PROVE  Views(Append(fs, f), s2) = Append(Views(fs, s), View(f, s2))
  <1> DEFINE S == {View(g, s) : g \in Frames} \cup {View(g, s2) : g \in Frames}
             n == Len(fs)
             gs == Append(fs, f)
             V == Views(fs, s)
             W == Views(gs, s2)
  <1>1. /\ n \in Nat /\ gs \in Seq(Frames) /\ Len(gs) = n + 1
        /\ \A k \in 1 .. n : gs[k] = fs[k]
        /\ gs[n + 1] = f
    BY AppendProperties, LenProperties
  <1> HIDE DEF gs
  <1>2. /\ \A k \in 1 .. n : View(fs[k], s) \in S /\ fs[k] \in Frames
        /\ \A k \in 1 .. n + 1 : View(gs[k], s2) \in S
        /\ View(f, s2) \in S
    BY <1>1, ElementOfSeq
  <1> HIDE DEF S
  <1>3. V \in Seq(S) /\ Len(V) = n /\ \A k \in 1 .. n : V[k] = View(fs[k], s)
    BY <1>2, ViewsShape
  <1>4. W \in Seq(S) /\ Len(W) = n + 1 /\ \A k \in 1 .. n + 1 : W[k] = View(gs[k], s2)
    BY <1>1, <1>2, ViewsShape
  <1> HIDE DEF V, W
  <1> DEFINE A == Append(V, View(f, s2))
  <1>5. /\ A \in Seq(S) /\ Len(A) = n + 1
        /\ \A k \in 1 .. n : A[k] = V[k]
        /\ A[n + 1] = View(f, s2)
    BY <1>2, <1>3, AppendProperties
  <1>6. \A k \in 1 .. n : View(fs[k], s2) = View(fs[k], s)
    BY DEF SameViews
  <1> HIDE DEF A, n
  <1>7. \A k \in 1 .. n + 1 : W[k] = A[k]
    <2> SUFFICES ASSUME NEW k \in 1 .. n + 1 PROVE W[k] = A[k]
      OBVIOUS
    <2>1. CASE k = n + 1
      BY <1>1, <1>4, <1>5, <2>1
    <2>2. CASE k # n + 1
      BY <1>1, <1>3, <1>4, <1>5, <1>6, <2>2
    <2>3. QED
      BY <2>1, <2>2
  <1>8. W = A
    BY <1>1, <1>4, <1>5, <1>7, SeqEqual
  <1>9. QED
    BY <1>8 DEF W, A, V, gs

\* Popping a frame pops what it shows.
LEMMA ViewsPopped ==
  ASSUME NEW fs \in Seq(Frames), fs # <<>>, NEW s
  PROVE  Views(Front(fs), s) = Front(Views(fs, s))
  <1> DEFINE S == {View(g, s) : g \in Frames}
             n == Len(fs)
             gs == Front(fs)
             V == Views(fs, s)
             W == Views(gs, s)
  <1>1. /\ n \in Nat \ {0} /\ gs \in Seq(Frames) /\ Len(gs) = n - 1
        /\ \A k \in 1 .. n - 1 : gs[k] = fs[k]
    BY FrontOf
  <1> HIDE DEF gs
  <1>2. /\ \A k \in 1 .. n : View(fs[k], s) \in S
        /\ \A k \in 1 .. n - 1 : View(gs[k], s) \in S
    BY <1>1, ElementOfSeq
  <1> HIDE DEF S
  <1>3. V \in Seq(S) /\ Len(V) = n /\ \A k \in 1 .. n : V[k] = View(fs[k], s)
    BY <1>2, ViewsShape
  <1>4. W \in Seq(S) /\ Len(W) = n - 1 /\ \A k \in 1 .. n - 1 : W[k] = View(gs[k], s)
    BY <1>1, <1>2, ViewsShape
  <1> HIDE DEF V, W
  <1>5. /\ Front(V) \in Seq(S) /\ Len(Front(V)) = n - 1
        /\ \A k \in 1 .. n - 1 : Front(V)[k] = V[k]
    BY <1>1, <1>3, FrontOf, EmptySeq
  <1> HIDE DEF n
  <1>6. \A k \in 1 .. n - 1 : W[k] = Front(V)[k]
    BY <1>1, <1>3, <1>4, <1>5 DEF n
  <1>7. W = Front(V)
    BY <1>1, <1>4, <1>5, <1>6, SeqEqual
  <1>8. QED
    BY <1>7 DEF W, V, gs

-----------------------------------------------------------------------------
(* Calls and returns keep the frames well formed *)

\* Nothing that is readable is missing from a.
Alive(v, a) ==
    /\ \A i \in 1 .. Len(v.locals) : v.locals[i] \in a \cup {Prim, Undefined}
    /\ \A i \in 1 .. Len(v.operands) : v.operands[i] \in a \cup {Prim, Undefined}
AllAlive(vs, a) == \A k \in 1 .. Len(vs) : Alive(vs[k], a)

\* What happens to a frame while it runs.
SameCall(f, g) == /\ f.base = g.base /\ f.method = g.method /\ f.manual = g.manual
                  /\ f.next = "report" => g.next = "report"

\* The top frame lies above all its callers.
LEMMA TopOf ==
  ASSUME NEW fs, WellFormed(fs), fs # <<>>
  PROVE  /\ fs \in Seq(Frames) /\ Len(fs) \in Nat \ {0}
         /\ Last(fs) = fs[Len(fs)] /\ Last(fs) \in Frames /\ Fits(Last(fs))
         /\ Front(fs) \in Seq(Frames) /\ Len(Front(fs)) = Len(fs) - 1
         /\ \A k \in 1 .. Len(fs) - 1 :
                /\ Front(fs)[k] = fs[k] /\ fs[k] \in Frames /\ Fits(fs[k])
                /\ TopSlot(fs[k]) < Last(fs).base
                /\ Memory(fs[k]) <= Last(fs).base
  <1>1. /\ fs \in Seq(Frames) /\ Len(fs) \in Nat \ {0}
        /\ Last(fs) = fs[Len(fs)] /\ Last(fs) \in Frames
        /\ Front(fs) \in Seq(Frames) /\ Len(Front(fs)) = Len(fs) - 1
        /\ \A k \in 1 .. Len(fs) - 1 : Front(fs)[k] = fs[k]
    BY FrontOf DEF WellFormed
  <1>2. \A k \in 1 .. Len(fs) : fs[k] \in Frames /\ Fits(fs[k])
    BY <1>1, ElementOfSeq DEF WellFormed, FramesFit
  <1>3. ASSUME NEW k \in 1 .. Len(fs) - 1
        PROVE  TopSlot(fs[k]) < Last(fs).base /\ Memory(fs[k]) <= Last(fs).base
    <2>1. TopSlot(fs[k]) < Last(fs).base
      BY <1>1 DEF WellFormed, FramesAreDisjoint
    <2>2. fs[k] \in Frames /\ fs[k].sp >= -1
      BY <1>1, <1>2 DEF WellFormed, FramesCall, Calls
    <2>3. /\ Last(fs).base \in Nat /\ fs[k].sp \in Int /\ Memory(fs[k]) \in Nat
          /\ TopSlot(fs[k]) = Memory(fs[k]) + fs[k].sp
      BY <1>1, <2>2, FrameTypes
    <2>4. Memory(fs[k]) <= TopSlot(fs[k]) + 1
      BY <2>2, <2>3
    <2>5. QED
      BY <2>1, <2>3, <2>4
  <1>4. QED
    BY <1>1, <1>2, <1>3

\* Writes at or above the base of the last frame leave its callers alone.
LEMMA CallersSame ==
  ASSUME NEW fs, WellFormed(fs), fs # <<>>, NEW s \in Slots, NEW s2 \in Slots,
         SameBelow(Last(fs).base, s, s2)
  PROVE  SameViews(Front(fs), s, s2)
  <1> SUFFICES ASSUME NEW k \in 1 .. Len(fs) - 1
               PROVE  View(fs[k], s2) = View(fs[k], s)
    BY TopOf DEF SameViews
  <1>1. /\ fs[k] \in Frames /\ Fits(fs[k]) /\ Last(fs) \in Frames
        /\ TopSlot(fs[k]) < Last(fs).base /\ Memory(fs[k]) <= Last(fs).base
    BY TopOf
  <1>2. \A i \in 0 .. Size - 1 : i < Memory(fs[k]) \/ i <= TopSlot(fs[k])
                                     => s2[i] = s[i]
    <2>1. Last(fs).base \in Nat /\ TopSlot(fs[k]) \in Int /\ Memory(fs[k]) \in Nat
      BY <1>1, FrameTypes
    <2>2. QED
      BY <1>1, <2>1 DEF SameBelow
  <1>3. QED
    BY <1>1, <1>2, SameView

\* A change at or above the base of the top frame shows in that frame alone.
LEMMA TopReplaced ==
  ASSUME NEW fs, WellFormed(fs), fs # <<>>, NEW s \in Slots, NEW s2 \in Slots,
         NEW f \in Frames, Fits(f), SameCall(f, Last(fs)),
         SameBelow(Last(fs).base, s, s2)
  PROVE  /\ WellFormed(Append(Front(fs), f))
         /\ Append(Front(fs), f) # <<>>
         /\ Last(Append(Front(fs), f)) = f
         /\ Front(Append(Front(fs), f)) = Front(fs)
         /\ Views(Append(Front(fs), f), s2) = Append(Front(Views(fs, s)), View(f, s2))
  <1> DEFINE n == Len(fs)
  <1>0. PICK gs : gs = Append(Front(fs), f)
    OBVIOUS
  <1>1. /\ fs \in Seq(Frames) /\ n \in Nat \ {0} /\ Last(fs) = fs[n]
        /\ \A k \in 1 .. n : fs[k] \in Frames
    BY TopOf
  <1>2. /\ gs \in Seq(Frames) /\ Len(gs) = n
        /\ \A k \in 1 .. n - 1 : gs[k] = fs[k]
        /\ gs[n] = f
        /\ Front(gs) = Front(fs) /\ Last(gs) = f
    BY <1>0, <1>1, Replaced
  <1> HIDE DEF n
  <1>3. FramesFit(gs)
    BY <1>1, <1>2 DEF WellFormed, FramesFit, n
  <1>4. FramesCall(gs)
    <2> SUFFICES ASSUME NEW k \in 1 .. n - 1 PROVE Calls(gs[k], gs[k + 1])
      BY <1>2 DEF FramesCall
    <2>1. Calls(fs[k], fs[k + 1])
      BY DEF WellFormed, FramesCall, n
    <2>2. CASE k + 1 = n
      BY <1>1, <1>2, <2>1, <2>2 DEF Calls, SameCall
    <2>3. CASE k + 1 # n
      BY <1>1, <1>2, <2>1, <2>3
    <2>4. QED
      BY <2>2, <2>3
  <1>5. FirstReports(gs)
    BY <1>1, <1>2 DEF WellFormed, FirstReports, First, SameCall, n
  <1>6. FramesAreDisjoint(gs)
    <2> SUFFICES ASSUME NEW j \in 1 .. n, NEW k \in 1 .. n, j < k
                 PROVE  TopSlot(gs[j]) < gs[k].base
      BY <1>2 DEF FramesAreDisjoint
    <2>1. TopSlot(fs[j]) < fs[k].base
      BY DEF WellFormed, FramesAreDisjoint, n
    <2>2. gs[j] = fs[j] /\ gs[k].base = fs[k].base
      BY <1>1, <1>2 DEF SameCall
    <2>3. QED
      BY <2>1, <2>2
  <1>7. Views(gs, s2) = Append(Front(Views(fs, s)), View(f, s2))
    <2> DEFINE hs == Front(fs)
    <2>1. hs \in Seq(Frames)
      BY TopOf
    <2>2. SameViews(hs, s, s2)
      BY CallersSame
    <2>3. Views(hs, s) = Front(Views(fs, s))
      BY <1>1, ViewsPopped
    <2>4. gs = Append(hs, f)
      BY <1>0
    <2> HIDE DEF hs
    <2>5. Views(Append(hs, f), s2) = Append(Views(hs, s), View(f, s2))
      BY <2>1, <2>2, ViewsPushed
    <2>6. QED
      BY <2>3, <2>4, <2>5
  <1>8. gs # <<>>
    BY <1>1, <1>2
  <1>9. WellFormed(gs)
    BY <1>2, <1>3, <1>4, <1>5, <1>6 DEF WellFormed
  <1>10. QED
    BY <1>0, <1>2, <1>7, <1>8, <1>9

\* g is called by the last frame: its base is right above its operands.
LEMMA FramePushed ==
  ASSUME NEW fs, WellFormed(fs), fs # <<>>, NEW s \in Slots, NEW s2 \in Slots,
         NEW g \in Frames, Fits(g), g.next # "report", Calls(Last(fs), g),
         g.base = TopSlot(Last(fs)) + 1,
         SameBelow(g.base, s, s2)
  PROVE  /\ WellFormed(Append(fs, g))
         /\ Append(fs, g) # <<>>
         /\ Last(Append(fs, g)) = g
         /\ Views(Append(fs, g), s2) = Append(Views(fs, s), View(g, s2))
  <1> DEFINE n == Len(fs)
             f == Last(fs)
  <1>0. PICK gs : gs = Append(fs, g)
    OBVIOUS
  <1>1. /\ fs \in Seq(Frames) /\ n \in Nat \ {0} /\ f = fs[n]
        /\ f \in Frames /\ Fits(f)
        /\ \A k \in 1 .. n - 1 : /\ fs[k] \in Frames /\ Fits(fs[k])
                                 /\ TopSlot(fs[k]) < f.base /\ Memory(fs[k]) <= f.base
    BY TopOf
  <1>2. /\ gs \in Seq(Frames) /\ gs # <<>> /\ Len(gs) = n + 1
        /\ \A k \in 1 .. n : gs[k] = fs[k]
        /\ gs[n + 1] = g /\ Last(gs) = g
    BY <1>0, <1>1, AppendProperties DEF Last
  <1>3. f.sp >= -1 /\ g.base = TopSlot(f) + 1 /\ Calls(f, g)
    BY DEF Calls
  <1> HIDE DEF n, f
  <1>4. f.base <= g.base /\ Memory(f) <= g.base
    <2>1. /\ f.base \in Nat /\ f.method.locals \in Nat /\ f.sp \in Int
          /\ Memory(f) = f.base + f.method.locals
          /\ TopSlot(f) = Memory(f) + f.sp
      BY <1>1, FrameTypes
    <2>2. QED
      BY <1>3, <2>1
  <1>5. ASSUME NEW k \in 1 .. n
        PROVE  /\ fs[k] \in Frames /\ Fits(fs[k])
               /\ TopSlot(fs[k]) < g.base /\ Memory(fs[k]) <= g.base
    <2>1. CASE k = n
      <3>1. fs[k] = f /\ f \in Frames /\ Fits(f)
        BY <1>1, <2>1
      <3>2. TopSlot(f) < g.base
        <4>1. TopSlot(f) \in Int
          BY <3>1, FrameTypes
        <4>2. QED
          BY <1>3, <4>1
      <3>3. QED
        BY <1>4, <3>1, <3>2
    <2>2. CASE k # n
      <3>1. fs[k] \in Frames /\ Fits(fs[k]) /\ TopSlot(fs[k]) < f.base /\ Memory(fs[k]) <= f.base
        BY <1>1, <2>2
      <3>2. TopSlot(fs[k]) \in Int /\ Memory(fs[k]) \in Nat
        BY <3>1, FrameTypes
      <3>3. f.base \in Nat /\ g.base \in Nat
        BY <1>1, FrameTypes
      <3>4. QED
        BY <3>1, <3>2, <3>3, <1>4
    <2>3. QED
      BY <2>1, <2>2
  <1>6. FramesFit(gs)
    BY <1>1, <1>2, <1>5 DEF FramesFit
  <1>7. FramesCall(gs)
    <2> SUFFICES ASSUME NEW k \in 1 .. n PROVE Calls(gs[k], gs[k + 1])
      BY <1>1, <1>2 DEF FramesCall
    <2>1. CASE k = n
      BY <1>1, <1>2, <1>3, <2>1
    <2>2. CASE k # n
      BY <1>1, <1>2, <2>2 DEF WellFormed, FramesCall, n
    <2>3. QED
      BY <2>1, <2>2
  <1>8. FirstReports(gs)
    BY <1>1, <1>2 DEF WellFormed, FirstReports, n
  <1>9. FramesAreDisjoint(gs)
    <2> SUFFICES ASSUME NEW j \in 1 .. n + 1, NEW k \in 1 .. n + 1, j < k
                 PROVE  TopSlot(gs[j]) < gs[k].base
      BY <1>2 DEF FramesAreDisjoint
    <2>1. CASE k = n + 1
      <3>1. j \in 1 .. n /\ gs[j] = fs[j] /\ gs[k] = g
        BY <1>1, <1>2, <2>1
      <3>2. QED
        BY <1>5, <3>1
    <2>2. CASE k # n + 1
      <3>1. j \in 1 .. n /\ k \in 1 .. n /\ gs[j] = fs[j] /\ gs[k] = fs[k]
        BY <1>1, <1>2, <2>2
      <3>2. QED
        BY <3>1 DEF WellFormed, FramesAreDisjoint, n
    <2>3. QED
      BY <2>1, <2>2
  <1>10. SameViews(fs, s, s2)
    <2> SUFFICES ASSUME NEW k \in 1 .. n PROVE View(fs[k], s2) = View(fs[k], s)
      BY DEF SameViews, n
    <2>1. \A i \in 0 .. Size - 1 : i < Memory(fs[k]) \/ i <= TopSlot(fs[k])
                                       => s2[i] = s[i]
      <3>1. /\ TopSlot(fs[k]) < g.base /\ Memory(fs[k]) <= g.base
            /\ TopSlot(fs[k]) \in Int /\ Memory(fs[k]) \in Nat /\ g.base \in Nat
        BY <1>5, FrameTypes
      <3>2. QED
        BY <3>1 DEF SameBelow
    <2>2. QED
      BY <1>5, <2>1, SameView
  <1>11. Views(gs, s2) = Append(Views(fs, s), View(g, s2))
    BY <1>0, <1>1, <1>10, ViewsPushed
  <1>12. WellFormed(gs)
    BY <1>2, <1>6, <1>7, <1>8, <1>9 DEF WellFormed
  <1>13. QED
    BY <1>0, <1>2, <1>11, <1>12

\* The last frame is gone.
LEMMA FramePopped ==
  ASSUME NEW fs, WellFormed(fs), fs # <<>>, NEW s
  PROVE  /\ WellFormed(Front(fs))
         /\ Views(Front(fs), s) = Front(Views(fs, s))
  <1> DEFINE n == Len(fs)
  <1>0. PICK gs : gs = Front(fs)
    OBVIOUS
  <1>1. /\ fs \in Seq(Frames) /\ n \in Nat \ {0}
        /\ gs \in Seq(Frames) /\ Len(gs) = n - 1
        /\ \A k \in 1 .. n - 1 : gs[k] = fs[k] /\ fs[k] \in Frames
    BY <1>0, TopOf
  <1>2. Views(Front(fs), s) = Front(Views(fs, s))
    BY <1>1, ViewsPopped
  <1> HIDE DEF n
  <1>3. FramesFit(gs) /\ FramesCall(gs)
    <2>1. FramesFit(gs)
      BY <1>1 DEF WellFormed, FramesFit, n
    <2>2. FramesCall(gs)
      <3>1. \A k \in 1 .. n - 1 : Calls(fs[k], fs[k + 1])
        BY DEF WellFormed, FramesCall, n
      <3>2. \A k \in 1 .. n - 1 - 1 : gs[k] = fs[k] /\ gs[k + 1] = fs[k + 1]
        BY <1>1
      <3>3. QED
        BY <1>1, <3>1, <3>2 DEF FramesCall
    <2>3. QED
      BY <2>1, <2>2
  <1>4. FirstReports(gs) /\ FramesAreDisjoint(gs)
    <2>1. gs # <<>> => n > 1
      BY <1>1, EmptySeq
    <2>2. FirstReports(gs)
      <3>1. /\ fs # <<>> => First(fs[1])
            /\ \A k \in 2 .. n : fs[k].next # "report"
        BY DEF WellFormed, FirstReports, n
      <3>2. gs # <<>> => gs[1] = fs[1]
        BY <1>1, <2>1
      <3>3. \A k \in 2 .. n - 1 : gs[k] = fs[k]
        BY <1>1
      <3>4. QED
        BY <1>1, <3>1, <3>2, <3>3 DEF FirstReports
    <2>3. FramesAreDisjoint(gs)
      <3>1. \A j, k \in 1 .. n : j < k => TopSlot(fs[j]) < fs[k].base
        BY DEF WellFormed, FramesAreDisjoint, n
      <3>2. QED
        BY <1>1, <3>1 DEF FramesAreDisjoint
    <2>4. QED
      BY <2>2, <2>3
  <1>5. QED
    BY <1>0, <1>1, <1>2, <1>3, <1>4 DEF WellFormed

\* A thread begins.
LEMMA FirstPushed ==
  ASSUME NEW g \in Frames, Fits(g), First(g), NEW s
  PROVE  WellFormed(<<g>>) /\ Views(<<g>>, s) = <<View(g, s)>>
  BY DEF WellFormed, FramesFit, FramesCall, FirstReports, FramesAreDisjoint, Views

-----------------------------------------------------------------------------
(* The same for what the frames show *)

LEMMA ViewsTyped ==
  ASSUME NEW fs, WellFormed(fs), NEW s \in Slots
  PROVE  /\ Views(fs, s) \in Seq(JavaFrame)
         /\ Len(Views(fs, s)) = Len(fs)
         /\ \A k \in 1 .. Len(fs) : Views(fs, s)[k] = View(fs[k], s)
  <1>1. \A k \in 1 .. Len(fs) : fs[k] \in Frames /\ Fits(fs[k])
    BY ElementOfSeq DEF WellFormed, FramesFit
  <1>2. ASSUME NEW k \in 1 .. Len(fs) PROVE View(fs[k], s) \in JavaFrame
    <2>1. /\ View(fs[k], s).locals \in Seq(Values \cup {Undefined})
          /\ View(fs[k], s).operands \in Seq(Values)
      BY <1>1, ViewType
    <2>2. fs[k].method.native \in BOOLEAN
      BY <1>1, FrameTypes
    <2>3. QED
      BY <2>1, <2>2 DEF View, JavaFrame
  <1>3. QED
    BY <1>2, ViewsShape DEF WellFormed

\* A frame that shows only living objects does so when there are more.
LEMMA AliveStays ==
  ASSUME NEW v, NEW a, NEW b, a \subseteq b, Alive(v, a)
  PROVE  Alive(v, b)
  BY DEF Alive

\* All frames stay alive when the top one is replaced by a living one,
LEMMA AliveReplaced ==
  ASSUME NEW S, NEW vs \in Seq(S), vs # <<>>, NEW v \in S,
         NEW a, NEW b, a \subseteq b, AllAlive(vs, a), Alive(v, b)
  PROVE  AllAlive(Append(Front(vs), v), b)
  <1> DEFINE ws == Append(Front(vs), v)
  <1>1. /\ Len(ws) = Len(vs) /\ Len(vs) \in Nat \ {0}
        /\ \A k \in 1 .. Len(vs) - 1 : ws[k] = vs[k]
        /\ ws[Len(vs)] = v
    BY Replaced, EmptySeq
  <1> HIDE DEF ws
  <1>2. ASSUME NEW k \in 1 .. Len(vs) PROVE Alive(ws[k], b)
    <2>1. CASE k = Len(vs)
      BY <1>1, <2>1
    <2>2. CASE k # Len(vs)
      <3>1. ws[k] = vs[k] /\ Alive(vs[k], a)
        BY <1>1, <2>2 DEF AllAlive
      <3>2. QED
        BY <3>1, AliveStays
    <2>3. QED
      BY <2>1, <2>2
  <1>3. QED
    BY <1>1, <1>2 DEF AllAlive, ws

\* when a living one is pushed,
LEMMA AlivePushed ==
  ASSUME NEW S, NEW vs \in Seq(S), NEW v \in S,
         NEW a, NEW b, a \subseteq b, AllAlive(vs, a), Alive(v, b)
  PROVE  AllAlive(Append(vs, v), b)
  <1> DEFINE ws == Append(vs, v)
  <1>1. /\ Len(ws) = Len(vs) + 1 /\ Len(vs) \in Nat
        /\ \A k \in 1 .. Len(vs) : ws[k] = vs[k]
        /\ ws[Len(vs) + 1] = v
    BY AppendProperties, LenProperties
  <1> HIDE DEF ws
  <1>2. ASSUME NEW k \in 1 .. Len(vs) + 1 PROVE Alive(ws[k], b)
    <2>1. CASE k = Len(vs) + 1
      BY <1>1, <2>1
    <2>2. CASE k # Len(vs) + 1
      <3>1. ws[k] = vs[k] /\ Alive(vs[k], a)
        BY <1>1, <2>2 DEF AllAlive
      <3>2. QED
        BY <3>1, AliveStays
    <2>3. QED
      BY <2>1, <2>2
  <1>3. QED
    BY <1>1, <1>2 DEF AllAlive, ws

\* and when the top one is popped.
LEMMA AlivePopped ==
  ASSUME NEW S, NEW vs \in Seq(S), vs # <<>>, NEW a, AllAlive(vs, a)
  PROVE  AllAlive(Front(vs), a)
  BY FrontOf DEF AllAlive

\* The two properties, in terms of J.
LEMMA JavaStackIsJ == JavaStack = J
  BY DEF JavaStack, J, Views, View, LocalsIn, OperandsIn, Locals, Operands

\* NoneCollected, said of the Java frames the slots show.
LEMMA ReadableInJ ==
  Layout => (NoneCollected <=> (~crashed => AllAlive(J, allocated)))
  <1> SUFFICES ASSUME Layout
               PROVE  NoneCollected <=> (~crashed => AllAlive(J, allocated))
    OBVIOUS
  <1>1. /\ frames \in Seq(Frames) /\ slots \in Slots
        /\ \A k \in 1 .. Len(frames) : frames[k] \in Frames /\ Fits(frames[k])
        /\ DOMAIN frames = 1 .. Len(frames)
    BY ElementOfSeq, LenProperties DEF Layout, TypeOK, WellFormed, FramesFit, Slots
  <1>2. Len(J) = Len(frames) /\ \A k \in 1 .. Len(frames) : J[k] = View(frames[k], slots)
    BY <1>1, ViewsAt DEF J
  <1>3. ASSUME NEW k \in 1 .. Len(frames)
        PROVE  Readable(frames[k]) \subseteq allocated \cup {Prim, Undefined}
                   <=> Alive(J[k], allocated)
    <2> DEFINE f == frames[k]
               v == View(f, slots)
    <2>1. /\ v.locals \in Seq(Values \cup {Undefined}) /\ v.operands \in Seq(Values)
          /\ Locals(f) = v.locals /\ Operands(f) = v.operands
      BY <1>1, ViewType DEF Locals, Operands, View, LocalsIn, OperandsIn
    <2> HIDE DEF v
    <2>2. /\ Range(v.locals) = {v.locals[i] : i \in 1 .. Len(v.locals)}
          /\ Range(v.operands) = {v.operands[i] : i \in 1 .. Len(v.operands)}
      BY <2>1, RangeEquality
    <2>3. QED
      BY <1>2, <2>1, <2>2 DEF Readable, Alive, v
  <1>4. QED
    BY <1>1, <1>2, <1>3 DEF NoneCollected, AllAlive

-----------------------------------------------------------------------------
(* Steps of the frame that runs *)

LEMMA SameJavaFrame ==
  ASSUME NEW r \in JavaFrame, NEW q \in JavaFrame, r.native = q.native,
         r.locals = q.locals, r.operands = q.operands
  PROVE  r = q
  BY DEF JavaFrame

\* A frame is its locals, its operands and whether it is native, while it runs.
LEMMA RunningFrame ==
  ASSUME NEW r \in JavaFrame, NEW q \in JavaFrame, r.native = q.native
  PROVE  q = [r EXCEPT !.locals = q.locals, !.operands = q.operands]
  <1> DEFINE p == [r EXCEPT !.locals = q.locals, !.operands = q.operands]
  <1>1. /\ p \in JavaFrame /\ p.native = r.native
        /\ p.locals = q.locals /\ p.operands = q.operands
    BY DEF JavaFrame
  <1> HIDE DEF p
  <1>2. p = q
    BY <1>1, SameJavaFrame
  <1>3. QED
    BY <1>2 DEF p

\* The top frame, in the slots and in the Java stack.
LEMMA TopFacts ==
  ASSUME Layout, frames # <<>>
  PROVE  /\ slots \in Slots /\ frames \in Seq(Frames) /\ WellFormed(frames)
         /\ Top \in Frames /\ Fits(Top) /\ Top = Last(frames)
         /\ Callers = Front(frames)
         /\ J \in Seq(JavaFrame) /\ J # <<>> /\ JavaStack = J
         /\ Len(J) = Len(frames) /\ Len(J) \in Nat \ {0}
         /\ Last(J) = View(Top, slots)
         /\ Java!Top = View(Top, slots) /\ Java!Callers = Front(J)
  <1>1. /\ slots \in Slots /\ frames \in Seq(Frames) /\ WellFormed(frames)
        /\ Top = Last(frames) /\ Callers = Front(frames) /\ JavaStack = J
    BY JavaStackIsJ DEF Layout, TypeOK, WellFormed, Top, Callers, Slots
  <1>2. /\ Top \in Frames /\ Fits(Top) /\ Len(frames) \in Nat \ {0}
        /\ Top = frames[Len(frames)]
    BY <1>1, TopOf
  <1>3. /\ J \in Seq(JavaFrame) /\ Len(J) = Len(frames)
        /\ \A k \in 1 .. Len(frames) : J[k] = View(frames[k], slots)
    BY <1>1, ViewsTyped DEF J
  <1>4. J # <<>> /\ Last(J) = J[Len(J)]
    BY <1>2, <1>3, EmptySeq DEF Last
  <1>5. Java!Top = Last(J) /\ Java!Callers = Front(J)
    BY <1>1 DEF Java!Top, Java!Callers, Java!Last, Java!Front, Last, Front
  <1>6. Last(J) = View(Top, slots)
    BY <1>2, <1>3, <1>4
  <1>7. QED
    BY <1>1, <1>2, <1>3, <1>4, <1>5, <1>6

\* The frame that runs becomes f, and writes no slot of its callers.
LEMMA TopStep ==
  ASSUME Layout, frames # <<>>, NEW f \in Frames, Fits(f), SameCall(f, Top),
         Becomes(f), slots' \in Slots,
         SameBelow(Top.base, slots, slots'),
         polling' = FALSE, crashed' \in BOOLEAN, allocated' \in SUBSET Oops
  PROVE  /\ Layout'
         /\ Java!Running(View(f, slots').locals, View(f, slots').operands)
         /\ View(f, slots') \in JavaFrame
         /\ (/\ NoneCollected /\ ~crashed /\ allocated \subseteq allocated'
             /\ Alive(View(f, slots'), allocated')) => NoneCollected'
  <1>1. /\ slots \in Slots /\ WellFormed(frames) /\ Top = Last(frames)
        /\ frames' = Append(Front(frames), f)
        /\ J \in Seq(JavaFrame) /\ J # <<>> /\ JavaStack = J
        /\ Java!Top = View(Top, slots) /\ Java!Callers = Front(J)
    BY TopFacts DEF Becomes
  <1>2. /\ WellFormed(frames') /\ frames' # <<>> /\ Last(frames') = f
        /\ Views(frames', slots') = Append(Front(Views(frames, slots)), View(f, slots'))
    <2>1. SameCall(f, Last(frames)) /\ SameBelow(Last(frames).base, slots, slots')
      BY <1>1
    <2>2. QED
      BY <1>1, <2>1, TopReplaced
  <1>3. Layout'
    BY <1>2 DEF Layout, TypeOK, WellFormed, EntryPolls, Slots
  <1>4. J' = Append(Front(J), View(f, slots')) /\ JavaStack' = J'
    <2>1. JavaStack' = J'
      BY DEF JavaStack, J, Views, View, LocalsIn, OperandsIn, Locals, Operands
    <2>2. QED
      BY <1>2, <2>1 DEF J
  <1>5. View(f, slots') \in JavaFrame
    <2>1. /\ View(f, slots').locals \in Seq(Values \cup {Undefined})
          /\ View(f, slots').operands \in Seq(Values)
      BY ViewType
    <2>2. f.method.native \in BOOLEAN
      BY FrameTypes
    <2>3. QED
      BY <2>1, <2>2 DEF View, JavaFrame
  <1>6. Java!Running(View(f, slots').locals, View(f, slots').operands)
    <2>1. View(f, slots') = [View(Top, slots) EXCEPT !.locals = View(f, slots').locals,
                                                     !.operands = View(f, slots').operands]
      <3>1. View(Top, slots) \in JavaFrame
        BY <1>1, TopFacts, FrontOf
      <3>2. View(f, slots').native = View(Top, slots).native
        BY DEF View, SameCall
      <3>3. QED
        BY <1>5, <3>1, <3>2, RunningFrame
    <2>2. QED
      BY <1>1, <1>4, <2>1 DEF Java!Running
  <1>7. ASSUME NoneCollected, ~crashed, allocated \subseteq allocated',
               Alive(View(f, slots'), allocated')
        PROVE  NoneCollected'
    <2>1. AllAlive(J, allocated)
      BY <1>7, ReadableInJ
    <2>2. AllAlive(Append(Front(J), View(f, slots')), allocated')
      BY <1>1, <1>5, <1>7, <2>1, AliveReplaced
    <2>3. AllAlive(J', allocated')
      BY <1>4, <2>2
    <2>4. (Layout => (NoneCollected <=> (~crashed => AllAlive(J, allocated))))'
      BY ReadableInJ, PTL
    <2>5. QED
      BY <1>3, <2>3, <2>4
  <1>8. QED
    BY <1>3, <1>5, <1>6, <1>7

\* What every step of FrameStack is to the frames of Java.
JavaStep == Java!Next \/ JavaStack' = JavaStack

\* The top frame holds only living objects.
LEMMA TopIsAlive ==
  ASSUME Layout, frames # <<>>, NoneCollected, ~crashed
  PROVE  Alive(View(Top, slots), allocated)
  <1>1. AllAlive(J, allocated)
    BY ReadableInJ
  <1>2. /\ J \in Seq(JavaFrame) /\ Len(J) \in Nat \ {0}
        /\ Last(J) = View(Top, slots)
    BY TopFacts
  <1>3. J[Len(J)] = View(Top, slots)
    BY <1>2 DEF Last
  <1>4. QED
    BY <1>1, <1>2, <1>3 DEF AllAlive

\* Locals change only when slots below the operands do.
LEMMA SameLocals ==
  ASSUME NEW f \in Frames, NEW g \in Frames, Fits(f), NEW s \in Slots, NEW s2 \in Slots,
         g.base = f.base, g.method = f.method, g.defined = f.defined,
         SameBelow(Memory(f), s, s2)
  PROVE  View(g, s2).locals = View(f, s).locals
  <1>1. /\ f.base \in Nat /\ f.method.locals \in Nat
        /\ Memory(f) = f.base + f.method.locals /\ Memory(f) <= Size /\ Size \in Nat
    BY FrameTypes DEF Fits
  <1>2. ASSUME NEW i \in 1 .. f.method.locals
        PROVE  s2[f.base + i - 1] = s[f.base + i - 1]
    BY <1>1 DEF SameBelow
  <1>3. LocalsIn(g, s2) = LocalsIn(f, s)
    BY <1>2 DEF LocalsIn
  <1>4. QED
    BY <1>3 DEF View

\* The frame that runs, where nothing is thrown.
LEMMA TopNumbers ==
  ASSUME Layout, frames # <<>>, Top.thrown = None
  PROVE  /\ Top.base \in Nat /\ Top.method.locals \in Nat /\ Top.sp \in Int
         /\ Top.sp >= -1 /\ Top.sp <= MaxOperands - 1
         /\ Memory(Top) = Top.base + Top.method.locals
         /\ TopSlot(Top) = Memory(Top) + Top.sp
         /\ Memory(Top) <= Size /\ TopSlot(Top) < Size
         /\ Size \in Nat /\ MaxOperands \in Nat
         /\ Memory(Top) \in Nat /\ TopSlot(Top) + 1 \in Nat
         /\ Top.base <= Memory(Top) /\ Memory(Top) <= TopSlot(Top) + 1
  <1>1. /\ Top \in Frames /\ Fits(Top) /\ slots \in Slots
    BY TopFacts
  <1>2. Top.sp >= -1 /\ Memory(Top) <= Size /\ TopSlot(Top) < Size
    BY <1>1 DEF Fits
  <1>3. /\ Top.base \in Nat /\ Top.method.locals \in Nat /\ Top.sp \in Int
        /\ Top.sp <= MaxOperands - 1
        /\ Memory(Top) = Top.base + Top.method.locals
        /\ TopSlot(Top) = Memory(Top) + Top.sp
        /\ Size \in Nat /\ MaxOperands \in Nat
    BY <1>1, FrameTypes
  <1>4. QED
    BY <1>2, <1>3

\* What the top frame shows while it has not thrown.
LEMMA TopView ==
  ASSUME Layout, frames # <<>>, Top.thrown = None
  PROVE  /\ View(Top, slots).locals \in Seq(Values \cup {Undefined})
         /\ Len(View(Top, slots).locals) = Top.method.locals
         /\ View(Top, slots).operands \in Seq(Values)
         /\ Len(View(Top, slots).operands) = Top.sp + 1
         /\ \A i \in 1 .. Top.sp + 1 :
                View(Top, slots).operands[i] = slots[Memory(Top) + i - 1]
  <1>1. /\ Top \in Frames /\ Fits(Top) /\ slots \in Slots
    BY TopFacts
  <1>2. QED
    BY <1>1, ViewType

HasOperands(f) == f.thrown = None \/ f.next \notin {"stop", "more", "last", "report"}

\* One operand is pushed.
LEMMA MoreOperands ==
  ASSUME NEW f \in Frames, NEW g \in Frames, Fits(f), Fits(g),
         HasOperands(f), HasOperands(g), f.sp >= -1,
         g.base = f.base, g.method = f.method, g.sp = f.sp + 1,
         NEW s \in Slots, NEW s2 \in Slots, SameBelow(TopSlot(f) + 1, s, s2),
         NEW x, s2[TopSlot(f) + 1] = x
  PROVE  /\ View(g, s2).operands = Append(View(f, s).operands, x)
         /\ View(f, s).operands \in Seq(Values) /\ x \in Values
  <1> DEFINE o == View(f, s).operands
             o2 == View(g, s2).operands
             n == f.sp + 1
             m == Memory(f)
             k == TopSlot(f) + 1
  <1>1. /\ o \in Seq(Values) /\ Len(o) = n
        /\ \A i \in 1 .. n : o[i] = s[m + i - 1]
    BY ViewType DEF HasOperands
  <1>2. /\ o2 \in Seq(Values) /\ Len(o2) = g.sp + 1
        /\ \A i \in 1 .. g.sp + 1 : o2[i] = s2[Memory(g) + i - 1]
    BY ViewType DEF HasOperands
  <1>3. /\ n \in Nat /\ g.sp + 1 = n + 1 /\ m \in Nat /\ Memory(g) = m
        /\ k = m + n /\ Size \in Nat /\ k < Size
    <2>1. f.sp \in Int /\ m \in Nat /\ TopSlot(f) = m + f.sp /\ Size \in Nat
      BY FrameTypes
    <2>2. Memory(g) = m /\ TopSlot(g) < Size /\ TopSlot(g) = Memory(g) + g.sp
      BY DEF Memory, TopSlot, Fits
    <2> HIDE DEF m
    <2>3. QED
      BY <2>1, <2>2
  <1>4. s2[k] = x
    OBVIOUS
  <1> HIDE DEF o, o2, n, m, k
  <1>5. x \in Values
    <2>1. k \in 0 .. Size - 1
      BY <1>3
    <2>2. QED
      BY <1>4, <2>1 DEF Slots
  <1>6. /\ Append(o, x) \in Seq(Values) /\ Len(Append(o, x)) = n + 1
        /\ \A i \in 1 .. n : Append(o, x)[i] = o[i]
        /\ Append(o, x)[n + 1] = x
    BY <1>1, <1>5, AppendProperties
  <1>7. ASSUME NEW i \in 1 .. n + 1 PROVE o2[i] = Append(o, x)[i]
    <2>1. o2[i] = s2[m + i - 1]
      BY <1>2, <1>3
    <2>2. CASE i = n + 1
      <3>1. m + i - 1 = k
        BY <1>3, <2>2
      <3>2. QED
        BY <1>4, <1>6, <2>1, <2>2, <3>1
    <2>3. CASE i # n + 1
      <3>1. i \in 1 .. n /\ m + i - 1 \in 0 .. Size - 1 /\ m + i - 1 < k
        BY <1>3, <2>3
      <3>2. s2[m + i - 1] = s[m + i - 1]
        BY <3>1 DEF SameBelow, k
      <3>3. QED
        BY <1>1, <1>6, <2>1, <3>1, <3>2
    <2>4. QED
      BY <2>2, <2>3
  <1>8. o2 = Append(o, x)
    BY <1>2, <1>3, <1>6, <1>7, SeqEqual
  <1>9. QED
    BY <1>1, <1>5, <1>8 DEF o, o2

\* A push of the code is a push of the Java frame, and keeps the rest.
LEMMA PushStep ==
  ASSUME Layout, frames # <<>>, Top.thrown = None, ~crashed, ~polling,
         NEW v \in Values, PushSlot(v),
         polling' = polling, crashed' = crashed,
         allocated' \in SUBSET Oops, allocated \subseteq allocated'
  PROVE  /\ Layout'
         /\ Java!Push(v)
         /\ NoneCollected /\ v \in allocated' \cup {Prim} => NoneCollected'
  <1> DEFINE f == [Top EXCEPT !.sp = @ + 1]
             o == View(Top, slots).operands
             k == TopSlot(Top) + 1
  <1>0. polling \in BOOLEAN /\ crashed \in BOOLEAN
    BY DEF Layout, TypeOK
  <1> DEFINE m == Memory(Top)
             p == Top.sp
  <1>a. /\ p \in Int /\ p >= -1 /\ p <= MaxOperands - 1 /\ MaxOperands \in Nat
        /\ Top.base \in Nat /\ m \in Nat /\ m <= Size /\ Size \in Nat
        /\ k = m + p + 1 /\ k \in Nat /\ Top.base <= m /\ m <= k
    BY TopNumbers
  <1>1. /\ Top \in Frames /\ Fits(Top) /\ slots \in Slots
        /\ Java!Top = View(Top, slots) /\ JavaStack # <<>>
    BY TopFacts
  <1>b. p < MaxOperands - 1 /\ k < Size
    BY DEF PushSlot
  <1>2. slots' = [slots EXCEPT ![k] = v] /\ Becomes(f)
    BY DEF PushSlot
  <1>3. /\ f \in Frames /\ f.sp = Top.sp + 1 /\ f.base = Top.base
        /\ f.method = Top.method /\ f.manual = Top.manual /\ f.thrown = None
        /\ f.next = Top.next /\ f.defined = Top.defined
    <2>1. p + 1 \in -3 .. MaxOperands - 1
      <3>1. p \in Int /\ p >= -1 /\ p < MaxOperands - 1 /\ MaxOperands \in Nat
        BY <1>a, <1>b
      <3>2. QED
        BY <3>1
    <2>2. QED
      BY <1>1, <2>1 DEF Frames
  <1> HIDE DEF f
  <1>4. /\ Memory(f) = Memory(Top) /\ TopSlot(f) = k
        /\ Fits(f) /\ SameCall(f, Top)
    <2>1. Memory(f) = m /\ TopSlot(f) = k
      BY <1>a, <1>3 DEF Memory, TopSlot
    <2>2. Top.next = "stop" /\ Top.defined \subseteq 0 .. Top.method.locals - 1
      BY <1>1 DEF Fits
    <2>3. f.sp >= -1 /\ Memory(f) <= Size /\ TopSlot(f) < Size
      BY <1>a, <1>b, <1>3, <2>1
    <2>4. QED
      BY <1>3, <2>1, <2>2, <2>3 DEF Fits, SameCall
  <1> HIDE DEF k, m, p
  <1>6. /\ slots' \in Slots /\ slots'[k] = v
        /\ SameBelow(k, slots, slots')
    BY <1>a, <1>b, <1>1, <1>2 DEF Slots, SameBelow
  <1>7. SameBelow(m, slots, slots') /\ SameBelow(Top.base, slots, slots')
    BY <1>a, <1>6 DEF SameBelow
  <1>8. /\ Layout'
        /\ Java!Running(View(f, slots').locals, View(f, slots').operands)
        /\ (/\ NoneCollected /\ ~crashed /\ allocated \subseteq allocated'
            /\ Alive(View(f, slots'), allocated')) => NoneCollected'
    BY <1>0, <1>2, <1>3, <1>4, <1>6, <1>7, TopStep
  <1>9. View(f, slots').locals = View(Top, slots).locals
    BY <1>1, <1>3, <1>6, <1>7, SameLocals DEF m
  <1>10. View(f, slots').operands = Append(o, v)
    <2>1. Top.sp >= -1 /\ HasOperands(Top) /\ HasOperands(f)
      BY <1>a, <1>3 DEF p, HasOperands
    <2>2. SameBelow(TopSlot(Top) + 1, slots, slots') /\ slots'[TopSlot(Top) + 1] = v
      BY <1>6 DEF k
    <2>3. QED
      BY <1>1, <1>3, <1>4, <1>6, <2>1, <2>2, MoreOperands
  <1>11. Java!Push(v)
    BY <1>1, <1>8, <1>9, <1>10 DEF Java!Push
  <1>12. ASSUME NoneCollected, v \in allocated' \cup {Prim}
         PROVE  Alive(View(f, slots'), allocated')
    <2>1. Alive(View(Top, slots), allocated')
      BY <1>12, TopIsAlive, AliveStays
    <2>2. /\ o \in Seq(Values) /\ Len(Append(o, v)) = Len(o) + 1
          /\ \A i \in 1 .. Len(o) : Append(o, v)[i] = o[i]
          /\ Append(o, v)[Len(o) + 1] = v
          /\ Len(o) \in Nat
      BY AppendProperties, TopView, LenProperties
    <2>3. QED
      BY <1>9, <1>10, <1>12, <2>1, <2>2 DEF Alive
  <1>13. QED
    BY <1>8, <1>11, <1>12

SameFrom(b, s, s2) == \A i \in 0 .. Size - 1 : i >= b => s2[i] = s[i]

\* The first n entries of a sequence.
LEMMA Prefix ==
  ASSUME NEW S, NEW o \in Seq(S), NEW n \in Nat, n <= Len(o)
  PROVE  /\ SubSeq(o, 1, n) \in Seq(S) /\ Len(SubSeq(o, 1, n)) = n
         /\ \A i \in 1 .. n : SubSeq(o, 1, n)[i] = o[i]
  <1>1. Len(o) \in Nat /\ \A i \in 1 .. n : o[i] \in S
    BY LenProperties, ElementOfSeq
  <1>2. /\ SubSeq(o, 1, n) \in Seq(S)
        /\ Len(SubSeq(o, 1, n)) = IF 1 <= n THEN n - 1 + 1 ELSE 0
        /\ \A i \in 1 .. n - 1 + 1 : SubSeq(o, 1, n)[i] = o[1 + i - 1]
    BY <1>1, SubSeqProperties, 1 \in Int, n \in Int
  <1>3. QED
    BY <1>2

\* d operands are popped.
LEMMA FewerOperands ==
  ASSUME NEW f \in Frames, NEW g \in Frames, Fits(f), Fits(g),
         HasOperands(f), HasOperands(g),
         g.base = f.base, g.method = f.method,
         NEW d \in Nat, d <= f.sp + 1, g.sp = f.sp - d,
         NEW s \in Slots, NEW s2 \in Slots, SameFrom(Memory(f), s, s2)
  PROVE  View(g, s2).operands = SubSeq(View(f, s).operands, 1, f.sp + 1 - d)
  <1> DEFINE o == View(f, s).operands
             o2 == View(g, s2).operands
             n == f.sp + 1 - d
             m == Memory(f)
  <1>1. /\ o \in Seq(Values) /\ Len(o) = f.sp + 1
        /\ \A i \in 1 .. f.sp + 1 : o[i] = s[m + i - 1]
    BY ViewType DEF HasOperands
  <1>2. /\ o2 \in Seq(Values) /\ Len(o2) = g.sp + 1
        /\ \A i \in 1 .. g.sp + 1 : o2[i] = s2[Memory(g) + i - 1]
    BY ViewType DEF HasOperands
  <1>3. /\ f.sp \in Int /\ n \in Nat /\ n <= f.sp + 1 /\ g.sp + 1 = n
        /\ m \in Nat /\ Memory(g) = m /\ Size \in Nat /\ m + f.sp < Size
    <2>1. f.sp \in Int /\ m \in Nat /\ TopSlot(f) = m + f.sp /\ Size \in Nat
      BY FrameTypes
    <2>2. Memory(g) = m /\ TopSlot(f) < Size
      BY DEF Memory, Fits
    <2>3. QED
      BY <2>1, <2>2
  <1> HIDE DEF o, o2, n, m
  <1>4. /\ SubSeq(o, 1, n) \in Seq(Values) /\ Len(SubSeq(o, 1, n)) = n
        /\ \A i \in 1 .. n : SubSeq(o, 1, n)[i] = o[i]
    BY <1>1, <1>3, Prefix
  <1>5. ASSUME NEW i \in 1 .. n PROVE o2[i] = SubSeq(o, 1, n)[i]
    <2>1. i \in 1 .. f.sp + 1 /\ i \in 1 .. g.sp + 1
          /\ m + i - 1 \in 0 .. Size - 1 /\ m + i - 1 >= m
      BY <1>3
    <2>2. s2[m + i - 1] = s[m + i - 1]
      BY <2>1 DEF SameFrom, m
    <2>3. QED
      BY <1>1, <1>2, <1>3, <1>4, <2>1, <2>2
  <1>6. o2 = SubSeq(o, 1, n)
    BY <1>2, <1>3, <1>4, <1>5, SeqEqual
  <1>7. QED
    BY <1>6 DEF o, o2, n

\* A frame that drops operands stays alive.
LEMMA PrefixIsAlive ==
  ASSUME NEW S, NEW v, NEW w, NEW a, Alive(v, a), v.operands \in Seq(S),
         w.locals = v.locals, NEW n \in Nat, n <= Len(v.operands),
         w.operands = SubSeq(v.operands, 1, n)
  PROVE  Alive(w, a)
  <1>1. /\ Len(w.operands) = n /\ Len(v.operands) \in Nat
        /\ \A i \in 1 .. n : w.operands[i] = v.operands[i]
    BY Prefix, LenProperties
  <1>2. QED
    BY <1>1 DEF Alive

\* pop implements a pop.
LEMMA PopStep ==
  ASSUME Layout, Pop
  PROVE  Layout' /\ JavaStep /\ (NoneCollected => NoneCollected')
  <1> DEFINE f == [Top EXCEPT !.sp = @ - 1]
             v == View(Top, slots)
  <1>1. /\ frames # <<>> /\ Top.thrown = None /\ ~crashed /\ ~polling
        /\ Top.sp >= 0 /\ Becomes(f)
        /\ UNCHANGED <<slots, polling, allocated, crashed>>
    BY DEF Pop, Bytecode, Executing, Active
  <1>2. /\ Top \in Frames /\ Fits(Top) /\ slots \in Slots
        /\ Java!Top = v /\ JavaStack # <<>>
        /\ polling \in BOOLEAN /\ crashed \in BOOLEAN /\ allocated \in SUBSET Oops
    BY <1>1, TopFacts DEF Layout, TypeOK
  <1>3. /\ Top.sp \in Int /\ Top.sp <= MaxOperands - 1 /\ MaxOperands \in Nat
        /\ v.operands \in Seq(Values) /\ Len(v.operands) = Top.sp + 1
    BY <1>1, TopNumbers, TopView
  <1>4. /\ f \in Frames /\ f.sp = Top.sp - 1 /\ f.base = Top.base
        /\ f.method = Top.method /\ f.manual = Top.manual /\ f.thrown = None
        /\ f.next = Top.next /\ f.defined = Top.defined
    <2>1. Top.sp - 1 \in -3 .. MaxOperands - 1
      BY <1>1, <1>3
    <2>2. QED
      BY <1>1, <1>2, <2>1 DEF Frames
  <1> HIDE DEF f
  <1>5. Fits(f) /\ SameCall(f, Top)
    <2>1. /\ Memory(Top) \in Nat /\ Memory(Top) <= Size /\ TopSlot(Top) < Size
          /\ Size \in Nat /\ TopSlot(Top) = Memory(Top) + Top.sp
      BY <1>1, TopNumbers
    <2>2. Memory(f) = Memory(Top) /\ TopSlot(f) = Memory(Top) + (Top.sp - 1)
      BY <1>4 DEF Memory, TopSlot
    <2>3. Top.next = "stop" /\ Top.defined \subseteq 0 .. Top.method.locals - 1
      BY <1>1, <1>2 DEF Fits
    <2>4. f.sp >= -1 /\ Memory(f) <= Size /\ TopSlot(f) < Size
      BY <1>1, <1>3, <1>4, <2>1, <2>2
    <2>5. QED
      BY <1>4, <2>3, <2>4 DEF Fits, SameCall
  <1>6. /\ slots' \in Slots /\ SameBelow(Top.base, slots, slots')
        /\ SameBelow(Memory(Top), slots, slots') /\ SameFrom(Memory(Top), slots, slots')
    BY <1>1, <1>2 DEF SameBelow, SameFrom
  <1>7. /\ Layout'
        /\ Java!Running(View(f, slots').locals, View(f, slots').operands)
        /\ (/\ NoneCollected /\ ~crashed /\ allocated \subseteq allocated'
            /\ Alive(View(f, slots'), allocated')) => NoneCollected'
    BY <1>1, <1>2, <1>4, <1>5, <1>6, TopStep
  <1>8. View(f, slots').locals = v.locals
    BY <1>2, <1>4, <1>6, SameLocals
  <1>9. View(f, slots').operands = SubSeq(v.operands, 1, Top.sp + 1 - 1)
    <2>1. HasOperands(Top) /\ HasOperands(f) /\ 1 \in Nat /\ 1 <= Top.sp + 1
      BY <1>1, <1>3, <1>4 DEF HasOperands
    <2>2. QED
      BY <1>2, <1>4, <1>5, <1>6, <2>1, FewerOperands
  <1> HIDE DEF v
  <1>10. View(f, slots').operands = Front(v.operands)
    BY <1>3, <1>9 DEF Front
  <1>11. Java!Pop
    <2>1. v.operands # <<>>
      BY <1>1, <1>3
    <2>2. Java!Running(v.locals, Java!Front(v.operands))
      BY <1>7, <1>8, <1>10 DEF Front, Java!Front
    <2>3. QED
      BY <1>2, <2>1, <2>2 DEF Java!Pop
  <1>12. ASSUME NoneCollected PROVE NoneCollected'
    <2>1. Alive(v, allocated)
      BY <1>1, <1>12, TopIsAlive DEF v
    <2>2. PICK n \in Nat : n = Top.sp + 1 - 1
      BY <1>1, <1>3
    <2>3. n <= Len(v.operands) /\ View(f, slots').operands = SubSeq(v.operands, 1, n)
      BY <1>3, <1>9, <2>2
    <2>4. Alive(View(f, slots'), allocated)
      BY <1>3, <1>8, <2>1, <2>3, PrefixIsAlive
    <2>5. QED
      BY <1>1, <1>7, <1>12, <2>4
  <1>13. QED
    BY <1>7, <1>11, <1>12 DEF JavaStep, Java!Next

\* new allocates and pushes.
LEMMA NewStep ==
  ASSUME Layout, NEW o \in Oops, New(o)
  PROVE  Layout' /\ JavaStep /\ (NoneCollected => NoneCollected')
  <1>1. /\ frames # <<>> /\ Top.thrown = None /\ ~crashed /\ ~polling
        /\ allocated' = allocated \cup {o} /\ PushSlot(o)
        /\ polling' = polling /\ crashed' = crashed
    BY DEF New, Bytecode, Executing, Active
  <1>2. o \in Values /\ allocated' \in SUBSET Oops
    BY <1>1 DEF Layout, TypeOK, Values
  <1>3. /\ Layout' /\ Java!Push(o)
        /\ NoneCollected /\ o \in allocated' \cup {Prim} => NoneCollected'
    BY <1>1, <1>2, PushStep
  <1>4. QED
    BY <1>1, <1>2, <1>3 DEF JavaStep, Java!Next

\* A push of a number.
LEMMA PushPrimStep ==
  ASSUME Layout, PushPrim
  PROVE  Layout' /\ JavaStep /\ (NoneCollected => NoneCollected')
  <1>1. /\ frames # <<>> /\ Top.thrown = None /\ ~crashed /\ ~polling
        /\ allocated' = allocated /\ PushSlot(Prim)
        /\ polling' = polling /\ crashed' = crashed
    BY DEF PushPrim, Bytecode, Executing, Active
  <1>2. Prim \in Values /\ allocated' \in SUBSET Oops
    BY <1>1 DEF Layout, TypeOK, Values
  <1>3. /\ Layout' /\ Java!Push(Prim)
        /\ NoneCollected /\ Prim \in allocated' \cup {Prim} => NoneCollected'
    BY <1>1, <1>2, PushStep
  <1>4. QED
    BY <1>2, <1>3 DEF JavaStep, Java!Next

\* A local that was written lies in the frame and holds a value.
LEMMA LocalOf ==
  ASSUME NEW f \in Frames, Fits(f), NEW s \in Slots, NEW i \in f.defined
  PROVE  /\ i \in 0 .. f.method.locals - 1 /\ i + 1 \in 1 .. f.method.locals
         /\ View(f, s).locals[i + 1] = s[f.base + i]
         /\ s[f.base + i] \in Values /\ s[f.base + i] # Undefined
  <1>1. /\ i \in 0 .. f.method.locals - 1 /\ f.method.locals \in Nat
        /\ f.base \in Nat /\ Memory(f) = f.base + f.method.locals
        /\ Memory(f) <= Size /\ Size \in Nat
    BY FrameTypes DEF Fits
  <1>2. i + 1 \in 1 .. f.method.locals /\ i + 1 - 1 = i /\ f.base + (i + 1) - 1 = f.base + i
        /\ f.base + i \in 0 .. Size - 1
    BY <1>1
  <1>3. View(f, s).locals[i + 1] = s[f.base + i]
    <2>1. PICK j \in 1 .. f.method.locals : j = i + 1 /\ j - 1 = i /\ f.base + j - 1 = f.base + i
      BY <1>1, <1>2
    <2>2. View(f, s).locals[j] = s[f.base + j - 1]
      BY <2>1 DEF View, LocalsIn
    <2>3. QED
      BY <2>1, <2>2
  <1>4. QED
    BY <1>1, <1>2, <1>3, FrameStackAssumption DEF Slots, Values

\* A load pushes a local.
LEMMA PushLocalStep ==
  ASSUME Layout, NEW i \in 0 .. MaxLocals - 1, PushLocal(i)
  PROVE  Layout' /\ JavaStep /\ (NoneCollected => NoneCollected')
  <1> DEFINE v == slots[Top.base + i]
             w == View(Top, slots)
  <1>1. /\ frames # <<>> /\ Top.thrown = None /\ ~crashed /\ ~polling
        /\ i \in Top.defined
        /\ allocated' = allocated /\ PushSlot(v)
        /\ polling' = polling /\ crashed' = crashed
    BY DEF PushLocal, Bytecode, Executing, Active
  <1>2. /\ Top \in Frames /\ Fits(Top) /\ slots \in Slots
        /\ Java!Top = w /\ JavaStack # <<>> /\ JavaStack = J
        /\ allocated \in SUBSET Oops
    BY <1>1, TopFacts DEF Layout, TypeOK
  <1>3. /\ i + 1 \in 1 .. Top.method.locals /\ w.locals[i + 1] = v
        /\ v \in Values /\ v # Undefined
    BY <1>1, <1>2, LocalOf
  <1>4. w.locals \in Seq(Values \cup {Undefined}) /\ Len(w.locals) = Top.method.locals
    BY <1>1, TopView
  <1> HIDE DEF v, w
  <1>5. DOMAIN w.locals = 1 .. Len(w.locals)
    BY <1>4, LenProperties
  <1>6. /\ Layout' /\ Java!Push(v)
        /\ NoneCollected /\ v \in allocated' \cup {Prim} => NoneCollected'
    BY <1>1, <1>2, <1>3, PushStep
  <1>7. Java!Load(i + 1)
    BY <1>2, <1>3, <1>4, <1>5, <1>6 DEF Java!Load
  <1>8. i + 1 \in 1 .. (IF JavaStack = <<>> THEN 0 ELSE Len(Java!Top.locals))
    BY <1>2, <1>3, <1>4
  <1>9. Java!Next
    BY <1>7, <1>8 DEF Java!Next
  <1>10. ASSUME NoneCollected PROVE NoneCollected'
    <2>1. Alive(w, allocated)
      BY <1>1, <1>10, TopIsAlive DEF w
    <2>2. v \in allocated \cup {Prim}
      BY <1>3, <1>4, <2>1 DEF Alive
    <2>3. QED
      BY <1>1, <1>6, <1>10, <2>2
  <1>11. QED
    BY <1>6, <1>9, <1>10 DEF JavaStep

\* An exception makes the frame that runs lose its operands.
LEMMA ThrowsStep ==
  ASSUME Layout, frames # <<>>, ~crashed, ~polling,
         NEW f \in Frames, Fits(f), SameCall(f, Top), f.defined = Top.defined,
         f.next = "stop", f.thrown # None, Becomes(f),
         UNCHANGED <<slots, polling, allocated, crashed>>
  PROVE  Layout' /\ JavaStep /\ (NoneCollected => NoneCollected')
  <1> DEFINE v == View(Top, slots)
             w == View(f, slots')
  <1>1. /\ Top \in Frames /\ Fits(Top) /\ slots \in Slots
        /\ Java!Top = v /\ JavaStack # <<>>
        /\ polling \in BOOLEAN /\ crashed \in BOOLEAN /\ allocated \in SUBSET Oops
    BY TopFacts DEF Layout, TypeOK
  <1>2. /\ slots' \in Slots /\ SameBelow(Top.base, slots, slots')
        /\ SameBelow(Memory(Top), slots, slots')
    BY <1>1 DEF SameBelow
  <1>3. /\ Layout' /\ Java!Running(w.locals, w.operands)
        /\ (/\ NoneCollected /\ ~crashed /\ allocated \subseteq allocated'
            /\ Alive(w, allocated')) => NoneCollected'
    BY <1>1, <1>2, TopStep
  <1>4. w.locals = v.locals
    BY <1>1, <1>2, SameLocals DEF SameCall
  <1>5. w.operands = <<>>
    BY <1>1, <1>2, ViewType
  <1> HIDE DEF v, w
  <1>6. Java!Throw
    BY <1>1, <1>3, <1>4, <1>5 DEF Java!Throw
  <1>7. ASSUME NoneCollected PROVE NoneCollected'
    <2>1. Alive(v, allocated)
      BY <1>7, TopIsAlive DEF v
    <2>2. Alive(w, allocated)
      BY <1>4, <1>5, <2>1 DEF Alive
    <2>3. QED
      BY <1>3, <1>7, <2>2
  <1>8. QED
    BY <1>3, <1>6, <1>7 DEF JavaStep, Java!Next

\* athrow, and what the VM throws in a Java frame.
LEMMA ThrowStep ==
  ASSUME Layout, Throw
  PROVE  Layout' /\ JavaStep /\ (NoneCollected => NoneCollected')
  <1> DEFINE o == slots[TopSlot(Top)]
             f == [Top EXCEPT !.sp = @ - 1, !.thrown = o]
  <1>1. /\ frames # <<>> /\ Top.thrown = None /\ ~crashed /\ ~polling
        /\ ~Top.method.native /\ Top.sp >= 0 /\ o # Prim /\ Becomes(f)
        /\ UNCHANGED <<slots, polling, allocated, crashed>>
    BY DEF Throw, Bytecode, Executing, Active
  <1>2. /\ Top \in Frames /\ Fits(Top) /\ slots \in Slots
    BY <1>1, TopFacts
  <1>3. /\ Top.sp \in Int /\ Top.sp <= MaxOperands - 1 /\ MaxOperands \in Nat
        /\ Memory(Top) \in Nat /\ TopSlot(Top) = Memory(Top) + Top.sp
        /\ TopSlot(Top) < Size /\ Size \in Nat /\ Memory(Top) <= Size
    BY <1>1, TopNumbers
  <1>4. o \in Oops /\ o # None
    <2>1. TopSlot(Top) \in 0 .. Size - 1
      BY <1>1, <1>3
    <2>2. QED
      BY <1>1, <1>2, <2>1, FrameStackAssumption DEF Slots, Values
  <1> HIDE DEF o
  <1>5. /\ f \in Frames /\ f.sp = Top.sp - 1 /\ f.base = Top.base
        /\ f.method = Top.method /\ f.manual = Top.manual /\ f.thrown = o
        /\ f.next = Top.next /\ f.defined = Top.defined
    <2>1. Top.sp - 1 \in -3 .. MaxOperands - 1
      BY <1>1, <1>3
    <2>2. QED
      BY <1>2, <1>4, <2>1 DEF Frames
  <1> HIDE DEF f
  <1>6. Fits(f) /\ SameCall(f, Top) /\ f.next = "stop"
    <2>1. Memory(f) = Memory(Top) /\ TopSlot(f) = TopSlot(Top) - 1
      BY <1>3, <1>5 DEF Memory, TopSlot
    <2>2. Top.next = "stop" /\ Top.defined \subseteq 0 .. Top.method.locals - 1
      BY <1>1, <1>2 DEF Fits
    <2>3. f.sp >= -1 /\ Memory(f) <= Size /\ TopSlot(f) < Size
      BY <1>1, <1>3, <1>5, <2>1
    <2>4. QED
      BY <1>5, <2>2, <2>3 DEF Fits, SameCall
  <1>7. QED
    BY <1>1, <1>4, <1>5, <1>6, ThrowsStep

\* What a native method throws.
LEMMA NativeThrowStep ==
  ASSUME Layout, NativeThrow
  PROVE  Layout' /\ JavaStep /\ (NoneCollected => NoneCollected')
  <1> DEFINE f == [Top EXCEPT !.thrown = Top.local]
  <1>1. /\ frames # <<>> /\ Top.thrown = None /\ ~crashed /\ ~polling
        /\ Top.method.native /\ Top.local # None /\ Becomes(f)
        /\ UNCHANGED <<slots, polling, allocated, crashed>>
    BY DEF NativeThrow, Native, Executing, Active
  <1>2. /\ Top \in Frames /\ Fits(Top) /\ slots \in Slots
    BY <1>1, TopFacts
  <1>3. /\ f \in Frames /\ f.sp = Top.sp /\ f.base = Top.base
        /\ f.method = Top.method /\ f.manual = Top.manual /\ f.thrown # None
        /\ f.next = Top.next /\ f.defined = Top.defined
    BY <1>1, <1>2 DEF Frames
  <1> HIDE DEF f
  <1>4. Fits(f) /\ SameCall(f, Top) /\ f.next = "stop"
    BY <1>1, <1>2, <1>3 DEF Fits, SameCall, Memory, TopSlot
  <1>5. QED
    BY <1>1, <1>3, <1>4, ThrowsStep

\* A handler clears the operands and pushes the exception.
LEMMA CatchStep ==
  ASSUME Layout, Catch
  PROVE  Layout' /\ JavaStep /\ (NoneCollected => NoneCollected')
  <1> DEFINE o == Top.thrown
             m == Memory(Top)
             f == [Top EXCEPT !.sp = 0, !.thrown = None, !.next = "stop"]
             v == View(Top, slots)
             w == View(f, slots')
  <1>1. /\ frames # <<>> /\ ~crashed /\ ~polling
        /\ o \in allocated /\ ~Top.method.native /\ m < Size /\ MaxOperands > 0
        /\ slots' = [slots EXCEPT ![m] = o] /\ Becomes(f)
        /\ UNCHANGED <<polling, allocated, crashed>>
    BY DEF Catch, Handling, Active
  <1>2. /\ Top \in Frames /\ Fits(Top) /\ slots \in Slots
        /\ Java!Top = v /\ JavaStack # <<>>
        /\ polling \in BOOLEAN /\ crashed \in BOOLEAN /\ allocated \in SUBSET Oops
    BY <1>1, TopFacts DEF Layout, TypeOK
  <1>3. /\ MaxOperands \in Nat /\ Size \in Nat /\ m \in Nat /\ Top.base \in Nat
        /\ Top.method.locals \in Nat /\ m = Top.base + Top.method.locals
    BY <1>2, FrameTypes
  <1>4. o \in Values
    BY <1>1, <1>2 DEF Values
  <1> HIDE DEF o
  <1>5. /\ f \in Frames /\ f.sp = 0 /\ f.base = Top.base
        /\ f.method = Top.method /\ f.manual = Top.manual /\ f.thrown = None
        /\ f.next = "stop" /\ f.defined = Top.defined
    <2>1. 0 \in -3 .. MaxOperands - 1
      BY <1>1, <1>3
    <2>2. QED
      BY <1>2, <2>1 DEF Frames
  <1> HIDE DEF f
  <1>6. Fits(f) /\ SameCall(f, Top) /\ Memory(f) = m
    <2>1. Memory(f) = m /\ TopSlot(f) = m
      BY <1>3, <1>5 DEF Memory, TopSlot
    <2>2. QED
      BY <1>1, <1>2, <1>3, <1>5, <2>1 DEF Fits, SameCall
  <1> HIDE DEF m
  <1>7. /\ slots' \in Slots /\ slots'[m] = o /\ SameBelow(m, slots, slots')
        /\ SameBelow(Top.base, slots, slots')
    BY <1>1, <1>2, <1>3, <1>4 DEF Slots, SameBelow
  <1>8. /\ Layout' /\ Java!Running(w.locals, w.operands)
        /\ (/\ NoneCollected /\ ~crashed /\ allocated \subseteq allocated'
            /\ Alive(w, allocated')) => NoneCollected'
    BY <1>1, <1>2, <1>5, <1>6, <1>7, TopStep
  <1>9. w.locals = v.locals
    BY <1>2, <1>5, <1>7, SameLocals DEF m
  <1>10. w.operands = <<o>>
    <2>1. /\ w.operands \in Seq(Values) /\ Len(w.operands) = f.sp + 1
          /\ \A i \in 1 .. f.sp + 1 : w.operands[i] = slots'[Memory(f) + i - 1]
      BY <1>5, <1>6, <1>7, ViewType
    <2>2. f.sp + 1 = 1 /\ Memory(f) + 1 - 1 = m
      BY <1>3, <1>5, <1>6
    <2>3. Len(w.operands) = 1 /\ w.operands[1] = o
      BY <1>7, <2>1, <2>2
    <2>4. <<o>> \in Seq(Values) /\ Len(<<o>>) = 1 /\ <<o>>[1] = o
      BY <1>4
    <2> HIDE DEF w
    <2>5. QED
      BY <2>1, <2>3, <2>4, SeqEqual
  <1> HIDE DEF v, w
  <1>11. Java!Catch(o)
    BY <1>2, <1>8, <1>9, <1>10 DEF Java!Catch
  <1>12. ASSUME NoneCollected PROVE NoneCollected'
    <2>1. Alive(v, allocated)
      BY <1>1, <1>12, TopIsAlive DEF v
    <2>2. Alive(w, allocated)
      BY <1>1, <1>9, <1>10, <2>1 DEF Alive
    <2>3. QED
      BY <1>1, <1>8, <1>12, <2>2
  <1>13. QED
    BY <1>4, <1>8, <1>11, <1>12 DEF JavaStep, Java!Next

\* The last operand is the slot at sp.
LEMMA LastOperand ==
  ASSUME Layout, frames # <<>>, Top.thrown = None, Top.sp >= 0
  PROVE  /\ Last(View(Top, slots).operands) = slots[TopSlot(Top)]
         /\ Len(View(Top, slots).operands) \in Nat \ {0}
         /\ View(Top, slots).operands # <<>>
         /\ TopSlot(Top) \in 0 .. Size - 1
  <1> DEFINE v == View(Top, slots)
  <1>1. /\ Top.sp \in Int /\ Memory(Top) \in Nat /\ TopSlot(Top) = Memory(Top) + Top.sp
        /\ TopSlot(Top) < Size /\ Size \in Nat
    BY TopNumbers
  <1>2. /\ v.operands \in Seq(Values) /\ Len(v.operands) = Top.sp + 1
        /\ \A i \in 1 .. Top.sp + 1 : v.operands[i] = slots[Memory(Top) + i - 1]
    BY TopView
  <1> HIDE DEF v
  <1>3. PICK n : n = Top.sp + 1 /\ n \in Nat \ {0} /\ Memory(Top) + n - 1 = TopSlot(Top)
    <2>1. Top.sp + 1 \in Nat \ {0} /\ Memory(Top) + (Top.sp + 1) - 1 = TopSlot(Top)
      BY <1>1
    <2>2. QED
      BY <2>1
  <1>4. v.operands[n] = slots[TopSlot(Top)] /\ Len(v.operands) = n
    BY <1>2, <1>3
  <1>5. Last(v.operands) = v.operands[n]
    BY <1>4 DEF Last
  <1>6. v.operands # <<>>
    BY <1>2, <1>3, <1>4, EmptySeq
  <1>7. TopSlot(Top) \in 0 .. Size - 1
    BY <1>1
  <1>8. QED
    BY <1>3, <1>4, <1>5, <1>6, <1>7 DEF v

\* A local is written, and nothing from operand 0 on.
LEMMA StoredLocal ==
  ASSUME NEW f \in Frames, NEW g \in Frames, Fits(f), NEW s \in Slots, NEW s2 \in Slots,
         NEW i \in 0 .. f.method.locals - 1, NEW x,
         g.base = f.base, g.method = f.method, g.defined = f.defined \cup {i},
         s2[f.base + i] = x,
         \A k \in 0 .. Size - 1 : k # f.base + i => s2[k] = s[k]
  PROVE  View(g, s2).locals = [View(f, s).locals EXCEPT ![i + 1] = x]
  <1>1. /\ f.base \in Nat /\ f.method.locals \in Nat /\ Size \in Nat /\ i \in Nat
        /\ Memory(f) = f.base + f.method.locals /\ Memory(f) <= Size
    BY FrameTypes DEF Fits
  <1> DEFINE n == f.method.locals
             b == f.base
             u == [View(f, s).locals EXCEPT ![i + 1] = x]
  <1>2. ASSUME NEW j \in 1 .. n
        PROVE  (IF j - 1 \in g.defined THEN s2[b + j - 1] ELSE Undefined)
               = (IF j = i + 1 THEN x ELSE LocalsIn(f, s)[j])
    <2>1. CASE j = i + 1
      <3>1. b + j - 1 = b + i /\ j - 1 = i /\ b + i \in 0 .. Size - 1
        BY <1>1, <2>1
      <3>2. s2[b + i] = x
        BY <3>1 DEF Slots
      <3>3. QED
        BY <2>1, <3>1, <3>2
    <2>2. CASE j # i + 1
      <3>1. j - 1 # i /\ b + j - 1 # b + i /\ b + j - 1 \in 0 .. Size - 1
        BY <1>1, <2>2
      <3>2. s2[b + j - 1] = s[b + j - 1]
        BY <3>1 DEF Slots
      <3>3. LocalsIn(f, s)[j] = IF j - 1 \in f.defined THEN s[b + j - 1] ELSE Undefined
        BY DEF LocalsIn
      <3>4. QED
        BY <2>2, <3>1, <3>2, <3>3
    <2>3. QED
      BY <2>1, <2>2
  <1>3. u = [j \in 1 .. n |-> IF j = i + 1 THEN x ELSE LocalsIn(f, s)[j]]
    BY DEF View, LocalsIn
  <1>4. View(g, s2).locals = [j \in 1 .. n |-> IF j - 1 \in g.defined
                                               THEN s2[b + j - 1] ELSE Undefined]
    BY DEF View, LocalsIn
  <1> HIDE DEF n, b, u
  <1>5. View(g, s2).locals = u
    BY <1>2, <1>3, <1>4
  <1>6. QED
    BY <1>5 DEF u

\* A store writes the last operand into a local.
LEMMA PopLocalStep ==
  ASSUME Layout, NEW i \in 0 .. MaxLocals - 1, PopLocal(i)
  PROVE  Layout' /\ JavaStep /\ (NoneCollected => NoneCollected')
  <1> DEFINE x == slots[TopSlot(Top)]
             b == Top.base + i
             f == [Top EXCEPT !.sp = @ - 1, !.defined = @ \cup {i}]
             v == View(Top, slots)
             w == View(f, slots')
  <1>1. /\ frames # <<>> /\ Top.thrown = None /\ ~crashed /\ ~polling
        /\ i < Top.method.locals /\ Top.sp >= 0
        /\ slots' = [slots EXCEPT ![b] = x] /\ Becomes(f)
        /\ UNCHANGED <<polling, allocated, crashed>>
    BY DEF PopLocal, Bytecode, Executing, Active
  <1>a. Top.sp >= 0 /\ i < Top.method.locals
    BY <1>1
  <1>2. /\ Top \in Frames /\ Fits(Top) /\ slots \in Slots
        /\ Java!Top = v /\ JavaStack # <<>> /\ JavaStack = J
        /\ polling \in BOOLEAN /\ crashed \in BOOLEAN /\ allocated \in SUBSET Oops
    BY <1>1, TopFacts DEF Layout, TypeOK
  <1>3. /\ Top.sp \in Int /\ Top.sp <= MaxOperands - 1 /\ MaxOperands \in Nat
        /\ Memory(Top) \in Nat /\ TopSlot(Top) = Memory(Top) + Top.sp
        /\ TopSlot(Top) < Size /\ Size \in Nat /\ Memory(Top) <= Size
        /\ Memory(Top) = Top.base + Top.method.locals
        /\ Top.base \in Nat /\ Top.method.locals \in Nat
    BY <1>1, TopNumbers
  <1>4. /\ i \in 0 .. Top.method.locals - 1 /\ i \in Nat
        /\ b \in 0 .. Size - 1 /\ b >= Top.base /\ b < Memory(Top)
    <2>1. MaxLocals \in Nat
      BY FrameStackAssumption
    <2>2. QED
      BY <1>a, <1>3, <2>1
  <1> HIDE DEF b
  <1>5. /\ v.operands \in Seq(Values) /\ Len(v.operands) = Top.sp + 1
        /\ v.operands # <<>> /\ Last(v.operands) = x
        /\ v.locals \in Seq(Values \cup {Undefined}) /\ Len(v.locals) = Top.method.locals
        /\ TopSlot(Top) \in 0 .. Size - 1
    BY <1>1, TopView, LastOperand
  <1>6. x \in Values
    BY <1>2, <1>5 DEF Slots
  <1> HIDE DEF x
  <1>7. /\ f \in Frames /\ f.sp = Top.sp - 1 /\ f.base = Top.base
        /\ f.method = Top.method /\ f.manual = Top.manual /\ f.thrown = None
        /\ f.next = Top.next /\ f.defined = Top.defined \cup {i}
    <2>1. Top.sp - 1 \in -3 .. MaxOperands - 1
      BY <1>a, <1>3
    <2>2. Top.defined \cup {i} \in SUBSET (0 .. MaxLocals - 1)
      BY <1>2 DEF Frames
    <2>3. QED
      BY <1>1, <1>2, <2>1, <2>2 DEF Frames
  <1> HIDE DEF f
  <1>8. Fits(f) /\ SameCall(f, Top)
    <2>1. Memory(f) = Memory(Top) /\ TopSlot(f) = TopSlot(Top) - 1
      BY <1>3, <1>7 DEF Memory, TopSlot
    <2>2. Top.next = "stop" /\ Top.defined \subseteq 0 .. Top.method.locals - 1
      BY <1>1, <1>2 DEF Fits
    <2>3. f.sp >= -1 /\ Memory(f) <= Size /\ TopSlot(f) < Size
      BY <1>a, <1>3, <1>7, <2>1
    <2>4. QED
      BY <1>4, <1>7, <2>2, <2>3 DEF Fits, SameCall
  <1>c. /\ slots' \in Slots /\ slots'[b] = x
        /\ \A k \in 0 .. Size - 1 : k # b => slots'[k] = slots[k]
    BY <1>1, <1>2, <1>4, <1>6 DEF Slots
  <1>9. SameBelow(Top.base, slots, slots') /\ SameFrom(Memory(Top), slots, slots')
    BY <1>c, <1>3, <1>4 DEF SameBelow, SameFrom
  <1>b. /\ frames # <<>> /\ Top.thrown = None /\ ~crashed /\ ~polling /\ Becomes(f)
        /\ UNCHANGED <<polling, allocated, crashed>>
    BY <1>1
  <1>10. /\ Layout' /\ Java!Running(w.locals, w.operands)
         /\ (/\ NoneCollected /\ ~crashed /\ allocated \subseteq allocated'
             /\ Alive(w, allocated')) => NoneCollected'
    BY <1>b, <1>c, <1>2, <1>7, <1>8, <1>9, TopStep
  <1>11. w.locals = [v.locals EXCEPT ![i + 1] = x]
    BY <1>c, <1>2, <1>4, <1>7, StoredLocal DEF b
  <1>12. w.operands = SubSeq(v.operands, 1, Top.sp + 1 - 1)
    <2>1. 1 <= Top.sp + 1
      BY <1>a, <1>3
    <2>2. QED
      BY <1>b, <1>c, <2>1, <1>2, <1>7, <1>8, <1>9, FewerOperands, 1 \in Nat DEF HasOperands
  <1> HIDE DEF v, w
  <1>13. w.operands = Front(v.operands)
    <2>1. Len(v.operands) - 1 = Top.sp + 1 - 1
      <3>1. Len(v.operands) = Top.sp + 1 /\ Top.sp \in Int
        BY <1>3, <1>5
      <3>2. QED
        BY <3>1
    <2>2. QED
      BY <1>12, <2>1 DEF Front
  <1>14. i + 1 \in DOMAIN v.locals
    BY <1>4, <1>5, LenProperties
  <1>15. Java!Store(i + 1)
    <2>1. Last(v.operands) = Java!Last(v.operands)
          /\ Front(v.operands) = Java!Front(v.operands)
      BY DEF Last, Java!Last, Front, Java!Front
    <2>2. QED
      BY <1>2, <1>5, <1>10, <1>11, <1>13, <1>14, <2>1 DEF Java!Store
  <1>16. Java!Next
    <2>1. i + 1 \in 1 .. (IF JavaStack = <<>> THEN 0 ELSE Len(Java!Top.locals))
      <3>1. i + 1 \in 1 .. Top.method.locals
        BY <1>3, <1>4
      <3>2. /\ JavaStack # <<>> /\ Java!Top = v
            /\ Len(v.locals) = Top.method.locals
        BY <1>2, <1>5
      <3>3. QED
        BY <3>1, <3>2
    <2>2. QED
      BY <1>15, <2>1 DEF Java!Next
  <1>17. ASSUME NoneCollected PROVE NoneCollected'
    <2>1. Alive(v, allocated)
      BY <1>b, <1>17, TopIsAlive DEF v
    <2>2. PICK n \in Nat : n = Top.sp + 1 - 1
      BY <1>a, <1>3
    <2>3. n <= Len(v.operands) /\ w.operands = SubSeq(v.operands, 1, n)
      BY <1>3, <1>5, <1>12, <2>2
    <2>4. /\ Len(w.operands) = n /\ Len(v.operands) \in Nat
          /\ \A j \in 1 .. n : w.operands[j] = v.operands[j]
      BY <1>5, <2>3, Prefix, LenProperties
    <2>5. x \in allocated \cup {Prim, Undefined}
      <3>1. Len(v.operands) \in 1 .. Len(v.operands)
        BY <1>b, <1>a, LastOperand DEF v
      <3>2. v.operands[Len(v.operands)] = x
        BY <1>5 DEF Last
      <3>3. QED
        BY <2>1, <3>1, <3>2 DEF Alive
    <2>6. \A j \in 1 .. Len(w.locals) : w.locals[j] \in allocated \cup {Prim, Undefined}
      <3>1. Len(w.locals) = Len(v.locals)
            /\ \A j \in 1 .. Len(v.locals) : w.locals[j] = IF j = i + 1 THEN x ELSE v.locals[j]
        BY <1>5, <1>11, LenProperties
      <3>2. QED
        BY <2>1, <2>5, <3>1 DEF Alive
    <2>7. Alive(w, allocated)
      <3>1. \A j \in 1 .. Len(w.operands) : w.operands[j] \in allocated \cup {Prim, Undefined}
        BY <2>1, <2>3, <2>4 DEF Alive
      <3>2. QED
        BY <2>6, <3>1 DEF Alive
    <2>8. QED
      BY <1>b, <1>10, <1>17, <2>7
  <1>18. QED
    BY <1>10, <1>16, <1>17 DEF JavaStep

\* A sequence is its front with its last entry.
LEMMA LastAgain ==
  ASSUME NEW S, NEW s \in Seq(S), s # <<>>
  PROVE  Append(Front(s), Last(s)) = s
  <1> DEFINE r == Append(Front(s), Last(s))
  <1>1. /\ Len(s) \in Nat \ {0} /\ Last(s) = s[Len(s)] /\ Last(s) \in S
    BY FrontOf
  <1>2. /\ r \in Seq(S) /\ Len(r) = Len(s)
        /\ \A i \in 1 .. Len(s) - 1 : r[i] = s[i]
        /\ r[Len(s)] = Last(s)
    BY <1>1, Replaced
  <1> HIDE DEF r
  <1>3. \A i \in 1 .. Len(s) : r[i] = s[i]
    BY <1>1, <1>2
  <1>4. r = s
    BY <1>2, <1>3, SeqEqual
  <1>5. QED
    BY <1>4 DEF r

\* A native method allocates.
LEMMA NativeNewStep ==
  ASSUME Layout, NEW o \in Oops, NativeNew(o)
  PROVE  Layout' /\ JavaStep /\ (NoneCollected => NoneCollected')
  <1> DEFINE f == [Top EXCEPT !.local = o]
             v == View(Top, slots)
             w == View(f, slots')
  <1>1. /\ frames # <<>> /\ Top.thrown = None /\ ~crashed /\ ~polling
        /\ allocated' = allocated \cup {o} /\ Becomes(f)
        /\ UNCHANGED <<slots, polling, crashed>>
    BY DEF NativeNew, Native, Executing, Active
  <1>2. /\ Top \in Frames /\ Fits(Top) /\ slots \in Slots
        /\ Java!Top = v /\ Java!Callers = Front(J) /\ JavaStack = J
        /\ J \in Seq(JavaFrame) /\ J # <<>> /\ Last(J) = v
        /\ polling \in BOOLEAN /\ crashed \in BOOLEAN /\ allocated \in SUBSET Oops
    BY <1>1, TopFacts DEF Layout, TypeOK
  <1>3. allocated' \in SUBSET Oops /\ allocated \subseteq allocated'
    BY <1>1, <1>2
  <1>4. /\ f \in Frames /\ f.sp = Top.sp /\ f.base = Top.base
        /\ f.method = Top.method /\ f.manual = Top.manual /\ f.thrown = Top.thrown
        /\ f.next = Top.next /\ f.defined = Top.defined
    BY <1>2 DEF Frames
  <1> HIDE DEF f
  <1>5. /\ Fits(f) /\ SameCall(f, Top)
        /\ slots' \in Slots /\ SameBelow(Top.base, slots, slots')
    BY <1>1, <1>2, <1>4 DEF Fits, SameCall, Memory, TopSlot, SameBelow
  <1>6. w = v
    BY <1>1, <1>4 DEF View, LocalsIn, OperandsIn, Memory
  <1>7. /\ Layout' /\ Java!Running(w.locals, w.operands) /\ w \in JavaFrame
        /\ (/\ NoneCollected /\ ~crashed /\ allocated \subseteq allocated'
            /\ Alive(w, allocated')) => NoneCollected'
    BY <1>1, <1>2, <1>3, <1>4, <1>5, TopStep
  <1>8. Alive(v, allocated) => Alive(v, allocated')
    BY <1>3, AliveStays
  <1>9. NoneCollected => Alive(v, allocated)
    BY <1>1, TopIsAlive
  <1> HIDE DEF v, w
  <1>10. JavaStack' = JavaStack
    <2>1. v = [v EXCEPT !.locals = v.locals, !.operands = v.operands]
      <3>1. v \in JavaFrame
        BY <1>6, <1>7
      <3>2. QED
        BY <3>1, RunningFrame, Zenon
    <2>2. JavaStack' = Append(Front(J), v)
      BY <1>2, <1>6, <1>7, <2>1 DEF Java!Running
    <2>3. QED
      BY <1>2, <2>2, LastAgain
  <1>11. QED
    BY <1>1, <1>3, <1>6, <1>7, <1>8, <1>9, <1>10 DEF JavaStep

\* A step that changes no frame and no slot.
LEMMA QuietStep ==
  ASSUME Layout, UNCHANGED <<slots, frames>>, polling' \in BOOLEAN, polling' => polling,
         crashed' \in BOOLEAN, allocated' \in SUBSET Oops
  PROVE  /\ Layout' /\ JavaStep
         /\ (~crashed' => AllAlive(J, allocated')) => NoneCollected'
  <1>1. Layout'
    BY DEF Layout, TypeOK, EntryPolls, Top
  <1>2. JavaStack' = JavaStack /\ J' = J
    BY DEF JavaStack, Locals, Operands, Memory, J
  <1>3. (Layout => (NoneCollected <=> (~crashed => AllAlive(J, allocated))))'
    BY ReadableInJ, PTL
  <1>4. QED
    BY <1>1, <1>2, <1>3 DEF JavaStep

\* A thread polls between two instructions.
LEMMA PollStep ==
  ASSUME Layout, Poll
  PROVE  Layout' /\ JavaStep /\ (NoneCollected => NoneCollected')
  <1>1. /\ UNCHANGED <<slots, frames>> /\ polling' \in BOOLEAN /\ (polling' => polling)
        /\ crashed' = crashed /\ allocated' = allocated
        /\ crashed' \in BOOLEAN /\ allocated' \in SUBSET Oops
    BY DEF Poll, Layout, TypeOK
  <1>2. NoneCollected => (~crashed' => AllAlive(J, allocated'))
    BY <1>1, ReadableInJ
  <1>3. /\ Layout' /\ JavaStep
        /\ (~crashed' => AllAlive(J, allocated')) => NoneCollected'
    BY <1>1, QuietStep
  <1>4. QED
    BY <1>2, <1>3

\* A throwable is handled that was deleted: the crash.
LEMMA HandleDeletedStep ==
  ASSUME Layout, HandleDeleted
  PROVE  Layout' /\ JavaStep /\ (NoneCollected => NoneCollected')
  <1>1. /\ UNCHANGED <<slots, frames>> /\ polling' \in BOOLEAN /\ (polling' => polling)
        /\ crashed' /\ crashed' \in BOOLEAN /\ allocated' \in SUBSET Oops
    BY DEF HandleDeleted, Layout, TypeOK
  <1>2. /\ Layout' /\ JavaStep
        /\ (~crashed' => AllAlive(J, allocated')) => NoneCollected'
    BY <1>1, QuietStep
  <1>3. QED
    BY <1>1, <1>2

\* What a frame shows is in the slots up to its top one.
LEMMA ShownIsInSlots ==
  ASSUME NEW f \in Frames, Fits(f), NEW s \in Slots, NEW n \in Int,
         Memory(f) - 1 <= n, TopSlot(f) <= n, NEW a,
         \A i \in 0 .. n : i < Size => s[i] \in a \cup {Prim}
  PROVE  Alive(View(f, s), a)
  <1> DEFINE v == View(f, s)
  <1>1. /\ f.base \in Nat /\ f.method.locals \in Nat /\ Size \in Nat /\ f.sp \in Int
        /\ Memory(f) = f.base + f.method.locals /\ Memory(f) \in Nat
        /\ TopSlot(f) = Memory(f) + f.sp
        /\ Memory(f) <= Size /\ TopSlot(f) < Size
    BY FrameTypes DEF Fits
  <1>2. /\ Len(v.locals) = f.method.locals
        /\ f.thrown # None /\ f.next \in {"stop", "more", "last", "report"} => v.operands = <<>>
        /\ f.thrown = None \/ f.next \notin {"stop", "more", "last", "report"} =>
               /\ Len(v.operands) = f.sp + 1
               /\ \A i \in 1 .. f.sp + 1 : v.operands[i] = s[Memory(f) + i - 1]
    BY ViewType
  <1>3. ASSUME NEW i \in 1 .. f.method.locals
        PROVE  v.locals[i] \in a \cup {Prim, Undefined}
    <2>1. f.base + i - 1 \in 0 .. n /\ f.base + i - 1 < Size
      BY <1>1
    <2>2. v.locals[i] \in {s[f.base + i - 1], Undefined}
      BY DEF View, LocalsIn
    <2>3. QED
      BY <2>1, <2>2
  <1>4. ASSUME NEW i \in 1 .. f.sp + 1
        PROVE  s[Memory(f) + i - 1] \in a \cup {Prim, Undefined}
    <2>1. Memory(f) + i - 1 \in 0 .. n /\ Memory(f) + i - 1 < Size
      BY <1>1
    <2>2. QED
      BY <2>1
  <1> HIDE DEF v
  <1>5. \A i \in 1 .. Len(v.operands) : v.operands[i] \in a \cup {Prim, Undefined}
    <2>1. CASE f.thrown # None /\ f.next \in {"stop", "more", "last", "report"}
      BY <1>2, <2>1
    <2>2. CASE f.thrown = None \/ f.next \notin {"stop", "more", "last", "report"}
      BY <1>2, <1>4, <2>2
    <2>3. QED
      BY <2>1, <2>2
  <1>6. Alive(v, a)
    BY <1>2, <1>3, <1>5 DEF Alive
  <1>7. QED
    BY <1>6 DEF v

\* A collection scans every slot that a frame shows.
LEMMA CollectStep ==
  ASSUME Layout, Collect
  PROVE  Layout' /\ JavaStep /\ (NoneCollected => NoneCollected')
  <1> DEFINE n == TopSlot(Top)
  <1>1. /\ UNCHANGED <<slots, frames>> /\ polling' = polling /\ polling /\ ~crashed
        /\ \/ Scanned \subseteq allocated /\ allocated' = Scanned /\ crashed' = crashed
           \/ crashed' = TRUE /\ allocated' = allocated
    BY DEF Collect
  <1>2. /\ frames # <<>> /\ Top.thrown = None /\ WellFormed(frames)
        /\ polling \in BOOLEAN /\ crashed \in BOOLEAN /\ allocated \in SUBSET Oops
    BY <1>1 DEF Layout, TypeOK, EntryPolls
  <1>3. /\ Len(frames) \in Nat \ {0} /\ slots \in Slots /\ Top = frames[Len(frames)]
        /\ Top \in Frames /\ Fits(Top)
        /\ \A k \in 1 .. Len(frames) - 1 :
               /\ frames[k] \in Frames /\ Fits(frames[k])
               /\ TopSlot(frames[k]) < Top.base /\ Memory(frames[k]) <= Top.base
    BY <1>2, TopOf, TopFacts
  <1>4. n \in Int /\ Top.base \in Nat /\ Memory(Top) \in Nat
        /\ Top.base <= Memory(Top) /\ Memory(Top) - 1 <= n
    <2>1. /\ Top.base \in Nat /\ Memory(Top) \in Nat /\ Top.sp \in Int /\ Top.sp >= -1
          /\ Top.base <= Memory(Top) /\ n = Memory(Top) + Top.sp
      BY <1>2, TopNumbers
    <2> HIDE DEF n
    <2>2. QED
      BY <2>1
  <1>5. \A i \in 0 .. n : i < Size => slots[i] \in Scanned \cup {Prim}
    BY DEF Scanned
  <1> HIDE DEF n
  <1>6. ASSUME NEW k \in 1 .. Len(frames) PROVE Alive(View(frames[k], slots), Scanned)
    <2>1. /\ frames[k] \in Frames /\ Fits(frames[k])
          /\ TopSlot(frames[k]) <= n /\ Memory(frames[k]) - 1 <= n
      <3>1. CASE k = Len(frames)
        BY <1>3, <1>4, <3>1 DEF n
      <3>2. CASE k # Len(frames)
        <4>1. /\ frames[k] \in Frames /\ Fits(frames[k])
              /\ TopSlot(frames[k]) < Top.base /\ Memory(frames[k]) <= Top.base
          BY <1>3, <3>2
        <4>2. TopSlot(frames[k]) \in Int /\ Memory(frames[k]) \in Nat
          BY <4>1, FrameTypes
        <4>3. QED
          BY <1>4, <4>1, <4>2
      <3>3. QED
        BY <3>1, <3>2
    <2>2. QED
      BY <1>3, <1>4, <1>5, <2>1, ShownIsInSlots
  <1>7. AllAlive(J, Scanned)
    BY <1>3, <1>6, ViewsAt, TopFacts, <1>2 DEF AllAlive, J
  <1>8. allocated' \in SUBSET Oops /\ crashed' \in BOOLEAN /\ polling' \in BOOLEAN
        /\ (~crashed' => AllAlive(J, allocated'))
    BY <1>1, <1>2, <1>7
  <1>9. QED
    BY <1>1, <1>8, QuietStep

-----------------------------------------------------------------------------
(* Calls *)

SlotsHold(f, s, args) ==
    \A i \in 1 .. f.method.params : s[f.base + i - 1] = args[i]
ArgsAlive(args, a) == \A i \in 1 .. Len(args) : args[i] \in a \cup {Prim}
Entered(f) == /\ f.sp = -1 /\ f.thrown = None /\ f.next = "stop"
              /\ f.defined = 0 .. f.method.params - 1

\* A frame that has been entered shows its arguments.
LEMMA EntryView ==
  ASSUME NEW f \in Frames, Fits(f), Entered(f), NEW s \in Slots,
         NEW args \in Seq(Values), Len(args) = f.method.params, SlotsHold(f, s, args)
  PROVE  /\ View(f, s) = Java!Entry(args, f.method.locals - f.method.params,
                                    f.method.native)
         /\ View(f, s) \in JavaFrame
         /\ \A a : ArgsAlive(args, a) => Alive(View(f, s), a)
  <1> DEFINE k == f.method.params
             n == f.method.locals - k
             u == [i \in 1 .. n |-> Undefined]
             v == View(f, s)
             T == Values \cup {Undefined}
  <1>1. /\ k \in Nat /\ n \in Nat /\ f.method.locals = k + n /\ f.base \in Nat
        /\ f.method.native \in BOOLEAN /\ Len(args) = k
    <2>1. /\ k \in Nat /\ f.method.locals \in Nat /\ k <= f.method.locals
          /\ f.base \in Nat /\ f.method.native \in BOOLEAN
      BY FrameTypes
    <2>2. \A x, y \in Nat : x <= y => y - x \in Nat /\ y = x + (y - x)
      OBVIOUS
    <2>3. QED
      BY <2>1, <2>2
  <1>2. /\ v.locals \in Seq(T) /\ Len(v.locals) = f.method.locals
        /\ v.operands \in Seq(Values) /\ Len(v.operands) = f.sp + 1
    BY ViewType DEF Entered
  <1> HIDE DEF n
  <1>3. ASSUME NEW i \in 1 .. k + n
        PROVE  v.locals[i] = IF i <= k THEN args[i] ELSE Undefined
    <2>1. v.locals[i] = IF i - 1 \in f.defined THEN s[f.base + i - 1] ELSE Undefined
      BY <1>1 DEF View, LocalsIn
    <2>2. f.defined = 0 .. k - 1
      BY DEF Entered
    <2> HIDE DEF k
    <2>3. (i - 1 \in f.defined) <=> i <= k
      BY <1>1, <2>2
    <2>4. i <= k => s[f.base + i - 1] = args[i]
      BY <1>1 DEF SlotsHold, k
    <2>5. QED
      BY <2>1, <2>3, <2>4
  <1>4. v = [native |-> f.method.native, locals |-> v.locals, operands |-> v.operands]
    BY DEF View
  <1>5. v \in JavaFrame
    BY <1>1, <1>2, <1>4 DEF JavaFrame
  <1> HIDE DEF v
  <1>6. v.operands = <<>>
    <2>1. f.sp = -1
      BY DEF Entered
    <2>2. QED
      BY <1>2, <2>1, EmptySeq
  <1>7. v.locals = args \o u
    <2>1. u \in [1 .. n -> T] /\ args \in Seq(T)
      BY DEF Values
    <2>2. u \in Seq(T) /\ Len(u) = n
      BY <1>1, <2>1, FunctionIsSeq
    <2>3. \A i \in 1 .. n : u[i] = Undefined
      OBVIOUS
    <2> HIDE DEF u, k, T
    <2>4. /\ args \o u \in Seq(T) /\ Len(args \o u) = k + n
          /\ \A i \in 1 .. k + n : (args \o u)[i] =
                IF i <= Len(args) THEN args[i] ELSE u[i - Len(args)]
      BY <1>1, <2>1, <2>2, ConcatProperties
    <2>5. ASSUME NEW i \in 1 .. k + n PROVE (args \o u)[i] = v.locals[i]
      <3>1. i > k => i - k \in 1 .. n
        BY <1>1
      <3>2. Len(args) = k
        BY <1>1
      <3>3. CASE i <= k
        BY <1>3, <2>4, <3>2, <3>3
      <3>4. CASE i > k
        BY <1>1, <1>3, <2>3, <2>4, <3>1, <3>2, <3>4
      <3>5. i <= k \/ i > k
        BY <1>1
      <3>6. QED
        BY <3>3, <3>4, <3>5
    <2>6. Len(args \o u) = k + n /\ Len(v.locals) = k + n
      BY <1>1, <1>2, <2>4
    <2>7. QED
      BY <1>2, <2>4, <2>5, <2>6, SeqEqual
  <1>8. v = Java!Entry(args, n, f.method.native)
    BY <1>4, <1>6, <1>7 DEF Java!Entry
  <1>9. ASSUME NEW a, ArgsAlive(args, a) PROVE Alive(v, a)
    <2>1. \A i \in 1 .. k : args[i] \in a \cup {Prim}
      BY <1>9 DEF ArgsAlive
    <2>2. \A i \in 1 .. k + n : v.locals[i] \in a \cup {Prim, Undefined}
      BY <1>1, <1>3, <2>1
    <2>3. Len(v.locals) = k + n /\ Len(v.operands) = 0
      BY <1>1, <1>2, <1>6
    <2>4. QED
      BY <2>2, <2>3 DEF Alive
  <1>10. QED
    BY <1>5, <1>8, <1>9 DEF v, n

\* The frame of a method that the last of fs calls.
LEMMA NewFrameFits ==
  ASSUME NEW fs, WellFormed(fs), fs # <<>>, Last(fs).sp >= -1,
         NEW m \in Methods, NEW manual \in BOOLEAN,
         Memory(NewFrame(fs, m, manual)) <= Size
  PROVE  /\ NewFrame(fs, m, manual) \in Frames /\ Fits(NewFrame(fs, m, manual))
         /\ Entered(NewFrame(fs, m, manual))
         /\ NewFrame(fs, m, manual).method = m
         /\ NewFrame(fs, m, manual).manual = manual
         /\ NewFrame(fs, m, manual).base = TopSlot(Last(fs)) + 1
  <1> DEFINE f == NewFrame(fs, m, manual)
             b == TopSlot(Last(fs)) + 1
  <1>1. /\ f.sp = -1 /\ f.thrown = None /\ f.next = "stop" /\ f.local = None
        /\ f.method = m /\ f.manual = manual /\ f.base = b
        /\ f.defined = 0 .. m.params - 1
    BY DEF NewFrame
  <1>2. /\ Last(fs) \in Frames /\ Fits(Last(fs))
        /\ Memory(Last(fs)) \in Nat /\ TopSlot(Last(fs)) = Memory(Last(fs)) + Last(fs).sp
        /\ TopSlot(Last(fs)) < Size /\ Size \in Nat /\ Last(fs).sp \in Int
        /\ MaxOperands \in Nat /\ MaxLocals \in Nat
    BY TopOf, FrameTypes DEF Fits
  <1>3. b \in 0 .. Size
    BY <1>2
  <1>4. m \in Method /\ m.params <= m.locals
    BY FrameStackAssumption
  <1>5. m.params \in Nat /\ m.locals \in Nat /\ m.locals <= MaxLocals
    BY <1>2, <1>4 DEF Method
  <1>6. f.defined \in SUBSET (0 .. MaxLocals - 1) /\ f.defined \subseteq 0 .. m.locals - 1
    <2>1. f.defined = 0 .. m.params - 1
      BY <1>1
    <2>2. \A i \in 0 .. m.params - 1 : i \in 0 .. m.locals - 1 /\ i \in 0 .. MaxLocals - 1
      BY <1>2, <1>4, <1>5
    <2> HIDE DEF f
    <2>3. QED
      BY <2>1, <2>2
  <1>7. f \in Frames
    <2>1. -1 \in -3 .. MaxOperands - 1
      BY <1>2
    <2>2. f = [method |-> m, manual |-> manual, base |-> b, sp |-> -1, thrown |-> None,
               next |-> "stop", local |-> None, defined |-> f.defined]
      BY DEF NewFrame
    <2> HIDE DEF f, b
    <2>3. QED
      BY <1>3, <1>6, <2>1, <2>2 DEF Frames
  <1> HIDE DEF f, b
  <1>8. Memory(f) = b + m.locals /\ TopSlot(f) = b + m.locals + -1
    BY <1>1 DEF Memory, TopSlot
  <1>9. Memory(f) <= Size
    BY DEF f
  <1>10. TopSlot(f) < Size
    BY <1>2, <1>3, <1>5, <1>8, <1>9
  <1>11. Fits(f) /\ Entered(f)
    BY <1>1, <1>6, <1>9, <1>10 DEF Fits, Entered
  <1>12. QED
    BY <1>1, <1>7, <1>11 DEF f, b

\* g has been entered, on top of fs.
LEMMA EnterStep ==
  ASSUME NEW fs, WellFormed(fs), slots \in Slots,
         NEW g \in Frames, Fits(g), Entered(g),
         WellFormed(Append(fs, g)), Last(Append(fs, g)) = g, Append(fs, g) # <<>>,
         Views(Append(fs, g), slots') = Append(Views(fs, slots), View(g, slots')),
         frames' = Append(fs, g), slots' \in Slots,
         polling' = TRUE, crashed' \in BOOLEAN, allocated' \in SUBSET Oops,
         NEW args \in Seq(Values), Len(args) = g.method.params, SlotsHold(g, slots', args)
  PROVE  /\ Layout'
         /\ JavaStack' = Append(Views(fs, slots),
                                Java!Entry(args, g.method.locals - g.method.params,
                                           g.method.native))
         /\ (~crashed' => AllAlive(Views(fs, slots), allocated')
                          /\ ArgsAlive(args, allocated')) => NoneCollected'
  <1> DEFINE v == View(g, slots')
             vs == Views(fs, slots)
  <1>1. /\ v = Java!Entry(args, g.method.locals - g.method.params, g.method.native)
        /\ v \in JavaFrame
        /\ \A a : ArgsAlive(args, a) => Alive(v, a)
    BY EntryView
  <1>2. /\ WellFormed(frames') /\ frames' # <<>> /\ Last(frames') = g
        /\ Views(frames', slots') = Append(vs, v)
    OBVIOUS
  <1>3. Layout'
    BY <1>2 DEF Layout, TypeOK, WellFormed, EntryPolls, Slots, Top, Entered
  <1>4. J' = Append(vs, v) /\ JavaStack' = J'
    <2>1. (JavaStack = J)'
      BY JavaStackIsJ, PTL
    <2>2. QED
      BY <1>2, <2>1 DEF J
  <1>5. vs \in Seq(JavaFrame)
    BY ViewsTyped
  <1>6. (Layout => (NoneCollected <=> (~crashed => AllAlive(J, allocated))))'
    BY ReadableInJ, PTL
  <1> HIDE DEF v, vs
  <1>7. ASSUME ~crashed' => AllAlive(vs, allocated') /\ ArgsAlive(args, allocated')
        PROVE  NoneCollected'
    <2>1. CASE crashed'
      BY <1>3, <1>6, <2>1
    <2>2. CASE ~crashed'
      <3>1. AllAlive(vs, allocated') /\ Alive(v, allocated')
        BY <1>1, <1>7, <2>2
      <3>2. AllAlive(Append(vs, v), allocated')
        BY <1>1, <1>5, <3>1, AlivePushed
      <3>3. AllAlive(J', allocated')
        BY <1>4, <3>2
      <3>4. QED
        BY <1>3, <1>6, <3>3
    <2>3. QED
      BY <2>1, <2>2
  <1>8. QED
    BY <1>1, <1>3, <1>4, <1>7 DEF vs

\* The parameters are copied into the locals.
LEMMA ParamsStored ==
  ASSUME NEW f \in Frames, Fits(f), slots \in Slots,
         NEW args \in Seq(Values), Len(args) = f.method.params,
         slots' = [i \in DOMAIN slots |->
                      IF i \in f.base .. f.base + f.method.params - 1
                      THEN args[i - f.base + 1] ELSE slots[i]]
  PROVE  /\ slots' \in Slots /\ SameBelow(f.base, slots, slots')
         /\ SlotsHold(f, slots', args)
  <1>1. /\ f.base \in Nat /\ f.method.params \in Nat /\ f.method.locals \in Nat
        /\ f.method.params <= f.method.locals /\ Memory(f) = f.base + f.method.locals
        /\ Memory(f) <= Size /\ Size \in Nat
    BY FrameTypes DEF Fits
  <1>2. DOMAIN slots = 0 .. Size - 1 /\ \A i \in 0 .. Size - 1 : slots[i] \in Values
    BY DEF Slots
  <1>3. \A i \in 1 .. f.method.params : args[i] \in Values
    BY ElementOfSeq
  <1>4. slots' \in Slots
    <2>1. ASSUME NEW i \in 0 .. Size - 1, i \in f.base .. f.base + f.method.params - 1
          PROVE  args[i - f.base + 1] \in Values
      <3>1. \A b, n, j \in Nat : j \in b .. b + n - 1 => j - b + 1 \in 1 .. n
        OBVIOUS
      <3>2. i \in Nat /\ f.base \in Nat /\ f.method.params \in Nat
        BY <1>1
      <3>3. i - f.base + 1 \in 1 .. f.method.params
        BY <2>1, <3>1, <3>2
      <3>4. QED
        BY <1>3, <3>3
    <2>2. QED
      BY <1>2, <2>1 DEF Slots
  <1>5. SameBelow(f.base, slots, slots')
    BY <1>1, <1>2 DEF SameBelow
  <1>6. ASSUME NEW i \in 1 .. f.method.params PROVE slots'[f.base + i - 1] = args[i]
    <2> DEFINE j == f.base + i - 1
    <2>1. j - f.base + 1 = i /\ j \in f.base .. f.base + f.method.params - 1
      <3>1. \A b, n \in Nat : \A k \in 1 .. n :
                b + k - 1 - b + 1 = k /\ b + k - 1 \in b .. b + n - 1
        OBVIOUS
      <3>2. QED
        BY <1>1, <3>1
    <2>2. j \in 0 .. Size - 1
      <3>1. \A b, n, l, z \in Nat : n <= l /\ b + l <= z =>
                \A k \in 1 .. n : b + k - 1 \in 0 .. z - 1
        OBVIOUS
      <3>2. QED
        BY <1>1, <3>1
    <2> HIDE DEF j
    <2>3. slots'[j] = args[j - f.base + 1]
      BY <1>2, <2>1, <2>2
    <2>4. QED
      BY <2>1, <2>3 DEF j
  <1>7. QED
    BY <1>4, <1>5, <1>6 DEF SlotsHold

\* The bounded sequences of the two modules are the same.
LEMMA BoundedSeqs ==
  ASSUME NEW S, NEW n \in Nat, NEW s
  PROVE  /\ s \in BoundedSeq(S, n) => s \in Seq(S)
         /\ s \in Seq(S) /\ Len(s) <= n => s \in Java!BoundedSeq(S, n)
  <1>1. ASSUME s \in BoundedSeq(S, n) PROVE s \in Seq(S)
    <2>1. PICK m \in 0 .. n : s \in [1 .. m -> S]
      BY <1>1 DEF BoundedSeq, SeqOf
    <2>2. QED
      BY <2>1, FunctionIsSeq
  <1>2. ASSUME s \in Seq(S), Len(s) <= n PROVE s \in Java!BoundedSeq(S, n)
    <2>1. Len(s) \in 0 .. n /\ s \in [1 .. Len(s) -> S]
      BY <1>2, LenProperties
    <2>2. s \in UNION {[1 .. m -> S] : m \in 0 .. n}
      BY <2>1, Zenon
    <2>3. QED
      BY <2>2 DEF Java!BoundedSeq, Java!SeqOf
  <1>3. QED
    BY <1>1, <1>2

\* A method is run with the parameters args.
LEMMA RunWithStep ==
  ASSUME NEW fs, WellFormed(fs), fs # <<>>, Last(fs).sp >= -1,
         slots \in Slots, allocated \in SUBSET Oops, NEW m \in Methods,
         NEW args \in Seq(Values), RunWith(fs, m, args),
         Calls(Last(fs), NewFrame(fs, m, TRUE))
  PROVE  /\ Layout'
         /\ JavaStack' = Append(Views(fs, slots),
                                Java!Entry(args, m.locals - m.params, m.native))
         /\ (~crashed' => AllAlive(Views(fs, slots), allocated)) => NoneCollected'
  <1> DEFINE f == NewFrame(fs, m, TRUE)
  <1>1. /\ Len(args) = m.params /\ Memory(f) <= Size
        /\ frames' = Append(fs, f) /\ polling' = TRUE
        /\ slots' = [i \in DOMAIN slots |-> IF i \in f.base .. f.base + m.params - 1
                                            THEN args[i - f.base + 1] ELSE slots[i]]
        /\ crashed' = ~(Range(args) \subseteq allocated \cup {Prim})
        /\ allocated' = allocated
    BY DEF RunWith, Enter
  <1>2. /\ f \in Frames /\ Fits(f) /\ Entered(f) /\ f.method = m
        /\ f.base = TopSlot(Last(fs)) + 1
    BY <1>1, NewFrameFits
  <1>3. Calls(Last(fs), f)
    OBVIOUS
  <1> HIDE DEF f
  <1>4. slots' \in Slots /\ SameBelow(f.base, slots, slots') /\ SlotsHold(f, slots', args)
    BY <1>1, <1>2, ParamsStored
  <1>5. /\ WellFormed(Append(fs, f)) /\ Last(Append(fs, f)) = f /\ Append(fs, f) # <<>>
        /\ Views(Append(fs, f), slots') = Append(Views(fs, slots), View(f, slots'))
    BY <1>2, <1>3, <1>4, FramePushed DEF Entered
  <1>6. crashed' \in BOOLEAN
    BY <1>1
  <1>7. ~crashed' => ArgsAlive(args, allocated')
    <2>1. ~crashed' => Range(args) \subseteq allocated \cup {Prim}
      BY <1>1
    <2>2. Range(args) = {args[i] : i \in 1 .. Len(args)}
      BY RangeEquality
    <2>3. QED
      BY <1>1, <2>1, <2>2 DEF ArgsAlive
  <1>8. frames' = Append(fs, f) /\ polling' = TRUE /\ Len(args) = f.method.params
        /\ allocated' = allocated /\ allocated' \in SUBSET Oops
    BY <1>1, <1>2
  <1>9. /\ Layout'
        /\ JavaStack' = Append(Views(fs, slots),
                               Java!Entry(args, f.method.locals - f.method.params,
                                          f.method.native))
        /\ (~crashed' => AllAlive(Views(fs, slots), allocated')
                         /\ ArgsAlive(args, allocated')) => NoneCollected'
    BY <1>2, <1>4, <1>5, <1>6, <1>8, EnterStep
  <1>10. QED
    BY <1>2, <1>7, <1>8, <1>9

\* The sizes of a method.
LEMMA MethodFacts ==
  ASSUME NEW m \in Methods
  PROVE  /\ m.params \in Nat /\ m.locals \in Nat /\ m.params <= m.locals
         /\ m.params \in 0 .. MaxLocals /\ m.locals - m.params \in 0 .. MaxLocals
         /\ m.native \in BOOLEAN /\ m.returns \in BOOLEAN
  <1>1. m \in Method /\ m.params <= m.locals /\ MaxLocals \in Nat
    BY FrameStackAssumption
  <1>2. QED
    BY <1>1 DEF Method

\* The frame that calls, although the call before threw, shows the same.
LEMMA FurtherShown ==
  ASSUME Layout, frames # <<>>, Top.sp >= -1
  PROVE  /\ WellFormed(Append(Callers, Further(Top)))
         /\ Append(Callers, Further(Top)) # <<>>
         /\ Last(Append(Callers, Further(Top))) = Further(Top)
         /\ Views(Append(Callers, Further(Top)), slots) = J
  <1> DEFINE c == Further(Top)
             v == View(Top, slots)
             w == View(c, slots)
  <1>1. /\ WellFormed(frames) /\ Top \in Frames /\ Fits(Top) /\ Top = Last(frames)
        /\ slots \in Slots /\ Callers = Front(frames) /\ Views(frames, slots) = J
        /\ J \in Seq(JavaFrame) /\ J # <<>> /\ Last(J) = v
    BY TopFacts DEF J
  <1>2. /\ c \in Frames /\ c.sp = Top.sp /\ c.base = Top.base
        /\ c.method = Top.method /\ c.manual = Top.manual /\ c.thrown = Top.thrown
        /\ c.next = (IF Top.next = "more" THEN "last" ELSE Top.next)
        /\ c.defined = Top.defined
    BY <1>1 DEF Frames, Further
  <1> HIDE DEF c
  <1>3. Memory(c) = Memory(Top) /\ TopSlot(c) = TopSlot(Top)
    BY <1>2 DEF Memory, TopSlot
  <1>4. Fits(c) /\ SameCall(c, Top)
    BY <1>1, <1>2, <1>3 DEF Fits, SameCall
  <1>5. w = v
    BY <1>1, <1>2, <1>3 DEF View, LocalsIn, OperandsIn, Fits
  <1>6. SameBelow(Top.base, slots, slots)
    BY DEF SameBelow
  <1>7. /\ WellFormed(Append(Callers, c)) /\ Append(Callers, c) # <<>>
        /\ Last(Append(Callers, c)) = c
        /\ Views(Append(Callers, c), slots) = Append(Front(J), w)
    BY <1>1, <1>2, <1>4, <1>6, TopReplaced
  <1> HIDE DEF v, w
  <1>8. Append(Front(J), w) = J
    BY <1>1, <1>5, LastAgain
  <1>9. QED
    BY <1>7, <1>8 DEF c

\* A call by C++ code puts its arguments where the locals begin.
LEMMA CallByHandStep ==
  ASSUME Layout, frames # <<>>, ~crashed, ~overlaid',
         Top.thrown # None => Top.next \in {"clinit", "more"},
         NEW m \in Methods, NEW args \in BoundedSeq(Values, MaxLocals),
         RunWith(Append(Callers, Further(Top)), m, args)
  PROVE  Layout' /\ JavaStep /\ (NoneCollected => NoneCollected')
  <1> DEFINE c == Further(Top)
             fs == Append(Callers, c)
             g == NewFrame(fs, m, TRUE)
  <1>1. RunWith(fs, m, args)
    OBVIOUS
  <1>2. /\ Top \in Frames /\ Fits(Top)
        /\ slots \in Slots /\ allocated \in SUBSET Oops /\ JavaStack = J
    BY TopFacts DEF Layout, TypeOK
  <1>3. /\ c \in Frames /\ c.sp = Top.sp /\ c.thrown = Top.thrown
        /\ c.next = (IF Top.next = "more" THEN "last" ELSE Top.next)
    BY <1>2 DEF Frames, Further
  <1>4. Top.sp >= -1
    <2>1. fs # <<>> /\ Last(fs) = c
      <3>1. Callers \in Seq(Frames)
        BY TopFacts, FrontOf
      <3>2. QED
        BY <1>3, <3>1, AppendProperties DEF Last
    <2>2. ~Overlap(fs)
      BY <1>1 DEF RunWith, Enter
    <2>3. Top.sp \in Int
      BY <1>2, FrameTypes
    <2>4. QED
      BY <1>3, <2>1, <2>2, <2>3 DEF Overlap
  <1>5. WellFormed(fs) /\ fs # <<>> /\ Last(fs) = c /\ Views(fs, slots) = J
    BY <1>4, FurtherShown
  <1>6. g.manual = TRUE /\ g.method = m
    BY DEF NewFrame
  <1> HIDE DEF c, fs, g
  <1>7. Calls(c, g)
    <2>1. c.thrown # None => c.next \in {"clinit", "last"}
      BY <1>3
    <2>2. c.next # "report"
      BY <1>2, <1>3 DEF Fits
    <2>3. QED
      BY <1>3, <1>4, <1>6, <2>1, <2>2 DEF Calls
  <1>8. args \in Seq(Values) /\ MaxLocals \in Nat
    BY BoundedSeqs, FrameStackAssumption
  <1>9. Calls(Last(fs), NewFrame(fs, m, TRUE)) /\ Last(fs).sp >= -1
    BY <1>3, <1>4, <1>5, <1>7 DEF g
  <1>10. /\ Layout'
         /\ JavaStack' = Append(J, Java!Entry(args, m.locals - m.params, m.native))
         /\ (~crashed' => AllAlive(J, allocated)) => NoneCollected'
    BY <1>1, <1>2, <1>5, <1>8, <1>9, RunWithStep
  <1>11. Java!CallWith(args, m.locals - m.params, m.native)
    BY <1>2, <1>10 DEF Java!CallWith
  <1>12. args \in Java!BoundedSeq(Values, MaxLocals)
    <2>1. Len(args) = m.params
      BY <1>1 DEF RunWith
    <2>2. Len(args) <= MaxLocals
      BY <1>8, <2>1, MethodFacts
    <2>3. QED
      BY <1>8, <2>2, BoundedSeqs
  <1>13. Java!Next
    BY <1>11, <1>12, MethodFacts DEF Java!Next
  <1>14. QED
    BY <1>10, <1>13, ReadableInJ DEF JavaStep

\* The C++ code of a native method, or of clinit.
LEMMA RunMethodManualStep ==
  ASSUME Layout, NEW m \in Methods, NEW args \in BoundedSeq(Values, MaxLocals),
         RunMethodManual(m, args), ~overlaid'
  PROVE  Layout' /\ JavaStep /\ (NoneCollected => NoneCollected')
  <1>1. /\ frames # <<>> /\ ~crashed
        /\ Top.thrown # None => Top.next \in {"clinit", "more"}
        /\ RunWith(Append(Callers, Further(Top)), m, args)
    BY DEF RunMethodManual, Active
  <1>2. QED
    BY <1>1, CallByHandStep

\* The C++ code of invokedynamic.
LEMMA InvokeDynamicStep ==
  ASSUME Layout, NEW m \in Methods, NEW args \in BoundedSeq(Values, MaxLocals),
         InvokeDynamic(m, args), ~overlaid'
  PROVE  Layout' /\ JavaStep /\ (NoneCollected => NoneCollected')
  <1>1. /\ frames # <<>> /\ ~crashed
        /\ Top.thrown # None => Top.next \in {"clinit", "more"}
        /\ RunWith(Append(Callers, Further(Top)), m, args)
    BY DEF InvokeDynamic, Active
  <1>2. QED
    BY <1>1, CallByHandStep

\* Two entries, appended or listed.
LEMMA AppendedToOne ==
  ASSUME NEW x, NEW y
  PROVE  Append(<<x>>, y) = <<x, y>>
  <1> DEFINE S == {x, y}
  <1>1. <<x>> \in Seq(S) /\ <<x, y>> \in Seq(S)
    OBVIOUS
  <1>2. /\ Append(<<x>>, y) \in Seq(S) /\ Len(Append(<<x>>, y)) = 2
        /\ Append(<<x>>, y)[1] = x /\ Append(<<x>>, y)[2] = y
    <2>1. y \in S /\ Len(<<x>>) = 1 /\ <<x>>[1] = x
      OBVIOUS
    <2> HIDE DEF S
    <2>2. QED
      BY <1>1, <2>1, AppendProperties
  <1>3. Len(<<x, y>>) = 2 /\ <<x, y>>[1] = x /\ <<x, y>>[2] = y
    OBVIOUS
  <1> HIDE DEF S
  <1>4. \A i \in 1 .. 2 : Append(<<x>>, y)[i] = <<x, y>>[i]
    BY <1>2, <1>3
  <1>5. QED
    BY <1>1, <1>2, <1>3, <1>4, SeqEqual

\* An uncaught exception: printStackTrace is run.
LEMMA ThrowToTopFrameStep ==
  ASSUME Layout, NEW m \in Methods, ThrowToTopFrame(m), ~overlaid'
  PROVE  Layout' /\ JavaStep /\ (NoneCollected => NoneCollected')
  <1> DEFINE c == [Top EXCEPT !.next = "report"]
             args == <<Top.thrown>>
             v == View(Top, slots)
             w == View(c, slots)
             e == Java!Entry(args, m.locals - m.params, m.native)
  <1>1. /\ frames # <<>> /\ ~crashed
        /\ Top.thrown # None /\ Top.thrown \in allocated /\ Callers = <<>>
        /\ m.params = 1 /\ ~m.returns /\ ~m.native
        /\ RunWith(<<c>>, m, args)
    BY DEF ThrowToTopFrame, Handling, Active
  <1>2. /\ WellFormed(frames) /\ Top \in Frames /\ Fits(Top) /\ Top = Last(frames)
        /\ slots \in Slots /\ allocated \in SUBSET Oops
        /\ JavaStack = J /\ Callers = Front(frames) /\ Len(frames) \in Nat \ {0}
        /\ Len(J) = Len(frames) /\ Java!Top = v
    BY <1>1, TopFacts DEF Layout, TypeOK
  <1>3. Len(frames) = 1 /\ Len(J) = 1
    <2>1. Len(Front(frames)) = Len(frames) - 1 /\ Front(frames) = <<>>
      BY <1>1, <1>2, TopOf
    <2>2. Len(frames) - 1 = 0 /\ Len(frames) \in Nat
      BY <1>2, <2>1, EmptySeq
    <2>3. Len(frames) = 1
      BY <2>2
    <2>4. QED
      BY <1>2, <2>3
  <1>4. ~Top.method.native /\ First(Top)
    <2>1. Top = frames[1]
      BY <1>2, <1>3 DEF Last
    <2>2. QED
      BY <1>1, <1>2, <2>1 DEF WellFormed, FirstReports, First
  <1>5. /\ c \in Frames /\ c.base = Top.base /\ c.method = Top.method
        /\ c.sp = Top.sp /\ c.thrown = Top.thrown /\ c.next = "report"
        /\ c.defined = Top.defined
    BY <1>2 DEF Frames
  <1> HIDE DEF c
  <1>6. Fits(c) /\ First(c) /\ c.sp >= -1
    <2>1. c.sp >= -1
      <3>1. <<c>> # <<>> /\ Last(<<c>>) = c /\ ~Overlap(<<c>>)
        BY <1>1 DEF RunWith, Enter, Last
      <3>2. c.sp \in Int
        BY <1>5, FrameTypes
      <3>3. QED
        BY <3>1, <3>2 DEF Overlap
    <2>2. QED
      BY <1>1, <1>2, <1>4, <1>5, <2>1 DEF Fits, First, Memory, TopSlot
  <1>7. WellFormed(<<c>>) /\ Views(<<c>>, slots) = <<w>>
    BY <1>5, <1>6, FirstPushed
  <1>8. <<c>> # <<>> /\ Last(<<c>>) = c
    BY DEF Last
  <1>9. Calls(c, NewFrame(<<c>>, m, TRUE))
    BY <1>1, <1>5, <1>6 DEF Calls, NewFrame
  <1>10. args \in Seq(Values) /\ Top.thrown \in Values
    BY <1>1, <1>2 DEF Values
  <1>11. /\ Layout' /\ JavaStack' = Append(<<w>>, e)
         /\ (~crashed' => AllAlive(<<w>>, allocated)) => NoneCollected'
    <2>1. Last(<<c>>).sp >= -1 /\ Calls(Last(<<c>>), NewFrame(<<c>>, m, TRUE))
      BY <1>6, <1>8, <1>9
    <2> HIDE DEF args, w
    <2>2. QED
      BY <1>1, <1>2, <1>7, <1>8, <1>10, <2>1, RunWithStep
  <1>12. w.locals = v.locals
    <2>1. SameBelow(Memory(Top), slots, slots)
      BY DEF SameBelow
    <2>2. QED
      BY <1>2, <1>5, <2>1, SameLocals
  <1>13. w.operands = <<>>
    BY <1>1, <1>2, <1>5, <1>6, ViewType
  <1>14. w = [v EXCEPT !.operands = <<>>]
    BY <1>5, <1>12, <1>13 DEF View
  <1> HIDE DEF v, w
  <1>15. Java!Report(Top.thrown, m.locals - m.params)
    <2>1. JavaStack' = <<w, e>>
      BY <1>11, AppendedToOne
    <2>2. e = Java!Entry(<<Top.thrown>>, m.locals - m.params, FALSE)
      BY <1>1, MethodFacts
    <2> HIDE DEF e
    <2>3. QED
      BY <1>2, <1>3, <1>14, <2>1, <2>2 DEF Java!Report
  <1>16. Java!Next
    BY <1>10, <1>15, MethodFacts DEF Java!Next
  <1>17. ASSUME NoneCollected PROVE AllAlive(<<w>>, allocated)
    <2>1. Alive(v, allocated)
      BY <1>1, <1>17, TopIsAlive DEF v
    <2>2. Alive(w, allocated)
      BY <1>12, <1>13, <2>1 DEF Alive
    <2>3. QED
      BY <2>2 DEF AllAlive
  <1>18. QED
    BY <1>11, <1>16, <1>17 DEF JavaStep

\* The first method of a thread, run without a frame below it.
LEMMA RunThreadStep ==
  ASSUME Layout, NEW m \in Methods, RunThread(m)
  PROVE  Layout' /\ JavaStep /\ (NoneCollected => NoneCollected')
  <1> DEFINE f == NewFrame(<<>>, m, TRUE)
             args == [i \in 1 .. m.params |-> Prim]
             e == Java!Entry(args, m.locals - m.params, m.native)
  <1>1. /\ frames = <<>> /\ ~m.returns /\ ~m.native
        /\ Memory(f) <= Size
        /\ frames' = Append(<<>>, f) /\ polling' = TRUE
        /\ slots' = [i \in DOMAIN slots |-> IF i \in f.base .. f.base + m.params - 1
                                            THEN args[i - f.base + 1] ELSE slots[i]]
        /\ crashed' = ~(Range(args) \subseteq allocated \cup {Prim})
        /\ allocated' = allocated
    <2>1. frames = <<>> /\ ~m.returns /\ ~m.native /\ RunWith(<<>>, m, args)
      BY DEF RunThread
    <2> HIDE DEF args
    <2>2. QED
      BY <2>1 DEF RunWith, Enter
  <1>2. slots \in Slots /\ allocated \in SUBSET Oops /\ crashed' \in BOOLEAN
    BY <1>1 DEF Layout, TypeOK, Slots
  <1>3. /\ m.params \in Nat /\ m.locals \in Nat /\ m.params <= m.locals
        /\ m.locals \in 0 .. MaxLocals /\ MaxLocals \in Nat /\ Size \in Nat
        /\ MaxOperands \in Nat
    <2>1. m \in Method /\ m.params <= m.locals
      BY FrameStackAssumption
    <2>2. QED
      BY <2>1, FrameStackAssumption DEF Method
  <1>4. args \in Seq(Values) /\ Len(args) = m.params
    <2>1. args \in [1 .. m.params -> Values]
      BY DEF Values
    <2>2. QED
      BY <1>3, <2>1, FunctionIsSeq
  <1>5. ArgsAlive(args, allocated')
    <2>1. \A i \in 1 .. m.params : args[i] = Prim
      OBVIOUS
    <2>2. QED
      BY <1>4, <2>1 DEF ArgsAlive
  <1> HIDE DEF args
  <1>6. /\ f.sp = -1 /\ f.thrown = None /\ f.next = "stop" /\ f.local = None
        /\ f.method = m /\ f.manual = TRUE /\ f.base = 0
        /\ f.defined = 0 .. m.params - 1
    BY DEF NewFrame
  <1> HIDE DEF f
  <1>7. f.defined \in SUBSET (0 .. MaxLocals - 1) /\ f.defined \subseteq 0 .. m.locals - 1
    BY <1>3, <1>6
  <1>8. f \in Frames
    <2>1. -1 \in -3 .. MaxOperands - 1 /\ 0 \in 0 .. Size
      BY <1>3
    <2>2. PICK manual \in BOOLEAN : manual = TRUE
      OBVIOUS
    <2>3. f = [method |-> m, manual |-> manual, base |-> 0, sp |-> -1, thrown |-> None,
               next |-> "stop", local |-> None, defined |-> f.defined]
      BY <2>2 DEF NewFrame, f
    <2>4. QED
      BY <1>7, <2>1, <2>3 DEF Frames
  <1>9. Fits(f) /\ Entered(f) /\ First(f)
    <2>1. Memory(f) = m.locals /\ TopSlot(f) = m.locals + -1
      BY <1>3, <1>6 DEF Memory, TopSlot
    <2>2. TopSlot(f) < Size
      BY <1>1, <1>3, <2>1
    <2>3. QED
      BY <1>1, <1>6, <1>7, <2>2 DEF Fits, Entered, First
  <1>10. slots' \in Slots /\ SlotsHold(f, slots', args)
    BY <1>1, <1>2, <1>4, <1>6, <1>8, <1>9, ParamsStored
  <1>11. Append(<<>>, f) = <<f>>
    OBVIOUS
  <1>12. /\ WellFormed(Append(<<>>, f)) /\ Last(Append(<<>>, f)) = f
         /\ Append(<<>>, f) # <<>>
         /\ Views(Append(<<>>, f), slots') = <<View(f, slots')>>
    BY <1>8, <1>9, <1>11, FirstPushed DEF Last
  <1>13. WellFormed(<<>>) /\ Views(<<>>, slots) = <<>>
    BY DEF WellFormed, FramesFit, FramesCall, FirstReports, FramesAreDisjoint, Views
  <1>14. Views(Append(<<>>, f), slots') = Append(Views(<<>>, slots), View(f, slots'))
    <2>1. \A x : Append(<<>>, x) = <<x>>
      OBVIOUS
    <2>2. QED
      BY <1>12, <1>13, <2>1
  <1>15. /\ frames' = Append(<<>>, f) /\ polling' = TRUE /\ allocated' \in SUBSET Oops
         /\ Len(args) = f.method.params
    BY <1>1, <1>2, <1>4, <1>6
  <1>16. AllAlive(Views(<<>>, slots), allocated')
    BY <1>13 DEF AllAlive
  <1>17. /\ Layout' /\ JavaStack' = Append(Views(<<>>, slots),
                               Java!Entry(args, f.method.locals - f.method.params,
                                          f.method.native))
         /\ (~crashed' => AllAlive(Views(<<>>, slots), allocated')
                          /\ ArgsAlive(args, allocated')) => NoneCollected'
    BY <1>2, <1>4, <1>8, <1>9, <1>10, <1>12, <1>13, <1>14, <1>15, EnterStep
  <1>18. JavaStack = <<>>
    BY <1>1 DEF JavaStack
  <1>19. Java!CallWith(args, m.locals - m.params, m.native)
    BY <1>6, <1>13, <1>17, <1>18 DEF Java!CallWith
  <1>20. args \in Java!BoundedSeq(Values, MaxLocals)
    <2>1. Len(args) <= MaxLocals
      BY <1>3, <1>4
    <2>2. QED
      BY <1>3, <1>4, <2>1, BoundedSeqs
  <1>21. Java!Next
    BY <1>19, <1>20, MethodFacts DEF Java!Next
  <1>22. QED
    BY <1>5, <1>16, <1>17, <1>21 DEF JavaStep

\* The last k entries of a sequence.
LEMMA Suffix ==
  ASSUME NEW S, NEW o \in Seq(S), NEW r \in Nat, NEW k \in Nat, r + k = Len(o)
  PROVE  /\ SubSeq(o, r + 1, r + k) \in Seq(S) /\ Len(SubSeq(o, r + 1, r + k)) = k
         /\ \A i \in 1 .. k : SubSeq(o, r + 1, r + k)[i] = o[r + i]
  <1> DEFINE m == r + 1
             n == r + k
  <1>1. m \in Int /\ n \in Int /\ \A i \in m .. n : i \in 1 .. Len(o)
    BY LenProperties
  <1>2. \A i \in m .. n : o[i] \in S
    BY <1>1, ElementOfSeq
  <1>3. /\ n - m + 1 = k /\ (IF m <= n THEN n - m + 1 ELSE 0) = k
        /\ \A i \in 1 .. k : m + i - 1 = r + i
    OBVIOUS
  <1> HIDE DEF m, n
  <1>4. /\ SubSeq(o, m, n) \in Seq(S)
        /\ Len(SubSeq(o, m, n)) = IF m <= n THEN n - m + 1 ELSE 0
        /\ \A i \in 1 .. n - m + 1 : SubSeq(o, m, n)[i] = o[m + i - 1]
    <2>1. m \in Int /\ n \in Int
      BY <1>1
    <2>2. QED
      BY <1>2, <2>1, SubSeqProperties
  <1>5. QED
    BY <1>3, <1>4 DEF m, n

\* The operands that are passed lie where the callee's locals begin.
LEMMA InvokeStep ==
  ASSUME Layout, NEW m \in Methods, Invoke(m)
  PROVE  Layout' /\ JavaStep /\ (NoneCollected => NoneCollected')
  <1> DEFINE k == m.params
             c == [Top EXCEPT !.sp = @ - k,
                              !.next = IF Top.thrown = None THEN @ ELSE "invoke"]
             fs == Append(Callers, c)
             g == NewFrame(fs, m, FALSE)
             v == View(Top, slots)
             w == View(c, slots)
             b == Top.sp + 1
  <1>1. /\ frames # <<>> /\ ~crashed
        /\ ~Top.method.native
        /\ Top.thrown = None \/ Top.next = "clinit"
        /\ k <= b
        /\ Memory(g) <= Size /\ frames' = Append(fs, g) /\ polling' = TRUE
        /\ UNCHANGED <<slots, allocated, crashed>>
    BY DEF Invoke, Active, Enter
  <1>2. /\ WellFormed(frames) /\ Top \in Frames /\ Fits(Top) /\ Top = Last(frames)
        /\ slots \in Slots /\ allocated \in SUBSET Oops /\ crashed \in BOOLEAN
        /\ JavaStack = J /\ J # <<>> /\ Callers = Front(frames) /\ Views(frames, slots) = J
        /\ J \in Seq(JavaFrame) /\ Java!Top = v /\ Java!Callers = Front(J)
    BY <1>1, TopFacts DEF Layout, TypeOK, J
  <1>3. k \in Nat /\ k \in 0 .. MaxLocals /\ m.locals - k \in 0 .. MaxLocals /\ m.native \in BOOLEAN
    BY MethodFacts
  <1>4. /\ Top.sp \in Int /\ Top.sp <= MaxOperands - 1 /\ MaxOperands \in Nat
        /\ Memory(Top) \in Nat /\ TopSlot(Top) = Memory(Top) + Top.sp
        /\ TopSlot(Top) < Size /\ Memory(Top) <= Size /\ Size \in Nat
    BY <1>2, FrameTypes DEF Fits
  <1>5. Top.sp >= -1 /\ (Top.thrown = None => Top.next = "stop") /\ HasOperands(Top)
        /\ Top.defined \subseteq 0 .. Top.method.locals - 1
    BY <1>1, <1>2 DEF Fits, HasOperands
  <1>6. b \in Nat /\ k <= b
    <2>1. k <= b
      BY <1>1
    <2>2. b \in Nat
      BY <1>4, <1>5
    <2>3. QED
      BY <2>1, <2>2
  <1> HIDE DEF k, b
  <1>7. /\ c \in Frames /\ c.sp = Top.sp - k /\ c.base = Top.base
        /\ c.method = Top.method /\ c.manual = Top.manual /\ c.thrown = Top.thrown
        /\ c.next = (IF Top.thrown = None THEN Top.next ELSE "invoke")
        /\ c.defined = Top.defined
    <2>1. Top.sp - k \in -3 .. MaxOperands - 1
      BY <1>3, <1>4, <1>6 DEF b
    <2>2. QED
      BY <1>2, <2>1 DEF Frames
  <1> HIDE DEF c
  <1>8. Memory(c) = Memory(Top) /\ TopSlot(c) = Memory(Top) + (Top.sp - k)
    BY <1>7 DEF Memory, TopSlot
  <1>9. c.sp >= -1 /\ TopSlot(c) < Size /\ TopSlot(c) + 1 = Memory(Top) + (b - k)
    BY <1>3, <1>4, <1>6, <1>7, <1>8 DEF b
  <1>10. Fits(c) /\ SameCall(c, Top) /\ HasOperands(c)
    BY <1>1, <1>4, <1>5, <1>7, <1>8, <1>9 DEF Fits, SameCall, HasOperands
  <1>11. SameBelow(Top.base, slots, slots) /\ SameBelow(Memory(Top), slots, slots)
         /\ SameFrom(Memory(Top), slots, slots)
    BY DEF SameBelow, SameFrom
  <1>12. /\ WellFormed(fs) /\ fs # <<>> /\ Last(fs) = c
         /\ Views(fs, slots) = Append(Front(J), w)
    BY <1>1, <1>2, <1>7, <1>10, <1>11, TopReplaced
  <1> HIDE DEF fs
  <1>13. /\ g \in Frames /\ Fits(g) /\ Entered(g) /\ g.method = m /\ g.manual = FALSE
         /\ g.base = TopSlot(c) + 1
    BY <1>1, <1>9, <1>12, NewFrameFits
  <1> HIDE DEF g
  <1>14. Calls(c, g)
    BY <1>5, <1>7, <1>9, <1>13 DEF Calls
  <1>15. SameBelow(g.base, slots, slots)
    BY DEF SameBelow
  <1>16. /\ WellFormed(Append(fs, g)) /\ Last(Append(fs, g)) = g /\ Append(fs, g) # <<>>
         /\ Views(Append(fs, g), slots) = Append(Views(fs, slots), View(g, slots))
    BY <1>2, <1>12, <1>13, <1>14, <1>15, FramePushed DEF Entered
  <1>17. /\ v.operands \in Seq(Values) /\ Len(v.operands) = b
         /\ \A i \in 1 .. b : v.operands[i] = slots[Memory(Top) + i - 1]
    BY <1>2, <1>5, ViewType DEF HasOperands, b
  <1> DEFINE r == b - k
             args == SubSeq(v.operands, r + 1, r + k)
             rest == SubSeq(v.operands, 1, r)
  <1>18. r \in Nat /\ r + k = b /\ g.base = Memory(Top) + r /\ r <= b
    BY <1>3, <1>6, <1>9, <1>13
  <1>19. w.locals = v.locals
    BY <1>2, <1>7, <1>11, SameLocals
  <1>20. w.operands = rest
    <2>1. k <= Top.sp + 1
      BY <1>6 DEF b
    <2>2. View(c, slots).operands = SubSeq(View(Top, slots).operands, 1, Top.sp + 1 - k)
      BY <1>2, <1>3, <1>5, <1>7, <1>10, <1>11, <2>1, FewerOperands
    <2>3. Top.sp + 1 - k = r
      <3>1. b = Top.sp + 1
        BY DEF b
      <3>2. QED
        BY <1>3, <1>4, <1>6, <3>1
    <2> HIDE DEF r, v, w
    <2>4. w.operands = SubSeq(v.operands, 1, r)
      BY <2>2, <2>3 DEF v, w
    <2>5. QED
      BY <2>4
  <1> HIDE DEF v, r
  <1>21. /\ args \in Seq(Values) /\ Len(args) = k
         /\ \A i \in 1 .. k : args[i] = v.operands[r + i]
    BY <1>3, <1>17, <1>18, Suffix
  <1>22. SlotsHold(g, slots, args)
    <2> SUFFICES ASSUME NEW i \in 1 .. m.params
                 PROVE  slots[g.base + i - 1] = args[i]
      BY <1>13 DEF SlotsHold
    <2>1. r + i \in 1 .. b /\ g.base + i - 1 = Memory(Top) + (r + i) - 1 /\ i \in 1 .. k
      BY <1>3, <1>4, <1>18 DEF k
    <2>2. args[i] = v.operands[r + i]
      BY <1>21, <2>1
    <2>3. v.operands[r + i] = slots[Memory(Top) + (r + i) - 1]
      BY <1>17, <2>1
    <2>4. QED
      BY <2>1, <2>2, <2>3
  <1> HIDE DEF args, rest, w
  <1>23. /\ frames' = Append(fs, g) /\ slots' = slots /\ polling' = TRUE
         /\ crashed' = crashed /\ allocated' = allocated
    BY <1>1
  <1>24. Len(args) = g.method.params
    BY <1>13, <1>21 DEF k
  <1>25. /\ Layout'
         /\ JavaStack' = Append(Views(fs, slots),
                               Java!Entry(args, g.method.locals - g.method.params,
                                          g.method.native))
         /\ (~crashed' => AllAlive(Views(fs, slots), allocated')
                          /\ ArgsAlive(args, allocated')) => NoneCollected'
    <2>1. /\ Views(Append(fs, g), slots') = Append(Views(fs, slots), View(g, slots'))
          /\ SlotsHold(g, slots', args) /\ slots' \in Slots
          /\ crashed' \in BOOLEAN /\ allocated' \in SUBSET Oops
      BY <1>2, <1>16, <1>22, <1>23
    <2>2. frames' = Append(fs, g) /\ polling' = TRUE
      BY <1>23
    <2>3. QED
      BY <1>2, <1>12, <1>13, <1>16, <1>21, <1>24, <2>1, <2>2, EnterStep
  <1>26. w = [v EXCEPT !.operands = rest]
    BY <1>7, <1>19, <1>20 DEF View, w, v
  <1>27. Java!Call(k, m.locals - k, m.native)
    <2>1. JavaStack' = Append(Append(Front(J), w), Java!Entry(args, m.locals - k, m.native))
      BY <1>12, <1>13, <1>25 DEF k
    <2>2. Len(v.operands) - k = r /\ k <= Len(v.operands)
      BY <1>6, <1>17 DEF r
    <2>3. QED
      BY <1>2, <1>26, <2>1, <2>2 DEF Java!Call, args, rest
  <1>28. Java!Next
    BY <1>3, <1>27 DEF Java!Next
  <1>29. ASSUME NoneCollected PROVE NoneCollected'
    <2>1. AllAlive(J, allocated) /\ Alive(v, allocated)
      BY <1>1, <1>29, ReadableInJ, TopIsAlive DEF v
    <2>2. Alive(w, allocated)
      <3>1. Len(rest) = r /\ \A i \in 1 .. r : rest[i] = v.operands[i] /\ i \in 1 .. b
        BY <1>17, <1>18, Prefix, LenProperties DEF rest
      <3>2. QED
        BY <1>17, <1>19, <1>20, <2>1, <3>1 DEF Alive
    <2>3. w \in JavaFrame
      <3>1. w.locals \in Seq(Values \cup {Undefined}) /\ w.operands \in Seq(Values)
        BY <1>2, <1>7, <1>10, ViewType DEF w
      <3>2. c.method.native \in BOOLEAN
        BY <1>7, FrameTypes
      <3>3. QED
        BY <3>1, <3>2 DEF View, JavaFrame, w
    <2>4. AllAlive(Append(Front(J), w), allocated)
      BY <1>2, <2>1, <2>2, <2>3, AliveReplaced
    <2>5. ArgsAlive(args, allocated)
      <3>1. \A i \in 1 .. k : r + i \in 1 .. Len(v.operands)
        BY <1>3, <1>17, <1>18
      <3>2. \A i \in 1 .. k : v.operands[r + i] \in allocated \cup {Prim, Undefined}
                              /\ v.operands[r + i] \in Values
        BY <1>17, <2>1, <3>1, ElementOfSeq DEF Alive
      <3>3. QED
        BY <1>21, <3>2, FrameStackAssumption DEF ArgsAlive, Values
    <2>6. QED
      BY <1>12, <1>23, <1>25, <2>4, <2>5
  <1>30. QED
    BY <1>25, <1>28, <1>29 DEF JavaStep

-----------------------------------------------------------------------------
(* The end of a call *)

LEMMA LeaveStep ==
  ASSUME Layout, frames # <<>>, frames' = Callers, ~crashed,
         UNCHANGED <<slots, allocated, crashed>>, polling' = FALSE
  PROVE  /\ Layout' /\ Java!Return
         /\ NoneCollected => NoneCollected'
  <1>1. /\ WellFormed(frames) /\ slots \in Slots /\ Callers = Front(frames)
        /\ JavaStack = J /\ J # <<>> /\ J \in Seq(JavaFrame) /\ Java!Callers = Front(J)
        /\ Views(frames, slots) = J
    BY TopFacts DEF J
  <1>2. WellFormed(frames') /\ Views(frames', slots') = Front(J)
    <2>1. WellFormed(Front(frames)) /\ Views(Front(frames), slots) = Front(Views(frames, slots))
      BY <1>1, FramePopped
    <2>2. frames' = Front(frames) /\ slots' = slots
      BY <1>1
    <2>3. QED
      BY <1>1, <2>1, <2>2
  <1>3. Layout'
    <2>1. frames' \in Seq(Frames)
      BY <1>2 DEF WellFormed
    <2>2. QED
      BY <1>2, <2>1 DEF Layout, TypeOK, EntryPolls
  <1>4. J' = Front(J)
    BY <1>2 DEF J
  <1>5. (JavaStack = J)'
    BY JavaStackIsJ, PTL
  <1>6. JavaStack' = Front(J)
    BY <1>4, <1>5
  <1>7. Java!Return
    BY <1>1, <1>6 DEF Java!Return
  <1>8. (Layout => (NoneCollected <=> (~crashed => AllAlive(J, allocated))))'
    BY ReadableInJ, PTL
  <1>9. ASSUME NoneCollected PROVE NoneCollected'
    <2>1. AllAlive(J, allocated)
      BY <1>9, ReadableInJ
    <2>2. AllAlive(Front(J), allocated)
      BY <1>1, <2>1, AlivePopped
    <2>3. QED
      BY <1>3, <1>4, <1>8, <2>2
  <1>10. QED
    BY <1>3, <1>7, <1>9

\* A return without a value.
LEMMA ReturnVoidStep ==
  ASSUME Layout, ReturnVoid
  PROVE  Layout' /\ JavaStep /\ (NoneCollected => NoneCollected')
  <1>1. /\ frames # <<>> /\ ~crashed /\ ~polling /\ frames' = Callers
        /\ UNCHANGED <<slots, polling, allocated, crashed>>
    BY DEF ReturnVoid, Executing, Active
  <1>2. polling' = FALSE
    BY <1>1 DEF Layout, TypeOK
  <1>3. Layout' /\ Java!Return /\ (NoneCollected => NoneCollected')
    BY <1>1, <1>2, LeaveStep
  <1>4. QED
    BY <1>3 DEF JavaStep, Java!Next

\* Only the first frame reports an exception.
LEMMA TopFrameEndsStep ==
  ASSUME Layout, TopFrameEnds
  PROVE  Layout' /\ JavaStep /\ (NoneCollected => NoneCollected')
  <1>1. /\ frames # <<>> /\ ~crashed /\ ~polling /\ frames' = <<>>
        /\ Top.next = "report"
        /\ UNCHANGED <<slots, polling, allocated, crashed>>
    BY DEF TopFrameEnds, Active
  <1>2. polling' = FALSE
    BY <1>1 DEF Layout, TypeOK
  <1>3. /\ Len(frames) \in Nat \ {0} /\ Top = frames[Len(frames)]
        /\ Callers \in Seq(Frames) /\ Len(Callers) = Len(frames) - 1
        /\ WellFormed(frames)
    BY <1>1, TopFacts, TopOf
  <1>4. \A k \in 2 .. Len(frames) : frames[k].next # "report"
    BY <1>3 DEF WellFormed, FirstReports
  <1>5. Len(frames) = 1
    BY <1>1, <1>3, <1>4
  <1>6. Callers = <<>>
    BY <1>3, <1>5, EmptySeq
  <1>7. frames' = Callers
    BY <1>1, <1>6
  <1>8. Layout' /\ Java!Return /\ (NoneCollected => NoneCollected')
    BY <1>1, <1>2, <1>7, LeaveStep
  <1>9. QED
    BY <1>8 DEF JavaStep, Java!Next

Caller == Last(Callers)

\* The caller, in the slots and in the Java stack.
LEMMA CallerFacts ==
  ASSUME Layout, frames # <<>>, Callers # <<>>
  PROVE  /\ WellFormed(Callers) /\ Caller \in Frames /\ Fits(Caller)
         /\ Calls(Caller, Top) /\ Caller = Last(Callers)
         /\ Views(Callers, slots) = Front(J)
         /\ Front(J) \in Seq(JavaFrame) /\ Front(J) # <<>>
         /\ Last(Front(J)) = View(Caller, slots)
         /\ View(Caller, slots) \in JavaFrame
         /\ Len(J) > 1
  <1>1. /\ WellFormed(frames) /\ slots \in Slots /\ Callers = Front(frames)
        /\ Views(frames, slots) = J /\ J \in Seq(JavaFrame) /\ J # <<>>
        /\ Len(J) = Len(frames)
    BY TopFacts DEF J
  <1>2. /\ frames \in Seq(Frames) /\ Len(frames) \in Nat \ {0}
        /\ Top = frames[Len(frames)]
        /\ Callers \in Seq(Frames) /\ Len(Callers) = Len(frames) - 1
        /\ \A k \in 1 .. Len(frames) - 1 : Callers[k] = frames[k]
    BY <1>1, TopOf, TopFacts
  <1>3. WellFormed(Callers) /\ Views(Callers, slots) = Front(J)
    BY <1>1, FramePopped
  <1>4. /\ Caller \in Frames /\ Fits(Caller) /\ Caller = Callers[Len(Callers)]
        /\ Len(Callers) \in Nat \ {0}
    BY <1>3, TopOf DEF Caller
  <1>5. PICK n \in Nat \ {0} : n = Len(frames) - 1 /\ n + 1 = Len(frames) /\ n = Len(Callers)
    <2>1. Len(frames) - 1 + 1 = Len(frames)
      BY <1>2
    <2>2. QED
      BY <1>2, <1>4, <2>1
  <1>6. Calls(frames[n], frames[n + 1])
    BY <1>1, <1>5 DEF WellFormed, FramesCall
  <1>7. Calls(Caller, Top)
    BY <1>2, <1>4, <1>5, <1>6
  <1>8. Front(J) \in Seq(JavaFrame) /\ Len(Front(J)) = Len(J) - 1
    BY <1>1, FrontOf
  <1>9. Front(J) # <<>> /\ Len(J) > 1
    BY <1>1, <1>5, <1>8, EmptySeq
  <1>10. Front(J)[n] = View(Caller, slots)
    BY <1>2, <1>3, <1>4, <1>5, ViewsAt
  <1>11. Last(Front(J)) = View(Caller, slots) /\ Last(Front(J)) \in JavaFrame
    BY <1>1, <1>5, <1>8, <1>9, <1>10, FrontOf
  <1>12. QED
    BY <1>3, <1>4, <1>7, <1>8, <1>9, <1>11 DEF Caller

\* The caller becomes c, and writes no slot of its own callers.
LEMMA BackStep ==
  ASSUME Layout, frames # <<>>, Callers # <<>>, ~crashed,
         NEW c \in Frames, Fits(c), SameCall(c, Caller),
         frames' = Append(Front(Callers), c), slots' \in Slots,
         SameBelow(Caller.base, slots, slots'),
         polling' = FALSE, crashed' \in BOOLEAN, allocated' = allocated
  PROVE  /\ Layout'
         /\ JavaStack' = Append(Front(Front(J)), View(c, slots'))
         /\ (NoneCollected => (~crashed' => Alive(View(c, slots'), allocated)))
                => (NoneCollected => NoneCollected')
  <1> DEFINE w == View(c, slots')
             vs == Front(J)
  <1>1. /\ WellFormed(Callers) /\ Views(Callers, slots) = vs /\ slots \in Slots
        /\ vs \in Seq(JavaFrame) /\ vs # <<>> /\ J \in Seq(JavaFrame) /\ J # <<>>
        /\ Caller = Last(Callers)
    BY CallerFacts, TopFacts
  <1>2. /\ WellFormed(frames') /\ frames' # <<>>
        /\ Views(frames', slots') = Append(Front(vs), w)
    <2>1. SameCall(c, Last(Callers)) /\ SameBelow(Last(Callers).base, slots, slots')
      BY <1>1
    <2>2. QED
      BY <1>1, <2>1, TopReplaced
  <1>3. Layout'
    BY <1>2 DEF Layout, TypeOK, WellFormed, EntryPolls, Slots
  <1>4. J' = Append(Front(vs), w)
    BY <1>2 DEF J
  <1>5. (JavaStack = J)'
    BY JavaStackIsJ, PTL
  <1>6. w \in JavaFrame
    <2>1. w.locals \in Seq(Values \cup {Undefined}) /\ w.operands \in Seq(Values)
      BY ViewType
    <2>2. c.method.native \in BOOLEAN
      BY FrameTypes
    <2>3. QED
      BY <2>1, <2>2 DEF View, JavaFrame
  <1>7. (Layout => (NoneCollected <=> (~crashed => AllAlive(J, allocated))))'
    BY ReadableInJ, PTL
  <1> HIDE DEF w, vs
  <1>8. ASSUME NoneCollected, ~crashed' => Alive(w, allocated) PROVE NoneCollected'
    <2>1. CASE crashed'
      BY <1>3, <1>7, <2>1
    <2>2. CASE ~crashed'
      <3>1. AllAlive(J, allocated)
        BY <1>8, ReadableInJ
      <3>2. AllAlive(vs, allocated)
        BY <1>1, <3>1, AlivePopped DEF vs
      <3>3. AllAlive(Append(Front(vs), w), allocated)
        BY <1>1, <1>6, <1>8, <2>2, <3>2, AliveReplaced
      <3>4. AllAlive(J', allocated')
        BY <1>4, <3>3
      <3>5. QED
        BY <1>3, <1>7, <3>4
    <2>3. QED
      BY <2>1, <2>2
  <1>9. JavaStack' = Append(Front(vs), w)
    BY <1>4, <1>5
  <1>10. QED
    BY <1>3, <1>8, <1>9 DEF w, vs

\* A caller that shows what it did before.
LEMMA CallerAgain ==
  ASSUME Layout, frames # <<>>, Callers # <<>>,
         JavaStack' = Append(Front(Front(J)), View(Caller, slots))
  PROVE  JavaStack' = Front(J)
  <1>1. /\ Front(J) \in Seq(JavaFrame) /\ Front(J) # <<>>
        /\ Last(Front(J)) = View(Caller, slots)
    BY CallerFacts
  <1>2. QED
    BY <1>1, LastAgain

\* The caller holds only living objects.
LEMMA CallerIsAlive ==
  ASSUME Layout, frames # <<>>, Callers # <<>>, NoneCollected, ~crashed
  PROVE  Alive(View(Caller, slots), allocated)
  <1>1. AllAlive(J, allocated)
    BY ReadableInJ
  <1>2. /\ J \in Seq(JavaFrame) /\ J # <<>>
        /\ Front(J) \in Seq(JavaFrame) /\ Front(J) # <<>>
        /\ Last(Front(J)) = View(Caller, slots)
    BY TopFacts, CallerFacts
  <1>3. AllAlive(Front(J), allocated)
    BY <1>1, <1>2, AlivePopped
  <1>4. Len(Front(J)) \in Nat \ {0} /\ Front(J)[Len(Front(J))] = View(Caller, slots)
    BY <1>2, FrontOf
  <1>5. QED
    BY <1>3, <1>4 DEF AllAlive

\* The first frame has no result to return.
LEMMA ReturningHasCaller ==
  ASSUME Layout, frames # <<>>, Top.method.returns
  PROVE  Callers # <<>>
  <1>1. /\ Len(frames) \in Nat \ {0} /\ Top = frames[Len(frames)] /\ WellFormed(frames)
        /\ Len(Callers) = Len(frames) - 1
    BY TopFacts, TopOf
  <1>2. Len(frames) # 1
    BY <1>1 DEF WellFormed, FirstReports, First
  <1>3. Len(Callers) # 0
    BY <1>1, <1>2
  <1>4. QED
    BY <1>3, EmptySeq

\* A return pushes its value for the caller.
LEMMA ReturnValueStep ==
  ASSUME Layout, NEW x \in Values, ReturnValue(x)
  PROVE  Layout' /\ JavaStep /\ (NoneCollected => NoneCollected')
  <1> DEFINE sp == IF Top.manual THEN Caller.sp ELSE Caller.sp + 1
             c == [Caller EXCEPT !.sp = sp]
             k == TopSlot(Caller) + 1
             v == View(Caller, slots)
             w == View(c, slots')
  <1>1. /\ frames # <<>> /\ ~crashed /\ ~polling
        /\ Top.thrown = None /\ Top.method.returns /\ x \in Result
    BY DEF ReturnValue, Executing, Active
  <1>2. sp < MaxOperands /\ k < Size
    BY DEF ReturnValue, Caller
  <1>3. /\ slots' = [slots EXCEPT ![k] = x]
        /\ frames' = Append(Front(Callers), c)
        /\ crashed' = (x \notin allocated \cup {Prim})
        /\ polling' = polling /\ allocated' = allocated
    BY DEF ReturnValue, Caller
  <1>4. Callers # <<>>
    BY <1>1, ReturningHasCaller
  <1>5. /\ Caller \in Frames /\ Fits(Caller) /\ Calls(Caller, Top)
        /\ Last(Front(J)) = v /\ Len(J) > 1 /\ v \in JavaFrame
        /\ JavaStack = J /\ J # <<>> /\ Java!Callers = Front(J)
        /\ slots \in Slots /\ polling \in BOOLEAN
    BY <1>1, <1>4, CallerFacts, TopFacts DEF Layout, TypeOK
  <1>6. /\ Caller.sp \in Int /\ Caller.sp >= -1 /\ MaxOperands \in Nat /\ Size \in Nat
        /\ Memory(Caller) \in Nat /\ TopSlot(Caller) = Memory(Caller) + Caller.sp
        /\ Caller.base \in Nat /\ Caller.method.locals \in Nat
        /\ Memory(Caller) = Caller.base + Caller.method.locals
        /\ Memory(Caller) <= Size /\ TopSlot(Caller) < Size
    BY <1>5, FrameTypes DEF Fits, Calls
  <1>7. k \in 0 .. Size - 1 /\ Caller.base <= k /\ Memory(Caller) <= k
    <2>1. k = Memory(Caller) + (Caller.sp + 1) /\ Caller.sp + 1 \in Nat
      BY <1>6
    <2> HIDE DEF k
    <2>2. QED
      BY <1>2, <1>6, <2>1
  <1>8. sp \in -3 .. MaxOperands - 1 /\ sp >= -1
    BY <1>2, <1>6
  <1>9. /\ Top.manual => sp = Caller.sp
        /\ ~Top.manual => sp = Caller.sp + 1
    OBVIOUS
  <1> HIDE DEF sp
  <1>10. /\ c \in Frames /\ c.sp = sp /\ c.base = Caller.base
         /\ c.method = Caller.method /\ c.manual = Caller.manual
         /\ c.thrown = Caller.thrown /\ c.next = Caller.next
         /\ c.defined = Caller.defined
    BY <1>5, <1>8 DEF Frames
  <1> HIDE DEF c, k
  <1>11. Memory(c) = Memory(Caller) /\ TopSlot(c) = Memory(Caller) + sp
    BY <1>10 DEF Memory, TopSlot
  <1>12. TopSlot(c) < Size
    BY <1>2, <1>6, <1>8, <1>9, <1>11 DEF k
  <1>13. Fits(c) /\ SameCall(c, Caller)
    <2>1. /\ Caller.defined \subseteq 0 .. Caller.method.locals - 1
          /\ Caller.thrown = None => Caller.next = "stop"
          /\ Caller.method.native => Caller.next \in {"stop", "more", "last"}
      BY <1>5 DEF Fits
    <2>2. QED
      BY <1>6, <1>8, <1>10, <1>11, <1>12, <2>1 DEF Fits, SameCall
  <1>14. ~Top.manual => HasOperands(Caller) /\ HasOperands(c)
    BY <1>1, <1>5, <1>10 DEF HasOperands, Calls
  <1>15. slots' \in Slots /\ slots'[k] = x /\ SameBelow(k, slots, slots')
    BY <1>3, <1>5, <1>7 DEF Slots, SameBelow
  <1>16. SameBelow(Caller.base, slots, slots') /\ SameBelow(Memory(Caller), slots, slots')
    BY <1>6, <1>7, <1>15 DEF SameBelow
  <1>17. crashed' \in BOOLEAN /\ (~crashed' => x \in allocated \cup {Prim})
    BY <1>3
  <1>18. frames' = Append(Front(Callers), c) /\ polling' = FALSE /\ allocated' = allocated
    BY <1>1, <1>3, <1>5
  <1>19. /\ Layout' /\ JavaStack' = Append(Front(Front(J)), w)
         /\ (NoneCollected => (~crashed' => Alive(w, allocated)))
                => (NoneCollected => NoneCollected')
    BY <1>1, <1>4, <1>10, <1>13, <1>15, <1>16, <1>17, <1>18, BackStep
  <1>20. w.locals = v.locals
    BY <1>5, <1>10, <1>15, <1>16, SameLocals
  <1>21. NoneCollected => Alive(v, allocated)
    BY <1>1, <1>4, CallerIsAlive
  <1>22. CASE Top.manual
    <2>1. w = v
      <3>1. View(Caller, slots') = View(Caller, slots)
        <4>1. \A i \in 0 .. Size - 1 : i < Memory(Caller) \/ i <= TopSlot(Caller)
                                          => slots'[i] = slots[i]
          BY <1>6, <1>7, <1>15 DEF SameBelow, k
        <4>2. QED
          BY <1>5, <1>15, <4>1, SameView
      <3>2. View(c, slots') = View(Caller, slots')
        BY <1>9, <1>10, <1>11, <1>22 DEF View, LocalsIn, OperandsIn
      <3>3. QED
        BY <3>1, <3>2
    <2>2. JavaStack' = Front(J)
      BY <1>1, <1>4, <1>19, <2>1, CallerAgain
    <2>3. Java!Return
      BY <1>5, <2>2 DEF Java!Return
    <2>4. QED
      BY <1>19, <1>21, <2>1, <2>3 DEF JavaStep, Java!Next
  <1>23. CASE ~Top.manual
    <2>1. c.sp = Caller.sp + 1
      BY <1>9, <1>10, <1>23
    <2>2. w.operands = Append(v.operands, x) /\ v.operands \in Seq(Values)
      <3>1. SameBelow(TopSlot(Caller) + 1, slots, slots')
            /\ slots'[TopSlot(Caller) + 1] = x
        BY <1>15 DEF k
      <3>2. Caller.sp >= -1
        BY <1>6
      <3>3. QED
        BY <1>5, <1>10, <1>13, <1>14, <1>15, <1>23, <2>1, <3>1, <3>2, MoreOperands
    <2>3. w = [v EXCEPT !.operands = Append(@, x)]
      <3>1. w = [v EXCEPT !.operands = w.operands]
        BY <1>10, <1>20 DEF View
      <3> HIDE DEF v, w
      <3>2. QED
        BY <2>2, <3>1
    <2>4. Top.method.native => Java!Top.native
      BY <1>1, TopFacts DEF View
    <2>5. ~Top.method.native => Java!Top.operands # <<>> /\ x = Last(Java!Top.operands)
      <3>1. CASE ~Top.method.native
        <4>1. PICK i \in 0 .. Top.sp : x = slots[TopSlot(Top)]
          BY <1>1, <3>1 DEF Result
        <4>2. Top.sp >= 0
          <5>1. Top.sp \in Int
            BY <1>1, TopNumbers
          <5>2. QED
            BY <4>1, <5>1
        <4>3. /\ Last(View(Top, slots).operands) = slots[TopSlot(Top)]
              /\ View(Top, slots).operands # <<>>
          BY <1>1, <4>2, LastOperand
        <4>4. QED
          BY <1>1, <4>1, <4>3, TopFacts
      <3>2. QED
        BY <3>1
    <2>6. Java!ReturnValue(x)
      <3>1. /\ Len(JavaStack) > 1
            /\ Java!Last(Java!Callers) = v
            /\ Java!Front(Java!Callers) = Front(Front(J))
            /\ Java!Last(Java!Top.operands) = Last(Java!Top.operands)
        BY <1>5 DEF Java!Last, Java!Front, Last, Front
      <3> HIDE DEF v, w
      <3>2. JavaStack' = Append(Java!Front(Java!Callers),
                                [Java!Last(Java!Callers) EXCEPT !.operands = Append(@, x)])
        BY <1>19, <2>3, <3>1
      <3>3. QED
        BY <2>4, <2>5, <3>1, <3>2 DEF Java!ReturnValue
    <2>7. ASSUME NoneCollected, ~crashed' PROVE Alive(w, allocated)
      <3> HIDE DEF v, w
      <3>1. /\ Len(Append(v.operands, x)) = Len(v.operands) + 1
            /\ \A i \in 1 .. Len(v.operands) : Append(v.operands, x)[i] = v.operands[i]
            /\ Append(v.operands, x)[Len(v.operands) + 1] = x
            /\ Len(v.operands) \in Nat
        BY <2>2, AppendProperties, LenProperties
      <3>2. x \in allocated \cup {Prim} /\ Alive(v, allocated)
        BY <1>17, <1>21, <2>7
      <3>3. QED
        BY <1>20, <2>2, <3>1, <3>2 DEF Alive
    <2>8. QED
      BY <1>19, <2>6, <2>7 DEF JavaStep, Java!Next
  <1>24. QED
    BY <1>22, <1>23

\* An exception goes to the caller.
LEMMA PassExceptionStep ==
  ASSUME Layout, PassException
  PROVE  Layout' /\ JavaStep /\ (NoneCollected => NoneCollected')
  <1> DEFINE next == IF Caller.next = "report" THEN "report"
                     ELSE IF ~Top.manual \/ Caller.next = "last" THEN "stop"
                     ELSE IF Caller.method.native \/ Top.method.returns THEN "more"
                     ELSE "clinit"
             sp == IF Top.manual /\ Top.method.returns THEN Caller.sp - 1 ELSE Caller.sp
             c == [Caller EXCEPT !.thrown = Top.thrown, !.next = next, !.sp = sp]
             v == View(Caller, slots)
             w == View(c, slots')
  <1>1. /\ frames # <<>> /\ ~crashed /\ ~polling
        /\ Top.thrown # None /\ Top.thrown \in allocated /\ Callers # <<>>
        /\ frames' = Append(Front(Callers), c)
        /\ UNCHANGED <<slots, polling, allocated, crashed>>
    BY DEF PassException, Handling, Active, Caller
  <1>2. /\ Caller \in Frames /\ Fits(Caller) /\ Calls(Caller, Top)
        /\ Last(Front(J)) = v /\ Front(J) \in Seq(JavaFrame) /\ Front(J) # <<>>
        /\ Len(J) > 1 /\ v \in JavaFrame
        /\ JavaStack = J /\ J # <<>> /\ Java!Callers = Front(J)
        /\ slots \in Slots /\ polling \in BOOLEAN /\ crashed \in BOOLEAN
        /\ allocated \in SUBSET Oops
    BY <1>1, CallerFacts, TopFacts DEF Layout, TypeOK
  <1>3. /\ Caller.sp \in Int /\ Caller.sp >= -1 /\ Caller.sp <= MaxOperands - 1
        /\ MaxOperands \in Nat /\ Size \in Nat
        /\ Memory(Caller) \in Nat /\ TopSlot(Caller) = Memory(Caller) + Caller.sp
        /\ Memory(Caller) <= Size /\ TopSlot(Caller) < Size
    BY <1>2, FrameTypes DEF Fits, Calls
  <1>4. /\ Caller.thrown = None => Caller.next = "stop"
        /\ Caller.method.native => Caller.next \in {"stop", "more", "last"}
        /\ Caller.defined \subseteq 0 .. Caller.method.locals - 1
        /\ Caller.next = "report" => ~Top.method.returns
        /\ Caller.thrown # None => Caller.next \notin {"stop", "more"}
    BY <1>2 DEF Fits, Calls
  <1>5. /\ next \in {"report", "clinit", "stop", "more"}
        /\ next = "report" => Caller.next = "report"
        /\ next = "clinit" => /\ ~Caller.method.native /\ ~Top.method.returns
                              /\ Caller.next \notin {"report", "last"}
        /\ Caller.method.native => next \in {"stop", "more"}
    BY <1>4
  <1>6. /\ sp = Caller.sp \/ (sp = Caller.sp - 1 /\ next \in {"stop", "more"})
        /\ next = "clinit" => sp = Caller.sp
    BY <1>4, <1>5
  <1> HIDE DEF next, sp
  <1>7. sp \in -3 .. MaxOperands - 1 /\ sp <= Caller.sp
        /\ (sp >= -1 \/ next \in {"stop", "more"})
    BY <1>3, <1>6
  <1>8. /\ c \in Frames /\ c.sp = sp /\ c.base = Caller.base
        /\ c.method = Caller.method /\ c.manual = Caller.manual
        /\ c.thrown = Top.thrown /\ c.next = next
        /\ c.defined = Caller.defined
    <2>1. Top.thrown \in Oops
      BY <1>1, <1>2
    <2>2. next \in {"stop", "clinit", "invoke", "more", "last", "report"}
      BY <1>5
    <2>3. QED
      BY <1>2, <1>7, <2>1, <2>2 DEF Frames
  <1> HIDE DEF c
  <1>9. Memory(c) = Memory(Caller) /\ TopSlot(c) = Memory(Caller) + sp
    BY <1>8 DEF Memory, TopSlot
  <1>10. TopSlot(c) < Size
    BY <1>3, <1>7, <1>9
  <1>11. Fits(c) /\ SameCall(c, Caller)
    BY <1>1, <1>3, <1>4, <1>5, <1>7, <1>8, <1>9, <1>10 DEF Fits, SameCall
  <1>12. /\ SameBelow(Caller.base, slots, slots') /\ SameBelow(Memory(Caller), slots, slots')
         /\ slots' \in Slots
    BY <1>1, <1>2 DEF SameBelow
  <1>13. crashed' \in BOOLEAN /\ polling' = FALSE /\ allocated' = allocated
    BY <1>1, <1>2
  <1>14. frames' = Append(Front(Callers), c)
    BY <1>1
  <1>15. /\ Layout' /\ JavaStack' = Append(Front(Front(J)), w)
         /\ (NoneCollected => (~crashed' => Alive(w, allocated)))
                => (NoneCollected => NoneCollected')
    BY <1>1, <1>8, <1>11, <1>12, <1>13, <1>14, BackStep
  <1>16. w.locals = v.locals
    BY <1>2, <1>8, <1>12, SameLocals
  <1>17. NoneCollected => Alive(v, allocated)
    BY <1>1, CallerIsAlive
  <1>18. CASE next # "clinit"
    <2>1. c.thrown # None /\ c.next \in {"stop", "more", "last", "report"}
      BY <1>1, <1>5, <1>8, <1>18
    <2>2. w.operands = <<>>
      BY <1>8, <1>11, <1>12, <2>1, ViewType
    <2>3. w = [v EXCEPT !.operands = <<>>]
      BY <1>8, <1>16, <2>2 DEF View
    <2> HIDE DEF v, w
    <2>4. Java!Unwind
      <3>1. /\ Len(JavaStack) > 1
            /\ Java!Last(Java!Callers) = v
            /\ Java!Front(Java!Callers) = Front(Front(J))
        BY <1>2 DEF Java!Last, Java!Front, Last, Front
      <3>2. JavaStack' = Append(Java!Front(Java!Callers),
                                [Java!Last(Java!Callers) EXCEPT !.operands = <<>>])
        BY <1>15, <2>3, <3>1
      <3>3. QED
        BY <1>2, <3>1, <3>2 DEF Java!Unwind
    <2>5. NoneCollected => Alive(w, allocated)
      BY <1>16, <1>17, <2>2 DEF Alive
    <2>6. QED
      BY <1>15, <2>4, <2>5 DEF JavaStep, Java!Next
  <1>19. CASE next = "clinit"
    <2>1. w = v
      <3>1. HasOperands(c) /\ HasOperands(Caller)
        BY <1>4, <1>5, <1>8, <1>19 DEF HasOperands
      <3>2. sp = Caller.sp /\ slots' = slots
        BY <1>1, <1>6, <1>19
      <3>3. QED
        BY <1>8, <1>9, <3>1, <3>2 DEF View, LocalsIn, OperandsIn, HasOperands
    <2> HIDE DEF w
    <2>2. JavaStack' = Front(J)
      BY <1>1, <1>15, <2>1, CallerAgain
    <2>3. Java!Unwind
      BY <1>2, <2>2 DEF Java!Unwind
    <2>4. QED
      BY <1>15, <1>17, <2>1, <2>3 DEF JavaStep, Java!Next
  <1>20. QED
    BY <1>18, <1>19

-----------------------------------------------------------------------------
(* The theorems *)

LEMMA InitLayout ==
  ASSUME Init
  PROVE  Layout /\ NoneCollected /\ Java!Init
  <1>1. frames = <<>> /\ polling = FALSE /\ allocated = {} /\ crashed = FALSE
        /\ slots = [i \in 0 .. Size - 1 |-> Prim]
    BY DEF Init
  <1>2. TypeOK
    <2>1. slots \in [0 .. Size - 1 -> Values]
      BY <1>1 DEF Values
    <2>2. frames \in Seq(Frames)
      BY <1>1, EmptySeq
    <2>3. polling \in BOOLEAN /\ crashed \in BOOLEAN /\ allocated \in SUBSET Oops
      BY <1>1
    <2>4. QED
      BY <2>1, <2>2, <2>3 DEF TypeOK
  <1>3. WellFormed(frames)
    BY <1>1 DEF WellFormed, FramesFit, FramesCall, FirstReports, FramesAreDisjoint
  <1>4. EntryPolls /\ NoneCollected
    BY <1>1 DEF EntryPolls, NoneCollected
  <1>5. JavaStack = <<>>
    BY <1>1 DEF JavaStack
  <1>6. QED
    BY <1>2, <1>3, <1>4, <1>5 DEF Layout, Java!Init

\* Every step is one of JavaFrames or leaves what it shows as it is, and
\* nothing readable is deleted by it.
LEMMA NextStep ==
  ASSUME Layout, Next, ~overlaid'
  PROVE  Layout' /\ JavaStep /\ (NoneCollected => NoneCollected')
  <1>1. CASE Instruction
    <2>1. CASE \E o \in Oops : New(o) \/ NativeNew(o)
      BY <2>1, NewStep, NativeNewStep
    <2>2. CASE PushPrim \/ Pop
      BY <2>2, PushPrimStep, PopStep
    <2>3. CASE \E i \in 0 .. MaxLocals - 1 : PushLocal(i) \/ PopLocal(i)
      BY <2>3, PushLocalStep, PopLocalStep
    <2>4. QED
      BY <1>1, <2>1, <2>2, <2>3 DEF Instruction
  <1>2. CASE Call
    <2>1. PICK m \in Methods :
              \/ Invoke(m) \/ RunThread(m) \/ ThrowToTopFrame(m)
              \/ \E args \in BoundedSeq(Values, MaxLocals) :
                     RunMethodManual(m, args) \/ InvokeDynamic(m, args)
      BY <1>2 DEF Call
    <2>2. CASE Invoke(m)
      BY <2>2, InvokeStep
    <2>3. CASE RunThread(m)
      BY <2>3, RunThreadStep
    <2>4. CASE ThrowToTopFrame(m)
      BY <2>4, ThrowToTopFrameStep
    <2>5. CASE \E args \in BoundedSeq(Values, MaxLocals) :
                   RunMethodManual(m, args) \/ InvokeDynamic(m, args)
      BY <2>5, RunMethodManualStep, InvokeDynamicStep
    <2>6. QED
      BY <2>1, <2>2, <2>3, <2>4, <2>5
  <1>3. CASE Poll
    BY <1>3, PollStep
  <1>4. CASE Collect
    BY <1>4, CollectStep
  <1>5. CASE ReturnVoid
    BY <1>5, ReturnVoidStep
  <1>6. CASE \E x \in Values : ReturnValue(x)
    BY <1>6, ReturnValueStep
  <1>7. CASE Throw
    BY <1>7, ThrowStep
  <1>8. CASE NativeThrow
    BY <1>8, NativeThrowStep
  <1>9. CASE HandleDeleted
    BY <1>9, HandleDeletedStep
  <1>10. CASE Catch
    BY <1>10, CatchStep
  <1>11. CASE PassException
    BY <1>11, PassExceptionStep
  <1>12. CASE TopFrameEnds
    BY <1>12, TopFrameEndsStep
  <1>13. QED
    BY <1>1, <1>2, <1>3, <1>4, <1>5, <1>6, <1>7, <1>8, <1>9, <1>10, <1>11, <1>12 DEF Next

\* A step that changes nothing.
LEMMA StutteringStep ==
  ASSUME Layout, UNCHANGED vars
  PROVE  /\ Layout' /\ JavaStack' = JavaStack
         /\ NoneCollected => NoneCollected'
  <1>1. UNCHANGED <<slots, frames, polling, allocated, crashed>>
    BY DEF vars
  <1>2. Layout'
    BY <1>1 DEF Layout, TypeOK, EntryPolls, Top
  <1>3. JavaStack' = JavaStack
    BY <1>1 DEF JavaStack, Locals, Operands, Memory
  <1>4. ASSUME NoneCollected PROVE NoneCollected'
    BY <1>1, <1>4 DEF NoneCollected, Readable, Locals, Operands, Memory
  <1>5. QED
    BY <1>2, <1>3, <1>4

\* Once two frames have overlapped, nothing is said.
LEMMA OverlaidStays ==
  ASSUME overlaid, [Next]_vars
  PROVE  overlaid'
  BY DEF vars, Next, Instruction, Call, New, NativeNew, PushPrim, Pop, PushLocal,
         PopLocal, Invoke, RunThread, ThrowToTopFrame, RunMethodManual, InvokeDynamic,
         RunWith, Enter, Poll, Collect, ReturnVoid, ReturnValue, Throw, NativeThrow,
         HandleDeleted, Catch, PassException, TopFrameEnds

-----------------------------------------------------------------------------
(* Which frames overlap *)

\* Frames lie apart, but where a caller has gone on with a pending exception.
OverlapAfterThrow ==
    \A k \in 1 .. Len(frames) - 1 :
        frames[k + 1].base < Memory(frames[k])
        => frames[k].thrown # None /\ frames[k].next \in {"last", "report"}

\* Frames that lie apart are no exception.
LEMMA Apart ==
  ASSUME Layout, NEW k \in 1 .. Len(frames) - 1
  PROVE  /\ frames[k + 1].base >= Memory(frames[k])
         /\ frames[k + 1].base \in Int /\ Memory(frames[k]) \in Int
  <1>1. /\ Len(frames) \in Nat /\ frames \in Seq(Frames)
        /\ k \in 1 .. Len(frames) /\ k + 1 \in 1 .. Len(frames)
    BY DEF Layout, TypeOK
  <1>2. frames[k] \in Frames /\ frames[k + 1] \in Frames
    BY <1>1, ElementOfSeq
  <1>3. frames[k].sp >= -1 /\ TopSlot(frames[k]) < frames[k + 1].base
    BY <1>1 DEF Layout, WellFormed, FramesCall, Calls, FramesAreDisjoint
  <1>4. /\ frames[k].sp \in Int /\ frames[k + 1].base \in Int /\ Memory(frames[k]) \in Int
    BY <1>2, FrameTypes
  <1>5. QED
    BY <1>3, <1>4 DEF TopSlot

\* A call from a frame c with an exception it goes on with.
LEMMA CallOver ==
  ASSUME Layout, frames # <<>>, NEW c \in Frames, NEW g,
         c.base = Top.base, c.thrown # None, c.next \in {"last", "report"},
         c.sp < -1, g.base = TopSlot(c) + 1, frames' = Append(Append(Callers, c), g)
  PROVE  OverlapAfterThrow' /\ LaidOver' /\ frames' # <<>>
  <1> DEFINE fs == Append(Callers, c)
  <1>1. /\ frames \in Seq(Frames) /\ Len(frames) \in Nat \ {0}
        /\ Top = frames[Len(frames)]
    BY FrontOf DEF Layout, TypeOK, Top
  <1>2. /\ fs \in Seq(Frames) /\ Len(fs) = Len(frames)
        /\ \A i \in 1 .. Len(frames) - 1 : fs[i] = frames[i]
        /\ fs[Len(frames)] = c
    BY <1>1, Replaced DEF Callers
  <1> HIDE DEF fs
  <1>3. /\ frames' = Append(fs, g) /\ Len(frames') = Len(frames) + 1
        /\ \A i \in 1 .. Len(frames) : frames'[i] = fs[i]
        /\ frames'[Len(frames) + 1] = g
    <2>1. frames' = Append(fs, g)
      BY DEF fs
    <2>2. fs \in Seq(Frames \cup {g})
      BY <1>2
    <2>3. /\ Len(Append(fs, g)) = Len(fs) + 1
          /\ \A i \in 1 .. Len(fs) : Append(fs, g)[i] = fs[i]
          /\ Append(fs, g)[Len(fs) + 1] = g
      <3>1. g \in Frames \cup {g}
        OBVIOUS
      <3>2. QED
        BY <2>2, <3>1, AppendProperties
    <2>4. QED
      BY <1>2, <2>1, <2>3
  <1>4. ASSUME NEW k \in 1 .. Len(frames') - 1, frames'[k + 1].base < Memory(frames'[k])
        PROVE  frames'[k].thrown # None /\ frames'[k].next \in {"last", "report"}
    <2>1. CASE k = Len(frames)
      BY <1>1, <1>2, <1>3, <2>1
    <2>2. CASE k # Len(frames)
      <3>1. k \in 1 .. Len(frames) - 1 /\ k + 1 \in 1 .. Len(frames)
        BY <1>1, <1>3, <2>2
      <3>2. frames'[k] = frames[k]
        BY <1>2, <1>3, <3>1
      <3>3. frames'[k + 1].base = frames[k + 1].base
        BY <1>1, <1>2, <1>3, <3>1
      <3>4. QED
        BY <1>4, <3>1, <3>2, <3>3, Apart
    <2>3. QED
      BY <2>1, <2>2
  <1>5. (\A k \in 1 .. Len(frames') - 1 : frames'[k + 1].base < Memory(frames'[k])
           => frames'[k].thrown # None /\ frames'[k].next \in {"last", "report"})
        => OverlapAfterThrow'
    BY DEF OverlapAfterThrow, Memory
  <1>6. frames' # <<>>
    BY <1>1, <1>3
  <1>7. LaidOver'
    <2>1. Len(frames) \in 1 .. Len(frames') - 1 /\ frames'[Len(frames)] = c
      BY <1>1, <1>2, <1>3
    <2>2. g.base < Memory(c)
      BY FrameTypes
    <2>3. \E k \in 1 .. Len(frames') - 1 :
             /\ frames'[k + 1].base < Memory(frames'[k])
             /\ frames'[k].thrown # None /\ frames'[k].next \in {"last", "report"}
      BY <1>3, <2>1, <2>2
    <2>4. QED
      BY <2>3 DEF LaidOver, Memory
  <1>8. QED
    BY <1>4, <1>5, <1>6, <1>7

\* A step by which two frames come to overlap is such a call.
LEMMA FirstOverlap ==
  ASSUME Layout, Next, ~overlaid, overlaid'
  PROVE  polling' /\ frames' # <<>> /\ OverlapAfterThrow' /\ LaidOver'
  <1>1. TypeOK /\ (frames # <<>> => Top \in Frames /\ Fits(Top))
    <2>1. ASSUME frames # <<>> PROVE Top \in Frames /\ Fits(Top)
      <3>1. frames \in Seq(Frames) /\ Len(frames) \in Nat \ {0} /\ Top = frames[Len(frames)]
            /\ Top \in Frames
        BY <2>1, FrontOf DEF Layout, TypeOK, Top
      <3>2. QED
        BY <3>1 DEF Layout, WellFormed, FramesFit
    <2>2. QED
      BY <2>1 DEF Layout
  <1>2. Call
    BY DEF Next, Instruction, New, NativeNew, PushPrim, Pop, PushLocal, PopLocal, Poll,
           Collect, ReturnVoid, ReturnValue, Throw, NativeThrow, HandleDeleted, Catch,
           PassException, TopFrameEnds
  <1>3. ASSUME NEW c \in Frames, frames # <<>>, c.base = Top.base, c.thrown # None,
               c.next \in {"last", "report"}, NEW g, Enter(Append(Callers, c), g),
               c.sp < -1, g.base = TopSlot(c) + 1
        PROVE  polling' /\ frames' # <<>> /\ OverlapAfterThrow' /\ LaidOver'
    <2>1. frames' = Append(Append(Callers, c), g) /\ polling'
      BY <1>3 DEF Enter
    <2>2. QED
      BY <1>3, <2>1, CallOver
  <1>4. ASSUME NEW c \in Frames, NEW S, NEW s \in Seq(S \cup Frames), NEW g, Enter(Append(s, c), g)
        PROVE  c.sp < -1
    <2>1. Last(Append(s, c)) = c
      BY AppendProperties DEF Last
    <2>2. QED
      BY <1>4, <2>1 DEF Enter, Overlap
  <1>5. frames # <<>> => Callers \in Seq(Frames)
    BY FrontOf DEF Layout, TypeOK, Callers
  <1> DEFINE New1(c, m) == NewFrame(Append(Callers, c), m, TRUE)
  <1>5a. ASSUME NEW c \in Frames, NEW m, frames # <<>> PROVE New1(c, m).base = TopSlot(c) + 1
    <2>1. Append(Callers, c) # <<>> /\ Last(Append(Callers, c)) = c
      BY <1>5, <1>5a, AppendProperties DEF Last
    <2>2. QED
      BY <2>1 DEF NewFrame, New1
  <1> HIDE DEF New1
  <1>6. ASSUME NEW m \in Methods, Invoke(m) PROVE FALSE
    <2>1. frames # <<>> /\ m.params <= Top.sp + 1
      BY <1>6 DEF Invoke, Active
    <2>2. PICK next \in {Top.next, "invoke"} :
             Enter(Append(Callers, [Top EXCEPT !.sp = @ - m.params, !.next = next]),
                   NewFrame(Append(Callers, [Top EXCEPT !.sp = @ - m.params, !.next = next]), m, FALSE))
      BY <1>6 DEF Invoke
    <2> DEFINE c == [Top EXCEPT !.sp = @ - m.params, !.next = next]
    <2>3. m.params \in Nat /\ Top.sp \in Int /\ Top.sp <= MaxOperands - 1 /\ MaxOperands \in Int
      BY <1>1, <2>1, FrameStackAssumption DEF Frames, Method
    <2>4. c.sp >= -1
      BY <1>1, <2>1, <2>3 DEF Frames
    <2>5. c.sp \in -3 .. MaxOperands - 1
      BY <1>1, <2>1, <2>3, <2>4 DEF Frames
    <2>6. c \in Frames
      BY <1>1, <2>1, <2>5 DEF Frames
    <2>7. Enter(Append(Callers, c), NewFrame(Append(Callers, c), m, FALSE))
      BY <2>2
    <2> HIDE DEF c
    <2>8. c.sp < -1
      BY <1>4, <1>5, <2>1, <2>6, <2>7
    <2>9. QED
      BY <2>4, <2>5, <2>8
  <1>7. ASSUME NEW m \in Methods, RunThread(m) PROVE FALSE
    BY <1>7 DEF RunThread, RunWith, Enter, Overlap
  <1>8. ASSUME NEW m \in Methods, ThrowToTopFrame(m)
        PROVE  polling' /\ frames' # <<>> /\ OverlapAfterThrow' /\ LaidOver'
    <2> DEFINE c == [Top EXCEPT !.next = "report"]
    <2>1. /\ frames # <<>> /\ Top.thrown # None /\ Callers = <<>>
          /\ Enter(<<c>>, NewFrame(<<c>>, m, TRUE))
      BY <1>8 DEF ThrowToTopFrame, Handling, Active, RunWith
    <2>2. c \in Frames /\ c.base = Top.base /\ c.thrown # None /\ c.next = "report"
      BY <1>1, <2>1 DEF Frames
    <2>3. <<c>> = Append(Callers, c)
      BY <2>1
    <2> HIDE DEF c
    <2>4. Enter(Append(Callers, c), New1(c, m)) /\ New1(c, m).base = TopSlot(c) + 1
      BY <1>5a, <2>1, <2>2, <2>3 DEF New1
    <2>5. c.sp < -1
      BY <1>4, <1>5, <2>1, <2>2, <2>4
    <2>6. QED
      BY <1>3, <2>1, <2>2, <2>4, <2>5
  <1>9. ASSUME NEW m \in Methods, frames # <<>>,
               Enter(Append(Callers, Further(Top)), NewFrame(Append(Callers, Further(Top)), m, TRUE)),
               Top.thrown = None \/ Top.next \in {"more", "clinit"}
        PROVE  polling' /\ frames' # <<>> /\ OverlapAfterThrow' /\ LaidOver'
    <2> DEFINE c == Further(Top)
    <2>1. c \in Frames /\ c.base = Top.base /\ c.thrown = Top.thrown /\ c.sp = Top.sp
      BY <1>1, <1>9 DEF Further, Frames
    <2>2. c.sp < -1
      BY <1>4, <1>5, <1>9, <2>1
    <2>3. Top.sp \in Int
      BY <1>1, <1>9, FrameTypes
    <2>4. Top.thrown # None /\ Top.next = "more"
      BY <1>1, <1>9, <2>1, <2>2, <2>3 DEF Fits
    <2>5. c.next = "last"
      BY <1>1, <1>9, <2>4 DEF Further, Frames
    <2>6. Enter(Append(Callers, c), New1(c, m)) /\ New1(c, m).base = TopSlot(c) + 1
      BY <1>5a, <1>9, <2>1 DEF New1
    <2> HIDE DEF c
    <2>7. QED
      BY <1>3, <1>9, <2>1, <2>2, <2>4, <2>5, <2>6
  <1>10. ASSUME NEW m \in Methods, NEW params, RunMethodManual(m, params) \/ InvokeDynamic(m, params)
         PROVE  polling' /\ frames' # <<>> /\ OverlapAfterThrow' /\ LaidOver'
    BY <1>9, <1>10 DEF RunMethodManual, InvokeDynamic, Active, RunWith
  <1>11. QED
    BY <1>2, <1>6, <1>7, <1>8, <1>10 DEF Call

-----------------------------------------------------------------------------

\* Nothing follows on a call from a frame with sp below its operands, and it has
\* laid a frame over that one.
Over == overlaid => polling /\ frames # <<>> /\ OverlapAfterThrow /\ LaidOver

\* After that call the thread of the model does nothing.
LEMMA OverStep == (~overlaid => Layout) /\ Over /\ [Next]_vars => Over'
  <1> SUFFICES ASSUME ~overlaid => Layout, Over, [Next]_vars, overlaid' PROVE Over'
    BY DEF Over
  <1>1. CASE ~overlaid /\ Next
    BY <1>1, FirstOverlap DEF Over
  <1>2. CASE overlaid \/ UNCHANGED vars
    <2>1. frames' = frames /\ polling' = polling /\ overlaid' = overlaid
      BY <1>2 DEF Over, vars, Next, Instruction, Call, New, NativeNew, PushPrim, Pop, PushLocal,
         PopLocal, Invoke, RunThread, ThrowToTopFrame, RunMethodManual, InvokeDynamic,
         Poll, Collect, ReturnVoid, ReturnValue, Throw, NativeThrow, HandleDeleted, Catch,
         PassException, TopFrameEnds, Handling, Bytecode, Native, Executing, Active
    <2>2. QED
      BY <2>1 DEF Over, OverlapAfterThrow, LaidOver, Memory
  <1>3. QED
    BY <1>1, <1>2

\* The frames of a thread lie one above the other in its array, each from
\* its locals to its operands, whatever is called, returned or thrown,
\* until a frame whose sp a popped result has left below its operands
\* makes a call (method_handle.cpp:93 and 114, execute.cpp:26).
THEOREM FramesStayDisjoint == Spec => [](~overlaid => Layout)
  <1>1. Init => (~overlaid => Layout)
    BY InitLayout
  <1>2. (~overlaid => Layout) /\ [Next]_vars => (~overlaid => Layout)'
    BY NextStep, StutteringStep, OverlaidStays
  <1>3. QED
    BY <1>1, <1>2, PTL DEF Spec

\* The model does not follow a thread after a call from below its operands,
\* which has laid a frame over its caller.
LEMMA OverlapIsLast == Spec => []Over
  <1>1. Init => Over
    BY DEF Init, Over
  <1>2. QED
    BY FramesStayDisjoint, OverStep, <1>1, PTL DEF Spec

\* No frame ever comes to lie over the locals of its caller but by a call that
\* a frame makes with an exception pending which it has not looked at.
THEOREM OverlapNeedsThrow == Spec => []OverlapAfterThrow
  <1>1. (~overlaid => Layout) /\ Over => OverlapAfterThrow
    <2> SUFFICES ASSUME Layout PROVE OverlapAfterThrow
      BY DEF Over
    <2>1. ASSUME NEW k \in 1 .. Len(frames) - 1 PROVE ~ (frames[k + 1].base < Memory(frames[k]))
      BY Apart
    <2>2. QED
      BY <2>1 DEF OverlapAfterThrow
  <1>2. QED
    BY FramesStayDisjoint, OverlapIsLast, <1>1, PTL DEF Spec

\* What a frame, at any depth, can still read was never collected:
\* getCollectRoots, which stops at the operands of the current frame,
\* misses nothing, as long as no frame has been laid over another.
THEOREM NothingReadableIsCollected == Spec => []ReadableIsAlive
  <1>1. Init => (~overlaid => IInv)
    BY InitLayout DEF IInv
  <1>2. (~overlaid => IInv) /\ [Next]_vars => (~overlaid => IInv)'
    BY NextStep, StutteringStep, OverlaidStays DEF IInv
  <1>3. (~overlaid => IInv) /\ Over => ReadableIsAlive
    BY DEF IInv, NoneCollected, Over, ReadableIsAlive
  <1>4. QED
    BY OverlapIsLast, <1>1, <1>2, <1>3, PTL DEF Spec

\* One array of slots, where an argument is passed by leaving it where it
\* is, implements frames with locals and operands of their own: every step
\* is one of theirs, up to a call by which a frame with a pending exception
\* lays another over its own locals.
THEOREM SlotsImplementFrames == Spec => ImplementsJavaFrames
  <1>1. Init => Java!Init
    BY InitLayout
  <1>2. (~overlaid => Layout) /\ Over' /\ [Next]_vars => [LaidOver' \/ Java!Next]_JavaStack
    BY NextStep, StutteringStep, OverlaidStays DEF JavaStep, Over
  <1>3. QED
    BY <1>1, <1>2, FramesStayDisjoint, OverlapIsLast, PTL DEF Spec, ImplementsJavaFrames
=============================================================================
