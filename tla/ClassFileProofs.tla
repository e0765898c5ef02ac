--------------------------- MODULE ClassFileProofs ---------------------------
(***************************************************************************)
(* TLAPS proofs about ClassFile.tla and ClassBuild.tla, for any programs   *)
(* of well-formed class files.                                             *)
(*                                                                         *)
(* tlapm cannot apply the induction theorems of its library, which take an *)
(* operator as a parameter.  Induction over data goes by a set of numbers  *)
(* instead (Induction), which is proved by counting.                       *)
(***************************************************************************)
EXTENDS ClassBuild, FiniteSetTheorems, FunctionTheorems, SequenceTheorems, TLAPS

-----------------------------------------------------------------------------
(* Induction, and sequences joined to one *)

\* Induction: a set that stopped at x would, counting upwards, map what it has
\* below x one to one into what is left of that without 0.
LEMMA Induction ==
  ASSUME NEW S, 0 \in S, \A n \in Nat : n \in S => n + 1 \in S
  PROVE  Nat \subseteq S
  <1> SUFFICES ASSUME NEW x \in Nat, x \notin S PROVE FALSE
    OBVIOUS
  <1> DEFINE A == {i \in 0 .. x : i \in S}
             f == [i \in A |-> i + 1]
  <1>1. IsFiniteSet(A)
    <2>1. IsFiniteSet(0 .. x)
      BY FS_Interval
    <2>2. QED
      BY <2>1, FS_Subset
  <1>2. f \in Injection(A, A \ {0})
    BY DEF Injection, IsInjective
  <1>3. 0 \in A
    OBVIOUS
  <1>4. Cardinality(A \ {0}) = Cardinality(A) - 1 /\ IsFiniteSet(A \ {0}) /\ Cardinality(A) \in Nat
    BY <1>1, <1>3, FS_RemoveElement, FS_CardinalityType
  <1>5. QED
    BY <1>1, <1>2, <1>4, FS_Injection

\* Flatten(s)[i] joins the first i members of s
IsJoin(f, s) == f = [i \in 1 .. Len(s) |-> IF i = 1 THEN s[i] ELSE f[i - 1] \o s[i]]

\* The function that joins ever more of s exists.
LEMMA JoinExists ==
  ASSUME NEW s, NEW n \in Nat
  PROVE  \E f : f = [i \in 1 .. n |-> IF i = 1 THEN s[i] ELSE f[i - 1] \o s[i]]
  <1> DEFINE Is(f, m) == f = [i \in 1 .. m |-> IF i = 1 THEN s[i] ELSE f[i - 1] \o s[i]]
             S == {m \in Nat : \E f : Is(f, m)}
  <1>1. 0 \in S
    <2>1. Is(<<>>, 0)
      OBVIOUS
    <2>2. QED
      BY <2>1
  <1>2. ASSUME NEW m \in Nat, m \in S PROVE m + 1 \in S
    <2>1. PICK f : Is(f, m)
      BY <1>2
    <2> DEFINE g == [i \in 1 .. m + 1 |-> IF i <= m THEN f[i] ELSE IF m = 0 THEN s[1] ELSE f[m] \o s[m + 1]]
    <2>2. ASSUME NEW i \in 1 .. m + 1 PROVE g[i] = IF i = 1 THEN s[i] ELSE g[i - 1] \o s[i]
      <3>1. CASE i = m + 1
        BY <3>1
      <3>2. CASE i <= m
        <4>1. i \in 1 .. m /\ g[i] = f[i] /\ (i # 1 => i - 1 \in 1 .. m /\ g[i - 1] = f[i - 1])
          BY <3>2
        <4>2. f[i] = IF i = 1 THEN s[i] ELSE f[i - 1] \o s[i]
          BY <2>1, <4>1
        <4>3. QED
          BY <4>1, <4>2
      <3>3. QED
        BY <3>1, <3>2
    <2>3. g = [i \in 1 .. m + 1 |-> g[i]]
      OBVIOUS
    <2> HIDE DEF g
    <2>4. Is(g, m + 1)
      BY <2>2, <2>3
    <2> HIDE DEF Is
    <2>5. QED
      BY <2>4
  <1> HIDE DEF S
  <1>3. n \in S
    BY <1>1, <1>2, Induction
  <1>4. QED
    BY <1>3 DEF S

\* FlattenSeq is that function at the length of s.
LEMMA JoinOf ==
  ASSUME NEW s, Len(s) \in Nat \ {0}
  PROVE  \E f : IsJoin(f, s) /\ FlattenSeq(s) = f[Len(s)]
  <1> DEFINE f == CHOOSE g : g = [i \in 1 .. Len(s) |-> IF i = 1 THEN s[i] ELSE g[i - 1] \o s[i]]
  <1>1. \E g : g = [i \in 1 .. Len(s) |-> IF i = 1 THEN s[i] ELSE g[i - 1] \o s[i]]
    BY JoinExists
  <1>2. f = [i \in 1 .. Len(s) |-> IF i = 1 THEN s[i] ELSE f[i - 1] \o s[i]]
    BY <1>1
  <1>3. FlattenSeq(s) = f[Len(s)]
    BY DEF FlattenSeq
  <1> HIDE DEF f
  <1>4. QED
    BY <1>2, <1>3 DEF IsJoin

\* Nothing, flattened, is nothing.
LEMMA FlattenEmpty == FlattenSeq(<<>>) = <<>>
  BY DEF FlattenSeq

\* A sequence of sequences, flattened, has their members.
LEMMA FlattenType ==
  ASSUME NEW U, NEW s \in Seq(Seq(U))
  PROVE  FlattenSeq(s) \in Seq(U)
  <1>1. CASE s = <<>>
    <2>1. FlattenSeq(s) = <<>>
      BY <1>1, FlattenEmpty, Zenon
    <2>2. QED
      BY <2>1
  <1>2. CASE s # <<>>
    <2>1. Len(s) \in Nat \ {0}
      BY <1>2
    <2>2. PICK f : IsJoin(f, s) /\ FlattenSeq(s) = f[Len(s)]
      BY <2>1, JoinOf
    <2> DEFINE S == {m \in Nat : m + 1 <= Len(s) => f[m + 1] \in Seq(U)}
    <2>3. 0 \in S
      <3>1. f[1] = s[1]
        BY <2>1, <2>2 DEF IsJoin
      <3>2. QED
        BY <2>1, <3>1
    <2>4. ASSUME NEW m \in Nat, m \in S PROVE m + 1 \in S
      <3> SUFFICES ASSUME m + 2 <= Len(s) PROVE f[m + 2] \in Seq(U)
        OBVIOUS
      <3>1. m + 2 \in 1 .. Len(s) /\ m + 2 # 1 /\ (m + 2) - 1 = m + 1
        OBVIOUS
      <3>2. f[m + 2] = f[m + 1] \o s[m + 2]
        BY <2>2, <3>1 DEF IsJoin
      <3>3. QED
        BY <3>1, <3>2, <2>4
    <2> HIDE DEF S
    <2>5. Nat \subseteq S
      BY <2>3, <2>4, Induction
    <2>6. Len(s) - 1 \in Nat /\ (Len(s) - 1) + 1 = Len(s)
      BY <2>1
    <2>7. Len(s) - 1 \in S
      BY <2>5, <2>6
    <2>8. QED
      BY <2>2, <2>6, <2>7 DEF S
  <1>3. QED
    BY <1>1, <1>2

\* What the tail of a sequence is.
LEMMA TailIs ==
  ASSUME NEW S, NEW s \in Seq(S), s # <<>>
  PROVE  /\ Len(s) \in Nat \ {0}
         /\ Tail(s) \in Seq(S)
         /\ Len(Tail(s)) = Len(s) - 1
         /\ \A i \in 1 .. Len(s) - 1 : Tail(s)[i] = s[i + 1]
  BY HeadTailProperties, LenProperties, EmptySeq

Associative(U) == \A a, b, c \in Seq(U) : (a \o b) \o c = a \o (b \o c)

\* Concatenation is associative.
LEMMA Associativity == \A U : Associative(U)
  <1>1. ASSUME NEW U, NEW a \in Seq(U), NEW b \in Seq(U), NEW c \in Seq(U)
        PROVE  (a \o b) \o c = a \o (b \o c)
    BY ConcatAssociative
  <1>2. QED
    BY <1>1 DEF Associative

\* Flattening begins with the first sequence.
LEMMA FlattenHead ==
  ASSUME NEW U, NEW s \in Seq(Seq(U)), s # <<>>
  PROVE  FlattenSeq(s) = s[1] \o FlattenSeq(Tail(s))
  <1> DEFINE t == Tail(s)
  <1>1. /\ Len(s) \in Nat \ {0} /\ t \in Seq(Seq(U)) /\ Len(t) = Len(s) - 1
        /\ \A i \in 1 .. Len(s) - 1 : t[i] = s[i + 1]
    BY TailIs
  <1> HIDE DEF t
  <1>2. PICK f : IsJoin(f, s) /\ FlattenSeq(s) = f[Len(s)]
    BY <1>1, JoinOf
  <1>3. f[1] = s[1] /\ s[1] \in Seq(U)
    BY <1>1, <1>2 DEF IsJoin
  <1>4. CASE Len(s) = 1
    <2>1. t = <<>>
      BY <1>1, <1>4, EmptySeq
    <2>2. FlattenSeq(t) = <<>>
      BY <2>1, FlattenEmpty, Zenon
    <2>3. s[1] \o <<>> = s[1]
      BY <1>3, ConcatEmptySeq
    <2>4. QED
      BY <1>2, <1>3, <1>4, <2>2, <2>3 DEF t
  <1>5. CASE Len(s) # 1
    <2>1. Len(t) \in Nat \ {0} /\ Len(s) = Len(t) + 1
      BY <1>1, <1>5
    <2>2. PICK g : IsJoin(g, t) /\ FlattenSeq(t) = g[Len(t)]
      BY <2>1, JoinOf
    <2> DEFINE S == {m \in Nat : m \in 1 .. Len(t) => f[m + 1] = s[1] \o g[m] /\ g[m] \in Seq(U)}
    <2>3. 0 \in S
      OBVIOUS
    <2>4. ASSUME NEW m \in Nat, m \in S PROVE m + 1 \in S
      <3> DEFINE n == m + 1
      <3>1. n \in Nat /\ n # 0 /\ n + 1 # 1 /\ (n + 1) - 1 = n /\ n - 1 = m /\ n + 1 \in Nat
        OBVIOUS
      <3> HIDE DEF n
      <3> SUFFICES ASSUME n \in 1 .. Len(t) PROVE f[n + 1] = s[1] \o g[n] /\ g[n] \in Seq(U)
        BY <3>1 DEF n
      <3>2. n + 1 \in 1 .. Len(s) /\ n \in 1 .. Len(s) - 1
        BY <2>1
      <3>3. t[n] = s[n + 1] /\ t[n] \in Seq(U)
        BY <1>1, <3>2
      <3>4. f[n + 1] = f[n] \o s[n + 1]
        BY <1>2, <3>1, <3>2 DEF IsJoin
      <3>5. g[n] = IF n = 1 THEN t[n] ELSE g[m] \o t[n]
        BY <2>2, <3>1 DEF IsJoin
      <3>6. CASE n = 1
        BY <1>3, <3>3, <3>4, <3>5, <3>6
      <3>7. CASE n # 1
        <4>1. m \in 1 .. Len(t) /\ m + 1 = n
          BY <3>1, <3>7
        <4>2. f[n] = s[1] \o g[m] /\ g[m] \in Seq(U)
          BY <2>4, <4>1
        <4> HIDE DEF S
        <4>3. s[1] \in Seq(U) /\ g[m] \in Seq(U) /\ t[n] \in Seq(U)
          BY <1>3, <3>3, <4>2
        <4>4. (s[1] \o g[m]) \o t[n] = s[1] \o (g[m] \o t[n])
          <5>1. Associative(U)
            BY Associativity
          <5>2. QED
            BY <4>3, <5>1 DEF Associative
        <4>5. g[m] \o t[n] \in Seq(U)
          BY <4>3, ConcatProperties
        <4>6. QED
          BY <3>3, <3>4, <3>5, <3>7, <4>2, <4>4, <4>5
      <3>8. QED
        BY <3>6, <3>7
    <2> HIDE DEF S
    <2>5. Nat \subseteq S
      BY <2>3, <2>4, Induction
    <2>6. Len(t) \in S
      BY <2>1, <2>5
    <2>7. Len(t) \in 1 .. Len(t) /\ Len(t) + 1 = Len(s)
      BY <2>1
    <2>8. f[Len(t) + 1] = s[1] \o g[Len(t)]
      BY <2>6, <2>7 DEF S
    <2>9. QED
      BY <1>2, <2>2, <2>7, <2>8 DEF t
  <1>6. QED
    BY <1>4, <1>5

-----------------------------------------------------------------------------
(* What is left of a sequence of parts *)

\* The parts from the i-th on, joined.
Rest(parts, i) == FlattenSeq(SubSeq(parts, i, Len(parts)))

\* The parts from the i-th on are joined to a sequence of the same kind.
LEMMA RestType ==
  ASSUME NEW U, NEW parts \in Seq(Seq(U)), NEW i \in 1 .. Len(parts) + 1
  PROVE  Rest(parts, i) \in Seq(U)
  <1>1. SubSeq(parts, i, Len(parts)) \in Seq(Seq(U))
    OBVIOUS
  <1>2. QED
    BY <1>1, FlattenType DEF Rest

\* From the first on, it is all of them.
LEMMA RestAll ==
  ASSUME NEW U, NEW parts \in Seq(Seq(U))
  PROVE  Rest(parts, 1) = FlattenSeq(parts)
  <1>1. SubSeq(parts, 1, Len(parts)) = parts
    OBVIOUS
  <1>2. QED
    BY <1>1, Zenon DEF Rest

\* Behind the last part there is nothing.
LEMMA RestEnd ==
  ASSUME NEW U, NEW parts \in Seq(Seq(U))
  PROVE  Rest(parts, Len(parts) + 1) = <<>>
  <1>1. SubSeq(parts, Len(parts) + 1, Len(parts)) = <<>>
    OBVIOUS
  <1>2. QED
    BY <1>1, FlattenEmpty, Zenon DEF Rest

\* The rest from the i-th on is the i-th part, and the rest from the next on.
LEMMA RestStep ==
  ASSUME NEW U, NEW parts \in Seq(Seq(U)), NEW i \in 1 .. Len(parts)
  PROVE  Rest(parts, i) = parts[i] \o Rest(parts, i + 1)
  <1> DEFINE n == Len(parts)
             s == SubSeq(parts, i, n)
             u == SubSeq(parts, i + 1, n)
  <1>1. n \in Nat /\ i \in Int /\ i + 1 \in Int /\ i <= n /\ \A j \in 1 .. n : parts[j] \in Seq(U)
    OBVIOUS
  <1> HIDE DEF n
  <1>2. /\ s \in Seq(Seq(U)) /\ Len(s) = n - i + 1
        /\ \A j \in 1 .. n - i + 1 : s[j] = parts[i + j - 1]
    BY <1>1, SubSeqProperties
  <1>3. /\ u \in Seq(Seq(U)) /\ Len(u) = n - i
        /\ \A j \in 1 .. n - (i + 1) + 1 : u[j] = parts[(i + 1) + j - 1]
    BY <1>1, SubSeqProperties
  <1> HIDE DEF s, u
  <1>4. s # <<>> /\ s[1] = parts[i]
    BY <1>1, <1>2
  <1>5. Tail(s) = u
    <2>1. /\ Tail(s) \in Seq(Seq(U)) /\ Len(Tail(s)) = Len(s) - 1
          /\ \A j \in 1 .. Len(s) - 1 : Tail(s)[j] = s[j + 1]
      BY <1>2, <1>4, TailIs
    <2>2. ASSUME NEW j \in 1 .. n - i PROVE Tail(s)[j] = u[j]
      <3>1. j + 1 \in 1 .. n - i + 1 /\ i + (j + 1) - 1 = (i + 1) + j - 1
        BY <1>1
      <3>2. s[j + 1] = parts[i + (j + 1) - 1] /\ u[j] = parts[(i + 1) + j - 1]
        BY <1>1, <1>2, <1>3, <3>1
      <3>3. QED
        BY <1>2, <2>1, <3>1, <3>2
    <2>3. Len(Tail(s)) = n - i /\ Len(u) = n - i
      BY <1>1, <1>2, <1>3, <2>1
    <2>4. QED
      BY <1>3, <2>1, <2>2, <2>3, SeqEqual
  <1>6. FlattenSeq(s) = s[1] \o FlattenSeq(Tail(s))
    BY <1>2, <1>4, FlattenHead
  <1>7. QED
    BY <1>4, <1>5, <1>6 DEF s, u, n, Rest

\* A function on 1 .. n is a sequence of length n.
LEMMA SeqIs ==
  ASSUME NEW U, NEW n \in Nat, NEW f, f = [i \in 1 .. n |-> f[i]], \A i \in 1 .. n : f[i] \in U
  PROVE  f \in Seq(U) /\ Len(f) = n /\ DOMAIN f = 1 .. n
  <1>1. f \in [1 .. n -> U] /\ DOMAIN f = 1 .. n
    BY Zenon
  <1>2. f \in Seq(U)
    BY <1>1, SeqDef
  <1>3. QED
    BY <1>1, <1>2, LenProperties

\* A sequence has its members at 1 .. Len(s).
LEMMA SeqHas ==
  ASSUME NEW U, NEW s \in Seq(U)
  PROVE  Len(s) \in Nat /\ DOMAIN s = 1 .. Len(s) /\ \A i \in 1 .. Len(s) : s[i] \in U
  BY LenProperties, ElementOfSeq

\* Behind the first n members of s there is q and no more.
Behind(s, n, q) == /\ n \in Nat
                   /\ Len(s) = n + Len(q)
                   /\ \A j \in 1 .. Len(q) : s[n + j] = q[j]

\* Before anything is read, all is left.
LEMMA BehindNothing ==
  ASSUME NEW U, NEW s \in Seq(U)
  PROVE  Behind(s, 0, s)
  BY DEF Behind

\* Reading p leaves what follows.
LEMMA BehindStep ==
  ASSUME NEW U, NEW p \in Seq(U), NEW q \in Seq(U), NEW s, NEW n, Behind(s, n, p \o q)
  PROVE  /\ \A j \in 1 .. Len(p) : s[n + j] = p[j]
         /\ Behind(s, n + Len(p), q)
  <1> DEFINE r == p \o q
  <1>1. /\ Len(p) \in Nat /\ Len(q) \in Nat /\ Len(r) = Len(p) + Len(q)
        /\ \A j \in 1 .. Len(p) : r[j] = p[j]
        /\ \A j \in 1 .. Len(q) : r[Len(p) + j] = q[j]
    OBVIOUS
  <1>2. n \in Nat /\ Len(s) = n + Len(r) /\ \A j \in 1 .. Len(r) : s[n + j] = r[j]
    BY DEF Behind
  <1> HIDE DEF r
  <1>3. ASSUME NEW j \in 1 .. Len(p) PROVE s[n + j] = p[j]
    <2>1. j \in 1 .. Len(r)
      BY <1>1
    <2>2. QED
      BY <1>1, <1>2, <2>1
  <1>4. ASSUME NEW j \in 1 .. Len(q) PROVE s[(n + Len(p)) + j] = q[j]
    <2>1. Len(p) + j \in 1 .. Len(r) /\ n + (Len(p) + j) = (n + Len(p)) + j
      BY <1>1, <1>2
    <2>2. QED
      BY <1>1, <1>2, <2>1
  <1>5. n + Len(p) \in Nat /\ Len(s) = (n + Len(p)) + Len(q)
    BY <1>1, <1>2
  <1>6. QED
    BY <1>3, <1>4, <1>5 DEF Behind

\* p, and then q.
Then(p, q) == p \o q

\* Two sequences, one after the other, are a sequence.
LEMMA ThenType ==
  ASSUME NEW U, NEW p \in Seq(U), NEW q \in Seq(U)
  PROVE  Then(p, q) \in Seq(U)
  BY ConcatProperties DEF Then

\* It does not matter which two of three are put together first.
LEMMA ThenAssociates ==
  ASSUME NEW U, NEW p \in Seq(U), NEW q \in Seq(U), NEW r \in Seq(U)
  PROVE  Then(Then(p, q), r) = Then(p, Then(q, r))
  BY ConcatAssociative DEF Then

\* Nothing before or behind changes nothing.
LEMMA ThenEmpty ==
  ASSUME NEW U, NEW p \in Seq(U)
  PROVE  Then(p, <<>>) = p /\ Then(<<>>, p) = p
  BY ConcatEmptySeq DEF Then

\* Where p and q are left, p comes, and behind it q.
LEMMA BehindThen ==
  ASSUME NEW U, NEW p \in Seq(U), NEW q \in Seq(U), NEW s, NEW n, Behind(s, n, Then(p, q))
  PROVE  /\ \A j \in 1 .. Len(p) : s[n + j] = p[j]
         /\ Behind(s, n + Len(p), q)
  <1>1. Behind(s, n, p \o q)
    BY DEF Then
  <1>2. QED
    BY <1>1, BehindStep

\* The same for a p of one unit.
LEMMA BehindOne ==
  ASSUME NEW U, NEW u \in Seq(U), Len(u) = 1, NEW q \in Seq(U), NEW s, NEW n,
         Behind(s, n, Then(u, q))
  PROVE  s[n + 1] = u[1] /\ Behind(s, n + 1, q)
  <1>1. (\A j \in 1 .. Len(u) : s[n + j] = u[j]) /\ Behind(s, n + Len(u), q)
    BY BehindThen
  <1>2. QED
    BY <1>1

\* Consuming n units leaves what is behind them.
LEMMA BehindLeft ==
  ASSUME NEW U, NEW s \in Seq(U), NEW q \in Seq(U), NEW n, Behind(s, n, q)
  PROVE  SubSeq(s, n + 1, Len(s)) = q
  <1> DEFINE r == SubSeq(s, n + 1, Len(s))
  <1>1. /\ n \in Nat /\ Len(q) \in Nat /\ Len(s) = n + Len(q)
        /\ \A j \in 1 .. Len(q) : s[n + j] = q[j]
        /\ \A j \in 1 .. Len(s) : s[j] \in U
    BY DEF Behind
  <1>2. \A j \in n + 1 .. Len(s) : s[j] \in U
    BY <1>1
  <1>3. /\ r \in Seq(U)
        /\ Len(r) = IF n + 1 <= Len(s) THEN Len(s) - (n + 1) + 1 ELSE 0
        /\ \A j \in 1 .. Len(s) - (n + 1) + 1 : r[j] = s[(n + 1) + j - 1]
    BY <1>1, <1>2, SubSeqProperties
  <1> HIDE DEF r
  <1>4. Len(r) = Len(q)
    BY <1>1, <1>3
  <1>5. ASSUME NEW j \in 1 .. Len(q) PROVE r[j] = q[j]
    <2>1. j \in 1 .. Len(s) - (n + 1) + 1 /\ (n + 1) + j - 1 = n + j
      BY <1>1
    <2>2. QED
      BY <1>1, <1>3, <2>1
  <1>6. r = q
    BY <1>3, <1>4, <1>5, SeqEqual
  <1>7. QED
    BY <1>6 DEF r

-----------------------------------------------------------------------------
(* Units, and their width *)

Units == [w : Nat \ {0}, n : Nat, bytes : Seq(STRING)]

\* A number is one unit.
LEMMA UnitIs ==
  ASSUME NEW n \in Nat
  PROVE  /\ \A w \in Nat \ {0} : Unit(w, n) \in Units
         /\ U1(n) \in Seq(Units) /\ Len(U1(n)) = 1 /\ U1(n)[1] = Unit(1, n)
         /\ U2(n) \in Seq(Units) /\ Len(U2(n)) = 1 /\ U2(n)[1] = Unit(2, n)
         /\ U4(n) \in Seq(Units) /\ Len(U4(n)) = 1 /\ U4(n)[1] = Unit(4, n)
  <1>1. ASSUME NEW w \in Nat \ {0} PROVE Unit(w, n) \in Units
    BY DEF Unit, Units
  <1>2. QED
    BY <1>1 DEF U1, U2, U4

\* A block of bytes is one unit, or none.
LEMMA BlockIs ==
  ASSUME NEW b \in Seq(STRING)
  PROVE  /\ Block(b) \in Seq(Units)
         /\ Len(Block(b)) = IF b = <<>> THEN 0 ELSE 1
         /\ b = <<>> => Block(b) = <<>>
         /\ b # <<>> => /\ Block(b)[1] = [w |-> Len(b), n |-> 0, bytes |-> b]
                        /\ Len(b) \in Nat \ {0}
  <1>1. CASE b = <<>>
    BY <1>1 DEF Block
  <1>2. CASE b # <<>>
    <2>1. Len(b) \in Nat \ {0}
      BY <1>2
    <2>2. [w |-> Len(b), n |-> 0, bytes |-> b] \in Units
      BY <2>1 DEF Units
    <2>3. Block(b) = <<[w |-> Len(b), n |-> 0, bytes |-> b]>>
      BY <1>2 DEF Block
    <2>4. QED
      BY <1>2, <2>1, <2>2, <2>3
  <1>3. QED
    BY <1>1, <1>2

\* A table of numbers has a unit for each.
LEMMA EachU2Is ==
  ASSUME NEW s \in Seq(Nat)
  PROVE  /\ EachU2(s) \in Seq(Units) /\ Len(EachU2(s)) = Len(s)
         /\ \A i \in 1 .. Len(s) : EachU2(s)[i] = Unit(2, s[i])
  <1> DEFINE n == Len(s)
             e == [i \in 1 .. n |-> Unit(2, s[i])]
  <1>1. n \in Nat /\ DOMAIN s = 1 .. n /\ \A i \in 1 .. n : s[i] \in Nat
    OBVIOUS
  <1>2. EachU2(s) = e
    BY <1>1 DEF EachU2
  <1>3. \A i \in 1 .. n : e[i] = Unit(2, s[i]) /\ e[i] \in Units
    BY <1>1, UnitIs
  <1>4. DOMAIN e = 1 .. n
    OBVIOUS
  <1> HIDE DEF e, n
  <1>5. e \in Seq(Units) /\ Len(e) = n
    <2>1. e = [i \in 1 .. n |-> e[i]]
      BY DEF e
    <2>2. QED
      BY <1>1, <1>3, <2>1, SeqIs
  <1>6. QED
    BY <1>2, <1>3, <1>5 DEF n

\* Width(s) sums up the widths of s
IsSum(f, s, m) == f = [i \in 0 .. m |-> IF i = 0 THEN 0 ELSE f[i - 1] + s[i].w]

\* The function that sums up the widths exists.
LEMMA SumExists ==
  ASSUME NEW s, NEW n \in Nat
  PROVE  \E f : IsSum(f, s, n)
  <1> DEFINE S == {m \in Nat : \E f : IsSum(f, s, m)}
  <1>1. 0 \in S
    <2>1. IsSum([i \in 0 .. 0 |-> 0], s, 0)
      BY DEF IsSum
    <2>2. QED
      BY <2>1
  <1>2. ASSUME NEW m \in Nat, m \in S PROVE m + 1 \in S
    <2>1. PICK f : IsSum(f, s, m)
      BY <1>2
    <2> DEFINE g == [i \in 0 .. m + 1 |-> IF i <= m THEN f[i] ELSE f[m] + s[m + 1].w]
    <2>2. ASSUME NEW i \in 0 .. m + 1 PROVE g[i] = IF i = 0 THEN 0 ELSE g[i - 1] + s[i].w
      <3>1. CASE i = m + 1
        BY <3>1
      <3>2. CASE i <= m
        <4>1. i \in 0 .. m /\ g[i] = f[i] /\ (i # 0 => i - 1 \in 0 .. m /\ g[i - 1] = f[i - 1])
          BY <3>2
        <4>2. f[i] = IF i = 0 THEN 0 ELSE f[i - 1] + s[i].w
          BY <2>1, <4>1 DEF IsSum
        <4>3. QED
          BY <4>1, <4>2
      <3>3. QED
        BY <3>1, <3>2
    <2>3. g = [i \in 0 .. m + 1 |-> g[i]]
      OBVIOUS
    <2> HIDE DEF g
    <2>4. IsSum(g, s, m + 1)
      BY <2>2, <2>3 DEF IsSum
    <2>5. QED
      BY <2>4
  <1> HIDE DEF S
  <1>3. n \in S
    BY <1>1, <1>2, Induction
  <1>4. QED
    BY <1>3 DEF S

\* Width is that function at the length of s.
LEMMA WidthOf ==
  ASSUME NEW s, Len(s) \in Nat
  PROVE  \E f : IsSum(f, s, Len(s)) /\ Width(s) = f[Len(s)]
  <1> DEFINE f == CHOOSE g : g = [i \in 0 .. Len(s) |-> IF i = 0 THEN 0 ELSE g[i - 1] + s[i].w]
  <1>1. \E g : g = [i \in 0 .. Len(s) |-> IF i = 0 THEN 0 ELSE g[i - 1] + s[i].w]
    BY SumExists DEF IsSum
  <1>2. f = [i \in 0 .. Len(s) |-> IF i = 0 THEN 0 ELSE f[i - 1] + s[i].w]
    BY <1>1
  <1>3. Width(s) = f[Len(s)]
    BY DEF Width
  <1> HIDE DEF f
  <1>4. QED
    BY <1>2, <1>3 DEF IsSum

\* Sums of widths are numbers.
LEMMA SumType ==
  ASSUME NEW s \in Seq(Units), NEW n \in Nat, n <= Len(s), NEW f, IsSum(f, s, n)
  PROVE  \A i \in 0 .. n : f[i] \in Nat
  <1> DEFINE S == {m \in Nat : m <= n => f[m] \in Nat}
  <1>1. 0 \in S
    BY DEF IsSum
  <1>2. ASSUME NEW m \in Nat, m \in S PROVE m + 1 \in S
    <2> SUFFICES ASSUME m + 1 <= n PROVE f[m + 1] \in Nat
      OBVIOUS
    <2>1. m + 1 \in 0 .. n /\ m + 1 # 0 /\ (m + 1) - 1 = m /\ m + 1 \in 1 .. Len(s)
      OBVIOUS
    <2>2. f[m + 1] = f[m] + s[m + 1].w
      BY <2>1 DEF IsSum
    <2>3. s[m + 1].w \in Nat
      <3>1. s[m + 1] \in Units
        BY <2>1
      <3>2. QED
        BY <3>1 DEF Units
    <2>4. QED
      BY <1>2, <2>2, <2>3
  <1> HIDE DEF S
  <1>3. Nat \subseteq S
    BY <1>1, <1>2, Induction
  <1>4. QED
    BY <1>3 DEF S

\* A width is a number.
LEMMA WidthType ==
  ASSUME NEW s \in Seq(Units)
  PROVE  Width(s) \in Nat
  <1>1. Len(s) \in Nat
    OBVIOUS
  <1>2. PICK f : IsSum(f, s, Len(s)) /\ Width(s) = f[Len(s)]
    BY <1>1, WidthOf
  <1>3. QED
    BY <1>1, <1>2, SumType

\* Nothing has no width.
LEMMA WidthEmpty == Width(<<>>) = 0
  <1>1. PICK f : IsSum(f, <<>>, 0) /\ Width(<<>>) = f[0]
    <2>1. Len(<<>>) = 0
      OBVIOUS
    <2>2. PICK f : IsSum(f, <<>>, Len(<<>>)) /\ Width(<<>>) = f[Len(<<>>)]
      BY <2>1, WidthOf
    <2>3. QED
      BY <2>1, <2>2, Zenon
  <1>2. QED
    BY <1>1 DEF IsSum

\* A unit more adds its width.
LEMMA WidthAppend ==
  ASSUME NEW s \in Seq(Units), NEW u \in Units
  PROVE  Width(Append(s, u)) = Width(s) + u.w
  <1> DEFINE n == Len(s)
             t == Append(s, u)
  <1>1. /\ n \in Nat /\ t \in Seq(Units) /\ Len(t) = n + 1 /\ t[n + 1] = u
        /\ \A i \in 1 .. n : t[i] = s[i]
    OBVIOUS
  <1>2. PICK f : IsSum(f, s, n) /\ Width(s) = f[n]
    BY <1>1, WidthOf
  <1> HIDE DEF n, t
  <1>3. PICK g : IsSum(g, t, n + 1) /\ Width(t) = g[n + 1]
    BY <1>1, WidthOf
  <1> DEFINE S == {m \in Nat : m <= n => f[m] = g[m]}
  <1>4. 0 \in S
    BY <1>1, <1>2, <1>3 DEF IsSum
  <1>5. ASSUME NEW m \in Nat, m \in S PROVE m + 1 \in S
    <2> SUFFICES ASSUME m + 1 <= n PROVE f[m + 1] = g[m + 1]
      OBVIOUS
    <2>1. /\ m + 1 \in 0 .. n /\ m + 1 \in 0 .. n + 1 /\ m + 1 # 0 /\ (m + 1) - 1 = m
          /\ m + 1 \in 1 .. n
      BY <1>1
    <2>2. f[m + 1] = f[m] + s[m + 1].w /\ g[m + 1] = g[m] + t[m + 1].w
      BY <1>2, <1>3, <2>1 DEF IsSum
    <2>3. f[m] = g[m] /\ t[m + 1] = s[m + 1]
      BY <1>1, <1>5, <2>1
    <2>4. QED
      BY <2>2, <2>3, Zenon
  <1> HIDE DEF S
  <1>6. Nat \subseteq S
    BY <1>4, <1>5, Induction
  <1>7. f[n] = g[n]
    BY <1>1, <1>6 DEF S
  <1>8. n + 1 \in 0 .. n + 1 /\ n + 1 # 0 /\ (n + 1) - 1 = n
    BY <1>1
  <1>9. g[n + 1] = g[n] + u.w
    BY <1>1, <1>3, <1>8 DEF IsSum
  <1>10. QED
    BY <1>2, <1>3, <1>7, <1>9 DEF t

\* The more units, the wider.
LEMMA WidthGrows ==
  ASSUME NEW s \in Seq(Units), NEW i \in 1 .. Len(s) + 1, NEW m \in Nat, NEW n \in Nat,
         m < n, n <= Len(s) - i + 1
  PROVE  Width(SubSeq(s, i, i + m - 1)) < Width(SubSeq(s, i, i + n - 1))
  <1> DEFINE W(k) == Width(SubSeq(s, i, i + k - 1))
             S == {d \in Nat : m + d + 1 <= n => W(m) < W(m + d + 1)}
  <1>1. ASSUME NEW k \in Nat, k + 1 <= Len(s) - i + 1
        PROVE  W(k) \in Nat /\ W(k + 1) \in Nat /\ W(k) < W(k + 1)
    <2> DEFINE t == SubSeq(s, i, i + k - 1)
    <2>1. t \in Seq(Units) /\ Len(t) = k /\ \A j \in 1 .. k : t[j] = s[i + j - 1]
      <3>1. \A j \in i .. i + k - 1 : s[j] \in Units
        BY <1>1
      <3>2. i \in Int /\ i + k - 1 \in Int /\ (i + k - 1) - i + 1 = k
        BY <1>1
      <3>3. /\ t \in Seq(Units) /\ Len(t) = IF i <= i + k - 1 THEN (i + k - 1) - i + 1 ELSE 0
            /\ \A j \in 1 .. (i + k - 1) - i + 1 : t[j] = s[i + j - 1]
        BY <3>1, <3>2, SubSeqProperties
      <3>4. QED
        BY <1>1, <3>2, <3>3
    <2>2. s[i + k] \in Units /\ s[i + k].w \in Nat \ {0}
      <3>1. i + k \in 1 .. Len(s)
        BY <1>1
      <3>2. s[i + k] \in Units
        BY <3>1
      <3>3. QED
        BY <3>2 DEF Units
    <2> DEFINE u == SubSeq(s, i, i + (k + 1) - 1)
    <2>3. u \in Seq(Units) /\ Len(u) = k + 1 /\ \A j \in 1 .. k + 1 : u[j] = s[i + j - 1]
      <3>1. \A j \in i .. i + (k + 1) - 1 : s[j] \in Units
        BY <1>1
      <3>2. i \in Int /\ i + (k + 1) - 1 \in Int /\ (i + (k + 1) - 1) - i + 1 = k + 1
        BY <1>1
      <3>3. /\ u \in Seq(Units)
            /\ Len(u) = IF i <= i + (k + 1) - 1 THEN (i + (k + 1) - 1) - i + 1 ELSE 0
            /\ \A j \in 1 .. (i + (k + 1) - 1) - i + 1 : u[j] = s[i + j - 1]
        BY <3>1, <3>2, SubSeqProperties
      <3>4. QED
        BY <1>1, <3>2, <3>3
    <2> HIDE DEF t, u
    <2>4. u = Append(t, s[i + k])
      <3>1. /\ Append(t, s[i + k]) \in Seq(Units) /\ Len(Append(t, s[i + k])) = k + 1
            /\ \A j \in 1 .. k : Append(t, s[i + k])[j] = t[j]
            /\ Append(t, s[i + k])[k + 1] = s[i + k]
        BY <2>1, <2>2
      <3>2. ASSUME NEW j \in 1 .. k + 1 PROVE u[j] = Append(t, s[i + k])[j]
        <4>1. CASE j = k + 1
          BY <2>3, <3>1, <4>1
        <4>2. CASE j \in 1 .. k
          BY <2>1, <2>3, <3>1, <4>2
        <4>3. j = k + 1 \/ j \in 1 .. k
          OBVIOUS
        <4>4. QED
          BY <4>1, <4>2, <4>3, Zenon
      <3>3. QED
        BY <2>3, <3>1, <3>2, SeqEqual
    <2>5. Width(u) = Width(t) + s[i + k].w /\ Width(t) \in Nat
      BY <2>1, <2>2, <2>4, WidthAppend, WidthType
    <2>6. W(k) = Width(t) /\ W(k + 1) = Width(u)
      BY Zenon DEF t, u
    <2> HIDE DEF W
    <2>7. W(k) \in Nat /\ W(k + 1) = W(k) + s[i + k].w
      BY <2>5, <2>6, Zenon
    <2> DEFINE a == W(k)
               b == W(k + 1)
               w == s[i + k].w
    <2>8. a \in Nat /\ b = a + w /\ w \in Nat \ {0}
      BY <2>2, <2>7, Zenon
    <2> HIDE DEF a, b, w
    <2>9. a \in Nat /\ b \in Nat /\ a < b
      BY <2>8
    <2>10. QED
      BY <2>9 DEF a, b
  <1> HIDE DEF W
  <1>2. 0 \in S
    BY <1>1
  <1>3. ASSUME NEW d \in Nat, d \in S PROVE d + 1 \in S
    <2> SUFFICES ASSUME m + (d + 1) + 1 <= n PROVE W(m) < W(m + (d + 1) + 1)
      OBVIOUS
    <2> DEFINE k == m + d + 1
    <2>1. k <= n /\ k \in Nat /\ k + 1 = m + (d + 1) + 1 /\ k + 1 <= Len(s) - i + 1
      OBVIOUS
    <2>2. W(m) < W(k)
      BY <1>3, <2>1
    <2> HIDE DEF k
    <2>3. W(k) \in Nat /\ W(k + 1) \in Nat /\ W(k) < W(k + 1)
      BY <1>1, <2>1
    <2>4. m + 1 <= Len(s) - i + 1
      OBVIOUS
    <2>5. W(m) \in Nat
      BY <1>1, <2>4
    <2>6. W(m) < W(k + 1)
      BY <2>2, <2>3, <2>5
    <2>7. QED
      BY <2>1, <2>6
  <1> HIDE DEF S
  <1>4. Nat \subseteq S
    BY <1>2, <1>3, Induction
  <1> DEFINE d == n - m - 1
  <1>5. d \in Nat /\ m + d + 1 = n
    OBVIOUS
  <1> HIDE DEF d
  <1>6. m + d + 1 <= n /\ d \in S
    BY <1>4, <1>5
  <1>7. W(m) < W(m + d + 1)
    BY <1>6 DEF S
  <1>8. QED
    BY <1>5, <1>7 DEF W

-----------------------------------------------------------------------------
(* Rows of numbers *)

\* The number in column j of row k, of rows of n numbers.
RowsPart(rows) == [i \in DOMAIN rows |-> EachU2(rows[i])]

\* Rows are joined from one part for each.
LEMMA RowsParts ==
  ASSUME NEW rows \in Seq(Seq(Nat))
  PROVE  /\ RowsPart(rows) \in Seq(Seq(Units)) /\ Len(RowsPart(rows)) = Len(rows)
         /\ \A k \in 1 .. Len(rows) : /\ RowsPart(rows)[k] = EachU2(rows[k])
                                      /\ Len(RowsPart(rows)[k]) = Len(rows[k])
         /\ Rows(rows) = FlattenSeq(RowsPart(rows))
         /\ Rows(rows) \in Seq(Units)
  <1> DEFINE n == Len(rows)
             f == RowsPart(rows)
  <1>1. n \in Nat /\ DOMAIN rows = 1 .. n /\ \A k \in 1 .. n : rows[k] \in Seq(Nat)
    OBVIOUS
  <1> HIDE DEF n
  <1>2. \A k \in 1 .. n : f[k] = EachU2(rows[k])
    BY <1>1 DEF RowsPart
  <1>3. \A k \in 1 .. n : f[k] \in Seq(Units) /\ Len(f[k]) = Len(rows[k])
    BY <1>1, <1>2, EachU2Is
  <1>4. f = [k \in 1 .. n |-> f[k]]
    BY <1>1 DEF RowsPart
  <1>5. Rows(rows) = FlattenSeq(f)
    BY DEF Rows, RowsPart
  <1> HIDE DEF f
  <1>6. f \in Seq(Seq(Units)) /\ Len(f) = n
    BY <1>1, <1>3, <1>4, SeqIs
  <1>7. FlattenSeq(f) \in Seq(Units)
    BY <1>6, FlattenType
  <1>8. QED
    BY <1>2, <1>3, <1>5, <1>6, <1>7 DEF f, n

\* The number of column j in row k stands at (k - 1) * L + j.
LEMMA RowsAre ==
  ASSUME NEW L \in {1, 2, 4, 5}, NEW rows \in Seq(Seq(Nat)),
         \A k \in 1 .. Len(rows) : Len(rows[k]) = L
  PROVE  /\ Len(Rows(rows)) = Len(rows) * L
         /\ \A k \in 1 .. Len(rows), j \in 1 .. L :
                Rows(rows)[(k - 1) * L + j] = Unit(2, rows[k][j])
  <1> DEFINE n == Len(rows)
             f == RowsPart(rows)
             r == Rows(rows)
             S == {m \in Nat : m <= n => Behind(r, m * L, Rest(f, m + 1))}
  <1>1. /\ n \in Nat /\ \A k \in 1 .. n : rows[k] \in Seq(Nat)
        /\ f \in Seq(Seq(Units)) /\ Len(f) = n /\ r = FlattenSeq(f) /\ r \in Seq(Units)
        /\ \A k \in 1 .. n : f[k] = EachU2(rows[k]) /\ Len(f[k]) = L
    <2>1. n \in Nat /\ \A k \in 1 .. n : rows[k] \in Seq(Nat)
      OBVIOUS
    <2>2. /\ f \in Seq(Seq(Units)) /\ Len(f) = n /\ r = FlattenSeq(f) /\ r \in Seq(Units)
          /\ \A k \in 1 .. n : f[k] = EachU2(rows[k]) /\ Len(f[k]) = Len(rows[k])
      BY RowsParts, Zenon
    <2>3. \A k \in 1 .. n : Len(f[k]) = L
      BY <2>2, Zenon
    <2>4. QED
      BY <2>1, <2>2, <2>3, Zenon
  <1> HIDE DEF n, f, r
  <1>2. \A m \in Nat : m * L \in Nat /\ (m + 1) * L = m * L + L
    OBVIOUS
  <1>3. 0 \in S
    <2>1. 0 * L = 0 /\ 0 + 1 = 1
      OBVIOUS
    <2>2. Rest(f, 1) = r
      BY <1>1, RestAll
    <2>3. Behind(r, 0, r)
      BY <1>1, BehindNothing
    <2>4. QED
      BY <2>1, <2>2, <2>3, Zenon
  <1>4. ASSUME NEW m \in Nat, m + 1 <= n, Behind(r, m * L, Rest(f, m + 1))
        PROVE  /\ \A j \in 1 .. L : r[m * L + j] = Unit(2, rows[m + 1][j])
               /\ Behind(r, (m + 1) * L, Rest(f, (m + 1) + 1))
    <2>1. m + 1 \in 1 .. n /\ (m + 1) + 1 \in 1 .. n + 1
      BY <1>1, <1>4
    <2>2. Rest(f, m + 1) = f[m + 1] \o Rest(f, (m + 1) + 1)
      BY <1>1, <2>1, RestStep
    <2>3. f[m + 1] \in Seq(Units) /\ Rest(f, (m + 1) + 1) \in Seq(Units) /\ Len(f[m + 1]) = L
      BY <1>1, <2>1, RestType
    <2>4. /\ \A j \in 1 .. L : r[m * L + j] = f[m + 1][j]
          /\ Behind(r, m * L + L, Rest(f, (m + 1) + 1))
      <3>1. Behind(r, m * L, f[m + 1] \o Rest(f, (m + 1) + 1))
        BY <1>4, <2>2, Zenon
      <3>2. /\ \A j \in 1 .. Len(f[m + 1]) : r[m * L + j] = f[m + 1][j]
            /\ Behind(r, m * L + Len(f[m + 1]), Rest(f, (m + 1) + 1))
        BY <2>3, <3>1, BehindStep, Zenon
      <3>3. QED
        BY <2>3, <3>2, Zenon
    <2>5. f[m + 1] = EachU2(rows[m + 1]) /\ rows[m + 1] \in Seq(Nat) /\ Len(rows[m + 1]) = L
      BY <1>1, <2>1 DEF n
    <2>6. \A j \in 1 .. L : f[m + 1][j] = Unit(2, rows[m + 1][j])
      BY <2>5, EachU2Is
    <2>7. QED
      BY <1>2, <2>4, <2>6, Zenon
  <1>5. ASSUME NEW m \in Nat, m \in S PROVE m + 1 \in S
    <2> SUFFICES ASSUME m + 1 <= n PROVE Behind(r, (m + 1) * L, Rest(f, (m + 1) + 1))
      OBVIOUS
    <2>1. m <= n
      BY <1>1
    <2>2. Behind(r, m * L, Rest(f, m + 1))
      BY <1>5, <2>1
    <2>3. QED
      BY <1>4, <2>2
  <1> HIDE DEF S
  <1>6. Nat \subseteq S
    BY <1>3, <1>5, Induction
  <1>7. Len(r) = n * L
    <2>1. Behind(r, n * L, Rest(f, n + 1))
      BY <1>1, <1>6 DEF S
    <2>2. Rest(f, n + 1) = <<>>
      BY <1>1, RestEnd
    <2>3. Behind(r, n * L, <<>>)
      BY <2>1, <2>2, Zenon
    <2>4. QED
      BY <1>1, <1>2, <2>3 DEF Behind
  <1>8. ASSUME NEW k \in 1 .. n, NEW j \in 1 .. L
        PROVE  r[(k - 1) * L + j] = Unit(2, rows[k][j])
    <2> DEFINE m == k - 1
    <2>1. m \in Nat /\ m + 1 = k /\ m + 1 <= n /\ m <= n
      BY <1>1
    <2> HIDE DEF m
    <2>2. Behind(r, m * L, Rest(f, m + 1))
      BY <1>6, <2>1 DEF S
    <2>3. r[m * L + j] = Unit(2, rows[m + 1][j])
      BY <1>4, <2>1, <2>2
    <2>4. QED
      BY <2>1, <2>3 DEF m
  <1>9. QED
    BY <1>7, <1>8 DEF n, r

-----------------------------------------------------------------------------
(* Attributes *)

\* Two sequences of units are one.
LEMMA Joined ==
  ASSUME NEW U, NEW p \in Seq(U), NEW q \in Seq(U)
  PROVE  p \o q \in Seq(U)
  BY ConcatProperties

\* A list of layouts consists of units.
LEMMA ListType ==
  ASSUME NEW layouts \in Seq(Seq(Units))
  PROVE  List(layouts) \in Seq(Units)
  <1>1. Len(layouts) \in Nat
    OBVIOUS
  <1>2. U2(Len(layouts)) \in Seq(Units) /\ FlattenSeq(layouts) \in Seq(Units)
    BY <1>1, UnitIs, FlattenType
  <1>3. QED
    BY <1>2, Joined DEF List

IsInner(a, p) == a \in InnerAttributes /\ IsNamed(a, p) /\ IsContent(a) /\ a.kind # "Code"
IsAttribute(a, p) ==
    /\ a \in Attributes /\ IsNamed(a, p) /\ IsContent(a)
    /\ \A k \in DOMAIN a.attributes : IsInner(a.attributes[k], p)

\* An attribute inside of Code is one with nothing inside of it.
LEMMA InnerIs ==
  ASSUME NEW a, NEW p, IsInner(a, p)
  PROVE  IsAttribute(a, p) /\ a.attributes = <<>>
  <1>1. a.attributes = <<>> /\ a \in Attributes
    <2>1. <<>> \in Seq(InnerAttributes)
      OBVIOUS
    <2>2. QED
      BY <2>1 DEF IsInner, InnerAttributes, Attributes
  <1>2. DOMAIN a.attributes = {}
    BY <1>1
  <1>3. QED
    BY <1>1, <1>2 DEF IsInner, IsAttribute

\* Each of a file's attributes is named and has the contents of its kind.
LEMMA AttributesAre ==
  ASSUME NEW as, NEW p, AreAttributes(as, p)
  PROVE  as \in Seq(Attributes) /\ \A i \in 1 .. Len(as) : IsAttribute(as[i], p)
  <1>1. as \in Seq(Attributes)
    BY Zenon DEF AreAttributes
  <1>2. DOMAIN as = 1 .. Len(as) /\ \A i \in 1 .. Len(as) : as[i] \in Attributes
    BY <1>1, SeqHas, Zenon
  <1>3. ASSUME NEW i \in 1 .. Len(as) PROVE IsAttribute(as[i], p)
    <2>1. as[i] \in Attributes /\ i \in DOMAIN as
      BY <1>2
    <2>2. as[i].attributes \in Seq(InnerAttributes)
      BY <2>1 DEF Attributes
    <2>3. ASSUME NEW k \in DOMAIN as[i].attributes PROVE IsInner(as[i].attributes[k], p)
      <3>1. as[i].attributes[k] \in InnerAttributes
        BY <2>2, SeqHas, Zenon
      <3>2. QED
        BY <2>1, <3>1 DEF AreAttributes, IsInner
    <2>4. QED
      BY <2>1, <2>3 DEF AreAttributes, IsAttribute
  <1>4. QED
    BY <1>1, <1>3

\* A method of a BootstrapMethods attribute.
MethodPart(row) == U2(row[1]) \o U2(Len(row) - 1) \o EachU2(Tail(row))
MethodParts(rows) == [i \in DOMAIN rows |-> MethodPart(rows[i])]

\* A bootstrap method is its index, the number of its arguments, and these.
LEMMA MethodPartIs ==
  ASSUME NEW row \in Seq(Nat), row # <<>>
  PROVE  /\ MethodPart(row) \in Seq(Units) /\ Len(MethodPart(row)) = Len(row) + 1
         /\ MethodPart(row)[1] = Unit(2, row[1])
         /\ MethodPart(row)[2] = Unit(2, Len(row) - 1)
         /\ \A j \in 2 .. Len(row) : MethodPart(row)[j + 1] = Unit(2, row[j])
  <1> DEFINE a == U2(row[1])
             b == U2(Len(row) - 1)
             c == EachU2(Tail(row))
             n == Len(row) - 1
  <1>1. /\ Len(row) = n + 1 /\ n \in Nat /\ row[1] \in Nat /\ Tail(row) \in Seq(Nat)
        /\ Len(Tail(row)) = n /\ \A j \in 1 .. n : Tail(row)[j] = row[j + 1]
    BY TailIs
  <1>2. /\ a \in Seq(Units) /\ Len(a) = 1 /\ a[1] = Unit(2, row[1])
        /\ b \in Seq(Units) /\ Len(b) = 1 /\ b[1] = Unit(2, n)
    BY <1>1, UnitIs
  <1>3. /\ c \in Seq(Units) /\ Len(c) = n
        /\ \A j \in 1 .. n : c[j] = Unit(2, row[j + 1])
    <2>1. /\ c \in Seq(Units) /\ Len(c) = Len(Tail(row))
          /\ \A j \in 1 .. Len(Tail(row)) : c[j] = Unit(2, Tail(row)[j])
      BY <1>1, EachU2Is, Zenon
    <2>2. QED
      BY <1>1, <2>1, Zenon
  <1> HIDE DEF n
  <1>4. MethodPart(row) = a \o b \o c
    BY DEF MethodPart
  <1> HIDE DEF a, b, c
  <1> DEFINE ab == a \o b
  <1>5. /\ ab \in Seq(Units) /\ Len(ab) = 2 /\ ab[1] = a[1] /\ ab[2] = b[1]
    <2>1. /\ ab \in Seq(Units) /\ Len(ab) = Len(a) + Len(b)
          /\ \A i \in 1 .. Len(a) + Len(b) : ab[i] = IF i <= Len(a) THEN a[i] ELSE b[i - Len(a)]
      BY <1>2, ConcatProperties, Zenon
    <2> HIDE DEF ab
    <2>2. QED
      BY <1>2, <2>1
  <1> HIDE DEF ab
  <1>6. /\ MethodPart(row) \in Seq(Units) /\ Len(MethodPart(row)) = 2 + n
        /\ MethodPart(row)[1] = a[1] /\ MethodPart(row)[2] = b[1]
        /\ \A j \in 1 .. n : MethodPart(row)[2 + j] = c[j]
    <2> DEFINE abc == ab \o c
    <2>1. /\ abc \in Seq(Units) /\ Len(abc) = Len(ab) + Len(c)
          /\ \A i \in 1 .. Len(ab) + Len(c) : abc[i] = IF i <= Len(ab) THEN ab[i] ELSE c[i - Len(ab)]
      BY <1>3, <1>5, ConcatProperties, Zenon
    <2>2. abc = MethodPart(row)
      BY <1>4 DEF ab
    <2> HIDE DEF abc
    <2>3. Len(abc) = 2 + n /\ 1 \in 1 .. Len(ab) + Len(c) /\ 2 \in 1 .. Len(ab) + Len(c)
      BY <1>1, <1>3, <1>5, <2>1
    <2>4. abc[1] = ab[1] /\ abc[2] = ab[2]
      BY <1>5, <2>1, <2>3
    <2>5. ASSUME NEW j \in 1 .. n PROVE abc[2 + j] = c[j]
      <3>1. /\ 2 + j \in 1 .. Len(ab) + Len(c) /\ ~(2 + j <= Len(ab)) /\ (2 + j) - Len(ab) = j
        BY <1>1, <1>3, <1>5
      <3>2. QED
        BY <2>1, <3>1, Zenon
    <2>6. QED
      BY <1>5, <2>1, <2>2, <2>3, <2>4, <2>5, Zenon
  <1>7. ASSUME NEW j \in 2 .. Len(row) PROVE MethodPart(row)[j + 1] = Unit(2, row[j])
    <2>1. j - 1 \in 1 .. n /\ 2 + (j - 1) = j + 1 /\ (j - 1) + 1 = j
      BY <1>1
    <2>2. MethodPart(row)[2 + (j - 1)] = Unit(2, row[(j - 1) + 1])
      BY <1>3, <1>6, <2>1
    <2>3. QED
      BY <2>1, <2>2
  <1>8. QED
    BY <1>1, <1>2, <1>6, <1>7 DEF n

\* One part for each bootstrap method.
LEMMA MethodPartsAre ==
  ASSUME NEW rows \in Seq(Seq(Nat)), \A k \in 1 .. Len(rows) : rows[k] # <<>>
  PROVE  /\ MethodParts(rows) \in Seq(Seq(Units)) /\ Len(MethodParts(rows)) = Len(rows)
         /\ \A k \in 1 .. Len(rows) : MethodParts(rows)[k] = MethodPart(rows[k])
  <1> DEFINE n == Len(rows)
             f == MethodParts(rows)
  <1>1. n \in Nat /\ DOMAIN rows = 1 .. n /\ \A k \in 1 .. n : rows[k] \in Seq(Nat)
    OBVIOUS
  <1>2. \A k \in 1 .. n : f[k] = MethodPart(rows[k])
    BY <1>1 DEF MethodParts
  <1>3. \A k \in 1 .. n : f[k] \in Seq(Units)
    BY <1>1, <1>2, MethodPartIs
  <1>4. f = [k \in 1 .. n |-> f[k]]
    BY <1>1 DEF MethodParts
  <1> HIDE DEF f, n
  <1>5. f \in Seq(Seq(Units)) /\ Len(f) = n
    BY <1>1, <1>3, <1>4, SeqIs
  <1>6. QED
    BY <1>2, <1>5 DEF f, n

\* The contents of an attribute are units.
LEMMA ContentsType ==
  ASSUME NEW a \in Attributes, IsContent(a), NEW inside \in Seq(Units)
  PROVE  Contents(a, inside) \in Seq(Units)
  <1>1. /\ a.fixed \in Seq(Nat) /\ a.rows \in Seq(Seq(Nat)) /\ a.bytes \in Seq(STRING)
        /\ Len(a.rows) \in Nat /\ Len(a.bytes) \in Nat
    BY DEF Attributes
  <1>2. /\ EachU2(a.fixed) \in Seq(Units) /\ U4(Len(a.bytes)) \in Seq(Units)
        /\ Block(a.bytes) \in Seq(Units) /\ U2(Len(a.rows)) \in Seq(Units)
        /\ U1(Len(a.rows)) \in Seq(Units)
    BY <1>1, EachU2Is, UnitIs, BlockIs
  <1>3. Rows(a.rows) \in Seq(Units)
    BY <1>1, RowsParts
  <1>4. CASE a.kind = "Code"
    <2>1. Contents(a, inside) = EachU2(a.fixed) \o U4(Len(a.bytes)) \o Block(a.bytes)
                                \o U2(Len(a.rows)) \o Rows(a.rows) \o inside
      BY <1>4 DEF Contents
    <2>2. EachU2(a.fixed) \o U4(Len(a.bytes)) \o Block(a.bytes) \in Seq(Units)
      BY <1>2, Joined
    <2>3. EachU2(a.fixed) \o U4(Len(a.bytes)) \o Block(a.bytes)
              \o U2(Len(a.rows)) \o Rows(a.rows) \in Seq(Units)
      BY <1>2, <1>3, <2>2, Joined
    <2>4. QED
      BY <2>1, <2>3, Joined
  <1>5. CASE a.kind \in TableKinds
    BY <1>2, <1>3, <1>5, Joined DEF Contents, TableKinds
  <1>6. CASE a.kind = "MethodParameters"
    BY <1>2, <1>3, <1>6, Joined DEF Contents, TableKinds
  <1>7. CASE a.kind = "BootstrapMethods"
    <2>1. Contents(a, inside) = List(MethodParts(a.rows))
      BY <1>7 DEF Contents, MethodParts, MethodPart, TableKinds
    <2>2. \A k \in 1 .. Len(a.rows) : a.rows[k] # <<>>
      BY <1>1, <1>7 DEF IsContent
    <2>3. QED
      BY <1>1, <2>1, <2>2, MethodPartsAre, ListType
  <1>8. CASE a.kind \notin TableKinds \cup {"Code", "MethodParameters", "BootstrapMethods"}
    BY <1>2, <1>8, Joined DEF Contents
  <1>9. QED
    BY <1>4, <1>5, <1>6, <1>7, <1>8

\* So they are with the header.
LEMMA HeaderType ==
  ASSUME NEW a \in Attributes, NEW contents \in Seq(Units)
  PROVE  WithHeader(a, contents) \in Seq(Units)
  <1>1. a.name \in Nat /\ Width(contents) \in Nat
    BY WidthType DEF Attributes
  <1>2. U2(a.name) \in Seq(Units) /\ U4(Width(contents)) \in Seq(Units)
    BY <1>1, UnitIs
  <1>3. QED
    BY <1>2, Joined DEF WithHeader

InnerParts(as) == [i \in DOMAIN as |-> InnerLayout(as[i])]
AttributeParts(as) == [i \in DOMAIN as |-> AttributeLayout(as[i])]

\* One part for each attribute inside.
LEMMA InnerPartsAre ==
  ASSUME NEW a, NEW p, IsAttribute(a, p)
  PROVE  /\ InnerParts(a.attributes) \in Seq(Seq(Units))
         /\ Len(InnerParts(a.attributes)) = Len(a.attributes)
         /\ \A k \in 1 .. Len(a.attributes) :
                InnerParts(a.attributes)[k] = InnerLayout(a.attributes[k])
  <1> DEFINE as == a.attributes
             n == Len(as)
             f == InnerParts(as)
  <1>1. n \in Nat /\ DOMAIN as = 1 .. n
    BY DEF IsAttribute, Attributes
  <1>2. \A k \in 1 .. n : f[k] = InnerLayout(as[k])
    BY <1>1 DEF InnerParts
  <1>3. ASSUME NEW k \in 1 .. n PROVE f[k] \in Seq(Units)
    <2>1. IsInner(as[k], p)
      BY <1>1 DEF IsAttribute
    <2>2. as[k] \in Attributes /\ IsContent(as[k])
      BY <2>1, InnerIs DEF IsAttribute
    <2>3. <<>> \in Seq(Units)
      OBVIOUS
    <2>4. InnerLayout(as[k]) \in Seq(Units)
      BY <2>2, <2>3, ContentsType, HeaderType DEF InnerLayout
    <2>5. QED
      BY <1>2, <2>4
  <1>4. f = [k \in 1 .. n |-> f[k]]
    BY <1>1 DEF InnerParts
  <1> HIDE DEF f, n, as
  <1>5. f \in Seq(Seq(Units)) /\ Len(f) = n
    BY <1>1, <1>3, <1>4, SeqIs
  <1>6. QED
    BY <1>2, <1>5 DEF f, n, as

\* An attribute is units.
LEMMA LayoutType ==
  ASSUME NEW a, NEW p, IsAttribute(a, p)
  PROVE  AttributeLayout(a) \in Seq(Units)
  <1>1. List(InnerParts(a.attributes)) \in Seq(Units)
    BY InnerPartsAre, ListType
  <1>2. a \in Attributes /\ IsContent(a)
    BY DEF IsAttribute
  <1>3. AttributeLayout(a) = WithHeader(a, Contents(a, List(InnerParts(a.attributes))))
    BY DEF AttributeLayout, InnerParts
  <1>4. QED
    BY <1>1, <1>2, <1>3, ContentsType, HeaderType

\* One part for each attribute, behind the number of attributes.
LEMMA AttributePartsAre ==
  ASSUME NEW as, NEW p, AreAttributes(as, p)
  PROVE  /\ AttributeParts(as) \in Seq(Seq(Units)) /\ Len(AttributeParts(as)) = Len(as)
         /\ \A k \in 1 .. Len(as) : AttributeParts(as)[k] = AttributeLayout(as[k])
         /\ AttributesLayout(as) = U2(Len(as)) \o Rest(AttributeParts(as), 1)
         /\ AttributesLayout(as) \in Seq(Units)
  <1> DEFINE n == Len(as)
             f == AttributeParts(as)
  <1>1. n \in Nat /\ DOMAIN as = 1 .. n /\ \A k \in 1 .. n : IsAttribute(as[k], p)
    BY AttributesAre, SeqHas, Zenon
  <1>2. \A k \in 1 .. n : f[k] = AttributeLayout(as[k])
    BY <1>1 DEF AttributeParts
  <1>3. \A k \in 1 .. n : f[k] \in Seq(Units)
    BY <1>1, <1>2, LayoutType
  <1>4. f = [k \in 1 .. n |-> f[k]]
    BY <1>1 DEF AttributeParts
  <1>5. AttributesLayout(as) = List(f)
    BY DEF AttributesLayout, AttributeParts
  <1> HIDE DEF f, n
  <1>6. f \in Seq(Seq(Units)) /\ Len(f) = n
    BY <1>1, <1>3, <1>4, SeqIs
  <1>7. List(f) = U2(n) \o Rest(f, 1) /\ List(f) \in Seq(Units)
    BY <1>6, RestAll, ListType DEF List
  <1>8. QED
    BY <1>2, <1>5, <1>6, <1>7 DEF f, n

-----------------------------------------------------------------------------
(* Reading an attribute *)

\* Where an attribute comes, the parser finds its name, kind and length.
LEMMA AttributeBegins ==
  ASSUME NEW a \in Attributes, IsNamed(a, pool), NEW contents \in Seq(Units),
         NEW more \in Seq(Units), rest = Then(WithHeader(a, contents), more)
  PROVE  /\ Value(1) = a.name /\ Kind = a.kind /\ Length = Width(contents)
         /\ rest \in Seq(Units)
         /\ Behind(rest, 2, Then(contents, more))
  <1> DEFINE u == U2(a.name)
             v == U4(Width(contents))
             q == Then(contents, more)
  <1>1. a.name \in Nat /\ Width(contents) \in Nat
    BY WidthType DEF Attributes
  <1>2. /\ u \in Seq(Units) /\ Len(u) = 1 /\ u[1] = Unit(2, a.name)
        /\ v \in Seq(Units) /\ Len(v) = 1 /\ v[1] = Unit(4, Width(contents))
    BY <1>1, UnitIs
  <1>3. WithHeader(a, contents) = Then(Then(u, v), contents)
    BY DEF WithHeader, Then
  <1> HIDE DEF u, v
  <1>4. q \in Seq(Units) /\ Then(u, v) \in Seq(Units) /\ Then(v, q) \in Seq(Units)
    BY <1>2, ThenType
  <1>5. rest = Then(u, Then(v, q))
    <2>1. Then(Then(Then(u, v), contents), more) = Then(Then(u, v), q)
      BY <1>4, ThenAssociates
    <2>2. Then(Then(u, v), q) = Then(u, Then(v, q))
      BY <1>2, <1>4, ThenAssociates
    <2>3. QED
      BY <1>3, <2>1, <2>2
  <1> HIDE DEF q
  <1>6. rest \in Seq(Units)
    BY <1>2, <1>4, <1>5, ThenType
  <1>7. Behind(rest, 0, Then(u, Then(v, q)))
    BY <1>5, <1>6, BehindNothing
  <1>8. rest[1] = u[1] /\ Behind(rest, 1, Then(v, q))
    <2>1. rest[0 + 1] = u[1] /\ Behind(rest, 0 + 1, Then(v, q))
      BY <1>2, <1>4, <1>7, BehindOne
    <2>2. QED
      BY <2>1
  <1>9. rest[2] = v[1] /\ Behind(rest, 2, q)
    <2>1. rest[1 + 1] = v[1] /\ Behind(rest, 1 + 1, q)
      BY <1>2, <1>4, <1>8, BehindOne
    <2>2. QED
      BY <2>1
  <1>10. Value(1) = a.name /\ Length = Width(contents)
    BY <1>2, <1>8, <1>9 DEF Value, Length, Unit
  <1>11. Kind = a.kind
    <2>1. pool[a.name] = Utf8(<<a.kind>>)
      BY DEF IsNamed
    <2>2. QED
      BY <1>10, <2>1 DEF Kind, KindAt, StringAt, Utf8
  <1>12. QED
    BY <1>6, <1>9, <1>10, <1>11 DEF q

\* An attribute is added, and more is left to read.
Added(a, more) ==
    /\ open' = [open EXCEPT ![Len(open)] = WithAttribute(Top, a)]
    /\ rest' = more
    /\ UNCHANGED <<fileVars, phase, left, pool, cf>>

\* n units behind the header are consumed.
LEMMA AddedBehind ==
  ASSUME NEW n \in Nat, NEW more \in Seq(Units), rest \in Seq(Units), Behind(rest, n, more),
         NEW a, AddAttribute(a, n)
  PROVE  Added(a, more)
  <1>1. SubSeq(rest, n + 1, Len(rest)) = more
    BY BehindLeft
  <1>2. rest' = SubSeq(rest, n + 1, Len(rest))
    BY DEF AddAttribute, Consume
  <1>3. QED
    BY <1>1, <1>2 DEF AddAttribute, Added

\* An attribute that is not Code is its name, numbers, rows and bytes.
LEMMA AttributeIs ==
  ASSUME NEW a \in Attributes, IsContent(a), a.kind # "Code"
  PROVE  /\ a = [kind |-> a.kind, name |-> a.name, fixed |-> a.fixed, rows |-> a.rows,
                 bytes |-> a.bytes, attributes |-> <<>>]
         /\ a.fixed \in Seq(Nat) /\ a.rows \in Seq(Seq(Nat)) /\ a.bytes \in Seq(STRING)
         /\ Len(a.fixed) \in Nat /\ Len(a.rows) \in Nat /\ Len(a.bytes) \in Nat
  <1>1. a.attributes = <<>>
    BY DEF IsContent
  <1>2. QED
    BY <1>1 DEF Attributes

\* A sequence of n units, the values of which are numbers.
LEMMA ValuesAre ==
  ASSUME NEW s \in Seq(Nat), NEW i \in Nat,
         \A j \in 1 .. Len(s) : rest[i + j].n = s[j]
  PROVE  Values(i + 1, Len(s)) = s
  <1>1. s = [k \in 1 .. Len(s) |-> s[k]]
    BY LenProperties
  <1>2. \A k \in 1 .. Len(s) : (i + 1) + k - 1 = i + k
    OBVIOUS
  <1>3. [k \in 1 .. Len(s) |-> rest[(i + 1) + k - 1].n] = [k \in 1 .. Len(s) |-> s[k]]
    BY <1>2
  <1>4. QED
    BY <1>1, <1>3 DEF Values

\* ParsePlain reads an attribute of numbers as the file has it.
LEMMA PlainRead ==
  ASSUME NEW a \in Attributes, IsNamed(a, pool), IsContent(a), a.kind # "Code",
         NEW more \in Seq(Units), rest = Then(WithHeader(a, Contents(a, <<>>)), more), ParsePlain
  PROVE  Added(KeptAlone(a), more)
  <1> DEFINE c == Contents(a, <<>>)
             n == Len(a.fixed)
  <1>1. c \in Seq(Units)
    <2>1. <<>> \in Seq(Units)
      OBVIOUS
    <2>2. QED
      BY <2>1, ContentsType
  <1>2. /\ Value(1) = a.name /\ Kind = a.kind /\ rest \in Seq(Units)
        /\ Behind(rest, 2, Then(c, more))
    BY <1>1, AttributeBegins
  <1>3. a.kind \in DOMAIN Plain
    BY <1>2 DEF ParsePlain
  <1>4. a.kind \in {"ConstantValue", "Deprecated", "Synthetic", "EnclosingMethod", "Signature",
                    "SourceFile"}
    BY <1>3 DEF Plain
  <1>5. Len(Plain[a.kind]) = n /\ a.rows = <<>> /\ a.bytes = <<>>
    <2>1. a.kind \in DOMAIN NumbersOf
      BY <1>4 DEF NumbersOf
    <2>2. Len(a.fixed) = NumbersOf[a.kind] /\ a.rows = <<>> /\ a.bytes = <<>>
      BY <2>1 DEF IsContent
    <2>3. Len(Plain[a.kind]) = NumbersOf[a.kind]
      <3>1. CASE a.kind = "ConstantValue"
        BY <3>1 DEF NumbersOf, Plain, ConstantValueAttribute
      <3>2. CASE a.kind \in {"Deprecated", "Synthetic"}
        BY <3>2 DEF NumbersOf, Plain, DeprecatedAttribute, SyntheticAttribute
      <3>3. CASE a.kind = "EnclosingMethod"
        BY <3>3 DEF NumbersOf, Plain, EnclosingMethodAttribute
      <3>4. CASE a.kind = "Signature"
        BY <3>4 DEF NumbersOf, Plain, SignatureAttribute
      <3>5. CASE a.kind = "SourceFile"
        BY <3>5 DEF NumbersOf, Plain, SourceFileAttribute
      <3>6. QED
        BY <1>4, <3>1, <3>2, <3>3, <3>4, <3>5
    <2>4. QED
      BY <2>2, <2>3
  <1>6. /\ a.fixed \in Seq(Nat) /\ n \in Nat
        /\ a = [kind |-> a.kind, name |-> a.name, fixed |-> a.fixed, rows |-> <<>>,
                bytes |-> <<>>, attributes |-> <<>>]
    BY <1>5, AttributeIs
  <1>7. c = EachU2(a.fixed)
    <2>1. c = EachU2(a.fixed) \o Block(a.bytes)
      BY <1>4 DEF Contents, TableKinds
    <2>2. Block(a.bytes) = <<>>
      BY <1>5 DEF Block
    <2>3. EachU2(a.fixed) \in Seq(Units)
      BY <1>6, EachU2Is
    <2>4. QED
      BY <2>1, <2>2, <2>3, ConcatEmptySeq
  <1>8. /\ Len(c) = n /\ \A i \in 1 .. n : c[i] = Unit(2, a.fixed[i])
    BY <1>6, <1>7, EachU2Is
  <1> HIDE DEF c
  <1>9. /\ \A j \in 1 .. Len(c) : rest[2 + j] = c[j]
        /\ Behind(rest, 2 + Len(c), more)
    BY <1>1, <1>2, BehindThen
  <1>10. Values(3, n) = a.fixed
    <2>1. ASSUME NEW j \in 1 .. n PROVE rest[2 + j].n = a.fixed[j]
      <3>1. rest[2 + j] = Unit(2, a.fixed[j])
        BY <1>8, <1>9
      <3>2. QED
        BY <3>1 DEF Unit
    <2>2. Values(2 + 1, n) = a.fixed
      BY <1>6, <2>1, ValuesAre
    <2>3. QED
      BY <2>2
  <1>11. AddAttribute([Attribute(a.kind, a.name) EXCEPT !.fixed = a.fixed], 2 + n)
    BY <1>2, <1>5, <1>10 DEF ParsePlain
  <1>12. KeptAlone(a) = a
    BY <1>4 DEF KeptAlone, Skipped
  <1>13. [Attribute(a.kind, a.name) EXCEPT !.fixed = a.fixed] = a
    BY <1>6 DEF Attribute
  <1>14. 2 + n \in Nat /\ Behind(rest, 2 + n, more)
    BY <1>6, <1>8, <1>9
  <1>15. QED
    BY <1>2, <1>11, <1>12, <1>13, <1>14, AddedBehind

\* Rows are read as they were written, and what follows is left.
LEMMA RowsRead ==
  ASSUME NEW L \in {1, 2, 4, 5}, NEW rows \in Seq(Seq(Nat)),
         \A k \in 1 .. Len(rows) : Len(rows[k]) = L,
         NEW i \in Nat, NEW more \in Seq(Units), Behind(rest, i, Then(Rows(rows), more)),
         NEW row, Len(row) = L
  PROVE  /\ RowsAt(i + 1, row, Len(rows)) = rows
         /\ Len(rows) * L \in Nat
         /\ Behind(rest, i + Len(rows) * L, more)
  <1> DEFINE n == Len(rows)
             r == Rows(rows)
  <1>1. /\ n \in Nat /\ n * L \in Nat /\ DOMAIN rows = 1 .. n
        /\ \A k \in 1 .. n : rows[k] \in Seq(Nat) /\ Len(rows[k]) = L
    BY SeqHas
  <1>2. r \in Seq(Units)
    BY RowsParts
  <1>3. Len(r) = n * L /\ \A k \in 1 .. n, j \in 1 .. L : r[(k - 1) * L + j] = Unit(2, rows[k][j])
    BY RowsAre
  <1> HIDE DEF n, r
  <1>4. /\ \A m \in 1 .. Len(r) : rest[i + m] = r[m]
        /\ Behind(rest, i + Len(r), more)
    <2>1. Behind(rest, i, Then(r, more))
      BY DEF r
    <2>2. QED
      BY <1>2, <2>1, BehindThen
  <1>5. ASSUME NEW k \in 1 .. n PROVE Values((i + 1) + (k - 1) * Len(row), Len(row)) = rows[k]
    <2> DEFINE d == (k - 1) * L
    <2>1. d \in Nat /\ d + L <= n * L
      <3>1. CASE L = 1
        BY <1>1, <3>1
      <3>2. CASE L = 2
        BY <1>1, <3>2
      <3>3. CASE L = 4
        BY <1>1, <3>3
      <3>4. CASE L = 5
        BY <1>1, <3>4
      <3>5. QED
        BY <3>1, <3>2, <3>3, <3>4
    <2>2. \A j \in 1 .. L : r[d + j] = Unit(2, rows[k][j])
      BY <1>3
    <2> HIDE DEF d
    <2>3. ASSUME NEW j \in 1 .. L PROVE rest[(i + d) + j].n = rows[k][j]
      <3>1. d + j \in 1 .. Len(r) /\ i + (d + j) = (i + d) + j
        <4>1. L \in Nat /\ i \in Nat /\ d \in Nat /\ j \in Nat /\ 1 <= j /\ j <= L
          BY <2>1
        <4> DEFINE t == n * L
        <4>2. d + L <= t /\ Len(r) = t /\ t \in Nat
          BY <1>1, <1>3, <2>1
        <4> HIDE DEF t
        <4>3. d + j \in 1 .. t
          BY <4>1, <4>2
        <4>4. QED
          BY <4>1, <4>2, <4>3
      <3>2. rest[(i + d) + j] = r[d + j]
        BY <1>4, <3>1
      <3>3. rest[(i + d) + j] = Unit(2, rows[k][j])
        BY <2>2, <3>2
      <3>4. QED
        BY <3>3 DEF Unit
    <2>4. i + d \in Nat /\ rows[k] \in Seq(Nat) /\ Len(rows[k]) = L
      BY <1>1, <2>1
    <2>5. Values((i + d) + 1, L) = rows[k]
      BY <2>3, <2>4, ValuesAre
    <2>6. (i + d) + 1 = (i + 1) + d
      BY <2>1
    <2>7. QED
      BY <2>5, <2>6 DEF d
  <1>6. RowsAt(i + 1, row, n) = rows
    <2>1. rows = [k \in 1 .. n |-> rows[k]]
      BY <1>1, LenProperties DEF n
    <2>2. RowsAt(i + 1, row, n) = [k \in 1 .. n |-> rows[k]]
      BY <1>5 DEF RowsAt
    <2>3. QED
      BY <2>1, <2>2
  <1>7. QED
    BY <1>1, <1>3, <1>4, <1>6 DEF n

\* ParseTable reads a table as the file has it.
LEMMA TableRead ==
  ASSUME NEW a \in Attributes, IsNamed(a, pool), IsContent(a), a.kind # "Code",
         NEW more \in Seq(Units), rest = Then(WithHeader(a, Contents(a, <<>>)), more), ParseTable
  PROVE  Added(KeptAlone(a), more)
  <1> DEFINE c == Contents(a, <<>>)
             n == Len(a.rows)
             L == Len(Tables[a.kind].row)
             head == IF a.kind = "MethodParameters" THEN U1(n) ELSE U2(n)
             r == Rows(a.rows)
  <1>1. c \in Seq(Units)
    <2>1. <<>> \in Seq(Units)
      OBVIOUS
    <2>2. QED
      BY <2>1, ContentsType
  <1>2. /\ Value(1) = a.name /\ Kind = a.kind /\ rest \in Seq(Units)
        /\ Behind(rest, 2, Then(c, more))
    BY <1>1, AttributeBegins
  <1>3. a.kind \in DOMAIN Tables
    BY <1>2 DEF ParseTable
  <1>4. a.kind \in {"Exceptions", "InnerClasses", "LineNumberTable", "LocalVariableTable",
                    "LocalVariableTypeTable", "MethodParameters"}
    BY <1>3 DEF Tables
  <1>5. /\ \A k \in 1 .. n : Len(a.rows[k]) = L
        /\ L \in {1, 2, 4, 5}
        /\ a.fixed = <<>> /\ a.bytes = <<>>
    <2>1. a.kind \in DOMAIN ColumnsOf
      BY <1>4 DEF ColumnsOf
    <2>2. a.rows \in Seq(Seq(Nat))
      BY DEF Attributes
    <2>3. (\A k \in 1 .. n : Len(a.rows[k]) = ColumnsOf[a.kind]) /\ a.fixed = <<>> /\ a.bytes = <<>>
      BY <2>1, <2>2 DEF IsContent, HasColumns
    <2>4. L = ColumnsOf[a.kind] /\ L \in {1, 2, 4, 5}
      <3>1. CASE a.kind = "Exceptions"
        BY <3>1 DEF ColumnsOf, Tables, ExceptionsAttribute
      <3>2. CASE a.kind = "InnerClasses"
        BY <3>2 DEF ColumnsOf, Tables, InnerClassesAttribute
      <3>3. CASE a.kind = "LineNumberTable"
        BY <3>3 DEF ColumnsOf, Tables, LineNumberTableAttribute
      <3>4. CASE a.kind = "LocalVariableTable"
        BY <3>4 DEF ColumnsOf, Tables, LocalVariableTableAttribute
      <3>5. CASE a.kind = "LocalVariableTypeTable"
        BY <3>5 DEF ColumnsOf, Tables, LocalVariableTypeTableAttribute
      <3>6. CASE a.kind = "MethodParameters"
        BY <3>6 DEF ColumnsOf, Tables, MethodParametersAttribute
      <3>7. QED
        BY <1>4, <3>1, <3>2, <3>3, <3>4, <3>5, <3>6
    <2>5. QED
      BY <2>3, <2>4
  <1>6. /\ a.rows \in Seq(Seq(Nat)) /\ n \in Nat
        /\ a = [kind |-> a.kind, name |-> a.name, fixed |-> <<>>, rows |-> a.rows,
                bytes |-> <<>>, attributes |-> <<>>]
    BY <1>5, AttributeIs
  <1>7. c = Then(head, r)
    BY <1>4 DEF Contents, TableKinds, Then
  <1>8. /\ head \in Seq(Units) /\ Len(head) = 1 /\ head[1].n = n
        /\ r \in Seq(Units)
    <2>1. /\ head \in Seq(Units) /\ Len(head) = 1
          /\ head[1] = Unit(1, n) \/ head[1] = Unit(2, n)
      BY <1>6, UnitIs
    <2>2. r \in Seq(Units)
      BY <1>6, RowsParts
    <2>3. QED
      BY <2>1, <2>2 DEF Unit
  <1> HIDE DEF c, head, n, r, L
  <1>9. Then(r, more) \in Seq(Units) /\ Then(c, more) = Then(head, Then(r, more))
    BY <1>7, <1>8, ThenType, ThenAssociates
  <1>10. rest[3].n = n /\ Behind(rest, 3, Then(r, more))
    <2>1. Behind(rest, 2, Then(head, Then(r, more)))
      BY <1>2, <1>9
    <2>2. rest[2 + 1] = head[1] /\ Behind(rest, 2 + 1, Then(r, more))
      BY <1>8, <1>9, <2>1, BehindOne
    <2>3. QED
      BY <1>8, <2>2
  <1>11. RowsAt(4, Tables[a.kind].row, n) = a.rows /\ 3 + n * L \in Nat /\ Behind(rest, 3 + n * L, more)
    <2>1. Len(Tables[a.kind].row) = L
      BY DEF L
    <2>2. /\ RowsAt(3 + 1, Tables[a.kind].row, n) = a.rows
          /\ n * L \in Nat
          /\ Behind(rest, 3 + n * L, more)
      BY <1>5, <1>6, <1>10, <2>1, RowsRead DEF n, r
    <2>3. QED
      BY <2>2
  <1>12. AddAttribute([Attribute(a.kind, a.name) EXCEPT !.rows = a.rows], 3 + n * L)
    BY <1>2, <1>10, <1>11 DEF ParseTable, Value, L
  <1>13. KeptAlone(a) = a
    BY <1>4 DEF KeptAlone, Skipped
  <1>14. [Attribute(a.kind, a.name) EXCEPT !.rows = a.rows] = a
    BY <1>6 DEF Attribute
  <1>15. QED
    BY <1>2, <1>11, <1>12, <1>13, <1>14, AddedBehind

\* A block is as wide as its bytes are many.
LEMMA WidthOfBlock ==
  ASSUME NEW b \in Seq(STRING)
  PROVE  Width(Block(b)) = Len(b)
  <1>1. CASE b = <<>>
    <2>1. Block(b) = <<>> /\ Len(b) = 0
      BY <1>1 DEF Block
    <2>2. QED
      BY <2>1, WidthEmpty
  <1>2. CASE b # <<>>
    <2> DEFINE u == [w |-> Len(b), n |-> 0, bytes |-> b]
    <2>1. Len(b) \in Nat \ {0}
      BY <1>2
    <2>2. u \in Units /\ u.w = Len(b)
      BY <2>1 DEF Units
    <2>3. Block(b) = Append(<<>>, u)
      BY <1>2 DEF Block
    <2>4. <<>> \in Seq(Units)
      OBVIOUS
    <2> HIDE DEF u
    <2>5. Width(Append(<<>>, u)) = Width(<<>>) + u.w
      BY <2>2, <2>4, WidthAppend
    <2>6. QED
      BY <2>1, <2>2, <2>3, <2>5, WidthEmpty
  <1>3. QED
    BY <1>1, <1>2

\* A block is read, if there is one.
LEMMA BlockRead ==
  ASSUME NEW b \in Seq(STRING), NEW i \in Nat, NEW more \in Seq(Units),
         Behind(rest, i, Then(Block(b), more))
  PROVE  /\ BlockAt(i + 1, Len(b)) = b
         /\ BlockUnits(Len(b)) \in {0, 1}
         /\ Behind(rest, i + BlockUnits(Len(b)), more)
  <1>1. CASE b = <<>>
    <2>1. Block(b) = <<>> /\ Len(b) = 0
      BY <1>1 DEF Block
    <2>2. Then(Block(b), more) = more
      BY <2>1, ThenEmpty
    <2>3. Behind(rest, i, more)
      BY <2>2
    <2>4. BlockUnits(Len(b)) = 0 /\ BlockAt(i + 1, Len(b)) = <<>> /\ i + 0 = i
      BY <2>1 DEF BlockUnits, BlockAt
    <2>5. QED
      BY <1>1, <2>3, <2>4
  <1>2. CASE b # <<>>
    <2>1. /\ Block(b) \in Seq(Units) /\ Len(Block(b)) = 1
          /\ Block(b)[1] = [w |-> Len(b), n |-> 0, bytes |-> b] /\ Len(b) \in Nat \ {0}
      BY <1>2, BlockIs
    <2>2. rest[i + 1] = Block(b)[1] /\ Behind(rest, i + 1, more)
      BY <2>1, BehindOne
    <2>3. BlockUnits(Len(b)) = 1 /\ BlockAt(i + 1, Len(b)) = rest[i + 1].bytes
      BY <2>1 DEF BlockUnits, BlockAt
    <2>4. QED
      BY <2>1, <2>2, <2>3
  <1>3. QED
    BY <1>1, <1>2

\* ParseByteStream keeps the bytes of the attribute.
LEMMA BytesRead ==
  ASSUME NEW a \in Attributes, IsNamed(a, pool), IsContent(a), a.kind # "Code",
         NEW more \in Seq(Units), rest = Then(WithHeader(a, Contents(a, <<>>)), more),
         ParseByteStream
  PROVE  Added(KeptAlone(a), more)
  <1> DEFINE c == Contents(a, <<>>)
  <1>1. c \in Seq(Units)
    <2>1. <<>> \in Seq(Units)
      OBVIOUS
    <2>2. QED
      BY <2>1, ContentsType
  <1>2. /\ Value(1) = a.name /\ Kind = a.kind /\ rest \in Seq(Units)
        /\ Length = Width(c) /\ Behind(rest, 2, Then(c, more))
    BY <1>1, AttributeBegins
  <1>3. a.kind \in ByteStreams
    BY <1>2 DEF ParseByteStream
  <1>4. a.fixed = <<>> /\ a.rows = <<>>
    BY <1>3 DEF IsContent, AnnotationKinds, ByteStreams
  <1>5. /\ a.bytes \in Seq(STRING)
        /\ a = [kind |-> a.kind, name |-> a.name, fixed |-> <<>>, rows |-> <<>>,
                bytes |-> a.bytes, attributes |-> <<>>]
    BY <1>4, AttributeIs
  <1>6. c = Block(a.bytes)
    <2>1. c = EachU2(a.fixed) \o Block(a.bytes)
      BY <1>3 DEF Contents, TableKinds, ByteStreams
    <2>2. EachU2(a.fixed) = <<>>
      BY <1>4 DEF EachU2
    <2>3. Block(a.bytes) \in Seq(Units)
      BY <1>5, BlockIs
    <2>4. QED
      BY <2>1, <2>2, <2>3, ConcatEmptySeq
  <1> DEFINE l == Len(a.bytes)
  <1>7. Length = l
    BY <1>2, <1>5, <1>6, WidthOfBlock
  <1>8. /\ BlockAt(2 + 1, l) = a.bytes
        /\ BlockUnits(l) \in {0, 1}
        /\ Behind(rest, 2 + BlockUnits(l), more)
    BY <1>2, <1>5, <1>6, BlockRead
  <1> HIDE DEF c, l
  <1>9. BlockAt(3, l) = a.bytes
    BY <1>8
  <1>10. AddAttribute([Attribute(a.kind, a.name) EXCEPT !.bytes = a.bytes], 2 + BlockUnits(l))
    BY <1>2, <1>7, <1>9 DEF ParseByteStream
  <1>11. KeptAlone(a) = a
    BY <1>3 DEF KeptAlone, Skipped, ByteStreams
  <1>12. [Attribute(a.kind, a.name) EXCEPT !.bytes = a.bytes] = a
    BY <1>5 DEF Attribute
  <1>13. 2 + BlockUnits(l) \in Nat
    BY <1>8
  <1>14. QED
    BY <1>2, <1>8, <1>10, <1>11, <1>12, <1>13, AddedBehind

\* The units a length covers are those of the contents.
LEMMA UnitsInAre ==
  ASSUME NEW c \in Seq(Units), NEW more \in Seq(Units), rest \in Seq(Units),
         Behind(rest, 2, Then(c, more))
  PROVE  UnitsIn(3, Width(c)) = Len(c) /\ Behind(rest, 2 + Len(c), more)
  <1> DEFINE n == Len(c)
             W(m) == Width(SubSeq(rest, 3, 3 + m - 1))
  <1>1. n \in Nat /\ Len(rest) \in Nat
    OBVIOUS
  <1>2. /\ \A j \in 1 .. n : rest[2 + j] = c[j]
        /\ Behind(rest, 2 + n, more)
    BY BehindThen
  <1>3. n <= Len(rest) - 2 /\ 3 \in 1 .. Len(rest) + 1
    BY <1>1, <1>2 DEF Behind
  <1>4. SubSeq(rest, 3, 3 + n - 1) = c
    <2> DEFINE s == SubSeq(rest, 3, 3 + n - 1)
    <2>1. \A j \in 3 .. 3 + n - 1 : rest[j] \in Units
      BY <1>1, <1>3
    <2>2. 3 \in Int /\ 3 + n - 1 \in Int /\ (3 + n - 1) - 3 + 1 = n
      BY <1>1
    <2>3. /\ s \in Seq(Units) /\ Len(s) = IF 3 <= 3 + n - 1 THEN (3 + n - 1) - 3 + 1 ELSE 0
          /\ \A j \in 1 .. (3 + n - 1) - 3 + 1 : s[j] = rest[3 + j - 1]
      BY <2>1, <2>2, SubSeqProperties
    <2> HIDE DEF s
    <2>4. Len(s) = n
      BY <1>1, <2>3
    <2>5. ASSUME NEW j \in 1 .. n PROVE s[j] = c[j]
      <3>1. 3 + j - 1 = 2 + j /\ j \in 1 .. (3 + n - 1) - 3 + 1
        BY <1>1
      <3>2. QED
        BY <1>2, <2>3, <3>1
    <2>6. s = c
      BY <2>3, <2>4, <2>5, SeqEqual
    <2>7. QED
      BY <2>6 DEF s
  <1>5. n \in 0 .. Len(rest) - 3 + 1 /\ W(n) = Width(c)
    <2>1. W(n) = Width(c)
      BY <1>4
    <2> HIDE DEF W, n
    <2>2. QED
      BY <1>1, <1>3, <2>1
  <1>6. ASSUME NEW m \in 0 .. Len(rest) - 3 + 1, W(m) = Width(c) PROVE m = n
    <2>1. m \in Nat /\ m <= Len(rest) - 3 + 1 /\ n <= Len(rest) - 3 + 1 /\ Width(c) \in Nat
      BY <1>1, <1>3, WidthType
    <2>2. CASE m < n
      <3>1. W(m) < W(n)
        BY <1>1, <1>3, <2>1, <2>2, WidthGrows
      <3> HIDE DEF W
      <3>2. QED
        BY <1>5, <1>6, <2>1, <3>1
    <2>3. CASE n < m
      <3>1. W(n) < W(m)
        BY <1>1, <1>3, <2>1, <2>3, WidthGrows
      <3> HIDE DEF W
      <3>2. QED
        BY <1>5, <1>6, <2>1, <3>1
    <2>4. QED
      BY <1>1, <2>1, <2>2, <2>3
  <1>7. UnitsIn(3, Width(c)) = n
    <2>1. UnitsIn(3, Width(c)) = CHOOSE m \in 0 .. Len(rest) - 3 + 1 : W(m) = Width(c)
      BY DEF UnitsIn
    <2> HIDE DEF W, n
    <2>2. QED
      BY <1>5, <1>6, <2>1
  <1>8. QED
    BY <1>2, <1>7

\* SkipAttribute skips what the attribute contains and no more.
LEMMA SkipRead ==
  ASSUME NEW a \in Attributes, IsNamed(a, pool), IsContent(a), a.kind # "Code",
         NEW more \in Seq(Units), rest = Then(WithHeader(a, Contents(a, <<>>)), more),
         SkipAttribute
  PROVE  Added(KeptAlone(a), more)
  <1> DEFINE c == Contents(a, <<>>)
  <1>1. c \in Seq(Units) /\ Len(c) \in Nat
    <2>1. <<>> \in Seq(Units)
      OBVIOUS
    <2>2. c \in Seq(Units)
      BY <2>1, ContentsType
    <2> HIDE DEF c
    <2>3. QED
      BY <2>2
  <1>2. /\ Value(1) = a.name /\ Kind = a.kind /\ rest \in Seq(Units)
        /\ Length = Width(c) /\ Behind(rest, 2, Then(c, more))
    BY <1>1, AttributeBegins
  <1> HIDE DEF c
  <1>3. UnitsIn(3, Length) = Len(c) /\ Behind(rest, 2 + Len(c), more)
    BY <1>1, <1>2, UnitsInAre
  <1>4. a.kind \in Skipped /\ AddAttribute(Attribute(a.kind, a.name), 2 + Len(c))
    BY <1>2, <1>3 DEF SkipAttribute
  <1>5. KeptAlone(a) = Attribute(a.kind, a.name)
    BY <1>4 DEF KeptAlone
  <1>6. 2 + Len(c) \in Nat
    BY <1>1
  <1>7. QED
    BY <1>2, <1>3, <1>4, <1>5, <1>6, AddedBehind

\* BootstrapMethodsAt(i, n) counts on from one method to the next.
IsBegin(f, i, n) ==
    f = [k \in 1 .. n + 1 |->
            IF k = 1 THEN i ELSE f[k - 1] + 2 + Value(f[k - 1] + 1)]

\* The function that counts on from method to method exists.
LEMMA BeginExists ==
  ASSUME NEW i, NEW n \in Nat
  PROVE  \E f : IsBegin(f, i, n)
  <1> DEFINE S == {m \in Nat : \E f : IsBegin(f, i, m)}
  <1>1. 0 \in S
    <2> DEFINE g == [k \in 1 .. 0 + 1 |-> i]
    <2>1. \A k \in 1 .. 0 + 1 : k = 1
      OBVIOUS
    <2>2. g = [k \in 1 .. 0 + 1 |-> IF k = 1 THEN i ELSE g[k - 1] + 2 + Value(g[k - 1] + 1)]
      BY <2>1
    <2>3. IsBegin(g, i, 0)
      BY <2>2, Zenon DEF IsBegin
    <2>4. QED
      BY <2>3
  <1>2. ASSUME NEW m \in Nat, m \in S PROVE m + 1 \in S
    <2>1. PICK f : IsBegin(f, i, m)
      BY <1>2
    <2> DEFINE last == f[m + 1] + 2 + Value(f[m + 1] + 1)
               g == [k \in 1 .. (m + 1) + 1 |-> IF k <= m + 1 THEN f[k] ELSE last]
    <2>2. ASSUME NEW k \in 1 .. (m + 1) + 1
          PROVE  g[k] = IF k = 1 THEN i ELSE g[k - 1] + 2 + Value(g[k - 1] + 1)
      <3>1. CASE k = (m + 1) + 1
        <4>1. g[k] = last /\ k # 1 /\ g[k - 1] = f[m + 1]
          BY <3>1
        <4> HIDE DEF g
        <4>2. QED
          BY <4>1
      <3>2. CASE k <= m + 1
        <4>1. k \in 1 .. m + 1 /\ g[k] = f[k]
          BY <3>2
        <4>2. k # 1 => g[k - 1] = f[k - 1]
          BY <3>2
        <4>3. f[k] = IF k = 1 THEN i ELSE f[k - 1] + 2 + Value(f[k - 1] + 1)
          BY <2>1, <4>1 DEF IsBegin
        <4> HIDE DEF g
        <4>4. QED
          BY <4>1, <4>2, <4>3
      <3>3. QED
        BY <3>1, <3>2
    <2>3. g = [k \in 1 .. (m + 1) + 1 |-> g[k]]
      OBVIOUS
    <2> HIDE DEF g
    <2>4. IsBegin(g, i, m + 1)
      BY <2>2, <2>3 DEF IsBegin
    <2>5. QED
      BY <2>4
  <1> HIDE DEF S
  <1>3. n \in S
    BY <1>1, <1>2, Induction
  <1>4. QED
    BY <1>3 DEF S

\* BootstrapMethodsAt is that function.
LEMMA BeginsAre ==
  ASSUME NEW i, NEW n \in Nat
  PROVE  IsBegin(BootstrapMethodsAt(i, n), i, n)
  <1> DEFINE f == CHOOSE g : g = [k \in 1 .. n + 1 |->
                      IF k = 1 THEN i ELSE g[k - 1] + 2 + Value(g[k - 1] + 1)]
  <1>1. \E g : g = [k \in 1 .. n + 1 |-> IF k = 1 THEN i ELSE g[k - 1] + 2 + Value(g[k - 1] + 1)]
    <2>1. PICK g : IsBegin(g, i, n)
      BY BeginExists
    <2>2. g = [k \in 1 .. n + 1 |-> IF k = 1 THEN i ELSE g[k - 1] + 2 + Value(g[k - 1] + 1)]
      BY <2>1 DEF IsBegin
    <2>3. QED
      BY <2>2
  <1>2. f = [k \in 1 .. n + 1 |-> IF k = 1 THEN i ELSE f[k - 1] + 2 + Value(f[k - 1] + 1)]
    BY <1>1, Zenon
  <1>3. BootstrapMethodsAt(i, n) = f
    BY DEF BootstrapMethodsAt
  <1> HIDE DEF f
  <1>4. QED
    BY <1>2, <1>3, Zenon DEF IsBegin

\* ParseBootstrapMethods reads every method with its arguments.
LEMMA MethodsRead ==
  ASSUME NEW a \in Attributes, IsNamed(a, pool), IsContent(a), a.kind # "Code",
         NEW more \in Seq(Units), rest = Then(WithHeader(a, Contents(a, <<>>)), more),
         ParseBootstrapMethods
  PROVE  Added(KeptAlone(a), more)
  <1> DEFINE c == Contents(a, <<>>)
             rows == a.rows
             n == Len(rows)
             parts == MethodParts(rows)
             begin == BootstrapMethodsAt(4, n)
  <1>1. c \in Seq(Units)
    <2>1. <<>> \in Seq(Units)
      OBVIOUS
    <2>2. QED
      BY <2>1, ContentsType
  <1>2. /\ Value(1) = a.name /\ Kind = a.kind /\ rest \in Seq(Units)
        /\ Behind(rest, 2, Then(c, more))
    BY <1>1, AttributeBegins
  <1>3. a.kind = "BootstrapMethods"
    BY <1>2 DEF ParseBootstrapMethods
  <1>4. /\ rows \in Seq(Seq(Nat)) /\ n \in Nat
        /\ \A k \in 1 .. n : rows[k] \in Seq(Nat) /\ rows[k] # <<>>
        /\ a = [kind |-> a.kind, name |-> a.name, fixed |-> <<>>, rows |-> rows,
                bytes |-> <<>>, attributes |-> <<>>]
    <2>1. /\ \A k \in DOMAIN rows : rows[k] # <<>>
          /\ a.fixed = <<>> /\ a.bytes = <<>>
      BY <1>3 DEF IsContent
    <2>2. rows \in Seq(Seq(Nat))
      BY DEF Attributes
    <2>3. n \in Nat /\ DOMAIN rows = 1 .. n /\ \A k \in 1 .. n : rows[k] \in Seq(Nat)
      BY <2>2, SeqHas, Zenon
    <2>4. a = [kind |-> a.kind, name |-> a.name, fixed |-> <<>>, rows |-> rows,
               bytes |-> <<>>, attributes |-> <<>>]
      BY <2>1, AttributeIs
    <2>5. QED
      BY <2>1, <2>2, <2>3, <2>4, Zenon
  <1>5. /\ parts \in Seq(Seq(Units)) /\ Len(parts) = n
        /\ \A k \in 1 .. n : parts[k] = MethodPart(rows[k])
    BY <1>4, MethodPartsAre
  <1>6. c = Then(U2(n), Rest(parts, 1))
    <2>1. c = List(parts)
      BY <1>3 DEF Contents, MethodParts, MethodPart, TableKinds
    <2>2. Rest(parts, 1) = FlattenSeq(parts)
      BY <1>5, RestAll
    <2>3. QED
      BY <1>5, <2>1, <2>2, Zenon DEF List, Then
  <1> HIDE DEF c, rows, parts, begin, n
  <1>7. rest[3].n = n /\ Behind(rest, 3, Then(Rest(parts, 1), more))
    <2> DEFINE u == U2(n)
               q == Rest(parts, 1)
    <2>1. u \in Seq(Units) /\ Len(u) = 1 /\ u[1] = Unit(2, n)
      BY <1>4, UnitIs
    <2>2. q \in Seq(Units)
      <3>1. 1 \in 1 .. Len(parts) + 1
        BY <1>4, <1>5
      <3>2. QED
        BY <1>5, <3>1, RestType
    <2> HIDE DEF u, q
    <2>3. Then(q, more) \in Seq(Units) /\ Then(c, more) = Then(u, Then(q, more))
      BY <1>6, <2>1, <2>2, ThenType, ThenAssociates DEF u, q
    <2>4. Behind(rest, 2, Then(u, Then(q, more)))
      BY <1>2, <2>3
    <2>5. rest[2 + 1] = u[1] /\ Behind(rest, 2 + 1, Then(q, more))
      BY <2>1, <2>3, <2>4, BehindOne
    <2>6. QED
      BY <2>1, <2>5 DEF Unit, q
  <1>8. Value(3) = n
    BY <1>7 DEF Value
  <1>9. /\ begin[1] = 4
        /\ \A k \in 1 .. n : begin[k + 1] = begin[k] + 2 + Value(begin[k] + 1)
    <2>1. begin = [k \in 1 .. n + 1 |->
                      IF k = 1 THEN 4 ELSE begin[k - 1] + 2 + Value(begin[k - 1] + 1)]
      BY <1>4, BeginsAre, Zenon DEF IsBegin, begin
    <2>2. 1 \in 1 .. n + 1
      BY <1>4
    <2>3. ASSUME NEW k \in 1 .. n PROVE begin[k + 1] = begin[k] + 2 + Value(begin[k] + 1)
      <3>1. k + 1 \in 1 .. n + 1 /\ k + 1 # 1 /\ (k + 1) - 1 = k
        BY <1>4
      <3>2. QED
        BY <2>1, <3>1
    <2>4. QED
      BY <2>1, <2>2, <2>3
  \* Each method is read where it begins.
  <1> DEFINE At(k) == begin[k] \in Nat \ {0}
                      /\ Behind(rest, begin[k] - 1, Then(Rest(parts, k), more))
             Row(k) == Values(begin[k], 1) \o Values(begin[k] + 2, Value(begin[k] + 1))
  <1>10. ASSUME NEW k \in 1 .. n, At(k)
         PROVE  At(k + 1) /\ Row(k) = rows[k]
    <2> DEFINE b == begin[k] - 1
               row == rows[k]
               p == parts[k]
               q == Rest(parts, k + 1)
               m == Len(row) - 1
    <2>1. b \in Nat /\ begin[k] = b + 1 /\ Behind(rest, b, Then(Rest(parts, k), more))
      BY <1>10
    <2>2. /\ p \in Seq(Units) /\ q \in Seq(Units) /\ Rest(parts, k) = Then(p, q)
      <3>1. k \in 1 .. Len(parts) /\ k + 1 \in 1 .. Len(parts) + 1
        BY <1>4, <1>5
      <3>2. Rest(parts, k) = parts[k] \o Rest(parts, k + 1)
        BY <1>5, <3>1, RestStep
      <3>3. parts[k] \in Seq(Units) /\ Rest(parts, k + 1) \in Seq(Units)
        BY <1>5, <3>1, RestType
      <3>4. QED
        BY <3>2, <3>3, Zenon DEF Then
    <2>3. /\ row \in Seq(Nat) /\ row # <<>> /\ Len(row) = m + 1 /\ m \in Nat
          /\ Tail(row) \in Seq(Nat) /\ Len(Tail(row)) = m
          /\ \A j \in 1 .. m : Tail(row)[j] = row[j + 1]
      <3>1. row \in Seq(Nat) /\ row # <<>>
        BY <1>4
      <3> HIDE DEF row
      <3>2. QED
        BY <3>1, TailIs
    <2> HIDE DEF m
    <2>4. /\ Len(p) = m + 2 /\ p[1].n = row[1] /\ p[2].n = m
          /\ \A j \in 1 .. m : p[2 + j].n = row[j + 1]
      <3>1. /\ Len(p) = Len(row) + 1
            /\ p[1] = Unit(2, row[1]) /\ p[2] = Unit(2, Len(row) - 1)
            /\ \A j \in 2 .. Len(row) : p[j + 1] = Unit(2, row[j])
        <4>1. p = MethodPart(row)
          BY <1>5
        <4> HIDE DEF p, row
        <4>2. QED
          BY <2>3, <4>1, MethodPartIs
      <3> HIDE DEF p, row
      <3>2. ASSUME NEW j \in 1 .. m PROVE p[2 + j].n = row[j + 1]
        <4>1. j + 1 \in 2 .. Len(row) /\ (j + 1) + 1 = 2 + j
          BY <2>3
        <4>2. p[2 + j] = Unit(2, row[j + 1])
          BY <3>1, <4>1
        <4>3. QED
          BY <4>2 DEF Unit
      <3>3. p[1].n = row[1] /\ p[2].n = Len(row) - 1
        BY <3>1 DEF Unit
      <3>4. QED
        BY <2>3, <3>1, <3>2, <3>3
    <2> HIDE DEF b, p, q, row
    <2>5. /\ \A j \in 1 .. Len(p) : rest[b + j] = p[j]
          /\ Behind(rest, b + Len(p), Then(q, more))
      <3>1. Then(q, more) \in Seq(Units) /\ Then(Then(p, q), more) = Then(p, Then(q, more))
        BY <2>2, ThenType, ThenAssociates
      <3>2. Behind(rest, b, Then(p, Then(q, more)))
        BY <2>1, <2>2, <3>1
      <3>3. QED
        BY <2>2, <3>1, <3>2, BehindThen
    <2>6. rest[b + 1].n = row[1] /\ rest[b + 2].n = m
      BY <2>3, <2>4, <2>5
    <2>7. Value(begin[k] + 1) = m
      BY <2>1, <2>6 DEF Value
    <2>8. begin[k + 1] = b + (m + 2) + 1
      BY <1>9, <2>1, <2>3, <2>7
    <2>9. At(k + 1)
      <3>1. Behind(rest, b + (m + 2), Then(q, more))
        BY <2>4, <2>5
      <3>2. begin[k + 1] \in Nat \ {0} /\ begin[k + 1] - 1 = b + (m + 2)
        BY <2>1, <2>3, <2>8
      <3>3. QED
        BY <3>1, <3>2 DEF q
    <2>10. Values(begin[k], 1) = <<row[1]>>
      BY <2>1, <2>6 DEF Values
    <2>11. Values(begin[k] + 2, m) = Tail(row)
      <3>1. ASSUME NEW j \in 1 .. m PROVE rest[(b + 2) + j].n = Tail(row)[j]
        <4>1. 2 + j \in 1 .. Len(p) /\ b + (2 + j) = (b + 2) + j
          BY <2>1, <2>3, <2>4
        <4>2. rest[(b + 2) + j] = p[2 + j]
          BY <2>5, <4>1
        <4>3. QED
          BY <2>3, <2>4, <4>2
      <3>2. b + 2 \in Nat /\ (b + 2) + 1 = begin[k] + 2
        BY <2>1
      <3>3. Values((b + 2) + 1, m) = Tail(row)
        BY <2>3, <3>1, <3>2, ValuesAre
      <3>4. QED
        BY <3>2, <3>3
    <2>12. <<row[1]>> \o Tail(row) = row
      <3>1. row[1] = Head(row)
        BY <2>3
      <3>2. QED
        BY <2>3, <3>1, HeadTailProperties
    <2>13. Row(k) = row
      BY <2>7, <2>10, <2>11, <2>12
    <2>14. QED
      BY <2>9, <2>13 DEF row
  <1> HIDE DEF At, Row
  <1> DEFINE S == {k \in Nat : k + 1 \in 1 .. n + 1 => At(k + 1)}
  <1>11. 0 \in S
    BY <1>7, <1>9 DEF At
  <1>12. ASSUME NEW k \in Nat, k \in S PROVE k + 1 \in S
    <2> DEFINE j == k + 1
    <2> SUFFICES ASSUME j + 1 \in 1 .. n + 1 PROVE At(j + 1)
      OBVIOUS
    <2>1. j \in 1 .. n /\ j \in 1 .. n + 1
      BY <1>4
    <2>2. At(j)
      BY <1>12, <2>1
    <2> HIDE DEF j, S
    <2>3. QED
      BY <1>10, <2>1, <2>2
  <1> HIDE DEF S
  <1>13. Nat \subseteq S
    BY <1>11, <1>12, Induction
  <1>14. \A k \in 1 .. n + 1 : At(k)
    <2> SUFFICES ASSUME NEW k \in 1 .. n + 1 PROVE At(k)
      OBVIOUS
    <2> DEFINE j == k - 1
    <2>1. j \in Nat /\ j + 1 = k
      BY <1>4
    <2> HIDE DEF j
    <2>2. j \in S
      BY <1>13, <2>1
    <2>3. QED
      BY <2>1, <2>2 DEF S
  <1>15. [k \in 1 .. n |-> Row(k)] = rows
    <2>1. rows = [k \in 1 .. n |-> rows[k]]
      BY <1>4, LenProperties DEF n
    <2>2. \A k \in 1 .. n : k \in 1 .. n + 1
      BY <1>4
    <2>3. \A k \in 1 .. n : Row(k) = rows[k]
      BY <1>10, <1>14, <2>2
    <2>4. [k \in 1 .. n |-> Row(k)] = [k \in 1 .. n |-> rows[k]]
      BY <2>3
    <2>5. QED
      BY <2>1, <2>4
  <1> DEFINE units == begin[n + 1] - 1
  <1>16. units \in Nat /\ Behind(rest, units, more)
    <2>1. At(n + 1)
      <3>1. n + 1 \in 1 .. n + 1
        BY <1>4
      <3>2. QED
        BY <1>14, <3>1
    <2>2. Rest(parts, n + 1) = <<>>
      BY <1>5, RestEnd
    <2>3. Then(<<>>, more) = more
      BY ThenEmpty
    <2>4. QED
      BY <2>1, <2>2, <2>3 DEF At
  <1>17. AddAttribute([Attribute(a.kind, a.name) EXCEPT !.rows = rows], units)
    BY <1>2, <1>8, <1>15 DEF ParseBootstrapMethods, begin, Row
  <1>18. KeptAlone(a) = a
    BY <1>3 DEF KeptAlone, Skipped
  <1>19. [Attribute(a.kind, a.name) EXCEPT !.rows = rows] = a
    BY <1>4 DEF Attribute
  <1> HIDE DEF units
  <1>20. QED
    BY <1>2, <1>16, <1>17, <1>18, <1>19, AddedBehind

-----------------------------------------------------------------------------
(* The constant pool *)

ArePool(p) == p \in Seq(Constants) /\ \A i \in DOMAIN p : IsConstant(p, i)
ConstantParts(p) == [i \in DOMAIN p |-> ConstantLayout(p[i])]

\* What a pool of constants has.
LEMMA PoolHas ==
  ASSUME NEW p, ArePool(p)
  PROVE  /\ Len(p) \in Nat /\ DOMAIN p = 1 .. Len(p)
         /\ \A i \in 1 .. Len(p) :
                /\ p[i] \in Constants /\ IsConstant(p, i)
                /\ p[i].tag \in Nat /\ p[i].fixed \in Seq(Nat) /\ p[i].bytes \in Seq(STRING)
  <1>1. p \in Seq(Constants)
    BY DEF ArePool
  <1>2. Len(p) \in Nat /\ DOMAIN p = 1 .. Len(p) /\ \A i \in 1 .. Len(p) : p[i] \in Constants
    BY <1>1, SeqHas, Zenon
  <1>3. \A i \in 1 .. Len(p) : IsConstant(p, i)
    BY <1>2 DEF ArePool
  <1>4. \A i \in 1 .. Len(p) :
            p[i].tag \in Nat /\ p[i].fixed \in Seq(Nat) /\ p[i].bytes \in Seq(STRING)
    BY <1>2 DEF Constants
  <1>5. QED
    BY <1>2, <1>3, <1>4

\* The parser reads as many numbers of a constant as the format has.
LEMMA ItemIs ==
  ASSUME NEW tag \in (3 .. 12) \cup (15 .. 18)
  PROVE  /\ Len(Item(tag)) \in Nat
         /\ \A i \in 1 .. Len(Item(tag)) : Item(tag)[i] \in Nat \ {0}
         /\ tag \in Tags => Len(ConstantInfo(tag)) = Len(Item(tag))
  <1>1. CASE tag = 3
    BY <1>1 DEF Item, Tags, ConstantInfo, ConstantNumberInfo
  <1>2. CASE tag = 4
    BY <1>2 DEF Item, Tags, ConstantInfo, ConstantNumberInfo
  <1>3. CASE tag = 5
    BY <1>3 DEF Item, Tags, ConstantInfo, ConstantWideNumberInfo
  <1>4. CASE tag = 6
    BY <1>4 DEF Item, Tags, ConstantInfo, ConstantWideNumberInfo
  <1>5. CASE tag = 7
    BY <1>5 DEF Item, Tags, ConstantInfo, Constant1IndexInfo
  <1>6. CASE tag = 8
    BY <1>6 DEF Item, Tags, ConstantInfo, Constant1IndexInfo
  <1>7. CASE tag = 9
    BY <1>7 DEF Item, Tags, ConstantInfo, ConstantClassNameTypeIndexInfo
  <1>8. CASE tag = 10
    BY <1>8 DEF Item, Tags, ConstantInfo, ConstantClassNameTypeIndexInfo
  <1>9. CASE tag = 11
    BY <1>9 DEF Item, Tags, ConstantInfo, ConstantClassNameTypeIndexInfo
  <1>10. CASE tag = 12
    BY <1>10 DEF Item, Tags, ConstantInfo, ConstantNameAndTypeInfo
  <1>11. CASE tag = 15
    BY <1>11 DEF Item, Tags, ConstantInfo, ConstantMethodHandleInfo
  <1>12. CASE tag = 16
    BY <1>12 DEF Item, Tags, ConstantInfo, ConstantMethodTypeInfo
  <1>13. CASE tag = 17
    BY <1>13 DEF Item, Tags
  <1>14. CASE tag = 18
    BY <1>14 DEF Item, Tags, ConstantInfo, ConstantInvokeDynamicInfo
  <1>15. tag \in {3, 4, 5, 6, 7, 8, 9, 10, 11, 12, 15, 16, 17, 18}
    OBVIOUS
  <1>16. QED
    BY <1>1, <1>2, <1>3, <1>4, <1>5, <1>6, <1>7, <1>8, <1>9, <1>10, <1>11, <1>12, <1>13, <1>14, <1>15

\* The items of a constant that is no text.
Items(c) == [i \in DOMAIN c.fixed |-> Unit(Item(c.tag)[i], c.fixed[i])]

\* The items of a constant that is no text hold its numbers.
LEMMA ItemsAre ==
  ASSUME NEW p, ArePool(p), NEW i \in 1 .. Len(p), p[i].tag \notin {0, 1}
  PROVE  /\ p[i].tag \in (3 .. 12) \cup (15 .. 18)
         /\ Len(p[i].fixed) = Len(Item(p[i].tag)) /\ p[i].bytes = <<>>
         /\ Items(p[i]) \in Seq(Units) /\ Len(Items(p[i])) = Len(p[i].fixed)
         /\ \A j \in 1 .. Len(p[i].fixed) : Items(p[i])[j].n = p[i].fixed[j]
         /\ ConstantLayout(p[i]) = Then(U1(p[i].tag), Items(p[i]))
  <1> DEFINE c == p[i]
             n == Len(c.fixed)
             f == Items(c)
  <1>1. c.tag \in Nat /\ c.fixed \in Seq(Nat) /\ IsConstant(p, i)
    BY PoolHas
  <1>2. c.tag \in (3 .. 12) \cup (15 .. 18) /\ c.tag > 1
    <2>1. c.tag \in {0, 1} \cup (3 .. 12) \cup (15 .. 18)
      BY <1>1 DEF IsConstant
    <2> DEFINE tag == c.tag
    <2>2. tag \in {0, 1} \cup (3 .. 12) \cup (15 .. 18) /\ tag \notin {0, 1}
      BY <2>1
    <2> HIDE DEF tag
    <2>3. tag \in (3 .. 12) \cup (15 .. 18) /\ tag > 1
      BY <2>2
    <2>4. QED
      BY <2>3 DEF tag
  <1>3. Len(c.fixed) = Len(Item(c.tag)) /\ c.bytes = <<>>
    BY <1>1, <1>2 DEF IsConstant
  <1>4. n \in Nat /\ DOMAIN c.fixed = 1 .. n /\ \A j \in 1 .. n : c.fixed[j] \in Nat
    BY <1>1, SeqHas, Zenon
  <1>5. \A j \in 1 .. n : Item(c.tag)[j] \in Nat \ {0}
    BY <1>2, <1>3, ItemIs
  <1>6. \A j \in 1 .. n : f[j] = Unit(Item(c.tag)[j], c.fixed[j])
    BY <1>4 DEF Items
  <1>7. ASSUME NEW j \in 1 .. n PROVE f[j] \in Units /\ f[j].n = c.fixed[j]
    <2> DEFINE w == Item(c.tag)[j]
               v == c.fixed[j]
    <2>1. w \in Nat \ {0} /\ v \in Nat /\ f[j] = Unit(w, v)
      BY <1>4, <1>5, <1>6
    <2> HIDE DEF w, v, f
    <2>2. Unit(w, v) \in Units
      BY <2>1, UnitIs
    <2>3. Unit(w, v).n = v
      BY DEF Unit
    <2>4. QED
      BY <2>1, <2>2, <2>3 DEF v
  <1>8. f = [j \in 1 .. n |-> f[j]]
    BY <1>4 DEF Items
  <1>9. ConstantLayout(c) = Then(U1(c.tag), f)
    BY <1>2 DEF ConstantLayout, Items, Then
  <1> HIDE DEF f, n, c
  <1>10. f \in Seq(Units) /\ Len(f) = n
    BY <1>4, <1>7, <1>8, SeqIs
  <1>11. QED
    BY <1>2, <1>3, <1>7, <1>9, <1>10 DEF f, n, c

\* A text is its tag, its length and its bytes.
LEMMA TextIs ==
  ASSUME NEW p, ArePool(p), NEW i \in 1 .. Len(p), p[i].tag = 1
  PROVE  /\ p[i] = Utf8(p[i].bytes) /\ p[i].bytes \in Seq(STRING)
         /\ ConstantLayout(p[i])
                = Then(U1(1), Then(U2(Len(p[i].bytes)), Block(p[i].bytes)))
  <1> DEFINE c == p[i]
  <1>1. c \in Constants /\ c.bytes \in Seq(STRING) /\ IsConstant(p, i)
    BY PoolHas
  <1>2. c.fixed = <<>>
    BY <1>1 DEF IsConstant
  <1>3. c = Utf8(c.bytes)
    BY <1>1, <1>2 DEF Constants, Utf8
  <1>4. ConstantLayout(c) = Then(Then(U1(1), U2(Len(c.bytes))), Block(c.bytes))
    BY DEF ConstantLayout, Then
  <1> HIDE DEF c
  <1>5. Len(c.bytes) \in Nat
    BY <1>1
  <1>6. U1(1) \in Seq(Units) /\ U2(Len(c.bytes)) \in Seq(Units) /\ Block(c.bytes) \in Seq(Units)
    BY <1>1, <1>5, UnitIs, BlockIs
  <1>7. Then(Then(U1(1), U2(Len(c.bytes))), Block(c.bytes))
            = Then(U1(1), Then(U2(Len(c.bytes)), Block(c.bytes)))
    BY <1>6, ThenAssociates
  <1>8. QED
    BY <1>1, <1>3, <1>4, <1>7 DEF c

\* One part for each constant.
LEMMA ConstantPartsAre ==
  ASSUME NEW p, ArePool(p)
  PROVE  /\ ConstantParts(p) \in Seq(Seq(Units)) /\ Len(ConstantParts(p)) = Len(p)
         /\ \A i \in 1 .. Len(p) : ConstantParts(p)[i] = ConstantLayout(p[i])
  <1> DEFINE n == Len(p)
             f == ConstantParts(p)
  <1>1. n \in Nat /\ DOMAIN p = 1 .. n /\ \A i \in 1 .. n : p[i].tag \in Nat
    BY PoolHas
  <1>2. \A i \in 1 .. n : f[i] = ConstantLayout(p[i])
    BY <1>1 DEF ConstantParts
  <1>3. ASSUME NEW i \in 1 .. n PROVE f[i] \in Seq(Units)
    <2>1. CASE p[i].tag = 0
      <3>1. ConstantLayout(p[i]) = <<>>
        BY <2>1 DEF ConstantLayout
      <3>2. <<>> \in Seq(Units)
        OBVIOUS
      <3>3. QED
        BY <1>2, <3>1, <3>2
    <2>2. CASE p[i].tag = 1
      <3> DEFINE b == p[i].bytes
      <3>1. b \in Seq(STRING) /\ ConstantLayout(p[i]) = Then(U1(1), Then(U2(Len(b)), Block(b)))
        BY <2>2, TextIs
      <3> HIDE DEF b
      <3>2. Len(b) \in Nat
        BY <3>1
      <3>3. U1(1) \in Seq(Units) /\ U2(Len(b)) \in Seq(Units) /\ Block(b) \in Seq(Units)
        BY <3>1, <3>2, UnitIs, BlockIs
      <3>4. Then(U1(1), Then(U2(Len(b)), Block(b))) \in Seq(Units)
        BY <3>3, ThenType
      <3>5. QED
        BY <1>2, <3>1, <3>4
    <2>3. CASE p[i].tag \notin {0, 1}
      <3>1. Items(p[i]) \in Seq(Units) /\ ConstantLayout(p[i]) = Then(U1(p[i].tag), Items(p[i]))
        BY <2>3, ItemsAre
      <3>2. U1(p[i].tag) \in Seq(Units)
        BY <1>1, UnitIs
      <3>3. Then(U1(p[i].tag), Items(p[i])) \in Seq(Units)
        BY <3>1, <3>2, ThenType
      <3>4. QED
        BY <1>2, <3>1, <3>3
    <2>4. QED
      BY <2>1, <2>2, <2>3
  <1>4. f = [i \in 1 .. n |-> f[i]]
    BY <1>1 DEF ConstantParts
  <1> HIDE DEF f, n
  <1>5. f \in Seq(Seq(Units)) /\ Len(f) = n
    BY <1>1, <1>3, <1>4, SeqIs
  <1>6. QED
    BY <1>2, <1>5 DEF f, n

\* The first n of f.
Taken(f, n) == [i \in 1 .. n |-> f[i]]

\* The first none of anything are nothing.
LEMMA TakenNothing ==
  ASSUME NEW f
  PROVE  Taken(f, 0) = <<>>
  <1>1. Taken(f, 0) = [i \in 1 .. 0 |-> f[i]]
    BY DEF Taken
  <1>2. [i \in 1 .. 0 |-> f[i]] \in Seq({}) /\ Len([i \in 1 .. 0 |-> f[i]]) = 0
    <2> DEFINE g == [i \in 1 .. 0 |-> f[i]]
    <2>1. g = [i \in 1 .. 0 |-> g[i]] /\ \A i \in 1 .. 0 : g[i] \in {}
      OBVIOUS
    <2> HIDE DEF g
    <2>2. g \in Seq({}) /\ Len(g) = 0
      BY <2>1, SeqIs
    <2>3. QED
      BY <2>2 DEF g
  <1>3. QED
    BY <1>1, <1>2, EmptySeq

\* The first n and one more are the first n + 1.
LEMMA TakenGrows ==
  ASSUME NEW f, NEW n \in Nat, NEW x, x = f[n + 1]
  PROVE  Append(Taken(f, n), x) = Taken(f, n + 1) /\ Taken(f, n) \o <<x>> = Taken(f, n + 1)
  <1> DEFINE U == {f[i] : i \in 1 .. n + 1}
             s == Taken(f, n)
             t == Taken(f, n + 1)
             m == n + 1
  <1>1. m \in Nat /\ (\A i \in 1 .. n : i \in 1 .. m) /\ m \in 1 .. m
    OBVIOUS
  <1>2. \A i \in 1 .. m : f[i] \in U
    OBVIOUS
  <1>3. s = [i \in 1 .. n |-> s[i]] /\ t = [i \in 1 .. m |-> t[i]]
    BY DEF Taken
  <1>4. (\A i \in 1 .. n : s[i] = f[i]) /\ \A i \in 1 .. m : t[i] = f[i]
    BY DEF Taken
  <1> HIDE DEF U, s, t
  <1>5. s \in Seq(U) /\ Len(s) = n
    BY <1>1, <1>2, <1>3, <1>4, SeqIs
  <1>6. t \in Seq(U) /\ Len(t) = n + 1
    BY <1>1, <1>2, <1>3, <1>4, SeqIs
  <1>7. x \in U
    BY <1>1, <1>2
  <1>8. /\ Append(s, x) \in Seq(U) /\ Len(Append(s, x)) = n + 1
        /\ \A i \in 1 .. n + 1 : Append(s, x)[i] = t[i]
    BY <1>4, <1>5, <1>7
  <1>9. Append(s, x) = t
    BY <1>6, <1>8, SeqEqual
  <1>10. s \o <<x>> = Append(s, x)
    BY <1>5, <1>7, AppendIsConcat
  <1>11. QED
    BY <1>9, <1>10 DEF s, t

\* All of it.
LEMMA TakenAll ==
  ASSUME NEW U, NEW s \in Seq(U)
  PROVE  Taken(s, Len(s)) = s
  BY LenProperties DEF Taken

\* The constructors of the constants.
LEMMA ConstantRead ==
  ASSUME NEW p, ArePool(p), NEW i \in 1 .. Len(p), p[i].tag # 0,
         NEW more \in Seq(Units), rest = Then(ConstantLayout(p[i]), more), ParseConstant
  PROVE  Adds(Entries(p[i])) /\ rest' = more
  <1> DEFINE c == p[i]
             n == Len(c.fixed)
             f == Items(c)
  <1>1. c \in Constants /\ c.tag \in Nat /\ c.fixed \in Seq(Nat) /\ n \in Nat /\ IsConstant(p, i)
    BY PoolHas
  <1>2. U1(c.tag) \in Seq(Units) /\ Len(U1(c.tag)) = 1 /\ U1(c.tag)[1] = Unit(1, c.tag)
    BY <1>1, UnitIs
  <1>3. Value(1) \in Tags \ {1}
    BY DEF ParseConstant
  <1>4. CASE c.tag = 1
    <2> DEFINE q == Then(U2(Len(c.bytes)), Block(c.bytes))
    <2>1. c.bytes \in Seq(STRING) /\ ConstantLayout(c) = Then(U1(1), q)
      BY <1>4, TextIs
    <2>2. Len(c.bytes) \in Nat
      BY <2>1
    <2>3. U2(Len(c.bytes)) \in Seq(Units) /\ Block(c.bytes) \in Seq(Units)
      BY <2>1, <2>2, UnitIs, BlockIs
    <2>4. q \in Seq(Units)
      BY <2>3, ThenType
    <2> HIDE DEF q, c
    <2>5. U1(1) \in Seq(Units) /\ Len(U1(1)) = 1 /\ U1(1)[1] = Unit(1, 1)
      BY <1>2, <1>4
    <2>6. rest = Then(U1(1), Then(q, more)) /\ Then(q, more) \in Seq(Units)
      <3>1. Then(Then(U1(1), q), more) = Then(U1(1), Then(q, more))
        BY <2>4, <2>5, ThenAssociates
      <3>2. QED
        BY <2>1, <2>4, <3>1, ThenType DEF c
    <2>7. rest \in Seq(Units)
      BY <2>5, <2>6, ThenType
    <2>8. Behind(rest, 0, Then(U1(1), Then(q, more)))
      BY <2>6, <2>7, BehindNothing
    <2>9. rest[0 + 1] = U1(1)[1]
      BY <2>5, <2>6, <2>8, BehindOne
    <2>10. rest[1].n = 1
      BY <2>5, <2>9 DEF Unit
    <2>11. QED
      BY <1>3, <2>10 DEF Value
  <1>5. CASE c.tag # 1
    <2>1. /\ c.tag \in (3 .. 12) \cup (15 .. 18)
          /\ n = Len(Item(c.tag)) /\ c.bytes = <<>>
          /\ f \in Seq(Units) /\ Len(f) = n
          /\ \A j \in 1 .. n : f[j].n = c.fixed[j]
          /\ ConstantLayout(c) = Then(U1(c.tag), f)
      BY <1>5, ItemsAre
    <2> HIDE DEF f
    <2>2. rest = Then(U1(c.tag), Then(f, more)) /\ Then(f, more) \in Seq(Units)
      <3>1. Then(Then(U1(c.tag), f), more) = Then(U1(c.tag), Then(f, more))
        BY <1>2, <2>1, ThenAssociates
      <3>2. QED
        BY <2>1, <3>1, ThenType
    <2>3. rest \in Seq(Units)
      BY <1>2, <2>2, ThenType
    <2>4. Behind(rest, 0, Then(U1(c.tag), Then(f, more)))
      BY <2>2, <2>3, BehindNothing
    <2>5. rest[1] = Unit(1, c.tag) /\ Behind(rest, 1, Then(f, more))
      <3>1. rest[0 + 1] = U1(c.tag)[1] /\ Behind(rest, 0 + 1, Then(f, more))
        BY <1>2, <2>2, <2>4, BehindOne
      <3>2. QED
        BY <1>2, <3>1
    <2>6. (\A j \in 1 .. Len(f) : rest[1 + j] = f[j]) /\ Behind(rest, 1 + Len(f), more)
      BY <2>1, <2>5, BehindThen
    <2>7. Value(1) = c.tag
      BY <2>5 DEF Value, Unit
    <2>8. Len(ConstantInfo(c.tag)) = n
      BY <1>3, <2>1, <2>7, ItemIs
    <2>9. Values(2, n) = c.fixed
      <3>1. \A j \in 1 .. n : rest[1 + j].n = c.fixed[j]
        BY <2>1, <2>6
      <3>2. Values(1 + 1, n) = c.fixed
        BY <1>1, <3>1, ValuesAre
      <3>3. QED
        BY <3>2
    <2>10. Constant(c.tag, c.fixed) = c
      BY <1>1, <2>1 DEF Constant, Constants
    <2>11. Adds(Entries(c)) /\ Consume(n + 1)
      BY <2>7, <2>8, <2>9, <2>10 DEF ParseConstant
    <2>12. n + 1 \in Nat /\ Behind(rest, n + 1, more)
      BY <1>1, <2>1, <2>6
    <2>13. rest' = more
      BY <2>3, <2>11, <2>12, BehindLeft DEF Consume
    <2>14. QED
      BY <2>11, <2>13
  <1>6. QED
    BY <1>4, <1>5

\* ParseUTF8 adds the text the file has there.
LEMMA TextRead ==
  ASSUME NEW p, ArePool(p), NEW i \in 1 .. Len(p), p[i].tag # 0,
         NEW more \in Seq(Units), rest = Then(ConstantLayout(p[i]), more), ParseUTF8
  PROVE  Adds(Entries(p[i])) /\ rest' = more
  <1> DEFINE c == p[i]
             b == c.bytes
  <1>1. c \in Constants /\ c.tag \in Nat /\ c.fixed \in Seq(Nat) /\ IsConstant(p, i)
    BY PoolHas
  <1>2. U1(c.tag) \in Seq(Units) /\ Len(U1(c.tag)) = 1 /\ U1(c.tag)[1] = Unit(1, c.tag)
    BY <1>1, UnitIs
  <1>3. Value(1) = 1
    BY DEF ParseUTF8
  <1>4. CASE c.tag # 1
    <2> DEFINE f == Items(c)
    <2>1. f \in Seq(Units) /\ ConstantLayout(c) = Then(U1(c.tag), f)
      BY <1>4, ItemsAre
    <2> HIDE DEF f
    <2>2. rest = Then(U1(c.tag), Then(f, more)) /\ Then(f, more) \in Seq(Units)
      <3>1. Then(Then(U1(c.tag), f), more) = Then(U1(c.tag), Then(f, more))
        BY <1>2, <2>1, ThenAssociates
      <3>2. QED
        BY <2>1, <3>1, ThenType
    <2>3. rest \in Seq(Units)
      BY <1>2, <2>2, ThenType
    <2>4. Behind(rest, 0, Then(U1(c.tag), Then(f, more)))
      BY <2>2, <2>3, BehindNothing
    <2>5. rest[0 + 1] = U1(c.tag)[1]
      BY <1>2, <2>2, <2>4, BehindOne
    <2>6. rest[1] = Unit(1, c.tag)
      BY <1>2, <2>5
    <2>7. QED
      BY <1>3, <1>4, <2>6 DEF Value, Unit
  <1>5. CASE c.tag = 1
    <2> DEFINE u == U2(Len(b))
               v == Block(b)
    <2>1. c = Utf8(b) /\ b \in Seq(STRING) /\ ConstantLayout(c) = Then(U1(1), Then(u, v))
      BY <1>5, TextIs
    <2>2. Len(b) \in Nat
      BY <2>1
    <2>3. u \in Seq(Units) /\ Len(u) = 1 /\ u[1] = Unit(2, Len(b)) /\ v \in Seq(Units)
      BY <2>1, <2>2, UnitIs, BlockIs
    <2>4. U1(1) \in Seq(Units) /\ Len(U1(1)) = 1
      BY <1>2, <1>5
    <2>5. Entries(c) = <<c>>
      BY <1>5 DEF Entries, Wide
    <2> HIDE DEF u
    <2>6. /\ rest = Then(U1(1), Then(u, Then(v, more))) /\ Then(v, more) \in Seq(Units)
          /\ Then(u, Then(v, more)) \in Seq(Units)
      <3>1. Then(u, v) \in Seq(Units) /\ Then(v, more) \in Seq(Units)
        BY <2>3, ThenType
      <3>2. Then(Then(U1(1), Then(u, v)), more) = Then(U1(1), Then(Then(u, v), more))
        BY <2>4, <3>1, ThenAssociates
      <3>3. Then(Then(u, v), more) = Then(u, Then(v, more))
        BY <2>3, ThenAssociates
      <3>4. Then(u, Then(v, more)) \in Seq(Units)
        BY <2>3, <3>1, ThenType
      <3>5. QED
        BY <2>1, <3>1, <3>2, <3>3, <3>4
    <2>7. rest \in Seq(Units)
      BY <2>4, <2>6, ThenType
    <2>8. Behind(rest, 0, Then(U1(1), Then(u, Then(v, more))))
      BY <2>6, <2>7, BehindNothing
    <2>9. Behind(rest, 1, Then(u, Then(v, more)))
      <3>1. Behind(rest, 0 + 1, Then(u, Then(v, more)))
        BY <2>4, <2>6, <2>8, BehindOne
      <3>2. QED
        BY <3>1
    <2>10. rest[2] = Unit(2, Len(b)) /\ Behind(rest, 2, Then(v, more))
      <3>1. rest[1 + 1] = u[1] /\ Behind(rest, 1 + 1, Then(v, more))
        BY <2>3, <2>6, <2>9, BehindOne
      <3>2. QED
        BY <2>3, <3>1
    <2>11. Value(2) = Len(b)
      BY <2>10 DEF Value, Unit
    <2>12. /\ BlockAt(2 + 1, Len(b)) = b
           /\ BlockUnits(Len(b)) \in {0, 1}
           /\ Behind(rest, 2 + BlockUnits(Len(b)), more)
      BY <2>1, <2>10, BlockRead DEF v
    <2> HIDE DEF b, c
    <2>13. Adds(<<Utf8(b)>>) /\ Consume(2 + BlockUnits(Len(b)))
      BY <2>11, <2>12 DEF ParseUTF8
    <2>14. 2 + BlockUnits(Len(b)) \in Nat
      BY <2>12
    <2>15. rest' = more
      BY <2>7, <2>12, <2>13, <2>14, BehindLeft DEF Consume
    <2>16. QED
      BY <2>1, <2>5, <2>13, <2>15 DEF c
  <1>6. QED
    BY <1>4, <1>5

-----------------------------------------------------------------------------
(* Any attribute *)

ParseAlone == ParsePlain \/ ParseTable \/ ParseBootstrapMethods \/ ParseByteStream
              \/ SkipAttribute

\* An attribute without attributes inside is not Code, and BeginCode is for
\* Code.
LEMMA AloneComes ==
  ASSUME NEW a, IsAttribute(a, pool), NEW inside \in Seq(Units), NEW more \in Seq(Units),
         rest = Then(WithHeader(a, Contents(a, inside)), more)
  PROVE  /\ Kind = a.kind
         /\ ParseAlone => a.kind # "Code"
         /\ BeginCode => a.kind = "Code"
  <1>1. a \in Attributes /\ IsNamed(a, pool) /\ IsContent(a)
    BY DEF IsAttribute
  <1>2. Kind = a.kind
    BY <1>1, ContentsType, AttributeBegins
  <1>3. ~ParsePlain \/ a.kind # "Code"
    BY <1>2 DEF ParsePlain, Plain
  <1>4. ~ParseTable \/ a.kind # "Code"
    BY <1>2 DEF ParseTable, Tables
  <1>5. ~ParseBootstrapMethods \/ a.kind # "Code"
    BY <1>2 DEF ParseBootstrapMethods
  <1>6. ~ParseByteStream \/ a.kind # "Code"
    BY <1>2 DEF ParseByteStream, ByteStreams
  <1>7. ~SkipAttribute \/ a.kind # "Code"
    BY <1>2 DEF SkipAttribute, Skipped
  <1>8. BeginCode => a.kind = "Code"
    BY <1>2 DEF BeginCode
  <1>9. QED
    BY <1>2, <1>3, <1>4, <1>5, <1>6, <1>7, <1>8 DEF ParseAlone

\* Whichever action reads an attribute other than Code, it is added as it is
\* kept.
LEMMA AloneRead ==
  ASSUME NEW a, IsAttribute(a, pool), a.kind # "Code", NEW more \in Seq(Units),
         rest = Then(InnerLayout(a), more), ParseAlone
  PROVE  Added(KeptAlone(a), more)
  <1>1. a \in Attributes /\ IsNamed(a, pool) /\ IsContent(a)
    BY DEF IsAttribute
  <1>2. rest = Then(WithHeader(a, Contents(a, <<>>)), more)
    BY DEF InnerLayout
  <1>3. CASE ParsePlain
    BY <1>1, <1>2, <1>3, PlainRead
  <1>4. CASE ParseTable
    BY <1>1, <1>2, <1>4, TableRead
  <1>5. CASE ParseBootstrapMethods
    BY <1>1, <1>2, <1>5, MethodsRead
  <1>6. CASE ParseByteStream
    BY <1>1, <1>2, <1>6, BytesRead
  <1>7. CASE SkipAttribute
    BY <1>1, <1>2, <1>7, SkipRead
  <1>8. QED
    BY <1>3, <1>4, <1>5, <1>6, <1>7 DEF ParseAlone

KeptInside(a) == [i \in DOMAIN a.attributes |-> KeptAlone(a.attributes[i])]

\* Outside of Code there is nothing inside of an attribute.
LEMMA AloneIs ==
  ASSUME NEW a, NEW p, IsAttribute(a, p), a.kind # "Code"
  PROVE  AttributeLayout(a) = InnerLayout(a) /\ Kept(a) = KeptAlone(a)
  <1>1. a.attributes = <<>> /\ a \in Attributes
    BY DEF IsAttribute, IsContent
  <1>2. \A inside : Contents(a, inside) = Contents(a, <<>>)
    BY DEF Contents
  <1>3. AttributeLayout(a) = InnerLayout(a)
    BY <1>2 DEF AttributeLayout, InnerLayout
  <1>4. KeptInside(a) = <<>>
    BY <1>1 DEF KeptInside
  <1> DEFINE b == KeptAlone(a)
  <1>5. b.attributes = <<>>
    BY <1>1 DEF KeptAlone, Attribute
  <1>6. Kept(a) = [b EXCEPT !.attributes = [i \in DOMAIN @ |-> KeptAlone(@[i])]]
    BY DEF Kept
  <1>7. [i \in DOMAIN b.attributes |-> KeptAlone(b.attributes[i])] = <<>>
    BY <1>5
  <1>8. b = [b EXCEPT !.attributes = <<>>]
    BY <1>1, <1>5 DEF KeptAlone, Attribute, Attributes
  <1>9. QED
    BY <1>3, <1>6, <1>7, <1>8

-----------------------------------------------------------------------------
(* The code of a method, whose attributes come behind its handlers *)

\* A constructor that waits for n attributes and has got those.
Waits(what, name, fixed, rows, bytes, n, those) ==
    [what |-> what, name |-> name, fixed |-> fixed, rows |-> rows, bytes |-> bytes,
     left |-> n, attributes |-> those]

\* The constructor of the code a, with k of its attributes.
InnerOpened(a, k) ==
    Waits("code", a.name, a.fixed, a.rows, a.bytes, Len(a.attributes) - k,
          Taken(KeptInside(a), k))

\* A Code attribute is its numbers, its bytes, its handlers, and then the
\* attributes inside of it.
LEMMA CodeLayout ==
  ASSUME NEW a, NEW p, IsAttribute(a, p), a.kind = "Code"
  PROVE  LET is == a.attributes
             inside == List(InnerParts(is))
         IN /\ AttributeLayout(a) = WithHeader(a, Contents(a, inside))
            /\ inside = Then(U2(Len(is)), Rest(InnerParts(is), 1))
            /\ inside \in Seq(Units)
            /\ Contents(a, inside)
                   = Then(EachU2(a.fixed),
                          Then(U4(Len(a.bytes)),
                               Then(Block(a.bytes),
                                    Then(U2(Len(a.rows)), Then(Rows(a.rows), inside)))))
  <1> DEFINE is == a.attributes
             inside == List(InnerParts(is))
             e == EachU2(a.fixed)
             l == U4(Len(a.bytes))
             b == Block(a.bytes)
             n == U2(Len(a.rows))
             r == Rows(a.rows)
  <1>1. a \in Attributes
    BY DEF IsAttribute
  <1>2. InnerParts(is) \in Seq(Seq(Units)) /\ Len(InnerParts(is)) = Len(is)
    BY InnerPartsAre
  <1>3. AttributeLayout(a) = WithHeader(a, Contents(a, inside))
    BY DEF AttributeLayout, InnerParts
  <1>4. inside = Then(U2(Len(is)), Rest(InnerParts(is), 1)) /\ inside \in Seq(Units)
    <2>1. Rest(InnerParts(is), 1) = FlattenSeq(InnerParts(is))
      BY <1>2, RestAll
    <2>2. inside \in Seq(Units)
      BY <1>2, ListType
    <2>3. QED
      BY <1>2, <2>1, <2>2 DEF List, Then
  <1>5. /\ a.fixed \in Seq(Nat) /\ a.bytes \in Seq(STRING) /\ a.rows \in Seq(Seq(Nat))
        /\ Len(a.bytes) \in Nat /\ Len(a.rows) \in Nat
    BY <1>1 DEF Attributes
  <1>6. Contents(a, inside) = Then(Then(Then(Then(Then(e, l), b), n), r), inside)
    BY DEF Contents, Then
  <1>7. e \in Seq(Units) /\ l \in Seq(Units) /\ b \in Seq(Units) /\ n \in Seq(Units)
        /\ r \in Seq(Units)
    BY <1>5, EachU2Is, UnitIs, BlockIs, RowsParts
  <1> HIDE DEF inside, e, l, b, n, r
  <1> DEFINE q == Then(r, inside)
             s == Then(n, q)
             t == Then(b, s)
  <1>8. q \in Seq(Units) /\ Then(e, l) \in Seq(Units)
    BY <1>4, <1>7, ThenType
  <1>9. s \in Seq(Units) /\ Then(Then(e, l), b) \in Seq(Units)
    BY <1>7, <1>8, ThenType
  <1>10. t \in Seq(Units) /\ Then(Then(Then(e, l), b), n) \in Seq(Units)
    BY <1>7, <1>9, ThenType
  <1>11. Then(Then(Then(Then(Then(e, l), b), n), r), inside) = Then(Then(Then(Then(e, l), b), n), q)
    BY <1>4, <1>7, <1>10, ThenAssociates
  <1>12. Then(Then(Then(Then(e, l), b), n), q) = Then(Then(Then(e, l), b), s)
    BY <1>7, <1>8, <1>9, ThenAssociates
  <1>13. Then(Then(Then(e, l), b), s) = Then(Then(e, l), t)
    BY <1>7, <1>8, <1>9, ThenAssociates
  <1>14. Then(Then(e, l), t) = Then(e, Then(l, t))
    BY <1>7, <1>10, ThenAssociates
  <1>15. Contents(a, inside) = Then(e, Then(l, Then(b, Then(n, Then(r, inside)))))
    BY <1>6, <1>11, <1>12, <1>13, <1>14
  <1>16. QED
    BY <1>3, <1>4, <1>15 DEF inside, e, l, b, n, r

\* BeginCode opens the code with everything but the attributes inside of it.
LEMMA CodeRead ==
  ASSUME NEW a, IsAttribute(a, pool), a.kind = "Code", NEW more \in Seq(Units),
         rest = Then(AttributeLayout(a), more), BeginCode
  PROVE  /\ open' = Append(open, InnerOpened(a, 0))
         /\ rest' = Then(Rest(InnerParts(a.attributes), 1), more)
         /\ UNCHANGED <<fileVars, phase, left, pool, cf>>
  <1> DEFINE is == a.attributes
             inside == List(InnerParts(is))
             c == Contents(a, inside)
             e == EachU2(a.fixed)
             l == U4(Len(a.bytes))
             b == Block(a.bytes)
             n == U2(Len(a.rows))
             r == Rows(a.rows)
             u == U2(Len(is))
             v == Rest(InnerParts(is), 1)
             N == Len(a.rows)
             B == BlockUnits(Len(a.bytes))
  <1>1. /\ a \in Attributes /\ IsNamed(a, pool) /\ IsContent(a)
        /\ Len(a.fixed) = 2 /\ HasColumns(a, 4)
    BY DEF IsAttribute, IsContent
  <1>2. /\ AttributeLayout(a) = WithHeader(a, c)
        /\ inside = Then(u, v) /\ inside \in Seq(Units)
        /\ c = Then(e, Then(l, Then(b, Then(n, Then(r, inside)))))
    BY CodeLayout
  <1>3. c \in Seq(Units)
    BY <1>1, <1>2, ContentsType
  <1>4. /\ Value(1) = a.name /\ rest \in Seq(Units)
        /\ Behind(rest, 2, Then(c, more))
    BY <1>1, <1>2, <1>3, AttributeBegins
  <1>5. /\ a.fixed \in Seq(Nat) /\ a.bytes \in Seq(STRING) /\ a.rows \in Seq(Seq(Nat))
        /\ Len(a.bytes) \in Nat /\ Len(is) \in Nat
        /\ N \in Nat /\ \A k \in 1 .. N : Len(a.rows[k]) = 4
    <2>1. a.rows \in Seq(Seq(Nat)) /\ N \in Nat /\ DOMAIN a.rows = 1 .. N
      BY <1>1, LenProperties DEF Attributes
    <2>2. \A k \in 1 .. N : Len(a.rows[k]) = 4
      BY <1>1, <2>1 DEF HasColumns
    <2>3. QED
      BY <1>1, <2>1, <2>2 DEF Attributes
  <1>6. /\ e \in Seq(Units) /\ Len(e) = 2 /\ \A i \in 1 .. 2 : e[i] = Unit(2, a.fixed[i])
    BY <1>1, <1>5, EachU2Is
  <1>7. /\ l \in Seq(Units) /\ Len(l) = 1 /\ l[1] = Unit(4, Len(a.bytes))
        /\ b \in Seq(Units)
        /\ n \in Seq(Units) /\ Len(n) = 1 /\ n[1] = Unit(2, N)
        /\ r \in Seq(Units)
        /\ u \in Seq(Units) /\ Len(u) = 1 /\ u[1] = Unit(2, Len(is))
    BY <1>5, UnitIs, BlockIs, RowsParts
  <1>8. v \in Seq(Units)
    <2>1. InnerParts(is) \in Seq(Seq(Units)) /\ Len(InnerParts(is)) \in Nat
      BY InnerPartsAre
    <2>2. 1 \in 1 .. Len(InnerParts(is)) + 1
      BY <2>1
    <2>3. QED
      BY <2>1, <2>2, RestType
  <1> HIDE DEF c, e, l, b, n, r, u, v, inside, N, B
  <1> DEFINE q1 == Then(v, more)
             q2 == Then(u, q1)
             q3 == Then(r, q2)
             q4 == Then(n, q3)
             q5 == Then(b, q4)
             q6 == Then(l, q5)
  <1>9. q1 \in Seq(Units) /\ q2 \in Seq(Units) /\ q3 \in Seq(Units) /\ q4 \in Seq(Units)
        /\ q5 \in Seq(Units) /\ q6 \in Seq(Units)
    <2>1. q1 \in Seq(Units)
      BY <1>8, ThenType
    <2> HIDE DEF q1
    <2>2. q2 \in Seq(Units)
      BY <1>7, <2>1, ThenType
    <2> HIDE DEF q2
    <2>3. q3 \in Seq(Units)
      BY <1>7, <2>2, ThenType
    <2> HIDE DEF q3
    <2>4. q4 \in Seq(Units)
      BY <1>7, <2>3, ThenType
    <2> HIDE DEF q4
    <2>5. q5 \in Seq(Units)
      BY <1>7, <2>4, ThenType
    <2> HIDE DEF q5
    <2>6. q6 \in Seq(Units)
      BY <1>7, <2>5, ThenType
    <2>7. QED
      BY <2>1, <2>2, <2>3, <2>4, <2>5, <2>6
  <1>10. Then(c, more) = Then(e, q6)
    <2> DEFINE p3 == Then(r, inside)
               p4 == Then(n, p3)
               p5 == Then(b, p4)
               p6 == Then(l, p5)
    <2>1. p3 \in Seq(Units)
      BY <1>2, <1>7, ThenType
    <2>2. p4 \in Seq(Units)
      BY <1>7, <2>1, ThenType
    <2>3. p5 \in Seq(Units)
      BY <1>7, <2>2, ThenType
    <2>4. p6 \in Seq(Units)
      BY <1>7, <2>3, ThenType
    <2>5. Then(inside, more) = q2
      BY <1>2, <1>7, <1>8, ThenAssociates
    <2>6. Then(p3, more) = Then(r, Then(inside, more))
      BY <1>2, <1>7, ThenAssociates
    <2>7. Then(p4, more) = Then(n, Then(p3, more))
      BY <1>7, <2>1, ThenAssociates
    <2>8. Then(p5, more) = Then(b, Then(p4, more))
      BY <1>7, <2>2, ThenAssociates
    <2>9. Then(p6, more) = Then(l, Then(p5, more))
      BY <1>7, <2>3, ThenAssociates
    <2>10. Then(Then(e, p6), more) = Then(e, Then(p6, more))
      BY <1>6, <2>4, ThenAssociates
    <2>11. QED
      BY <1>2, <2>5, <2>6, <2>7, <2>8, <2>9, <2>10
  <1> HIDE DEF q1, q2, q3, q4, q5, q6
  <1>11. (\A j \in 1 .. Len(e) : rest[2 + j] = e[j]) /\ Behind(rest, 2 + Len(e), q6)
    <2>1. Behind(rest, 2, Then(e, q6))
      BY <1>4, <1>10
    <2>2. e \in Seq(Units) /\ q6 \in Seq(Units)
      BY <1>6, <1>9
    <2>3. QED
      BY <2>1, <2>2, BehindThen
  <1>12. Behind(rest, 4, Then(l, q5))
    BY <1>6, <1>11 DEF q6
  <1>13. rest[5] = l[1] /\ Behind(rest, 5, q5)
    <2>1. rest[4 + 1] = l[1] /\ Behind(rest, 4 + 1, q5)
      BY <1>7, <1>9, <1>12, BehindOne
    <2>2. QED
      BY <2>1
  <1>14. /\ BlockAt(6, Len(a.bytes)) = a.bytes /\ B \in {0, 1} /\ Behind(rest, 5 + B, q4)
    <2>1. Behind(rest, 5, Then(Block(a.bytes), q4))
      BY <1>13 DEF q5, b
    <2>2. BlockAt(5 + 1, Len(a.bytes)) = a.bytes
          /\ BlockUnits(Len(a.bytes)) \in {0, 1}
          /\ Behind(rest, 5 + BlockUnits(Len(a.bytes)), q4)
      BY <1>5, <1>9, <2>1, BlockRead
    <2>3. QED
      BY <2>2 DEF B
  <1> DEFINE i == 5 + B
             m == i + 1
  <1>15. i \in Nat /\ m \in Nat /\ 6 + B = i + 1
    BY <1>14
  <1>16. Behind(rest, i, Then(n, q3))
    BY <1>14 DEF q4
  <1> HIDE DEF i
  <1>17. rest[i + 1] = n[1] /\ Behind(rest, i + 1, q3)
    BY <1>7, <1>9, <1>16, BehindOne
  <1>18. Behind(rest, m, Then(Rows(a.rows), q2))
    BY <1>17 DEF q3, r
  <1> HIDE DEF m
  <1>19. /\ RowsAt(m + 1, ExceptionTable, N) = a.rows
         /\ N * 4 \in Nat
         /\ Behind(rest, m + N * 4, q2)
    <2>1. Len(ExceptionTable) = 4 /\ 4 \in {1, 2, 4, 5}
      BY DEF ExceptionTable
    <2>2. \A k \in 1 .. Len(a.rows) : Len(a.rows[k]) = 4
      BY <1>5 DEF N
    <2>3. /\ RowsAt(m + 1, ExceptionTable, Len(a.rows)) = a.rows
          /\ Len(a.rows) * 4 \in Nat
          /\ Behind(rest, m + Len(a.rows) * 4, q2)
      BY <1>5, <1>9, <1>15, <1>18, <2>1, <2>2, RowsRead
    <2>4. QED
      BY <2>3 DEF N
  <1> DEFINE j == m + N * 4
  <1>20. j \in Nat
    BY <1>15, <1>19
  <1>21. Behind(rest, j, Then(u, q1))
    BY <1>19 DEF q2
  <1> HIDE DEF j
  <1>22. rest[j + 1] = u[1] /\ Behind(rest, j + 1, q1)
    BY <1>7, <1>9, <1>21, BehindOne
  <1>23. Values(3, 2) = a.fixed
    <2>1. ASSUME NEW k \in 1 .. 2 PROVE rest[2 + k].n = a.fixed[k]
      <3>1. rest[2 + k] = Unit(2, a.fixed[k])
        BY <1>6, <1>11
      <3>2. QED
        BY <3>1 DEF Unit
    <2>2. Values(2 + 1, Len(a.fixed)) = a.fixed
      BY <1>1, <1>5, <2>1, ValuesAre
    <2>3. QED
      BY <1>1, <2>2
  <1>24. Value(5) = Len(a.bytes) /\ Value(i + 1) = N /\ Value(j + 1) = Len(is)
    BY <1>7, <1>13, <1>17, <1>22 DEF Value, Unit
  <1>25. Len(ExceptionTable) = 4
    BY DEF ExceptionTable
  <1>26. (6 + B) = i + 1 /\ (6 + B) + 1 = m + 1 /\ (6 + B) + 1 + N * Len(ExceptionTable) = j + 1
    BY <1>15, <1>19, <1>25 DEF m, j
  <1>27. /\ open' = Append(open, Opened("code", a.name, a.fixed, a.rows, a.bytes, Len(is)))
         /\ Consume(j + 1)
         /\ UNCHANGED <<fileVars, phase, left, pool, cf>>
    <2>1. BlockUnits(Value(5)) = B
      BY <1>24 DEF B
    <2> DEFINE w == 6 + BlockUnits(Value(5))
               y == w + 1 + Value(w) * Len(ExceptionTable)
    <2>2. w = i + 1 /\ Value(w) = N /\ w + 1 = m + 1 /\ y = j + 1
      BY <1>24, <1>26, <2>1
    <2>3. /\ open' = Append(open, Opened("code", Value(1), Values(3, 2),
                                         RowsAt(w + 1, ExceptionTable, Value(w)),
                                         BlockAt(6, Value(5)), Value(y)))
          /\ Consume(y)
          /\ UNCHANGED <<fileVars, phase, left, pool, cf>>
      BY DEF BeginCode
    <2> HIDE DEF w, y
    <2>4. Value(y) = Len(is)
      BY <1>24, <2>2
    <2>5. RowsAt(w + 1, ExceptionTable, Value(w)) = a.rows
      BY <1>19, <2>2
    <2>6. QED
      BY <1>4, <1>14, <1>23, <1>24, <2>2, <2>3, <2>4, <2>5
  <1>28. rest' = q1
    <2>1. j + 1 \in Nat
      BY <1>20
    <2>2. SubSeq(rest, (j + 1) + 1, Len(rest)) = q1
      BY <1>4, <1>9, <1>22, <2>1, BehindLeft
    <2>3. QED
      BY <1>27, <2>2 DEF Consume
  <1>29. Opened("code", a.name, a.fixed, a.rows, a.bytes, Len(is)) = InnerOpened(a, 0)
    <2>1. Taken(KeptInside(a), 0) = <<>>
      BY TakenNothing
    <2>2. Len(a.attributes) - 0 = Len(a.attributes)
      BY <1>5
    <2>3. QED
      BY <2>1, <2>2 DEF Opened, InnerOpened, Waits
  <1>30. QED
    BY <1>27, <1>28, <1>29 DEF q1, v

-----------------------------------------------------------------------------
(* The attributes of the class or of a member *)

\* One number less to wait for, in a constructor that is written out.
LEMMA OneField ==
  ASSUME NEW what, NEW name, NEW fixed, NEW rows, NEW bytes, NEW d, NEW s, NEW e
  PROVE  [Waits(what, name, fixed, rows, bytes, d, s) EXCEPT !.left = e]
             = Waits(what, name, fixed, rows, bytes, e, s)
  BY DEF Waits

Coded(name, fixed, rows, bytes, f) ==
    [Attribute("Code", name) EXCEPT !.fixed = fixed, !.rows = rows, !.bytes = bytes,
         !.attributes = f]

\* What a Code attribute becomes with the attributes f.
LEMMA CodeFields ==
  ASSUME NEW name, NEW fixed, NEW rows, NEW bytes, NEW f
  PROVE  Coded(name, fixed, rows, bytes, f)
             = [kind |-> "Code", name |-> name, fixed |-> fixed, rows |-> rows,
                bytes |-> bytes, attributes |-> f]
  <1> DEFINE a0 == Attribute("Code", name)
             a1 == [a0 EXCEPT !.fixed = fixed]
             a2 == [a1 EXCEPT !.rows = rows]
             a3 == [a2 EXCEPT !.bytes = bytes]
  <1>1. a1 = [kind |-> "Code", name |-> name, fixed |-> fixed, rows |-> <<>>,
              bytes |-> <<>>, attributes |-> <<>>]
    BY DEF Attribute
  <1> HIDE DEF a1
  <1>2. a2 = [kind |-> "Code", name |-> name, fixed |-> fixed, rows |-> rows,
              bytes |-> <<>>, attributes |-> <<>>]
    BY <1>1
  <1> HIDE DEF a2
  <1>3. a3 = [kind |-> "Code", name |-> name, fixed |-> fixed, rows |-> rows,
              bytes |-> bytes, attributes |-> <<>>]
    BY <1>2
  <1> HIDE DEF a3
  <1>4. [a3 EXCEPT !.attributes = f]
            = [kind |-> "Code", name |-> name, fixed |-> fixed, rows |-> rows,
               bytes |-> bytes, attributes |-> f]
    BY <1>3
  <1>5. [a0 EXCEPT !.fixed = fixed, !.rows = rows, !.bytes = bytes, !.attributes = f]
            = [a3 EXCEPT !.attributes = f]
    BY DEF a1, a2, a3
  <1>6. QED
    BY <1>4, <1>5 DEF Coded

\* An attribute is added at the end, and one less is missing.
LEMMA WithAttributeIs ==
  ASSUME NEW what, NEW name, NEW fixed, NEW rows, NEW bytes, NEW d, NEW s, NEW x
  PROVE  WithAttribute(Waits(what, name, fixed, rows, bytes, d, s), x)
             = Waits(what, name, fixed, rows, bytes, d - 1, Append(s, x))
  <1> DEFINE o == Waits(what, name, fixed, rows, bytes, d, s)
             e == d - 1
             t == Append(s, x)
             q == [o EXCEPT !.left = e]
  <1>1. WithAttribute(o, x) = [o EXCEPT !.left = o.left - 1, !.attributes = Append(o.attributes, x)]
    BY DEF WithAttribute
  <1>2. o.left = d /\ o.attributes = s
    BY DEF Waits
  <1>3. [o EXCEPT !.left = e, !.attributes = t] = [q EXCEPT !.attributes = t]
    OBVIOUS
  <1>4. q = Waits(what, name, fixed, rows, bytes, e, s)
    BY OneField
  <1>5. [Waits(what, name, fixed, rows, bytes, e, s) EXCEPT !.attributes = t]
            = Waits(what, name, fixed, rows, bytes, e, t)
    <2> HIDE DEF e, t
    <2>1. QED
      BY DEF Waits
  <1> HIDE DEF o, q
  <1>6. WithAttribute(o, x) = [o EXCEPT !.left = e, !.attributes = t]
    BY <1>1, <1>2
  <1>7. QED
    BY <1>3, <1>4, <1>5, <1>6 DEF o

\* Whoever has attributes, with k of them.
OuterOpened(what, fixed, those, k) ==
    Waits(what, 0, fixed, <<>>, <<>>, Len(those) - k, Taken(KeptOf(those), k))

\* k attributes are read; and, of the code behind them, j attributes.
Between(what, fixed, those, more, k) ==
    /\ open = <<OuterOpened(what, fixed, those, k)>>
    /\ rest = Then(Rest(AttributeParts(those), k + 1), more)
Within(what, fixed, those, more, k, j) ==
    /\ those[k + 1].kind = "Code"
    /\ open = <<OuterOpened(what, fixed, those, k), InnerOpened(those[k + 1], j)>>
    /\ rest = Then(Rest(InnerParts(those[k + 1].attributes), j + 1),
                   Then(Rest(AttributeParts(those), k + 2), more))
InAttributes(what, fixed, those, more) ==
    \/ \E k \in 0 .. Len(those) : Between(what, fixed, those, more, k)
    \/ \E k \in 0 .. Len(those) - 1 : \E j \in 0 .. Len(those[k + 1].attributes) :
           Within(what, fixed, those, more, k, j)

\* The class or a member, from its first attribute to its last.
LEMMA OuterIs ==
  ASSUME NEW what, NEW fixed, NEW those, NEW p, AreAttributes(those, p)
  PROVE  /\ Len(those) \in Nat
         /\ Opened(what, 0, fixed, <<>>, <<>>, Len(those)) = OuterOpened(what, fixed, those, 0)
         /\ Taken(KeptOf(those), Len(those)) = KeptOf(those)
         /\ \A k \in Nat : k < Len(those) =>
                WithAttribute(OuterOpened(what, fixed, those, k), Kept(those[k + 1]))
                = OuterOpened(what, fixed, those, k + 1)
  <1> DEFINE n == Len(those)
             f == KeptOf(those)
  <1>1. n \in Nat /\ DOMAIN those = 1 .. n
    BY AttributesAre, LenProperties
  <1>2. f = [i \in 1 .. n |-> Kept(those[i])]
    BY <1>1 DEF KeptOf
  <1>3. Opened(what, 0, fixed, <<>>, <<>>, n) = OuterOpened(what, fixed, those, 0)
    <2>1. Taken(f, 0) = <<>>
      BY TakenNothing
    <2>2. n - 0 = n
      BY <1>1
    <2>3. QED
      BY <2>1, <2>2 DEF Opened, OuterOpened, Waits
  <1>4. Taken(f, n) = f
    <2>1. \A i \in 1 .. n : f[i] = Kept(those[i])
      BY <1>2
    <2>2. QED
      BY <1>2, <2>1 DEF Taken
  <1>5. ASSUME NEW k \in Nat, k < n
        PROVE  WithAttribute(OuterOpened(what, fixed, those, k), Kept(those[k + 1]))
               = OuterOpened(what, fixed, those, k + 1)
    <2> DEFINE x == Kept(those[k + 1])
    <2>1. k + 1 \in 1 .. n
      BY <1>1, <1>5
    <2>2. x = f[k + 1]
      BY <1>2, <2>1
    <2> HIDE DEF x, f
    <2>3. Append(Taken(f, k), x) = Taken(f, k + 1)
      BY <2>2, TakenGrows
    <2>4. (n - k) - 1 = n - (k + 1)
      BY <1>1
    <2> DEFINE s == Taken(f, k)
               t == Taken(f, k + 1)
               d == n - k
               e == n - (k + 1)
               m == k + 1
               o == OuterOpened(what, fixed, those, k)
    <2>5. o = Waits(what, 0, fixed, <<>>, <<>>, d, s)
      BY DEF OuterOpened, f
    <2>6. OuterOpened(what, fixed, those, k + 1) = Waits(what, 0, fixed, <<>>, <<>>, e, t)
      BY DEF OuterOpened, f
    <2>7. d - 1 = e /\ Append(s, x) = t
      BY <2>3, <2>4
    <2> HIDE DEF s, t, d, e, o, n
    <2>8. WithAttribute(o, x) = Waits(what, 0, fixed, <<>>, <<>>, e, t)
      <3>1. WithAttribute(o, x) = Waits(what, 0, fixed, <<>>, <<>>, d - 1, Append(s, x))
        BY <2>5, WithAttributeIs
      <3>2. QED
        BY <2>7, <3>1
    <2>9. QED
      BY <2>6, <2>8 DEF o, x
  <1> HIDE DEF n, f
  <1>6. \A k \in Nat : k < n =>
            WithAttribute(OuterOpened(what, fixed, those, k), Kept(those[k + 1]))
            = OuterOpened(what, fixed, those, k + 1)
    BY <1>5
  <1>7. QED
    BY <1>1, <1>3, <1>4, <1>6 DEF n, f

\* The same for the attributes of a method's code.
LEMMA InnerOpens ==
  ASSUME NEW a, NEW p, IsAttribute(a, p), a.kind = "Code"
  PROVE  /\ Len(a.attributes) \in Nat
         /\ Coded(a.name, a.fixed, a.rows, a.bytes, Taken(KeptInside(a), Len(a.attributes)))
                = Kept(a)
         /\ \A j \in Nat : j < Len(a.attributes) =>
                WithAttribute(InnerOpened(a, j), KeptAlone(a.attributes[j + 1]))
                = InnerOpened(a, j + 1)
  <1> DEFINE is == a.attributes
             n == Len(is)
             f == KeptInside(a)
  <1>1. a \in Attributes
    BY DEF IsAttribute
  <1>2. n \in Nat /\ DOMAIN is = 1 .. n
    BY <1>1, LenProperties DEF Attributes
  <1>3. f = [i \in 1 .. n |-> KeptAlone(is[i])]
    BY <1>2 DEF KeptInside
  <1>4. Taken(f, n) = f
    <2>1. \A i \in 1 .. n : f[i] = KeptAlone(is[i])
      BY <1>3
    <2>2. QED
      BY <1>3, <2>1 DEF Taken
  <1>5. Coded(a.name, a.fixed, a.rows, a.bytes, f) = Kept(a)
    <2>1. KeptAlone(a) = a
      BY DEF KeptAlone, Skipped
    <2>2. Kept(a) = [a EXCEPT !.attributes = f]
      BY <2>1 DEF Kept, KeptInside
    <2> HIDE DEF f
    <2>3. [a EXCEPT !.attributes = f]
              = [kind |-> "Code", name |-> a.name, fixed |-> a.fixed, rows |-> a.rows,
                 bytes |-> a.bytes, attributes |-> f]
      BY <1>1 DEF Attributes
    <2>4. Coded(a.name, a.fixed, a.rows, a.bytes, f)
              = [kind |-> "Code", name |-> a.name, fixed |-> a.fixed, rows |-> a.rows,
                 bytes |-> a.bytes, attributes |-> f]
      BY CodeFields
    <2>5. QED
      BY <2>2, <2>3, <2>4
  <1>6. ASSUME NEW k \in Nat, k < n
        PROVE  WithAttribute(InnerOpened(a, k), KeptAlone(is[k + 1]))
               = InnerOpened(a, k + 1)
    <2> DEFINE x == KeptAlone(is[k + 1])
    <2>1. k + 1 \in 1 .. n
      BY <1>2, <1>6
    <2>2. x = f[k + 1]
      BY <1>3, <2>1
    <2> HIDE DEF x, f
    <2>3. Append(Taken(f, k), x) = Taken(f, k + 1)
      BY <2>2, TakenGrows
    <2>4. (n - k) - 1 = n - (k + 1)
      BY <1>2
    <2> DEFINE s == Taken(f, k)
               t == Taken(f, k + 1)
               d == n - k
               e == n - (k + 1)
               o == InnerOpened(a, k)
    <2>5. o = Waits("code", a.name, a.fixed, a.rows, a.bytes, d, s)
      BY DEF InnerOpened, f
    <2>6. InnerOpened(a, k + 1) = Waits("code", a.name, a.fixed, a.rows, a.bytes, e, t)
      BY DEF InnerOpened, f
    <2>7. d - 1 = e /\ Append(s, x) = t
      BY <2>3, <2>4
    <2> HIDE DEF s, t, d, e, o, n
    <2>8. WithAttribute(o, x) = Waits("code", a.name, a.fixed, a.rows, a.bytes, e, t)
      <3>1. WithAttribute(o, x)
                = Waits("code", a.name, a.fixed, a.rows, a.bytes, d - 1, Append(s, x))
        BY <2>5, WithAttributeIs
      <3>2. QED
        BY <2>7, <3>1
    <2>9. QED
      BY <2>6, <2>8 DEF o, x
  <1> HIDE DEF n, f
  <1>7. \A j \in Nat : j < n =>
            WithAttribute(InnerOpened(a, j), KeptAlone(is[j + 1]))
            = InnerOpened(a, j + 1)
    BY <1>6
  <1>8. QED
    BY <1>2, <1>4, <1>5, <1>7 DEF n, f

\* The bytes between two attributes.
LEMMA AttributesLeft ==
  ASSUME NEW those, NEW p, AreAttributes(those, p), NEW k \in Nat, k < Len(those), NEW more \in Seq(Units)
  PROVE  /\ Rest(AttributeParts(those), k + 2) \in Seq(Units)
         /\ Then(Rest(AttributeParts(those), k + 1), more)
                = Then(AttributeLayout(those[k + 1]), Then(Rest(AttributeParts(those), k + 2), more))
         /\ Then(Rest(AttributeParts(those), k + 2), more) \in Seq(Units)
  <1> DEFINE parts == AttributeParts(those)
             n == Len(those)
             i == k + 1
  <1>1. /\ parts \in Seq(Seq(Units)) /\ Len(parts) = n
        /\ \A j \in 1 .. n : parts[j] = AttributeLayout(those[j])
    BY AttributePartsAre
  <1>2. n \in Nat /\ k \in Nat /\ k < n
    BY AttributesAre, LenProperties
  <1>3. i \in 1 .. n /\ i + 1 \in 1 .. n + 1 /\ i + 1 = k + 2
    BY <1>2
  <1> HIDE DEF parts, n, i
  <1>4. Rest(parts, i) = Then(parts[i], Rest(parts, i + 1))
    BY <1>1, <1>3, RestStep DEF Then
  <1>5. Rest(parts, i + 1) \in Seq(Units)
    BY <1>1, <1>3, RestType
  <1>6. parts[i] \in Seq(Units)
    BY <1>1, <1>3, SeqHas
  <1>7. Then(Then(parts[i], Rest(parts, i + 1)), more)
            = Then(parts[i], Then(Rest(parts, i + 1), more))
    BY <1>5, <1>6, ThenAssociates
  <1>8. Then(Rest(parts, i + 1), more) \in Seq(Units)
    BY <1>5, ThenType
  <1>9. parts[i] = AttributeLayout(those[i])
    BY <1>1, <1>3
  <1>10. /\ Rest(parts, k + 2) \in Seq(Units)
         /\ Then(Rest(parts, i), more) = Then(AttributeLayout(those[i]), Then(Rest(parts, k + 2), more))
         /\ Then(Rest(parts, k + 2), more) \in Seq(Units)
    BY <1>3, <1>4, <1>5, <1>7, <1>8, <1>9
  <1>11. QED
    BY <1>10 DEF parts, i

\* Behind an attribute inside of the code there are the others.
LEMMA InnerLeft ==
  ASSUME NEW a, NEW p, IsAttribute(a, p), NEW k \in Nat, k < Len(a.attributes),
         NEW more \in Seq(Units)
  PROVE  Then(Rest(InnerParts(a.attributes), k + 1), more)
             = Then(InnerLayout(a.attributes[k + 1]),
                    Then(Rest(InnerParts(a.attributes), k + 2), more))
         /\ Then(Rest(InnerParts(a.attributes), k + 2), more) \in Seq(Units)
  <1> DEFINE is == a.attributes
             parts == InnerParts(is)
             n == Len(is)
             i == k + 1
  <1>1. /\ parts \in Seq(Seq(Units)) /\ Len(parts) = n
        /\ \A j \in 1 .. n : parts[j] = InnerLayout(is[j])
    BY InnerPartsAre
  <1>2. n \in Nat /\ k \in Nat /\ k < n
    BY DEF IsAttribute, Attributes
  <1>3. i \in 1 .. n /\ i + 1 \in 1 .. n + 1 /\ i + 1 = k + 2
    BY <1>2
  <1> HIDE DEF parts, n, i, is
  <1>4. Rest(parts, i) = Then(parts[i], Rest(parts, i + 1))
    BY <1>1, <1>3, RestStep DEF Then
  <1>5. Rest(parts, i + 1) \in Seq(Units)
    BY <1>1, <1>3, RestType
  <1>6. parts[i] \in Seq(Units)
    BY <1>1, <1>3, SeqHas
  <1>7. Then(Then(parts[i], Rest(parts, i + 1)), more)
            = Then(parts[i], Then(Rest(parts, i + 1), more))
    BY <1>5, <1>6, ThenAssociates
  <1>8. Then(Rest(parts, i + 1), more) \in Seq(Units)
    BY <1>5, ThenType
  <1>9. parts[i] = InnerLayout(is[i])
    BY <1>1, <1>3
  <1>10. /\ Then(Rest(parts, i), more) = Then(InnerLayout(is[i]), Then(Rest(parts, k + 2), more))
         /\ Then(Rest(parts, k + 2), more) \in Seq(Units)
    BY <1>3, <1>4, <1>7, <1>8, <1>9
  <1>11. QED
    BY <1>10 DEF parts, i, is

\* Two constructors are open: the code is the inner one.
LEMMA AppendPair ==
  ASSUME NEW o, NEW y
  PROVE  Append(<<o>>, y) = <<o, y>>
  <1> DEFINE U == {o, y}
             s == Append(<<o>>, y)
  <1>1. <<o>> \in Seq(U) /\ <<o, y>> \in Seq(U) /\ y \in U
    OBVIOUS
  <1>2. s \in Seq(U) /\ Len(s) = 2 /\ s[1] = o /\ s[2] = y
    BY <1>1
  <1> HIDE DEF s
  <1>3. \A i \in 1 .. Len(s) : s[i] = <<o, y>>[i]
    BY <1>2
  <1>4. Len(<<o, y>>) = Len(s)
    BY <1>2
  <1> HIDE DEF U
  <1>5. s = <<o, y>>
    BY <1>1, <1>2, <1>3, <1>4, SeqEqual
  <1>6. QED
    BY <1>5 DEF s

\* Where an attribute comes, one is missing.
LEMMA ComesIs ==
  ASSUME ParseAlone \/ BeginCode
  PROVE  Top.left > 0
  BY DEF ParseAlone, ParsePlain, ParseTable, ParseBootstrapMethods, ParseByteStream,
         SkipAttribute, BeginCode, AttributeComes

\* Between two attributes every action brings the parser behind the next, or
\* into its code.
LEMMA BetweenStep ==
  ASSUME NEW what, what # "code", NEW fixed, NEW those, AreAttributes(those, pool),
         NEW more \in Seq(Units), NEW k \in 0 .. Len(those),
         Between(what, fixed, those, more, k), ParseAlone \/ BeginCode \/ EndCode
  PROVE  InAttributes(what, fixed, those, more)' /\ UNCHANGED <<fileVars, phase, left, pool, cf>>
  <1> DEFINE o == OuterOpened(what, fixed, those, k)
             a == those[k + 1]
             m == Then(Rest(AttributeParts(those), k + 2), more)
             x == Kept(a)
  <1>1. open = <<o>> /\ rest = Then(Rest(AttributeParts(those), k + 1), more)
    BY DEF Between
  <1>2. Len(open) = 1 /\ Top = o
    <2> HIDE DEF o
    <2>1. Len(open) = 1 /\ open[1] = o
      BY <1>1
    <2>2. QED
      BY <2>1 DEF Top
  <1>3. o.what = what /\ o.left = Len(those) - k
    BY DEF OuterOpened, Waits
  <1>4. ParseAlone \/ BeginCode
    BY <1>2, <1>3 DEF EndCode
  <1>5. k \in Nat /\ k < Len(those) /\ k + 1 \in 1 .. Len(those) /\ k \in 0 .. Len(those) - 1
        /\ k + 1 \in 0 .. Len(those) /\ (k + 1) + 1 = k + 2
    <2>1. Len(those) - k > 0
      BY <1>2, <1>3, <1>4, ComesIs
    <2>2. Len(those) \in Nat
      BY AttributesAre, LenProperties
    <2>3. QED
      BY <2>1, <2>2
  <1>6. IsAttribute(a, pool)
    BY <1>5, AttributesAre
  <1>7. rest = Then(AttributeLayout(a), m) /\ m \in Seq(Units)
    BY <1>1, <1>5, AttributesLeft
  <1>8. \E inside \in Seq(Units) : AttributeLayout(a) = WithHeader(a, Contents(a, inside))
    <2>1. InnerParts(a.attributes) \in Seq(Seq(Units))
      BY <1>6, InnerPartsAre
    <2>2. List(InnerParts(a.attributes)) \in Seq(Units)
      BY <2>1, ListType
    <2>3. AttributeLayout(a) = WithHeader(a, Contents(a, List(InnerParts(a.attributes))))
      BY DEF AttributeLayout, InnerParts
    <2>4. QED
      BY <2>2, <2>3
  <1>9. PICK inside \in Seq(Units) : AttributeLayout(a) = WithHeader(a, Contents(a, inside))
    BY <1>8
  <1>10. (ParseAlone => a.kind # "Code") /\ (BeginCode => a.kind = "Code")
    BY <1>6, <1>7, <1>9, AloneComes
  <1> HIDE DEF a, m
  <1>11. CASE ParseAlone
    <2>1. a.kind # "Code"
      BY <1>10, <1>11
    <2>2. AttributeLayout(a) = InnerLayout(a) /\ x = KeptAlone(a)
      BY <1>6, <2>1, AloneIs
    <2>3. rest = Then(InnerLayout(a), m)
      BY <1>7, <2>2
    <2>4. Added(KeptAlone(a), m)
      BY <1>6, <1>7, <1>11, <2>1, <2>3, AloneRead
    <2>5. open' = <<WithAttribute(o, x)>>
      <3>1. open' = [open EXCEPT ![Len(open)] = WithAttribute(Top, x)]
        BY <2>2, <2>4 DEF Added
      <3> HIDE DEF o, x
      <3>2. open' = [<<o>> EXCEPT ![1] = WithAttribute(o, x)]
        BY <1>1, <1>2, <3>1
      <3>3. QED
        BY <3>2
    <2>6. WithAttribute(o, x) = OuterOpened(what, fixed, those, k + 1)
      BY <1>5, OuterIs DEF a
    <2>7. rest' = Then(Rest(AttributeParts(those), (k + 1) + 1), more)
      BY <1>5, <2>4 DEF Added, m
    <2>8. Between(what, fixed, those, more, k + 1)'
      BY <2>5, <2>6, <2>7 DEF Between
    <2>9. UNCHANGED <<fileVars, phase, left, pool, cf>>
      BY <2>4 DEF Added
    <2>10. QED
      BY <1>5, <2>8, <2>9 DEF InAttributes
  <1>12. CASE BeginCode
    <2>1. a.kind = "Code"
      BY <1>10, <1>12
    <2>2. /\ open' = Append(open, InnerOpened(a, 0))
          /\ rest' = Then(Rest(InnerParts(a.attributes), 1), m)
          /\ UNCHANGED <<fileVars, phase, left, pool, cf>>
      BY <1>6, <1>7, <1>12, <2>1, CodeRead
    <2>3. open' = <<o, InnerOpened(a, 0)>>
      <3> DEFINE y == InnerOpened(a, 0)
      <3> HIDE DEF o, y
      <3>1. open' = Append(<<o>>, y)
        BY <1>1, <2>2 DEF y
      <3>2. Append(<<o>>, y) = <<o, y>>
        BY AppendPair
      <3>3. QED
        BY <3>1, <3>2 DEF y
    <2>4. Len(a.attributes) \in Nat
      BY <1>6, <2>1, InnerOpens
    <2>5. 0 \in 0 .. Len(a.attributes) /\ 0 + 1 = 1
      BY <2>4
    <2>6. Within(what, fixed, those, more, k, 0)'
      BY <2>1, <2>2, <2>3, <2>5 DEF Within, a, m
    <2>7. \E j \in 0 .. Len(those[k + 1].attributes) : Within(what, fixed, those, more, k, j)'
      BY <2>5, <2>6 DEF a
    <2>8. QED
      BY <1>5, <2>2, <2>7 DEF InAttributes
  <1>13. QED
    BY <1>4, <1>11, <1>12

\* Within a method's code every action brings it behind the next attribute
\* inside, or out of the code.
LEMMA WithinStep ==
  ASSUME NEW what, NEW fixed, NEW those, AreAttributes(those, pool),
         NEW more \in Seq(Units), NEW k \in 0 .. Len(those) - 1,
         NEW j \in 0 .. Len(those[k + 1].attributes),
         Within(what, fixed, those, more, k, j), ParseAlone \/ BeginCode \/ EndCode
  PROVE  InAttributes(what, fixed, those, more)' /\ UNCHANGED <<fileVars, phase, left, pool, cf>>
  <1> DEFINE o == OuterOpened(what, fixed, those, k)
             a == those[k + 1]
             is == a.attributes
             y == InnerOpened(a, j)
             m == Then(Rest(AttributeParts(those), k + 2), more)
  <1>1. /\ open = <<o, y>> /\ a.kind = "Code"
        /\ rest = Then(Rest(InnerParts(is), j + 1), m)
    BY DEF Within
  <1>2. Len(open) = 2 /\ Top = y /\ open[Len(open) - 1] = o
    <2> HIDE DEF o, y
    <2>1. Len(open) = 2 /\ open[2] = y /\ open[1] = o
      BY <1>1
    <2>2. QED
      BY <2>1 DEF Top
  <1>3. /\ y.what = "code" /\ y.left = Len(is) - j /\ y.name = a.name /\ y.fixed = a.fixed
        /\ y.rows = a.rows /\ y.bytes = a.bytes /\ y.attributes = Taken(KeptInside(a), j)
    BY DEF InnerOpened, Waits
  <1>4. k \in Nat /\ k < Len(those) /\ k + 1 \in 1 .. Len(those)
        /\ k + 1 \in 0 .. Len(those) /\ (k + 1) + 1 = k + 2
    <2>1. Len(those) \in Nat
      BY AttributesAre, LenProperties
    <2>2. QED
      BY <2>1
  <1>5. IsAttribute(a, pool)
    BY <1>4, AttributesAre
  <1>6. Len(is) \in Nat
    BY <1>1, <1>5, InnerOpens
  <1>7. m \in Seq(Units)
    BY <1>4, AttributesLeft
  <1> HIDE DEF m, o, y, a
  <1>8. CASE ParseAlone \/ BeginCode
    <2> DEFINE b == is[j + 1]
               q == Then(Rest(InnerParts(is), j + 2), m)
               x == KeptAlone(b)
    <2>1. j \in Nat /\ j < Len(is) /\ j + 1 \in 1 .. Len(is) /\ j + 1 \in 0 .. Len(is)
          /\ (j + 1) + 1 = j + 2
      <3>1. Len(is) - j > 0
        BY <1>2, <1>3, <1>8, ComesIs
      <3>2. QED
        BY <1>6, <3>1 DEF a
    <2>2. IsInner(b, pool)
      <3>1. DOMAIN is = 1 .. Len(is)
        <4>1. is \in Seq(InnerAttributes)
          BY <1>5 DEF IsAttribute, Attributes
        <4>2. QED
          BY <4>1, SeqHas, Zenon
      <3>2. QED
        BY <1>5, <2>1, <3>1 DEF IsAttribute
    <2>3. IsAttribute(b, pool) /\ b.kind # "Code"
      BY <2>2, InnerIs DEF IsInner
    <2>4. rest = Then(InnerLayout(b), q) /\ q \in Seq(Units)
      BY <1>1, <1>5, <1>7, <2>1, InnerLeft
    <2>5. ParseAlone
      <3>1. rest = Then(WithHeader(b, Contents(b, <<>>)), q)
        BY <2>4 DEF InnerLayout
      <3>2. <<>> \in Seq(Units)
        OBVIOUS
      <3>3. BeginCode => b.kind = "Code"
        BY <2>3, <2>4, <3>1, <3>2, AloneComes
      <3>4. QED
        BY <1>8, <2>3, <3>3
    <2> HIDE DEF b, q
    <2>6. Added(x, q)
      BY <2>3, <2>4, <2>5, AloneRead
    <2>7. open' = <<o, WithAttribute(y, x)>>
      <3> HIDE DEF x
      <3>1. open' = [open EXCEPT ![Len(open)] = WithAttribute(Top, x)]
        BY <2>6 DEF Added
      <3>2. open' = [<<o, y>> EXCEPT ![2] = WithAttribute(y, x)]
        BY <1>1, <1>2, <3>1
      <3>3. QED
        BY <3>2
    <2>8. WithAttribute(y, x) = InnerOpened(a, j + 1)
      BY <1>1, <1>5, <2>1, InnerOpens DEF y, b
    <2>9. rest' = Then(Rest(InnerParts(is), (j + 1) + 1), m)
      BY <2>1, <2>6 DEF Added, q
    <2>10. Within(what, fixed, those, more, k, j + 1)'
      BY <1>1, <2>7, <2>8, <2>9 DEF Within, a, m, o
    <2>11. \E i \in 0 .. Len(those[k + 1].attributes) : Within(what, fixed, those, more, k, i)'
      BY <2>1, <2>10 DEF a
    <2>12. UNCHANGED <<fileVars, phase, left, pool, cf>>
      BY <2>6 DEF Added
    <2>13. QED
      BY <2>11, <2>12 DEF InAttributes
  <1>9. CASE EndCode
    <2>1. j = Len(is)
      <3>1. Len(is) - j = 0
        BY <1>2, <1>3, <1>9 DEF EndCode
      <3>2. QED
        BY <1>6, <3>1 DEF a
    <2>2. Code = Kept(a)
      <3>1. Code = Coded(a.name, a.fixed, a.rows, a.bytes, Taken(KeptInside(a), Len(is)))
        BY <1>2, <1>3, <2>1 DEF Code, Coded
      <3>2. QED
        BY <1>1, <1>5, <3>1, InnerOpens
    <2> DEFINE x == Kept(a)
    <2>3. open' = SubSeq(open, 1, Len(open) - 2) \o <<WithAttribute(open[Len(open) - 1], x)>>
      BY <1>9, <2>2 DEF EndCode
    <2>4. open' = <<WithAttribute(o, x)>>
      <3> DEFINE g == WithAttribute(o, x)
      <3>1. open' = SubSeq(<<o, y>>, 1, 0) \o <<g>>
        <4>1. Len(open) - 2 = 0
          BY <1>2
        <4> HIDE DEF g
        <4>2. QED
          BY <1>1, <1>2, <2>3, <4>1 DEF g
      <3> HIDE DEF g
      <3>2. SubSeq(<<o, y>>, 1, 0) = <<>>
        OBVIOUS
      <3>3. <<>> \o <<g>> = <<g>>
        OBVIOUS
      <3>4. QED
        BY <3>1, <3>2, <3>3 DEF g
    <2>5. WithAttribute(o, x) = OuterOpened(what, fixed, those, k + 1)
      BY <1>4, OuterIs DEF a, o
    <2>6. rest = m
      <3>1. InnerParts(is) \in Seq(Seq(Units)) /\ Len(InnerParts(is)) = Len(is)
        BY <1>5, InnerPartsAre
      <3>2. Rest(InnerParts(is), j + 1) = <<>>
        BY <2>1, <3>1, RestEnd
      <3>3. Then(<<>>, m) = m
        BY <1>7, ThenEmpty
      <3>4. QED
        BY <1>1, <3>2, <3>3
    <2>7. rest' = Then(Rest(AttributeParts(those), (k + 1) + 1), more)
      BY <1>4, <1>9, <2>6 DEF EndCode, m
    <2>8. Between(what, fixed, those, more, k + 1)'
      BY <2>4, <2>5, <2>7 DEF Between
    <2>9. UNCHANGED <<fileVars, phase, left, pool, cf>>
      BY <1>9 DEF EndCode
    <2>10. QED
      BY <1>4, <2>8, <2>9 DEF InAttributes
  <1>10. QED
    BY <1>8, <1>9

\* Among attributes, the parser remains among them and reads what the file has.
LEMMA AttributeStep ==
  ASSUME NEW what, what # "code", NEW fixed, NEW those, AreAttributes(those, pool),
         NEW more \in Seq(Units), InAttributes(what, fixed, those, more),
         ParseAlone \/ BeginCode \/ EndCode
  PROVE  InAttributes(what, fixed, those, more)' /\ UNCHANGED <<fileVars, phase, left, pool, cf>>
  <1>1. CASE \E k \in 0 .. Len(those) : Between(what, fixed, those, more, k)
    <2>1. PICK k \in 0 .. Len(those) : Between(what, fixed, those, more, k)
      BY <1>1
    <2>2. QED
      BY <2>1, BetweenStep
  <1>2. CASE \E k \in 0 .. Len(those) - 1 : \E j \in 0 .. Len(those[k + 1].attributes) :
                 Within(what, fixed, those, more, k, j)
    <2>1. PICK k \in 0 .. Len(those) - 1 : \E j \in 0 .. Len(those[k + 1].attributes) :
                   Within(what, fixed, those, more, k, j)
      BY <1>2
    <2>2. PICK j \in 0 .. Len(those[k + 1].attributes) :
                   Within(what, fixed, those, more, k, j)
      BY <2>1
    <2>3. QED
      BY <2>2, WithinStep
  <1>3. QED
    BY <1>1, <1>2 DEF InAttributes

\* Nothing is missing but where all is read.
LEMMA AttributesEnd ==
  ASSUME NEW what, what # "code", NEW fixed, NEW those, AreAttributes(those, pool),
         NEW more \in Seq(Units), InAttributes(what, fixed, those, more)
  PROVE  /\ open # <<>> /\ Top.what \in {what, "code"}
         /\ Top.what = what /\ Top.left = 0 =>
                rest = more /\ Top.fixed = fixed /\ Top.attributes = KeptOf(those)
  <1>1. CASE \E k \in 0 .. Len(those) : Between(what, fixed, those, more, k)
    <2>1. PICK k \in 0 .. Len(those) : Between(what, fixed, those, more, k)
      BY <1>1
    <2> DEFINE o == OuterOpened(what, fixed, those, k)
    <2>2. open = <<o>> /\ rest = Then(Rest(AttributeParts(those), k + 1), more)
      BY <2>1 DEF Between
    <2>3. o.what = what /\ o.left = Len(those) - k /\ o.fixed = fixed
          /\ o.attributes = Taken(KeptOf(those), k)
      BY DEF OuterOpened, Waits
    <2> HIDE DEF o
    <2>4. open # <<>> /\ Len(open) = 1 /\ open[1] = o
      BY <2>2
    <2>5. Top = o
      BY <2>4 DEF Top
    <2>6. ASSUME Top.left = 0
          PROVE  rest = more /\ Top.fixed = fixed /\ Top.attributes = KeptOf(those)
      <3>1. Len(those) \in Nat
        BY AttributesAre, LenProperties
      <3>2. k = Len(those)
        <4>1. Len(those) - k = 0
          BY <2>3, <2>5, <2>6
        <4>2. QED
          BY <3>1, <4>1
      <3>3. AttributeParts(those) \in Seq(Seq(Units))
            /\ Len(AttributeParts(those)) = Len(those)
        BY AttributePartsAre
      <3>4. Rest(AttributeParts(those), k + 1) = <<>>
        BY <3>2, <3>3, RestEnd
      <3>5. Then(<<>>, more) = more
        BY ThenEmpty
      <3>6. Taken(KeptOf(those), k) = KeptOf(those)
        BY <3>2, OuterIs
      <3>7. QED
        BY <2>2, <2>3, <2>5, <3>4, <3>5, <3>6
    <2>7. QED
      BY <2>3, <2>4, <2>5, <2>6
  <1>2. CASE \E k \in 0 .. Len(those) - 1 : \E j \in 0 .. Len(those[k + 1].attributes) :
                 Within(what, fixed, those, more, k, j)
    <2>1. PICK k \in 0 .. Len(those) - 1 : \E j \in 0 .. Len(those[k + 1].attributes) :
                   Within(what, fixed, those, more, k, j)
      BY <1>2
    <2>2. PICK j \in 0 .. Len(those[k + 1].attributes) :
                   Within(what, fixed, those, more, k, j)
      BY <2>1
    <2> DEFINE o == OuterOpened(what, fixed, those, k)
               y == InnerOpened(those[k + 1], j)
    <2>3. open = <<o, y>>
      BY <2>2 DEF Within
    <2>4. y.what = "code"
      BY DEF InnerOpened, Waits
    <2> HIDE DEF o, y
    <2>5. open # <<>> /\ Len(open) = 2 /\ open[2] = y
      BY <2>3
    <2>6. QED
      BY <2>4, <2>5 DEF Top
  <1>3. QED
    BY <1>1, <1>2 DEF InAttributes

-----------------------------------------------------------------------------
(* Numbers at the front of the stream *)

\* What stands at the front of the stream is read, and what follows is left.
LEMMA FrontRead ==
  ASSUME NEW s \in Seq(Units), NEW q \in Seq(Units), rest = Then(s, q)
  PROVE  /\ rest \in Seq(Units) /\ Len(s) \in Nat
         /\ \A j \in 1 .. Len(s) : rest[j] = s[j]
         /\ Behind(rest, Len(s), q)
         /\ Consume(Len(s)) => rest' = q
  <1>1. rest \in Seq(Units)
    BY ThenType
  <1>2. Behind(rest, 0, Then(s, q))
    BY <1>1, BehindNothing
  <1>3. (\A j \in 1 .. Len(s) : rest[0 + j] = s[j]) /\ Behind(rest, 0 + Len(s), q)
    BY <1>2, BehindThen
  <1>4. Len(s) \in Nat
    OBVIOUS
  <1>5. 0 + Len(s) = Len(s) /\ \A j \in 1 .. Len(s) : 0 + j = j
    BY <1>4
  <1>6. Behind(rest, Len(s), q) /\ \A j \in 1 .. Len(s) : rest[j] = s[j]
    BY <1>3, <1>5
  <1>7. SubSeq(rest, Len(s) + 1, Len(rest)) = q
    BY <1>1, <1>6, BehindLeft
  <1>8. QED
    BY <1>1, <1>4, <1>6, <1>7 DEF Consume

\* A count, and what is counted.
LEMMA CountRead ==
  ASSUME NEW n \in Nat, NEW q \in Seq(Units), rest = Then(U2(n), q)
  PROVE  Value(1) = n /\ (Consume(1) => rest' = q)
  <1>1. U2(n) \in Seq(Units) /\ Len(U2(n)) = 1 /\ U2(n)[1] = Unit(2, n)
    BY UnitIs
  <1>2. /\ \A j \in 1 .. 1 : rest[j] = U2(n)[j]
        /\ Consume(1) => rest' = q
    BY <1>1, FrontRead
  <1>3. rest[1] = Unit(2, n)
    BY <1>1, <1>2
  <1>4. Value(1) = n
    BY <1>3 DEF Value, Unit
  <1>5. QED
    BY <1>2, <1>4

\* One number more at the end of s.
LEMMA NumberAppended ==
  ASSUME NEW s \in Seq(Units), NEW n \in Nat, NEW m \in Nat, Len(s) = m
  PROVE  /\ s \o U2(n) \in Seq(Units) /\ Len(s \o U2(n)) = m + 1
         /\ (s \o U2(n))[m + 1] = Unit(2, n)
         /\ \A i \in 1 .. m : (s \o U2(n))[i] = s[i]
  <1> DEFINE u == U2(n)
  <1>1. u \in Seq(Units) /\ Len(u) = 1 /\ u[1] = Unit(2, n)
    BY UnitIs
  <1> HIDE DEF u
  <1>2. /\ s \o u \in Seq(Units) /\ Len(s \o u) = m + 1
        /\ (s \o u)[m + 1] = u[1]
        /\ \A i \in 1 .. m : (s \o u)[i] = s[i]
    <2> DEFINE t == s \o u
    <2>1. /\ t \in Seq(Units) /\ Len(t) = Len(s) + Len(u)
          /\ \A i \in 1 .. Len(s) + Len(u) :
                 t[i] = IF i <= Len(s) THEN s[i] ELSE u[i - Len(s)]
      BY <1>1, ConcatProperties
    <2> HIDE DEF t
    <2>2. m + 1 \in 1 .. Len(s) + Len(u) /\ ~(m + 1 <= Len(s)) /\ m + 1 - Len(s) = 1
      BY <1>1
    <2>3. \A i \in 1 .. m : i \in 1 .. Len(s) + Len(u) /\ i <= Len(s)
      BY <1>1
    <2>4. t[m + 1] = u[1] /\ \A i \in 1 .. m : t[i] = s[i]
      BY <2>1, <2>2, <2>3
    <2>5. Len(t) = m + 1
      BY <1>1, <2>1
    <2>6. QED
      BY <2>1, <2>4, <2>5 DEF t
  <1>3. QED
    BY <1>1, <1>2 DEF u

-----------------------------------------------------------------------------
(* The fields or the methods *)

MemberParts(ms) == [i \in DOMAIN ms |-> MemberLayout(ms[i])]

\* What the members of a file are.
LEMMA MembersAre ==
  ASSUME NEW ms, NEW p, AreMembers(ms, p)
  PROVE  /\ Len(ms) \in Nat /\ DOMAIN ms = 1 .. Len(ms)
         /\ \A i \in 1 .. Len(ms) :
                /\ ms[i].fixed \in Seq(Nat) /\ Len(ms[i].fixed) = 3
                /\ AreAttributes(ms[i].attributes, p)
                /\ [fixed |-> ms[i].fixed, attributes |-> KeptOf(ms[i].attributes)]
                       = KeptMembers(ms)[i]
         /\ Taken(KeptMembers(ms), Len(ms)) = KeptMembers(ms)
  <1> DEFINE M == [fixed : Seq(Nat), attributes : Seq(Attributes)]
             n == Len(ms)
             f == KeptMembers(ms)
  <1>1. ms \in Seq(M)
    BY DEF AreMembers
  <1>2. n \in Nat /\ DOMAIN ms = 1 .. n /\ \A i \in 1 .. n : ms[i] \in M
    BY <1>1, SeqHas, Zenon
  <1>3. f = [i \in 1 .. n |-> [ms[i] EXCEPT !.attributes = KeptOf(ms[i].attributes)]]
    BY <1>2 DEF KeptMembers
  <1>4. \A i \in 1 .. n : Len(ms[i].fixed) = 3 /\ AreAttributes(ms[i].attributes, p)
    BY <1>2 DEF AreMembers
  <1>5. ASSUME NEW i \in 1 .. n
        PROVE  /\ ms[i].fixed \in Seq(Nat)
               /\ [fixed |-> ms[i].fixed, attributes |-> KeptOf(ms[i].attributes)] = f[i]
    <2> DEFINE m == ms[i]
               k == KeptOf(m.attributes)
    <2>1. m \in M
      BY <1>2
    <2>2. f[i] = [m EXCEPT !.attributes = k]
      BY <1>3
    <2> HIDE DEF m, k, f
    <2>3. m.fixed \in Seq(Nat) /\ [m EXCEPT !.attributes = k]
                                      = [fixed |-> m.fixed, attributes |-> k]
      BY <2>1
    <2>4. QED
      BY <2>2, <2>3 DEF m, k
  <1>6. Taken(f, n) = f
    <2>1. f = [i \in 1 .. n |-> f[i]]
      BY <1>3
    <2>2. QED
      BY <2>1 DEF Taken
  <1> HIDE DEF f, n, M
  <1>7. QED
    BY <1>2, <1>4, <1>5, <1>6 DEF f, n

\* A member is its three numbers and its attributes.
LEMMA MemberLayoutIs ==
  ASSUME NEW ms, NEW p, AreMembers(ms, p), NEW i \in 1 .. Len(ms)
  PROVE  LET m == ms[i]
             as == m.attributes
         IN /\ MemberLayout(m) \in Seq(Units)
            /\ MemberLayout(m) = Then(EachU2(m.fixed),
                                      Then(U2(Len(as)), Rest(AttributeParts(as), 1)))
            /\ Rest(AttributeParts(as), 1) \in Seq(Units)
            /\ Len(as) \in Nat
  <1> DEFINE m == ms[i]
             those == m.attributes
             r == Rest(AttributeParts(those), 1)
  <1>1. m.fixed \in Seq(Nat) /\ AreAttributes(those, p)
    BY MembersAre
  <1>2. EachU2(m.fixed) \in Seq(Units)
    BY <1>1, EachU2Is
  <1>3. AttributesLayout(those) = Then(U2(Len(those)), r) /\ AttributesLayout(those) \in Seq(Units)
    BY <1>1, AttributePartsAre DEF Then
  <1>4. AttributeParts(those) \in Seq(Seq(Units)) /\ Len(AttributeParts(those)) = Len(those)
    BY <1>1, AttributePartsAre
  <1>5. Len(those) \in Nat /\ 1 \in 1 .. Len(those) + 1
    <2>1. those \in Seq(Attributes)
      BY <1>1, AttributesAre
    <2>2. QED
      BY <2>1
  <1>6. r \in Seq(Units)
    BY <1>4, <1>5, RestType
  <1>7. MemberLayout(m) = Then(EachU2(m.fixed), AttributesLayout(those))
    BY DEF MemberLayout, Then
  <1>8. Then(EachU2(m.fixed), AttributesLayout(those)) \in Seq(Units)
    BY <1>2, <1>3, ThenType
  <1>9. QED
    BY <1>3, <1>5, <1>6, <1>7, <1>8

\* One part for each member, behind their number.
LEMMA MemberPartsAre ==
  ASSUME NEW ms, NEW p, AreMembers(ms, p)
  PROVE  /\ MemberParts(ms) \in Seq(Seq(Units)) /\ Len(MemberParts(ms)) = Len(ms)
         /\ \A i \in 1 .. Len(ms) : MemberParts(ms)[i] = MemberLayout(ms[i])
         /\ MembersLayout(ms) = Then(U2(Len(ms)), Rest(MemberParts(ms), 1))
         /\ Rest(MemberParts(ms), 1) \in Seq(Units)
         /\ MembersLayout(ms) \in Seq(Units)
  <1> DEFINE n == Len(ms)
             f == MemberParts(ms)
  <1>1. n \in Nat /\ DOMAIN ms = 1 .. n
    BY MembersAre
  <1>2. \A i \in 1 .. n : f[i] = MemberLayout(ms[i])
    BY <1>1 DEF MemberParts
  <1>3. \A i \in 1 .. n : f[i] \in Seq(Units)
    BY <1>2, MemberLayoutIs
  <1>4. f = [i \in 1 .. n |-> f[i]]
    BY <1>1 DEF MemberParts
  <1>5. MembersLayout(ms) = U2(Len(f)) \o FlattenSeq(f)
    BY DEF MembersLayout, List, MemberParts
  <1> HIDE DEF f, n
  <1>6. f \in Seq(Seq(Units)) /\ Len(f) = n
    BY <1>1, <1>3, <1>4, SeqIs
  <1>7. Rest(f, 1) = FlattenSeq(f) /\ Rest(f, 1) \in Seq(Units)
    <2>1. 1 \in 1 .. Len(f) + 1
      BY <1>1, <1>6
    <2>2. QED
      BY <1>6, <2>1, RestAll, RestType
  <1>8. MembersLayout(ms) = Then(U2(n), Rest(f, 1))
    BY <1>5, <1>6, <1>7 DEF Then
  <1>9. MembersLayout(ms) \in Seq(Units)
    <2>1. U2(n) \in Seq(Units)
      BY <1>1, UnitIs
    <2>2. QED
      BY <1>7, <1>8, <2>1, ThenType
  <1>10. QED
    BY <1>2, <1>6, <1>7, <1>8, <1>9 DEF f, n

\* Behind a member there are the others.
LEMMA MembersLeft ==
  ASSUME NEW ms, NEW p, AreMembers(ms, p), NEW k \in Nat, k < Len(ms), NEW more \in Seq(Units)
  PROVE  /\ Then(Rest(MemberParts(ms), k + 1), more)
                = Then(MemberLayout(ms[k + 1]), Then(Rest(MemberParts(ms), k + 2), more))
         /\ Then(Rest(MemberParts(ms), k + 2), more) \in Seq(Units)
  <1> DEFINE parts == MemberParts(ms)
             n == Len(ms)
             i == k + 1
  <1>1. /\ parts \in Seq(Seq(Units)) /\ Len(parts) = n
        /\ \A j \in 1 .. n : parts[j] = MemberLayout(ms[j])
    BY MemberPartsAre
  <1>2. n \in Nat /\ k \in Nat /\ k < n
    BY MembersAre
  <1>3. i \in 1 .. n /\ i + 1 \in 1 .. n + 1 /\ i + 1 = k + 2
    BY <1>2
  <1> HIDE DEF parts, n, i
  <1>4. Rest(parts, i) = Then(parts[i], Rest(parts, i + 1))
    BY <1>1, <1>3, RestStep DEF Then
  <1>5. Rest(parts, i + 1) \in Seq(Units)
    BY <1>1, <1>3, RestType
  <1>6. parts[i] \in Seq(Units)
    BY <1>1, <1>3, SeqHas
  <1>7. Then(Then(parts[i], Rest(parts, i + 1)), more)
            = Then(parts[i], Then(Rest(parts, i + 1), more))
    BY <1>5, <1>6, ThenAssociates
  <1>8. Then(Rest(parts, i + 1), more) \in Seq(Units)
    BY <1>5, ThenType
  <1>9. parts[i] = MemberLayout(ms[i])
    BY <1>1, <1>3
  <1>10. /\ Then(Rest(parts, i), more) = Then(MemberLayout(ms[i]), Then(Rest(parts, k + 2), more))
         /\ Then(Rest(parts, k + 2), more) \in Seq(Units)
    BY <1>3, <1>4, <1>7, <1>8, <1>9
  <1>11. QED
    BY <1>10 DEF parts, i

\* i members are read, and perhaps the numbers of the next.
InMembers(ms, i, more) ==
    \/ /\ open = <<>>
       /\ left = Len(ms) - i
       /\ rest = Then(Rest(MemberParts(ms), i + 1), more)
    \/ /\ i < Len(ms)
       /\ left = Len(ms) - (i + 1)
       /\ InAttributes("member", ms[i + 1].fixed, ms[i + 1].attributes,
                       Then(Rest(MemberParts(ms), i + 2), more))

\* When their number has been read, none of them has.
LEMMA MembersBegin ==
  ASSUME NEW ms, AreMembers(ms, pool), NEW more \in Seq(Units),
         rest' = Then(Rest(MemberParts(ms), 1), more), left' = Len(ms), open' = <<>>
  PROVE  InMembers(ms, 0, more)' /\ 0 \in 0 .. Len(ms)
  <1>1. Len(ms) \in Nat
    BY MembersAre
  <1>2. Len(ms) - 0 = Len(ms) /\ 0 + 1 = 1 /\ 0 \in 0 .. Len(ms)
    BY <1>1
  <1>3. QED
    BY <1>2 DEF InMembers

\* BeginMember reads the three numbers of the next member.
LEMMA MemberBegins ==
  ASSUME NEW ms, AreMembers(ms, pool), NEW i \in 0 .. Len(ms), NEW more \in Seq(Units),
         InMembers(ms, i, more), BeginMember
  PROVE  InMembers(ms, i, more)' /\ UNCHANGED <<fileVars, phase, pool, cf>>
  <1> DEFINE m == ms[i + 1]
             those == m.attributes
             q == Then(Rest(MemberParts(ms), i + 2), more)
             r == Rest(AttributeParts(those), 1)
             e == EachU2(m.fixed)
             u == U2(Len(those))
  <1>1. /\ open = <<>> /\ left > 0
        /\ open' = <<Opened("member", 0, Values(1, 3), <<>>, <<>>, Value(4))>>
        /\ left' = left - 1
        /\ Consume(4)
        /\ UNCHANGED <<fileVars, phase, pool, cf>>
    BY DEF BeginMember
  <1>2. Len(ms) \in Nat
    BY MembersAre
  <1>3. /\ left = Len(ms) - i
        /\ rest = Then(Rest(MemberParts(ms), i + 1), more)
    <2>1. CASE i < Len(ms) /\ InAttributes("member", m.fixed, those, q)
      <3>1. AreAttributes(those, pool)
        <4>1. i + 1 \in 1 .. Len(ms)
          BY <1>2, <2>1
        <4>2. QED
          BY <4>1, MembersAre
      <3>2. i \in Nat
        BY <1>2
      <3>3. q \in Seq(Units)
        BY <2>1, <3>2, MembersLeft
      <3>4. open # <<>>
        BY <2>1, <3>1, <3>3, AttributesEnd
      <3>5. QED
        BY <1>1, <3>4
    <2>2. QED
      BY <2>1 DEF InMembers
  <1>4. i \in Nat /\ i < Len(ms) /\ i + 1 \in 1 .. Len(ms) /\ left' = Len(ms) - (i + 1)
    BY <1>1, <1>2, <1>3
  <1>5. rest = Then(MemberLayout(m), q) /\ q \in Seq(Units)
    BY <1>3, <1>4, MembersLeft
  <1>6. m.fixed \in Seq(Nat) /\ Len(m.fixed) = 3 /\ AreAttributes(those, pool)
    BY <1>4, MembersAre
  <1>7. MemberLayout(m) = Then(e, Then(u, r)) /\ r \in Seq(Units) /\ Len(those) \in Nat
    BY <1>4, MemberLayoutIs
  <1>8. /\ e \in Seq(Units) /\ Len(e) = 3 /\ \A j \in 1 .. 3 : e[j] = Unit(2, m.fixed[j])
        /\ u \in Seq(Units) /\ Len(u) = 1 /\ u[1] = Unit(2, Len(those))
    BY <1>6, <1>7, EachU2Is, UnitIs
  <1> HIDE DEF m, q, r, e, u
  <1>9. rest = Then(e, Then(u, Then(r, q))) /\ Then(r, q) \in Seq(Units)
        /\ Then(u, Then(r, q)) \in Seq(Units)
    <2>1. Then(u, r) \in Seq(Units) /\ Then(r, q) \in Seq(Units)
      BY <1>5, <1>7, <1>8, ThenType
    <2>2. Then(Then(e, Then(u, r)), q) = Then(e, Then(Then(u, r), q))
      BY <1>5, <1>8, <2>1, ThenAssociates
    <2>3. Then(Then(u, r), q) = Then(u, Then(r, q))
      BY <1>5, <1>7, <1>8, ThenAssociates
    <2>4. Then(u, Then(r, q)) \in Seq(Units)
      BY <1>8, <2>1, ThenType
    <2>5. QED
      BY <1>5, <1>7, <2>1, <2>2, <2>3, <2>4
  <1>10. /\ rest \in Seq(Units)
         /\ \A j \in 1 .. 3 : rest[j] = e[j]
         /\ Behind(rest, 3, Then(u, Then(r, q)))
    BY <1>8, <1>9, FrontRead
  <1>11. rest[4] = u[1] /\ Behind(rest, 4, Then(r, q))
    <2>1. rest[3 + 1] = u[1] /\ Behind(rest, 3 + 1, Then(r, q))
      BY <1>8, <1>9, <1>10, BehindOne
    <2>2. QED
      BY <2>1
  <1>12. Value(4) = Len(those)
    BY <1>8, <1>11 DEF Value, Unit
  <1>13. Values(1, 3) = m.fixed
    <2>1. ASSUME NEW j \in 1 .. 3 PROVE rest[0 + j].n = m.fixed[j]
      <3>1. rest[j] = Unit(2, m.fixed[j])
        BY <1>8, <1>10
      <3>2. 0 + j = j
        OBVIOUS
      <3>3. QED
        BY <3>1, <3>2 DEF Unit
    <2>2. Values(0 + 1, Len(m.fixed)) = m.fixed
      BY <1>6, <2>1, ValuesAre
    <2>3. QED
      BY <1>6, <2>2
  <1>14. rest' = Then(r, q)
    <2>1. SubSeq(rest, 4 + 1, Len(rest)) = Then(r, q)
      BY <1>9, <1>10, <1>11, BehindLeft
    <2>2. QED
      BY <1>1, <2>1 DEF Consume
  <1>15. open' = <<OuterOpened("member", m.fixed, those, 0)>>
    <2>1. Opened("member", 0, m.fixed, <<>>, <<>>, Len(those))
              = OuterOpened("member", m.fixed, those, 0)
      BY <1>6, OuterIs
    <2>2. QED
      BY <1>1, <1>12, <1>13, <2>1
  <1>16. Between("member", m.fixed, those, q, 0)' /\ 0 \in 0 .. Len(those)
    BY <1>7, <1>14, <1>15 DEF Between, r
  <1>17. InAttributes("member", m.fixed, those, q)'
    BY <1>16 DEF InAttributes
  <1>18. InMembers(ms, i, more)'
    BY <1>4, <1>17 DEF InMembers, m, q
  <1>19. QED
    BY <1>1, <1>18

\* EndMember adds the member as it is kept.
LEMMA MemberEnds ==
  ASSUME NEW ms, AreMembers(ms, pool), NEW i \in 0 .. Len(ms), NEW more \in Seq(Units),
         InMembers(ms, i, more), EndMember
  PROVE  /\ i + 1 \in 0 .. Len(ms)
         /\ InMembers(ms, i + 1, more)'
         /\ Append(Taken(KeptMembers(ms), i), Member) = Taken(KeptMembers(ms), i + 1)
         /\ UNCHANGED <<fileVars, phase, pool>>
  <1> DEFINE m == ms[i + 1]
             those == m.attributes
             q == Then(Rest(MemberParts(ms), i + 2), more)
  <1>1. /\ open # <<>> /\ Top.what = "member" /\ Top.left = 0
        /\ open' = <<>>
        /\ UNCHANGED <<fileVars, rest, phase, left, pool>>
    BY DEF EndMember
  <1>2. Len(ms) \in Nat
    BY MembersAre
  <1>3. i < Len(ms) /\ left = Len(ms) - (i + 1) /\ InAttributes("member", m.fixed, those, q)
    BY <1>1 DEF InMembers
  <1>4. i \in Nat /\ i + 1 \in 1 .. Len(ms) /\ i + 1 \in 0 .. Len(ms) /\ (i + 1) + 1 = i + 2
    BY <1>2, <1>3
  <1>5. AreAttributes(those, pool)
        /\ [fixed |-> m.fixed, attributes |-> KeptOf(those)] = KeptMembers(ms)[i + 1]
    BY <1>4, MembersAre
  <1>6. q \in Seq(Units)
    BY <1>3, <1>4, MembersLeft
  <1> HIDE DEF m, q
  <1>7. rest = q /\ Top.fixed = m.fixed /\ Top.attributes = KeptOf(those)
    BY <1>1, <1>3, <1>5, <1>6, AttributesEnd
  <1>8. Member = KeptMembers(ms)[i + 1]
    BY <1>5, <1>7 DEF Member
  <1>9. Append(Taken(KeptMembers(ms), i), Member) = Taken(KeptMembers(ms), i + 1)
    BY <1>4, <1>8, TakenGrows
  <1>10. InMembers(ms, i + 1, more)'
    BY <1>1, <1>3, <1>4, <1>7 DEF InMembers, q
  <1>11. QED
    BY <1>1, <1>4, <1>9, <1>10

\* An attribute of a member leaves the members before it alone.
LEMMA MemberAttribute ==
  ASSUME NEW ms, AreMembers(ms, pool), NEW i \in 0 .. Len(ms), NEW more \in Seq(Units),
         InMembers(ms, i, more), open # <<>>, ParseAlone \/ BeginCode \/ EndCode
  PROVE  InMembers(ms, i, more)' /\ UNCHANGED <<fileVars, phase, pool, cf>>
  <1> DEFINE m == ms[i + 1]
             those == m.attributes
             q == Then(Rest(MemberParts(ms), i + 2), more)
  <1>1. i < Len(ms) /\ left = Len(ms) - (i + 1) /\ InAttributes("member", m.fixed, those, q)
    BY DEF InMembers
  <1>2. i \in Nat /\ i + 1 \in 1 .. Len(ms)
    <2>1. Len(ms) \in Nat
      BY MembersAre
    <2>2. QED
      BY <1>1, <2>1
  <1>3. AreAttributes(those, pool) /\ q \in Seq(Units)
    BY <1>1, <1>2, MembersAre, MembersLeft
  <1> HIDE DEF m, q
  <1>4. InAttributes("member", m.fixed, those, q)' /\ UNCHANGED <<fileVars, phase, left, pool, cf>>
    BY <1>1, <1>3, AttributeStep
  <1>5. InMembers(ms, i, more)'
    BY <1>1, <1>4 DEF InMembers, m, q
  <1>6. QED
    BY <1>4, <1>5

\* When nothing is open and none is missing, all have been read.
LEMMA MembersEnd ==
  ASSUME NEW ms, AreMembers(ms, pool), NEW i \in 0 .. Len(ms), NEW more \in Seq(Units),
         InMembers(ms, i, more), open = <<>>, left = 0
  PROVE  i = Len(ms) /\ rest = more
  <1>1. Len(ms) \in Nat
    BY MembersAre
  <1>2. left = Len(ms) - i /\ rest = Then(Rest(MemberParts(ms), i + 1), more)
    <2> DEFINE m == ms[i + 1]
               those == m.attributes
               q == Then(Rest(MemberParts(ms), i + 2), more)
    <2>1. CASE i < Len(ms) /\ InAttributes("member", m.fixed, those, q)
      <3>1. i \in Nat /\ i + 1 \in 1 .. Len(ms)
        BY <1>1, <2>1
      <3>2. AreAttributes(those, pool) /\ q \in Seq(Units)
        BY <2>1, <3>1, MembersAre, MembersLeft
      <3>3. open # <<>>
        BY <2>1, <3>2, AttributesEnd
      <3>4. QED
        BY <3>3
    <2>2. QED
      BY <2>1 DEF InMembers
  <1>3. i = Len(ms)
    BY <1>1, <1>2
  <1>4. MemberParts(ms) \in Seq(Seq(Units)) /\ Len(MemberParts(ms)) = Len(ms)
    BY MemberPartsAre
  <1>5. Rest(MemberParts(ms), i + 1) = <<>>
    BY <1>3, <1>4, RestEnd
  <1>6. Then(<<>>, more) = more
    BY ThenEmpty
  <1>7. QED
    BY <1>2, <1>3, <1>5, <1>6

-----------------------------------------------------------------------------
(* The file, from the header to its own attributes *)

\* What a file has, part by part.
LEMMA FileIs ==
  ASSUME NEW f, IsFile(f)
  PROVE  /\ ArePool(f.pool)
         /\ f.access \in Nat /\ f.this \in Nat /\ f.super \in Nat /\ f.interfaces \in Seq(Nat)
         /\ AreMembers(f.fields, f.pool) /\ AreMembers(f.methods, f.pool)
         /\ AreAttributes(f.attributes, f.pool)
         /\ Len(f.pool) \in Nat /\ Len(f.interfaces) \in Nat
  <1>1. ArePool(f.pool) /\ f.interfaces \in Seq(Nat)
    BY DEF IsFile, ArePool
  <1>2. Len(f.pool) \in Nat /\ Len(f.interfaces) \in Nat
    BY <1>1, PoolHas, LenProperties
  <1>3. QED
    BY <1>1, <1>2 DEF IsFile

\* What follows the fields, and the interfaces.
AfterFields(f) == Then(MembersLayout(f.methods), AttributesLayout(f.attributes))
AfterSupers(f) == Then(U2(Len(f.interfaces)), Then(EachU2(f.interfaces), TablesLayout(f)))
Supers(f) == U2(f.access) \o U2(f.this) \o U2(f.super)
Versions(f) == U4(Magic) \o U2(0) \o U2(52) \o U2(Len(f.pool) + 1)
ConstantsFrom(f, i) == Then(Rest(ConstantParts(f.pool), i), ClassLayout(f))

\* The units of a file, part by part.
LEMMA FileLayouts ==
  ASSUME NEW f, IsFile(f)
  PROVE  /\ AttributesLayout(f.attributes) \in Seq(Units)
         /\ AfterFields(f) \in Seq(Units)
         /\ TablesLayout(f) = Then(MembersLayout(f.fields), AfterFields(f))
         /\ TablesLayout(f) \in Seq(Units)
         /\ EachU2(f.interfaces) \in Seq(Units) /\ Len(EachU2(f.interfaces)) = Len(f.interfaces)
         /\ \A i \in 1 .. Len(f.interfaces) :
                EachU2(f.interfaces)[i] = Unit(2, f.interfaces[i])
         /\ Then(EachU2(f.interfaces), TablesLayout(f)) \in Seq(Units)
         /\ AfterSupers(f) \in Seq(Units)
         /\ ClassLayout(f) = Then(Supers(f), AfterSupers(f))
         /\ Supers(f) \in Seq(Units) /\ Len(Supers(f)) = 3
         /\ Supers(f)[1] = Unit(2, f.access)
         /\ Supers(f)[2] = Unit(2, f.this)
         /\ Supers(f)[3] = Unit(2, f.super)
         /\ ClassLayout(f) \in Seq(Units)
  <1>1. /\ f.access \in Nat /\ f.this \in Nat /\ f.super \in Nat /\ f.interfaces \in Seq(Nat)
        /\ AreMembers(f.fields, f.pool) /\ AreMembers(f.methods, f.pool)
        /\ AreAttributes(f.attributes, f.pool) /\ Len(f.interfaces) \in Nat
    BY FileIs
  <1>2. AttributesLayout(f.attributes) \in Seq(Units)
    BY <1>1, AttributePartsAre
  <1>3. MembersLayout(f.fields) \in Seq(Units) /\ MembersLayout(f.methods) \in Seq(Units)
    BY <1>1, MemberPartsAre
  <1>4. AfterFields(f) \in Seq(Units)
    BY <1>2, <1>3, ThenType DEF AfterFields
  <1>5. TablesLayout(f) = Then(MembersLayout(f.fields), AfterFields(f))
    BY DEF TablesLayout, AfterFields, Then
  <1>6. TablesLayout(f) \in Seq(Units)
    BY <1>3, <1>4, <1>5, ThenType
  <1>7. /\ EachU2(f.interfaces) \in Seq(Units) /\ Len(EachU2(f.interfaces)) = Len(f.interfaces)
        /\ \A i \in 1 .. Len(f.interfaces) :
               EachU2(f.interfaces)[i] = Unit(2, f.interfaces[i])
    BY <1>1, EachU2Is
  <1>8. Then(EachU2(f.interfaces), TablesLayout(f)) \in Seq(Units)
    BY <1>6, <1>7, ThenType
  <1>9. U2(Len(f.interfaces)) \in Seq(Units)
    BY <1>1, UnitIs
  <1>10. AfterSupers(f) \in Seq(Units)
    BY <1>8, <1>9, ThenType DEF AfterSupers
  <1>11. /\ Supers(f) \in Seq(Units) /\ Len(Supers(f)) = 3
         /\ Supers(f)[1] = Unit(2, f.access)
         /\ Supers(f)[2] = Unit(2, f.this)
         /\ Supers(f)[3] = Unit(2, f.super)
    <2> DEFINE a == U2(f.access)
               b == a \o U2(f.this)
               c == b \o U2(f.super)
    <2>1. a \in Seq(Units) /\ Len(a) = 1 /\ a[1] = Unit(2, f.access)
      BY <1>1, UnitIs
    <2> HIDE DEF a
    <2>2. b \in Seq(Units) /\ Len(b) = 2 /\ b[1] = a[1] /\ b[2] = Unit(2, f.this)
      <3>1. /\ b \in Seq(Units) /\ Len(b) = 1 + 1 /\ b[1 + 1] = Unit(2, f.this)
            /\ \A i \in 1 .. 1 : b[i] = a[i]
        <4>1. 1 \in Nat /\ f.this \in Nat
          BY <1>1
        <4>2. QED
          BY <2>1, <4>1, NumberAppended
      <3> HIDE DEF b
      <3>2. QED
        BY <3>1
    <2> HIDE DEF b
    <2>3. c \in Seq(Units) /\ Len(c) = 3 /\ c[1] = b[1] /\ c[2] = b[2]
          /\ c[3] = Unit(2, f.super)
      <3>1. /\ c \in Seq(Units) /\ Len(c) = 2 + 1 /\ c[2 + 1] = Unit(2, f.super)
            /\ \A i \in 1 .. 2 : c[i] = b[i]
        <4>1. 2 \in Nat /\ f.super \in Nat
          BY <1>1
        <4>2. QED
          BY <2>2, <4>1, NumberAppended
      <3> HIDE DEF c
      <3>2. QED
        BY <3>1
    <2>4. Supers(f) = c
      BY DEF Supers, b, a
    <2> HIDE DEF c
    <2>5. QED
      BY <2>1, <2>2, <2>3, <2>4
  <1>12. ClassLayout(f) = Then(Supers(f), AfterSupers(f))
    <2>1. Then(Then(U2(Len(f.interfaces)), EachU2(f.interfaces)), TablesLayout(f))
              = AfterSupers(f)
      BY <1>6, <1>7, <1>9, ThenAssociates DEF AfterSupers
    <2>2. U2(Len(f.interfaces)) \o EachU2(f.interfaces) \o TablesLayout(f) = AfterSupers(f)
      BY <2>1 DEF Then
    <2>3. QED
      BY <2>2 DEF ClassLayout, Supers, Then
  <1>13. ClassLayout(f) \in Seq(Units)
    BY <1>10, <1>11, <1>12, ThenType
  <1>14. QED
    BY <1>2, <1>4, <1>5, <1>6, <1>7, <1>8, <1>10, <1>11, <1>12, <1>13

\* The constants from the i-th on.
LEMMA ConstantsLeft ==
  ASSUME NEW f, IsFile(f), NEW k \in Nat, k < Len(f.pool)
  PROVE  /\ ConstantsFrom(f, k + 1)
                = Then(ConstantLayout(f.pool[k + 1]), ConstantsFrom(f, k + 2))
         /\ ConstantsFrom(f, k + 2) \in Seq(Units)
  <1> DEFINE p == f.pool
             parts == ConstantParts(p)
             n == Len(p)
             i == k + 1
             more == ClassLayout(f)
  <1>1. ArePool(p) /\ n \in Nat
    BY FileIs
  <1>2. /\ parts \in Seq(Seq(Units)) /\ Len(parts) = n
        /\ \A j \in 1 .. n : parts[j] = ConstantLayout(p[j])
    BY <1>1, ConstantPartsAre
  <1>3. i \in 1 .. n /\ i + 1 \in 1 .. n + 1 /\ i + 1 = k + 2
    BY <1>1
  <1>4. more \in Seq(Units)
    BY FileLayouts
  <1> HIDE DEF parts, n, i, p, more
  <1>5. Rest(parts, i) = Then(parts[i], Rest(parts, i + 1))
    BY <1>2, <1>3, RestStep DEF Then
  <1>6. Rest(parts, i + 1) \in Seq(Units)
    BY <1>2, <1>3, RestType
  <1>7. parts[i] \in Seq(Units)
    BY <1>2, <1>3, SeqHas
  <1>8. Then(Then(parts[i], Rest(parts, i + 1)), more)
            = Then(parts[i], Then(Rest(parts, i + 1), more))
    BY <1>4, <1>6, <1>7, ThenAssociates
  <1>9. Then(Rest(parts, i + 1), more) \in Seq(Units)
    BY <1>4, <1>6, ThenType
  <1>10. parts[i] = ConstantLayout(p[i])
    BY <1>2, <1>3
  <1>11. /\ Then(Rest(parts, i), more)
                = Then(ConstantLayout(p[i]), Then(Rest(parts, k + 2), more))
         /\ Then(Rest(parts, k + 2), more) \in Seq(Units)
    BY <1>3, <1>5, <1>8, <1>9, <1>10
  <1>12. QED
    BY <1>11 DEF parts, i, p, more, ConstantsFrom

\* A file is the magic, the versions and the count, then the constants, then
\* the class.
LEMMA ConstantsBegin ==
  ASSUME NEW f, IsFile(f)
  PROVE  /\ ConstantsFrom(f, 1) \in Seq(Units)
         /\ ConstantsFrom(f, Len(f.pool) + 1) = ClassLayout(f)
         /\ Layout(f) = Then(Versions(f), ConstantsFrom(f, 1))
         /\ Versions(f) \in Seq(Units) /\ Len(Versions(f)) = 4
         /\ Versions(f)[4] = Unit(2, Len(f.pool) + 1)
  <1> DEFINE p == f.pool
             parts == ConstantParts(p)
             n == Len(p)
             more == ClassLayout(f)
  <1>1. ArePool(p) /\ n \in Nat
    BY FileIs
  <1>2. parts \in Seq(Seq(Units)) /\ Len(parts) = n
    BY <1>1, ConstantPartsAre
  <1>3. more \in Seq(Units)
    BY FileLayouts
  <1>4. Layout(f) = Versions(f) \o (FlattenSeq(parts) \o more)
    BY DEF Layout, Versions, ConstantParts
  <1> HIDE DEF parts, n, p, more
  <1>5. Rest(parts, 1) = FlattenSeq(parts) /\ Rest(parts, 1) \in Seq(Units)
    <2>1. 1 \in 1 .. Len(parts) + 1
      BY <1>1, <1>2
    <2>2. QED
      BY <1>2, <2>1, RestAll, RestType
  <1>6. Then(Rest(parts, 1), more) \in Seq(Units)
    BY <1>3, <1>5, ThenType
  <1>7. Rest(parts, n + 1) = <<>>
    BY <1>2, RestEnd
  <1>8. Then(Rest(parts, n + 1), more) = more
    BY <1>3, <1>7, ThenEmpty
  <1>9. Layout(f) = Then(Versions(f), Then(Rest(parts, 1), more))
    BY <1>4, <1>5 DEF Then
  <1>10. /\ Versions(f) \in Seq(Units) /\ Len(Versions(f)) = 4
         /\ Versions(f)[4] = Unit(2, n + 1)
    <2> DEFINE a == U4(Magic)
               b == a \o U2(0)
               c == b \o U2(52)
               d == c \o U2(n + 1)
    <2>1. a \in Seq(Units) /\ Len(a) = 1
      <3>1. Magic \in Nat
        BY DEF Magic
      <3>2. QED
        BY <3>1, UnitIs
    <2>2. Versions(f) = d
      BY DEF Versions, n, p
    <2> HIDE DEF a
    <2>3. b \in Seq(Units) /\ Len(b) = 1 + 1
      <3>1. 0 \in Nat /\ 1 \in Nat
        OBVIOUS
      <3>2. QED
        BY <2>1, <3>1, NumberAppended
    <2> HIDE DEF b
    <2>4. c \in Seq(Units) /\ Len(c) = 2 + 1
      <3>1. Len(b) = 2
        BY <2>3
      <3>2. 52 \in Nat /\ 2 \in Nat
        OBVIOUS
      <3>3. QED
        BY <2>3, <3>1, <3>2, NumberAppended
    <2> HIDE DEF c
    <2>5. d \in Seq(Units) /\ Len(d) = 3 + 1 /\ d[3 + 1] = Unit(2, n + 1)
      <3>1. Len(c) = 3
        BY <2>4
      <3>2. n + 1 \in Nat /\ 3 \in Nat
        BY <1>1
      <3>3. QED
        BY <2>4, <3>1, <3>2, NumberAppended
    <2> HIDE DEF d
    <2>6. QED
      BY <2>2, <2>5
  <1>11. QED
    BY <1>6, <1>8, <1>9, <1>10 DEF parts, n, p, more, ConstantsFrom

\* What is read of the file when these are.
ReadOf(f, interfaces, fields, methods, attributes) ==
    [access |-> f.access, this |-> f.this, super |-> f.super, interfaces |-> interfaces,
     fields |-> fields, methods |-> methods, attributes |-> attributes]

\* One part more of the class has been read.
LEMMA ReadMore ==
  ASSUME NEW f, NEW is, NEW fs, NEW ms, NEW those, NEW x
  PROVE  /\ [ReadOf(f, is, fs, ms, those) EXCEPT !.interfaces = x] = ReadOf(f, x, fs, ms, those)
         /\ [ReadOf(f, is, fs, ms, those) EXCEPT !.fields = x] = ReadOf(f, is, x, ms, those)
         /\ [ReadOf(f, is, fs, ms, those) EXCEPT !.methods = x] = ReadOf(f, is, fs, x, those)
         /\ [ReadOf(f, is, fs, ms, those) EXCEPT !.attributes = x] = ReadOf(f, is, fs, ms, x)
  BY DEF ReadOf

-----------------------------------------------------------------------------
(* Where the parser is in the file f, in each of its phases *)

Nothing(f) == ReadOf(f, <<>>, <<>>, <<>>, <<>>)
AtHeader(f) ==
    phase = "header" /\ open = <<>> /\ rest = Layout(f) /\ pool = <<>> /\ cf = EmptyClassFile

\* i constants are read, and the next has bytes of its own.
InConstants(f, i) ==
    /\ pool = Taken(f.pool, i)
    /\ left = Len(f.pool) - i
    /\ rest = ConstantsFrom(f, i + 1)
    /\ i < Len(f.pool) => f.pool[i + 1].tag # 0
AtConstants(f) ==
    /\ phase = "constants" /\ open = <<>> /\ cf = EmptyClassFile
    /\ \E i \in 0 .. Len(f.pool) : InConstants(f, i)
AtInterfaces(f) ==
    /\ phase = "interfaces" /\ open = <<>> /\ pool = f.pool
    /\ cf = Nothing(f) /\ rest = AfterSupers(f)
AtFieldCount(f) ==
    /\ phase = "fieldCount" /\ open = <<>> /\ pool = f.pool
    /\ cf = ReadOf(f, f.interfaces, <<>>, <<>>, <<>>) /\ rest = TablesLayout(f)
InFields(f, i) ==
    /\ cf = ReadOf(f, f.interfaces, Taken(KeptMembers(f.fields), i), <<>>, <<>>)
    /\ InMembers(f.fields, i, AfterFields(f))
AtFields(f) ==
    /\ phase = "fields" /\ pool = f.pool
    /\ \E i \in 0 .. Len(f.fields) : InFields(f, i)
InMethods(f, i) ==
    /\ cf = ReadOf(f, f.interfaces, KeptMembers(f.fields), Taken(KeptMembers(f.methods), i), <<>>)
    /\ InMembers(f.methods, i, AttributesLayout(f.attributes))
AtMethods(f) ==
    /\ phase = "methods" /\ pool = f.pool
    /\ \E i \in 0 .. Len(f.methods) : InMethods(f, i)
AtAttributes(f) ==
    /\ phase = "attributes" /\ pool = f.pool
    /\ cf = ReadOf(f, f.interfaces, KeptMembers(f.fields), KeptMembers(f.methods), <<>>)
    /\ InAttributes("class", <<>>, f.attributes, <<>>)
AtEnd(f) ==
    /\ phase = "parsed" /\ open = <<>> /\ pool = f.pool /\ rest = <<>>
    /\ cf = ReadOf(f, f.interfaces, KeptMembers(f.fields), KeptMembers(f.methods),
                   KeptOf(f.attributes))
\* The parser gives up at a tag or at an attribute no version of it knows.
Stopped(f) ==
    /\ phase = "panic" /\ Unknown(f)
    /\ open = <<>> \/ (Top.left > 0 /\ Kind \notin ATTRIBUTE_NAME_TAG_MAP)
BuildPhases == {"attributesStep", "fieldsStep", "methodsStep", "supersStep", "poolStep",
                "slotsStep", "built", "crashed"}
Parsing(f) == \/ AtHeader(f) \/ AtConstants(f) \/ AtInterfaces(f) \/ AtFieldCount(f)
              \/ AtFields(f) \/ AtMethods(f) \/ AtAttributes(f) \/ AtEnd(f)
              \/ Stopped(f)
              \/ phase \in BuildPhases /\ open = <<>>

\* A step of the parser belongs to a phase, or to what is open.
LEMMA StepIs ==
  ASSUME ParseStep
  PROVE  \/ phase = "header" /\ ParseHeader
         \/ phase = "constants" /\ (ParseConstant \/ ParseUTF8 \/ PanicAtTag \/ ParseClassInfo)
         \/ phase = "interfaces" /\ ParseInterfaces
         \/ phase = "fieldCount" /\ ParseCount
         \/ phase \in {"fields", "methods"} /\ open = <<>> /\ (ParseCount \/ BeginMember)
         \/ open # <<>> /\ (EndMember \/ EndFile \/ ParseAlone \/ BeginCode \/ EndCode
                            \/ PanicAtAttribute)
  <1>1. CASE ParseHeader
    BY <1>1 DEF ParseHeader
  <1>2. CASE ParseConstant \/ ParseUTF8 \/ PanicAtTag \/ ParseClassInfo
    <2>1. phase = "constants"
      BY <1>2 DEF ParseConstant, ParseUTF8, PanicAtTag, ParseClassInfo
    <2>2. QED
      BY <1>2, <2>1
  <1>3. CASE ParseInterfaces
    BY <1>3 DEF ParseInterfaces
  <1>4. CASE ParseCount
    <2>1. phase = "fieldCount" \/ (phase \in {"fields", "methods"} /\ open = <<>>)
      BY <1>4 DEF ParseCount
    <2>2. QED
      BY <1>4, <2>1
  <1>5. CASE BeginMember
    <2>1. phase \in {"fields", "methods"} /\ open = <<>>
      BY <1>5 DEF BeginMember
    <2>2. QED
      BY <1>5, <2>1
  <1>6. CASE EndMember \/ EndFile \/ EndCode
    <2>1. open # <<>>
      BY <1>6 DEF EndMember, EndFile, EndCode
    <2>2. QED
      BY <1>6, <2>1
  <1>7. CASE ParseAlone
    <2>1. open # <<>>
      BY <1>7 DEF ParseAlone, ParsePlain, ParseTable, ParseBootstrapMethods, ParseByteStream,
                  SkipAttribute, AttributeComes
    <2>2. QED
      BY <1>7, <2>1
  <1>8. CASE BeginCode \/ PanicAtAttribute
    <2>1. AttributeComes
      BY <1>8 DEF BeginCode, PanicAtAttribute
    <2>2. open # <<>>
      BY <2>1 DEF AttributeComes
    <2>3. QED
      BY <1>8, <2>2
  <1>9. QED
    BY <1>1, <1>2, <1>3, <1>4, <1>5, <1>6, <1>7, <1>8 DEF ParseStep, ParseAlone

\* ParseHeader comes to the constants.
LEMMA HeaderStep ==
  ASSUME NEW f, IsFile(f), AtHeader(f), ParseHeader
  PROVE  AtConstants(f)' /\ UNCHANGED fileVars
  <1> DEFINE s == Versions(f)
             q == ConstantsFrom(f, 1)
             n == Len(f.pool)
  <1>1. /\ rest = Layout(f) /\ open = <<>> /\ pool = <<>> /\ cf = EmptyClassFile
        /\ left' = Value(4) - 1
        /\ phase' = "constants"
        /\ Consume(4)
        /\ UNCHANGED <<fileVars, pool, cf, open>>
    BY DEF AtHeader, ParseHeader
  <1>2. /\ q \in Seq(Units) /\ Layout(f) = Then(s, q)
        /\ s \in Seq(Units) /\ Len(s) = 4 /\ s[4] = Unit(2, n + 1)
    BY ConstantsBegin
  <1>3. ArePool(f.pool) /\ n \in Nat
    BY FileIs
  <1> HIDE DEF s, q, n
  <1>4. (\A j \in 1 .. Len(s) : rest[j] = s[j]) /\ (Consume(Len(s)) => rest' = q)
    BY <1>1, <1>2, FrontRead
  <1>5. rest' = q
    BY <1>1, <1>2, <1>4
  <1>6. Value(4) = n + 1
    <2>1. rest[4] = s[4]
      BY <1>2, <1>4
    <2>2. QED
      BY <1>2, <2>1 DEF Value, Unit
  <1>7. left' = n - 0
    BY <1>1, <1>3, <1>6
  <1>8. pool' = Taken(f.pool, 0)
    BY <1>1, TakenNothing
  <1>9. 0 < n => f.pool[0 + 1].tag # 0
    <2>1. ASSUME 0 < n PROVE f.pool[1].tag # 0
      <3>1. 1 \in 1 .. n
        BY <1>3, <2>1
      <3>2. IsConstant(f.pool, 1)
        BY <1>3, <3>1, PoolHas DEF n
      <3>3. QED
        BY <3>2 DEF IsConstant
    <2>2. QED
      BY <2>1
  <1>10. InConstants(f, 0)'
    BY <1>5, <1>7, <1>8, <1>9 DEF InConstants, n, q
  <1>11. 0 \in 0 .. n
    BY <1>3
  <1>12. QED
    BY <1>1, <1>10, <1>11 DEF AtConstants, n

\* What is behind a constant: another, or the other half of it.
LEMMA ConstantAdded ==
  ASSUME NEW f, IsFile(f), NEW i \in Nat, i < Len(f.pool), f.pool[i + 1].tag # 0,
         pool = Taken(f.pool, i), left = Len(f.pool) - i,
         Adds(Entries(f.pool[i + 1])), rest' = ConstantsFrom(f, i + 2)
  PROVE  \E k \in 0 .. Len(f.pool) : InConstants(f, k)'
  <1> DEFINE p == f.pool
             n == Len(p)
             c == p[i + 1]
  <1>1. ArePool(p) /\ n \in Nat
    BY FileIs
  <1>2. \A j \in 1 .. n : p[j].tag = 0 <=> j > 1 /\ p[j - 1].tag \in {5, 6}
    <2>1. \A j \in 1 .. n : IsConstant(p, j)
      BY <1>1, PoolHas
    <2>2. QED
      BY <2>1 DEF IsConstant
  <1>3. pool' = pool \o Entries(c) /\ left' = left - Len(Entries(c))
    BY DEF Adds
  <1>4. i + 1 \in 1 .. n /\ c.tag # 0
    BY <1>1
  <1>5. CASE c.tag \notin Wide
    <2>1. Entries(c) = <<c>>
      BY <1>5 DEF Entries
    <2>2. pool' = Taken(p, i + 1)
      <3>1. Taken(p, i) \o <<c>> = Taken(p, i + 1)
        BY TakenGrows
      <3>2. QED
        BY <1>3, <2>1, <3>1
    <2>3. left' = n - (i + 1)
      <3>1. Len(<<c>>) = 1
        OBVIOUS
      <3> HIDE DEF c, n
      <3>2. left' = left - 1 /\ left = n - i
        BY <1>3, <2>1, <3>1 DEF n
      <3>3. QED
        BY <1>1, <3>2
    <2>4. i + 1 < n => p[(i + 1) + 1].tag # 0
      <3>1. ASSUME i + 1 < n PROVE p[i + 2].tag # 0
        <4>1. i + 2 \in 1 .. n /\ (i + 2) - 1 = i + 1
          BY <1>1, <3>1
        <4>2. p[i + 1].tag \notin {5, 6}
          BY <1>5 DEF Wide
        <4> HIDE DEF n, p
        <4>3. QED
          BY <1>2, <4>1, <4>2
      <3>2. (i + 1) + 1 = i + 2
        OBVIOUS
      <3>3. QED
        BY <3>1, <3>2
    <2>5. rest' = ConstantsFrom(f, (i + 1) + 1)
      <3>1. (i + 1) + 1 = i + 2
        OBVIOUS
      <3>2. QED
        BY <3>1
    <2>6. InConstants(f, i + 1)'
      BY <2>2, <2>3, <2>4, <2>5 DEF InConstants
    <2>7. i + 1 \in 0 .. n
      BY <1>4
    <2>8. QED
      BY <2>6, <2>7
  <1>6. CASE c.tag \in Wide
    <2>1. Entries(c) = <<c, NoConstant>>
      BY <1>6 DEF Entries
    <2>2. i + 1 < n
      <3>1. IsConstant(p, i + 1)
        BY <1>1, <1>4, PoolHas
      <3>2. QED
        BY <1>6, <3>1 DEF IsConstant, Wide
    <2>3. i + 2 \in 1 .. n /\ (i + 2) - 1 = i + 1 /\ i + 2 > 1
      BY <1>1, <2>2
    <2>4. p[i + 2].tag = 0 /\ p[i + 2] = NoConstant
      <3>1. p[i + 1].tag \in {5, 6}
        BY <1>6 DEF Wide
      <3>2. IsConstant(p, i + 2)
        BY <1>1, <2>3, PoolHas
      <3>3. p[i + 2].tag = 0 => p[i + 2] = NoConstant
        BY <3>2 DEF IsConstant
      <3> HIDE DEF n, p
      <3>4. p[i + 2].tag = 0
        BY <1>2, <2>3, <3>1
      <3>5. QED
        BY <3>3, <3>4
    <2>5. pool' = Taken(p, i + 2)
      <3>1. Taken(p, i) \o <<c>> = Taken(p, i + 1)
        BY TakenGrows
      <3>2. Taken(p, i + 1) \o <<NoConstant>> = Taken(p, (i + 1) + 1)
        <4>1. (i + 1) + 1 = i + 2 /\ i + 1 \in Nat
          OBVIOUS
        <4>2. NoConstant = p[(i + 1) + 1]
          BY <2>4, <4>1
        <4>3. QED
          BY <4>1, <4>2, TakenGrows
      <3>3. Taken(p, i) \o <<c, NoConstant>> = (Taken(p, i) \o <<c>>) \o <<NoConstant>>
        <4> DEFINE U == {p[j] : j \in 1 .. n} \cup {NoConstant}
                   s == Taken(p, i)
                   d == NoConstant
        <4>1. s \in Seq(U)
          <5>1. s = [j \in 1 .. i |-> s[j]]
            BY DEF Taken
          <5>2. \A j \in 1 .. i : s[j] \in U
            <6>1. \A j \in 1 .. i : s[j] = p[j] /\ j \in 1 .. n
              BY <1>4 DEF Taken
            <6> HIDE DEF s, p
            <6>2. QED
              BY <6>1
          <5> HIDE DEF s, U
          <5>3. QED
            BY <5>1, <5>2, SeqIs
        <4>2. c \in U /\ d \in U
          BY <1>4
        <4> HIDE DEF U, s, c, d
        <4>3. s \o <<c, d>> = (s \o <<c>>) \o <<d>>
          <5>1. <<c>> \in Seq(U) /\ <<d>> \in Seq(U)
            BY <4>2
          <5>2. <<c>> \o <<d>> = <<c, d>>
            BY <4>2, <5>1, AppendIsConcat, AppendPair
          <5>3. (s \o <<c>>) \o <<d>> = s \o (<<c>> \o <<d>>)
            BY <4>1, <5>1, ConcatAssociative
          <5>4. QED
            BY <5>2, <5>3
        <4>4. QED
          BY <4>3 DEF s, d
      <3>4. (i + 1) + 1 = i + 2
        OBVIOUS
      <3>5. QED
        BY <1>3, <2>1, <3>1, <3>2, <3>3, <3>4
    <2>6. left' = n - (i + 2)
      <3>1. Len(<<c, NoConstant>>) = 2
        OBVIOUS
      <3> HIDE DEF c, n
      <3>2. left' = left - 2 /\ left = n - i
        BY <1>3, <2>1, <3>1 DEF n
      <3>3. QED
        BY <1>1, <3>2
    <2>7. i + 2 < n => p[(i + 2) + 1].tag # 0
      <3>1. ASSUME i + 2 < n PROVE p[i + 3].tag # 0
        <4> HIDE DEF n, p
        <4>1. i + 3 \in 1 .. n /\ (i + 3) - 1 = i + 2
          BY <1>1, <3>1
        <4>2. QED
          BY <1>2, <2>4, <4>1
      <3>2. (i + 2) + 1 = i + 3
        OBVIOUS
      <3>3. QED
        BY <3>1, <3>2
    <2>8. rest' = ConstantsFrom(f, (i + 2) + 1)
      <3>1. /\ ConstantsFrom(f, (i + 1) + 1)
                  = Then(ConstantLayout(p[(i + 1) + 1]), ConstantsFrom(f, (i + 1) + 2))
            /\ ConstantsFrom(f, (i + 1) + 2) \in Seq(Units)
        <4>1. i + 1 \in Nat /\ i + 1 < Len(f.pool)
          BY <2>2
        <4>2. QED
          BY <4>1, ConstantsLeft
      <3>2. (i + 1) + 1 = i + 2 /\ (i + 1) + 2 = (i + 2) + 1
        OBVIOUS
      <3>3. ConstantLayout(p[i + 2]) = <<>>
        BY <2>4 DEF ConstantLayout
      <3>4. Then(<<>>, ConstantsFrom(f, (i + 1) + 2)) = ConstantsFrom(f, (i + 1) + 2)
        BY <3>1, ThenEmpty
      <3>5. QED
        BY <3>1, <3>2, <3>3, <3>4
    <2>9. InConstants(f, i + 2)'
      BY <2>5, <2>6, <2>7, <2>8 DEF InConstants
    <2>10. i + 2 \in 0 .. n
      BY <2>3
    <2>11. QED
      BY <2>9, <2>10
  <1>7. QED
    BY <1>5, <1>6

\* A constant is read as the file has it, a long or a double with its second
\* half.
LEMMA ConstantStep ==
  ASSUME NEW f, IsFile(f), AtConstants(f), ParseConstant \/ ParseUTF8
  PROVE  AtConstants(f)' /\ UNCHANGED fileVars
  <1> DEFINE p == f.pool
             n == Len(p)
  <1>1. /\ phase = "constants" /\ open = <<>> /\ cf = EmptyClassFile
        /\ \E i \in 0 .. n : InConstants(f, i)
    BY DEF AtConstants
  <1>2. PICK i \in 0 .. n : InConstants(f, i)
    BY <1>1
  <1> DEFINE c == p[i + 1]
             more == ConstantsFrom(f, i + 2)
  <1>3. pool = Taken(p, i) /\ left = n - i /\ rest = ConstantsFrom(f, i + 1)
        /\ (i < n => c.tag # 0)
    BY <1>2 DEF InConstants
  <1>4. ArePool(p) /\ n \in Nat
    BY FileIs
  <1>5. left > 0
    BY DEF ParseConstant, ParseUTF8
  <1> HIDE DEF n, c, more
  <1>6. i \in Nat /\ i < n /\ i + 1 \in 1 .. n
    BY <1>3, <1>4, <1>5
  <1>7. rest = Then(ConstantLayout(c), more) /\ more \in Seq(Units)
    BY <1>3, <1>6, ConstantsLeft DEF c, more, n
  <1>8. Adds(Entries(c)) /\ rest' = more
    <2>1. i + 1 \in 1 .. Len(p) /\ p[i + 1].tag # 0 /\ rest = Then(ConstantLayout(p[i + 1]), more)
      BY <1>3, <1>6, <1>7 DEF c, n
    <2>2. Adds(Entries(p[i + 1])) /\ rest' = more
      BY <1>4, <1>7, <2>1, ConstantRead, TextRead
    <2>3. QED
      BY <2>2 DEF c
  <1>9. \E k \in 0 .. n : InConstants(f, k)'
    <2>1. /\ i \in Nat /\ i < Len(f.pool) /\ f.pool[i + 1].tag # 0
          /\ pool = Taken(f.pool, i) /\ left = Len(f.pool) - i
          /\ Adds(Entries(f.pool[i + 1])) /\ rest' = ConstantsFrom(f, i + 2)
      BY <1>3, <1>6, <1>8 DEF c, n, more
    <2>2. QED
      BY <2>1, ConstantAdded DEF n
  <1>10. UNCHANGED <<fileVars, phase, cf, open>>
    BY <1>8 DEF Adds
  <1>11. QED
    BY <1>1, <1>9, <1>10 DEF AtConstants, n

\* The parser gives up at a tag only if the file has one that is not known.
LEMMA TagPanics ==
  ASSUME NEW f, IsFile(f), AtConstants(f), PanicAtTag
  PROVE  Stopped(f)' /\ UNCHANGED fileVars
  <1> DEFINE p == f.pool
             n == Len(p)
  <1>1. /\ open = <<>> /\ left > 0 /\ Value(1) \notin Tags /\ phase' = "panic"
        /\ UNCHANGED <<fileVars, rest, left, pool, cf, open>>
        /\ \E i \in 0 .. n : InConstants(f, i)
    BY DEF AtConstants, PanicAtTag
  <1>2. PICK i \in 0 .. n : InConstants(f, i)
    BY <1>1
  <1> DEFINE c == p[i + 1]
             more == ConstantsFrom(f, i + 2)
  <1>3. left = n - i /\ rest = ConstantsFrom(f, i + 1) /\ (i < n => c.tag # 0)
    BY <1>2 DEF InConstants
  <1>4. ArePool(p) /\ n \in Nat
    BY FileIs
  <1> HIDE DEF n, c, more
  <1>5. i \in Nat /\ i < n /\ i + 1 \in 1 .. n
    BY <1>1, <1>3, <1>4
  <1>6. rest = Then(ConstantLayout(c), more) /\ more \in Seq(Units)
    BY <1>3, <1>5, ConstantsLeft DEF c, more, n
  <1>7. c.tag \in Nat /\ i + 1 \in DOMAIN p
    BY <1>4, <1>5, PoolHas DEF c, n
  <1>8. c.tag # 1 => c.tag = Value(1)
    <2>1. ASSUME c.tag # 1 PROVE c.tag = Value(1)
      <3>1. Items(c) \in Seq(Units) /\ ConstantLayout(c) = Then(U1(c.tag), Items(c))
        BY <1>3, <1>4, <1>5, <2>1, ItemsAre DEF c, n
      <3>2. U1(c.tag) \in Seq(Units) /\ Len(U1(c.tag)) = 1 /\ U1(c.tag)[1] = Unit(1, c.tag)
        BY <1>7, UnitIs
      <3>3. rest = Then(U1(c.tag), Then(Items(c), more)) /\ Then(Items(c), more) \in Seq(Units)
        <4>1. Then(Then(U1(c.tag), Items(c)), more) = Then(U1(c.tag), Then(Items(c), more))
          BY <1>6, <3>1, <3>2, ThenAssociates
        <4>2. QED
          BY <1>6, <3>1, <4>1, ThenType
      <3>4. \A j \in 1 .. 1 : rest[j] = U1(c.tag)[j]
        BY <3>2, <3>3, FrontRead
      <3>5. rest[1] = Unit(1, c.tag)
        BY <3>2, <3>4
      <3>6. QED
        BY <3>5 DEF Value, Unit
    <2>2. QED
      BY <2>1
  <1>9. c.tag \notin Tags \cup {0}
    <2>1. CASE c.tag = 1
      <3> DEFINE b == c.bytes
      <3>1. b \in Seq(STRING) /\ ConstantLayout(c) = Then(U1(1), Then(U2(Len(b)), Block(b)))
        BY <1>4, <1>5, <2>1, TextIs DEF c, n
      <3> HIDE DEF b
      <3>2. Len(b) \in Nat
        BY <3>1
      <3>3. U2(Len(b)) \in Seq(Units) /\ Block(b) \in Seq(Units)
        BY <3>1, <3>2, UnitIs, BlockIs
      <3>4. Then(U2(Len(b)), Block(b)) \in Seq(Units)
        BY <3>3, ThenType
      <3>5. U1(1) \in Seq(Units) /\ Len(U1(1)) = 1 /\ U1(1)[1] = Unit(1, 1)
        BY UnitIs
      <3> DEFINE q == Then(U2(Len(b)), Block(b))
      <3> HIDE DEF q
      <3>6. rest = Then(U1(1), Then(q, more)) /\ Then(q, more) \in Seq(Units)
        <4>1. q \in Seq(Units)
          BY <3>4 DEF q
        <4>2. Then(Then(U1(1), q), more) = Then(U1(1), Then(q, more))
          BY <1>6, <3>5, <4>1, ThenAssociates
        <4>3. QED
          BY <1>6, <3>1, <4>1, <4>2, ThenType DEF q
      <3>7. \A j \in 1 .. 1 : rest[j] = U1(1)[j]
        BY <3>5, <3>6, FrontRead
      <3>8. Value(1) = 1
        BY <3>5, <3>7 DEF Value, Unit
      <3>9. QED
        BY <1>1, <3>8 DEF Tags
    <2>2. CASE c.tag # 1
      BY <1>1, <1>3, <1>5, <1>8, <2>2
    <2>3. QED
      BY <2>1, <2>2
  <1>10. Unknown(f)
    BY <1>7, <1>9 DEF Unknown, c
  <1>11. QED
    BY <1>1, <1>10 DEF Stopped

\* ParseClassInfo, after the last constant, reads the class and its superclass.
LEMMA ClassInfoStep ==
  ASSUME NEW f, IsFile(f), AtConstants(f), ParseClassInfo
  PROVE  AtInterfaces(f)' /\ UNCHANGED fileVars
  <1> DEFINE p == f.pool
             n == Len(p)
             s == Supers(f)
             q == AfterSupers(f)
  <1>1. /\ open = <<>> /\ cf = EmptyClassFile /\ left <= 0 /\ phase' = "interfaces"
        /\ cf' = [cf EXCEPT !.access = Value(1), !.this = Value(2), !.super = Value(3)]
        /\ Consume(3)
        /\ UNCHANGED <<fileVars, left, pool, open>>
        /\ \E i \in 0 .. n : InConstants(f, i)
    BY DEF AtConstants, ParseClassInfo
  <1>2. PICK i \in 0 .. n : InConstants(f, i)
    BY <1>1
  <1>3. pool = Taken(p, i) /\ left = n - i /\ rest = ConstantsFrom(f, i + 1)
    BY <1>2 DEF InConstants
  <1>4. ArePool(p) /\ n \in Nat
    BY FileIs
  <1>5. i = n
    <2> HIDE DEF n
    <2>1. QED
      BY <1>1, <1>3, <1>4
  <1>6. pool' = p
    <2>1. p \in Seq(Constants)
      BY <1>4 DEF ArePool
    <2> HIDE DEF p
    <2>2. Taken(p, Len(p)) = p
      BY <2>1, TakenAll
    <2>3. QED
      BY <1>1, <1>3, <1>5, <2>2
  <1>7. rest = Then(s, q)
    BY <1>3, <1>5, ConstantsBegin, FileLayouts
  <1>8. /\ q \in Seq(Units) /\ s \in Seq(Units) /\ Len(s) = 3
        /\ s[1] = Unit(2, f.access) /\ s[2] = Unit(2, f.this) /\ s[3] = Unit(2, f.super)
    BY FileLayouts
  <1> HIDE DEF s, q
  <1>9. (\A j \in 1 .. Len(s) : rest[j] = s[j]) /\ (Consume(Len(s)) => rest' = q)
    BY <1>7, <1>8, FrontRead
  <1>10. rest' = q
    BY <1>1, <1>8, <1>9
  <1>11. Value(1) = f.access /\ Value(2) = f.this /\ Value(3) = f.super
    <2>1. rest[1] = Unit(2, f.access) /\ rest[2] = Unit(2, f.this) /\ rest[3] = Unit(2, f.super)
      BY <1>8, <1>9
    <2>2. QED
      BY <2>1 DEF Value, Unit
  <1>12. cf' = Nothing(f)
    BY <1>1, <1>11 DEF EmptyClassFile, Nothing, ReadOf
  <1>13. QED
    BY <1>1, <1>6, <1>10, <1>12 DEF AtInterfaces, p, q

\* ParseInterfaces reads the interfaces.
LEMMA InterfacesStep ==
  ASSUME NEW f, IsFile(f), AtInterfaces(f), ParseInterfaces
  PROVE  AtFieldCount(f)' /\ UNCHANGED fileVars
  <1> DEFINE is == f.interfaces
             n == Len(is)
             e == EachU2(is)
             t == TablesLayout(f)
             u == U2(n)
  <1>1. /\ open = <<>> /\ pool = f.pool /\ cf = Nothing(f) /\ rest = Then(u, Then(e, t))
        /\ cf' = [cf EXCEPT !.interfaces = Values(2, Value(1))]
        /\ phase' = "fieldCount"
        /\ Consume(1 + Value(1))
        /\ UNCHANGED <<fileVars, left, pool, open>>
    BY DEF AtInterfaces, ParseInterfaces, AfterSupers
  <1>2. is \in Seq(Nat) /\ n \in Nat
    BY FileIs
  <1>3. u \in Seq(Units) /\ Len(u) = 1 /\ u[1] = Unit(2, n)
    BY <1>2, UnitIs
  <1>4. /\ e \in Seq(Units) /\ Len(e) = n /\ t \in Seq(Units) /\ Then(e, t) \in Seq(Units)
        /\ \A j \in 1 .. n : e[j] = Unit(2, is[j])
    BY FileLayouts
  <1> HIDE DEF is, n, e, t, u
  <1>5. rest \in Seq(Units) /\ (\A j \in 1 .. Len(u) : rest[j] = u[j])
        /\ Behind(rest, Len(u), Then(e, t))
    BY <1>1, <1>3, <1>4, FrontRead
  <1>6. Value(1) = n
    <2>1. rest[1] = Unit(2, n)
      BY <1>3, <1>5
    <2>2. QED
      BY <2>1 DEF Value, Unit
  <1>7. Behind(rest, 1, Then(e, t)) /\ 1 \in Nat
    BY <1>3, <1>5
  <1>8. (\A j \in 1 .. Len(e) : rest[1 + j] = e[j]) /\ Behind(rest, 1 + Len(e), t)
    BY <1>4, <1>5, <1>7, BehindThen
  <1>9. Values(2, n) = is
    <2>1. \A j \in 1 .. n : rest[1 + j].n = is[j]
      BY <1>4, <1>8 DEF Unit
    <2>2. Values(1 + 1, n) = is
      BY <1>2, <1>7, <2>1, ValuesAre DEF n
    <2>3. QED
      BY <2>2
  <1>10. rest' = t
    <2>1. Behind(rest, 1 + n, t) /\ 1 + n \in Nat
      BY <1>2, <1>4, <1>8
    <2>2. Consume(1 + n)
      BY <1>1, <1>6
    <2>3. QED
      BY <1>4, <1>5, <2>1, <2>2, BehindLeft DEF Consume
  <1>11. cf' = ReadOf(f, is, <<>>, <<>>, <<>>)
    BY <1>1, <1>6, <1>9, ReadMore DEF Nothing
  <1>12. QED
    BY <1>1, <1>10, <1>11 DEF AtFieldCount, is, t

\* The number of fields or of methods.
LEMMA MembersCounted ==
  ASSUME NEW ms, AreMembers(ms, pool), NEW more \in Seq(Units),
         rest = Then(MembersLayout(ms), more)
  PROVE  Value(1) = Len(ms) /\ (Consume(1) => rest' = Then(Rest(MemberParts(ms), 1), more))
  <1> DEFINE u == U2(Len(ms))
             r == Rest(MemberParts(ms), 1)
  <1>1. Len(ms) \in Nat
    BY MembersAre
  <1>2. MembersLayout(ms) = Then(u, r) /\ r \in Seq(Units)
    BY MemberPartsAre
  <1>3. u \in Seq(Units)
    BY <1>1, UnitIs
  <1>4. Then(Then(u, r), more) = Then(u, Then(r, more)) /\ Then(r, more) \in Seq(Units)
    BY <1>2, <1>3, ThenAssociates, ThenType
  <1>5. rest = Then(U2(Len(ms)), Then(r, more))
    BY <1>2, <1>4
  <1> HIDE DEF r
  <1>6. Value(1) = Len(ms) /\ (Consume(1) => rest' = Then(r, more))
    BY <1>1, <1>4, <1>5, CountRead
  <1>7. QED
    BY <1>6 DEF r

\* ParseCount comes to the fields.
LEMMA FieldCountStep ==
  ASSUME NEW f, IsFile(f), AtFieldCount(f), ParseCount
  PROVE  AtFields(f)' /\ UNCHANGED fileVars
  <1>1. /\ open = <<>> /\ pool = f.pool /\ rest = TablesLayout(f)
        /\ cf = ReadOf(f, f.interfaces, <<>>, <<>>, <<>>)
        /\ phase' = "fields" /\ left' = Value(1) /\ open' = open
        /\ Consume(1)
        /\ UNCHANGED <<fileVars, pool, cf>>
    BY DEF AtFieldCount, ParseCount
  <1>2. AreMembers(f.fields, pool) /\ AfterFields(f) \in Seq(Units)
        /\ rest = Then(MembersLayout(f.fields), AfterFields(f))
    BY <1>1, FileIs, FileLayouts
  <1>3. left' = Len(f.fields) /\ rest' = Then(Rest(MemberParts(f.fields), 1), AfterFields(f))
    BY <1>1, <1>2, MembersCounted
  <1>4. InMembers(f.fields, 0, AfterFields(f))' /\ 0 \in 0 .. Len(f.fields)
    BY <1>1, <1>2, <1>3, MembersBegin
  <1>5. cf' = ReadOf(f, f.interfaces, Taken(KeptMembers(f.fields), 0), <<>>, <<>>)
    BY <1>1, TakenNothing
  <1>6. InFields(f, 0)'
    BY <1>4, <1>5 DEF InFields
  <1>7. QED
    BY <1>1, <1>4, <1>6 DEF AtFields

\* ParseCount comes from the fields, all of them read, to the methods.
LEMMA MethodCountStep ==
  ASSUME NEW f, IsFile(f), AtFields(f), ParseCount
  PROVE  AtMethods(f)' /\ UNCHANGED fileVars
  <1> DEFINE fs == f.fields
             ms == f.methods
             more == AttributesLayout(f.attributes)
  <1>1. /\ open = <<>> /\ left = 0 /\ pool = f.pool
        /\ phase' = "methods" /\ left' = Value(1) /\ open' = open
        /\ Consume(1)
        /\ UNCHANGED <<fileVars, pool, cf>>
        /\ \E i \in 0 .. Len(fs) : InFields(f, i)
    BY DEF AtFields, ParseCount
  <1>2. PICK i \in 0 .. Len(fs) : InFields(f, i)
    BY <1>1
  <1>3. /\ cf = ReadOf(f, f.interfaces, Taken(KeptMembers(fs), i), <<>>, <<>>)
        /\ InMembers(fs, i, AfterFields(f))
    BY <1>2 DEF InFields
  <1>4. AreMembers(fs, pool) /\ AreMembers(ms, pool)
        /\ AfterFields(f) \in Seq(Units) /\ more \in Seq(Units)
    BY <1>1, FileIs, FileLayouts
  <1>5. i = Len(fs) /\ rest = AfterFields(f)
    BY <1>1, <1>3, <1>4, MembersEnd
  <1>6. Taken(KeptMembers(fs), Len(fs)) = KeptMembers(fs)
    BY <1>4, MembersAre
  <1>7. cf = ReadOf(f, f.interfaces, KeptMembers(fs), Taken(KeptMembers(ms), 0), <<>>)
    BY <1>3, <1>5, <1>6, TakenNothing
  <1>8. left' = Len(ms) /\ rest' = Then(Rest(MemberParts(ms), 1), more)
    <2>1. rest = Then(MembersLayout(ms), more)
      BY <1>5 DEF AfterFields
    <2> HIDE DEF ms, more
    <2>2. QED
      BY <1>1, <1>4, <2>1, MembersCounted
  <1>9. InMembers(ms, 0, more)' /\ 0 \in 0 .. Len(ms)
    BY <1>1, <1>4, <1>8, MembersBegin
  <1>10. InMethods(f, 0)'
    BY <1>1, <1>7, <1>9 DEF InMethods
  <1>11. QED
    BY <1>1, <1>9, <1>10 DEF AtMethods

\* ParseCount comes from the methods, all of them read, to the attributes of
\* the class.
LEMMA AttributeCountStep ==
  ASSUME NEW f, IsFile(f), AtMethods(f), ParseCount
  PROVE  AtAttributes(f)' /\ UNCHANGED fileVars
  <1> DEFINE fs == f.fields
             ms == f.methods
             those == f.attributes
             more == AttributesLayout(those)
             r == Rest(AttributeParts(those), 1)
  <1>1. /\ open = <<>> /\ left = 0 /\ pool = f.pool
        /\ phase' = "attributes"
        /\ open' = <<Opened("class", 0, <<>>, <<>>, <<>>, Value(1))>>
        /\ Consume(1)
        /\ UNCHANGED <<fileVars, pool, cf>>
        /\ \E i \in 0 .. Len(ms) : InMethods(f, i)
    BY DEF AtMethods, ParseCount
  <1>2. PICK i \in 0 .. Len(ms) : InMethods(f, i)
    BY <1>1
  <1>3. /\ cf = ReadOf(f, f.interfaces, KeptMembers(fs), Taken(KeptMembers(ms), i), <<>>)
        /\ InMembers(ms, i, more)
    BY <1>2 DEF InMethods
  <1>4. AreMembers(ms, pool) /\ AreAttributes(those, pool) /\ more \in Seq(Units)
    BY <1>1, FileIs, FileLayouts
  <1>5. i = Len(ms) /\ rest = more
    BY <1>1, <1>3, <1>4, MembersEnd
  <1>6. Taken(KeptMembers(ms), Len(ms)) = KeptMembers(ms)
    BY <1>4, MembersAre
  <1>7. cf' = ReadOf(f, f.interfaces, KeptMembers(fs), KeptMembers(ms), <<>>)
    BY <1>1, <1>3, <1>5, <1>6
  <1>8. Len(those) \in Nat
    BY <1>4, AttributesAre, LenProperties
  <1>9. more = Then(U2(Len(those)), r)
    BY <1>4, AttributePartsAre DEF Then
  <1>10. r \in Seq(Units)
    <2>1. AttributeParts(those) \in Seq(Seq(Units)) /\ Len(AttributeParts(those)) = Len(those)
      BY <1>4, AttributePartsAre
    <2>2. 1 \in 1 .. Len(those) + 1
      BY <1>8
    <2>3. QED
      BY <2>1, <2>2, RestType
  <1> HIDE DEF r, more
  <1>11. Value(1) = Len(those) /\ rest' = r
    BY <1>1, <1>5, <1>8, <1>9, <1>10, CountRead
  <1>12. open' = <<OuterOpened("class", <<>>, those, 0)>>
    <2>1. <<>> \in Seq(Nat)
      OBVIOUS
    <2>2. Opened("class", 0, <<>>, <<>>, <<>>, Len(those)) = OuterOpened("class", <<>>, those, 0)
      BY <1>4, <2>1, OuterIs
    <2>3. QED
      BY <1>1, <1>11, <2>2
  <1>13. r = Then(Rest(AttributeParts(those), 0 + 1), <<>>)
    <2>1. Then(r, <<>>) = r
      BY <1>10, ThenEmpty
    <2>2. 0 + 1 = 1
      OBVIOUS
    <2>3. QED
      BY <2>1, <2>2 DEF r
  <1>14. Between("class", <<>>, those, <<>>, 0)' /\ 0 \in 0 .. Len(those)
    BY <1>8, <1>11, <1>12, <1>13 DEF Between
  <1>15. InAttributes("class", <<>>, those, <<>>)'
    BY <1>14 DEF InAttributes
  <1>16. QED
    BY <1>1, <1>7, <1>15 DEF AtAttributes

\* The attribute that comes is one of the file.
LEMMA AttributeKnown ==
  ASSUME NEW what, NEW fixed, NEW those, AreAttributes(those, pool),
         NEW more \in Seq(Units), InAttributes(what, fixed, those, more), AttributeComes,
         Kind \notin ATTRIBUTE_NAME_TAG_MAP
  PROVE  UnknownIn(those)
  <1>1. Top.left > 0
    BY DEF AttributeComes
  <1>2. Len(those) \in Nat /\ DOMAIN those = 1 .. Len(those)
    BY AttributesAre, LenProperties
  <1>3. CASE \E k \in 0 .. Len(those) : Between(what, fixed, those, more, k)
    <2>1. PICK k \in 0 .. Len(those) : Between(what, fixed, those, more, k)
      BY <1>3
    <2> DEFINE o == OuterOpened(what, fixed, those, k)
               a == those[k + 1]
               m == Then(Rest(AttributeParts(those), k + 2), more)
    <2>2. open = <<o>> /\ rest = Then(Rest(AttributeParts(those), k + 1), more)
      BY <2>1 DEF Between
    <2>3. o.left = Len(those) - k
      BY DEF OuterOpened, Waits
    <2>4. Top = o
      <3> HIDE DEF o
      <3>1. Len(open) = 1 /\ open[1] = o
        BY <2>2
      <3>2. QED
        BY <3>1 DEF Top
    <2>5. k \in Nat /\ k < Len(those) /\ k + 1 \in 1 .. Len(those)
      <3>1. Len(those) - k > 0
        BY <1>1, <2>3, <2>4
      <3>2. QED
        BY <1>2, <3>1
    <2>6. IsAttribute(a, pool)
      BY <2>5, AttributesAre
    <2>7. rest = Then(AttributeLayout(a), m) /\ m \in Seq(Units)
      BY <2>2, <2>5, AttributesLeft
    <2>8. \E inside \in Seq(Units) : AttributeLayout(a) = WithHeader(a, Contents(a, inside))
      <3>1. InnerParts(a.attributes) \in Seq(Seq(Units))
        BY <2>6, InnerPartsAre
      <3>2. List(InnerParts(a.attributes)) \in Seq(Units)
        BY <3>1, ListType
      <3>3. AttributeLayout(a) = WithHeader(a, Contents(a, List(InnerParts(a.attributes))))
        BY DEF AttributeLayout, InnerParts
      <3>4. QED
        BY <3>2, <3>3
    <2>9. PICK inside \in Seq(Units) : AttributeLayout(a) = WithHeader(a, Contents(a, inside))
      BY <2>8
    <2>10. Kind = a.kind
      BY <2>6, <2>7, <2>9, AloneComes
    <2>11. QED
      BY <1>2, <2>5, <2>10 DEF UnknownIn
  <1>4. CASE \E k \in 0 .. Len(those) - 1 : \E j \in 0 .. Len(those[k + 1].attributes) :
                 Within(what, fixed, those, more, k, j)
    <2>1. PICK k \in 0 .. Len(those) - 1 : \E j \in 0 .. Len(those[k + 1].attributes) :
                   Within(what, fixed, those, more, k, j)
      BY <1>4
    <2>2. PICK j \in 0 .. Len(those[k + 1].attributes) :
                   Within(what, fixed, those, more, k, j)
      BY <2>1
    <2> DEFINE o == OuterOpened(what, fixed, those, k)
               a == those[k + 1]
               is == a.attributes
               y == InnerOpened(a, j)
               m == Then(Rest(AttributeParts(those), k + 2), more)
               b == is[j + 1]
               q == Then(Rest(InnerParts(is), j + 2), m)
    <2>3. open = <<o, y>> /\ a.kind = "Code" /\ rest = Then(Rest(InnerParts(is), j + 1), m)
      BY <2>2 DEF Within
    <2>4. Top = y
      <3> HIDE DEF o, y
      <3>1. Len(open) = 2 /\ open[2] = y
        BY <2>3
      <3>2. QED
        BY <3>1 DEF Top
    <2>5. y.left = Len(is) - j
      BY DEF InnerOpened, Waits
    <2>6. k \in Nat /\ k < Len(those) /\ k + 1 \in 1 .. Len(those)
      BY <1>2
    <2>7. IsAttribute(a, pool)
      BY <2>6, AttributesAre
    <2>8. Len(is) \in Nat
      BY <2>3, <2>7, InnerOpens
    <2>9. m \in Seq(Units)
      BY <2>6, AttributesLeft
    <2> HIDE DEF m, o, y, a
    <2>10. j \in Nat /\ j < Len(is) /\ j + 1 \in 1 .. Len(is)
      <3>1. Len(is) - j > 0
        BY <1>1, <2>4, <2>5
      <3>2. QED
        BY <2>8, <3>1 DEF a
    <2>11. DOMAIN is = 1 .. Len(is)
      <3>1. is \in Seq(InnerAttributes)
        BY <2>7 DEF IsAttribute, Attributes
      <3>2. QED
        BY <3>1, SeqHas, Zenon
    <2>12. IsAttribute(b, pool)
      <3>1. IsInner(b, pool)
        BY <2>7, <2>10, <2>11 DEF IsAttribute
      <3>2. QED
        BY <3>1, InnerIs DEF IsInner
    <2>13. rest = Then(InnerLayout(b), q) /\ q \in Seq(Units)
      BY <2>3, <2>7, <2>9, <2>10, InnerLeft
    <2>14. Kind = b.kind
      <3>1. rest = Then(WithHeader(b, Contents(b, <<>>)), q)
        BY <2>13 DEF InnerLayout
      <3>2. <<>> \in Seq(Units)
        OBVIOUS
      <3>3. QED
        BY <2>12, <2>13, <3>1, <3>2, AloneComes
    <2>15. k + 1 \in DOMAIN those /\ j + 1 \in DOMAIN those[k + 1].attributes
           /\ those[k + 1].attributes[j + 1].kind \notin ATTRIBUTE_NAME_TAG_MAP
      BY <1>2, <2>6, <2>10, <2>11, <2>14 DEF a
    <2>16. QED
      BY <2>15 DEF UnknownIn
  <1>5. QED
    BY <1>3, <1>4 DEF InAttributes

\* The attribute that comes in a member is one the file has.
LEMMA MemberKnown ==
  ASSUME NEW ms, AreMembers(ms, pool), NEW i \in 0 .. Len(ms), NEW more \in Seq(Units),
         InMembers(ms, i, more), open # <<>>
  PROVE  /\ Top.what \in {"member", "code"}
         /\ AttributeComes /\ Kind \notin ATTRIBUTE_NAME_TAG_MAP =>
                \E k \in DOMAIN ms : UnknownIn(ms[k].attributes)
  <1> DEFINE m == ms[i + 1]
             those == m.attributes
             q == Then(Rest(MemberParts(ms), i + 2), more)
  <1>1. i < Len(ms) /\ left = Len(ms) - (i + 1) /\ InAttributes("member", m.fixed, those, q)
    BY DEF InMembers
  <1>2. i \in Nat /\ i + 1 \in 1 .. Len(ms) /\ i + 1 \in DOMAIN ms
    <2>1. Len(ms) \in Nat /\ DOMAIN ms = 1 .. Len(ms)
      BY MembersAre
    <2>2. QED
      BY <1>1, <2>1
  <1>3. AreAttributes(those, pool) /\ q \in Seq(Units)
    BY <1>1, <1>2, MembersAre, MembersLeft
  <1> HIDE DEF m, q
  <1>4. Top.what \in {"member", "code"}
    BY <1>1, <1>3, AttributesEnd
  <1>5. AttributeComes /\ Kind \notin ATTRIBUTE_NAME_TAG_MAP => UnknownIn(those)
    BY <1>1, <1>3, AttributeKnown
  <1>6. QED
    BY <1>2, <1>4, <1>5 DEF m

-----------------------------------------------------------------------------
(* The steps of the members and of the attributes of the class *)

\* Every action of a field goes on among the fields.
LEMMA FieldStep ==
  ASSUME NEW f, IsFile(f), AtFields(f),
         \/ BeginMember
         \/ open # <<>> /\ (EndMember \/ EndFile \/ ParseAlone \/ BeginCode \/ EndCode)
  PROVE  AtFields(f)' /\ UNCHANGED fileVars
  <1> DEFINE fs == f.fields
             more == AfterFields(f)
  <1>1. phase = "fields" /\ pool = f.pool /\ \E i \in 0 .. Len(fs) : InFields(f, i)
    BY DEF AtFields
  <1>2. PICK i \in 0 .. Len(fs) : InFields(f, i)
    BY <1>1
  <1>3. /\ cf = ReadOf(f, f.interfaces, Taken(KeptMembers(fs), i), <<>>, <<>>)
        /\ InMembers(fs, i, more)
    BY <1>2 DEF InFields
  <1>4. AreMembers(fs, pool) /\ more \in Seq(Units)
    BY <1>1, FileIs, FileLayouts
  <1> HIDE DEF more
  <1>5. CASE BeginMember
    <2>1. InMembers(fs, i, more)' /\ UNCHANGED <<fileVars, phase, pool, cf>>
      BY <1>3, <1>4, <1>5, MemberBegins
    <2>2. InFields(f, i)'
      BY <1>3, <2>1 DEF InFields, more
    <2>3. QED
      BY <1>1, <2>1, <2>2 DEF AtFields
  <1>6. CASE open # <<>> /\ (ParseAlone \/ BeginCode \/ EndCode)
    <2>1. InMembers(fs, i, more)' /\ UNCHANGED <<fileVars, phase, pool, cf>>
      BY <1>3, <1>4, <1>6, MemberAttribute
    <2>2. InFields(f, i)'
      BY <1>3, <2>1 DEF InFields, more
    <2>3. QED
      BY <1>1, <2>1, <2>2 DEF AtFields
  <1>7. CASE EndMember
    <2>1. /\ i + 1 \in 0 .. Len(fs)
          /\ InMembers(fs, i + 1, more)'
          /\ Append(Taken(KeptMembers(fs), i), Member) = Taken(KeptMembers(fs), i + 1)
          /\ UNCHANGED <<fileVars, phase, pool>>
      BY <1>3, <1>4, <1>7, MemberEnds
    <2>2. cf' = ReadOf(f, f.interfaces, Taken(KeptMembers(fs), i + 1), <<>>, <<>>)
      <3> DEFINE r == Taken(KeptMembers(fs), i)
                 s == Taken(KeptMembers(fs), i + 1)
      <3>1. cf' = [cf EXCEPT !.fields = Append(cf.fields, Member)]
        BY <1>1, <1>7 DEF EndMember
      <3>2. cf.fields = r
        BY <1>3 DEF ReadOf
      <3> HIDE DEF r, s
      <3>3. cf' = [ReadOf(f, f.interfaces, r, <<>>, <<>>) EXCEPT !.fields = s]
        BY <1>3, <2>1, <3>1, <3>2 DEF r, s
      <3>4. QED
        BY <3>3 DEF ReadOf, s
    <2>3. InFields(f, i + 1)'
      BY <2>1, <2>2 DEF InFields, more
    <2>4. QED
      BY <1>1, <2>1, <2>3 DEF AtFields
  <1>8. CASE open # <<>> /\ EndFile
    <2>1. Top.what \in {"member", "code"}
      BY <1>3, <1>4, <1>8, MemberKnown
    <2>2. QED
      BY <1>8, <2>1 DEF EndFile
  <1>9. QED
    BY <1>5, <1>6, <1>7, <1>8

\* Every action of a method goes on among the methods.
LEMMA MethodStep ==
  ASSUME NEW f, IsFile(f), AtMethods(f),
         \/ BeginMember
         \/ open # <<>> /\ (EndMember \/ EndFile \/ ParseAlone \/ BeginCode \/ EndCode)
  PROVE  AtMethods(f)' /\ UNCHANGED fileVars
  <1> DEFINE ms == f.methods
             fs == KeptMembers(f.fields)
             more == AttributesLayout(f.attributes)
  <1>1. phase = "methods" /\ pool = f.pool /\ \E i \in 0 .. Len(ms) : InMethods(f, i)
    BY DEF AtMethods
  <1>2. PICK i \in 0 .. Len(ms) : InMethods(f, i)
    BY <1>1
  <1>3. /\ cf = ReadOf(f, f.interfaces, fs, Taken(KeptMembers(ms), i), <<>>)
        /\ InMembers(ms, i, more)
    BY <1>2 DEF InMethods
  <1>4. AreMembers(ms, pool) /\ more \in Seq(Units)
    BY <1>1, FileIs, FileLayouts
  <1> HIDE DEF more, fs
  <1>5. CASE BeginMember
    <2>1. InMembers(ms, i, more)' /\ UNCHANGED <<fileVars, phase, pool, cf>>
      BY <1>3, <1>4, <1>5, MemberBegins
    <2>2. InMethods(f, i)'
      BY <1>3, <2>1 DEF InMethods, more, fs
    <2>3. QED
      BY <1>1, <2>1, <2>2 DEF AtMethods
  <1>6. CASE open # <<>> /\ (ParseAlone \/ BeginCode \/ EndCode)
    <2>1. InMembers(ms, i, more)' /\ UNCHANGED <<fileVars, phase, pool, cf>>
      BY <1>3, <1>4, <1>6, MemberAttribute
    <2>2. InMethods(f, i)'
      BY <1>3, <2>1 DEF InMethods, more, fs
    <2>3. QED
      BY <1>1, <2>1, <2>2 DEF AtMethods
  <1>7. CASE EndMember
    <2>1. /\ i + 1 \in 0 .. Len(ms)
          /\ InMembers(ms, i + 1, more)'
          /\ Append(Taken(KeptMembers(ms), i), Member) = Taken(KeptMembers(ms), i + 1)
          /\ UNCHANGED <<fileVars, phase, pool>>
      BY <1>3, <1>4, <1>7, MemberEnds
    <2>2. cf' = ReadOf(f, f.interfaces, fs, Taken(KeptMembers(ms), i + 1), <<>>)
      <3> DEFINE r == Taken(KeptMembers(ms), i)
                 s == Taken(KeptMembers(ms), i + 1)
      <3>1. cf' = [cf EXCEPT !.methods = Append(cf.methods, Member)]
        BY <1>1, <1>7 DEF EndMember
      <3>2. cf.methods = r
        BY <1>3 DEF ReadOf
      <3> HIDE DEF r, s
      <3>3. cf' = [ReadOf(f, f.interfaces, fs, r, <<>>) EXCEPT !.methods = s]
        BY <1>3, <2>1, <3>1, <3>2 DEF r, s
      <3>4. QED
        BY <3>3 DEF ReadOf, s
    <2>3. InMethods(f, i + 1)'
      BY <2>1, <2>2 DEF InMethods, more, fs
    <2>4. QED
      BY <1>1, <2>1, <2>3 DEF AtMethods
  <1>8. CASE open # <<>> /\ EndFile
    <2>1. Top.what \in {"member", "code"}
      BY <1>3, <1>4, <1>8, MemberKnown
    <2>2. QED
      BY <1>8, <2>1 DEF EndFile
  <1>9. QED
    BY <1>5, <1>6, <1>7, <1>8

\* Every action of an attribute of the class goes on, or ends the file.
LEMMA ClassStep ==
  ASSUME NEW f, IsFile(f), AtAttributes(f),
         EndMember \/ EndFile \/ ParseAlone \/ BeginCode \/ EndCode
  PROVE  (AtAttributes(f)' \/ AtEnd(f)') /\ UNCHANGED fileVars
  <1> DEFINE those == f.attributes
  <1>1. /\ phase = "attributes" /\ pool = f.pool
        /\ cf = ReadOf(f, f.interfaces, KeptMembers(f.fields), KeptMembers(f.methods), <<>>)
        /\ InAttributes("class", <<>>, those, <<>>)
    BY DEF AtAttributes
  <1>2. AreAttributes(those, pool)
    BY <1>1, FileIs
  <1>3. <<>> \in Seq(Units) /\ "class" # "code"
    OBVIOUS
  <1>4. /\ open # <<>> /\ Top.what \in {"class", "code"}
        /\ Top.what = "class" /\ Top.left = 0 =>
               rest = <<>> /\ Top.attributes = KeptOf(those)
    BY <1>1, <1>2, <1>3, AttributesEnd
  <1>5. CASE ParseAlone \/ BeginCode \/ EndCode
    <2>1. InAttributes("class", <<>>, those, <<>>)' /\ UNCHANGED <<fileVars, phase, left, pool, cf>>
      BY <1>1, <1>2, <1>3, <1>5, AttributeStep
    <2>2. QED
      BY <1>1, <2>1 DEF AtAttributes
  <1>6. CASE EndMember
    BY <1>4, <1>6 DEF EndMember
  <1>7. CASE EndFile
    <2>1. /\ Top.what = "class" /\ Top.left = 0
          /\ cf' = [cf EXCEPT !.attributes = Top.attributes]
          /\ open' = <<>> /\ phase' = "parsed"
          /\ UNCHANGED <<fileVars, rest, left, pool>>
      BY <1>7 DEF EndFile
    <2>2. rest = <<>> /\ Top.attributes = KeptOf(those)
      BY <1>4, <2>1
    <2>3. cf' = ReadOf(f, f.interfaces, KeptMembers(f.fields), KeptMembers(f.methods), KeptOf(those))
      BY <1>1, <2>1, <2>2 DEF ReadOf
    <2>4. QED
      BY <1>1, <2>1, <2>2, <2>3 DEF AtEnd
  <1>8. QED
    BY <1>5, <1>6, <1>7

\* The parser gives up at an attribute only if the file has one that is not
\* known.
LEMMA AttributePanics ==
  ASSUME NEW f, IsFile(f), AtFields(f) \/ AtMethods(f) \/ AtAttributes(f), PanicAtAttribute
  PROVE  Stopped(f)' /\ UNCHANGED fileVars
  <1>1. /\ AttributeComes /\ Kind \notin ATTRIBUTE_NAME_TAG_MAP
        /\ phase' = "panic" /\ UNCHANGED <<fileVars, rest, left, pool, cf, open>>
    BY DEF PanicAtAttribute
  <1>2. open # <<>> /\ Top.left > 0
    BY <1>1 DEF AttributeComes
  <1>3. Unknown(f)
    <2>1. CASE AtFields(f)
      <3>1. pool = f.pool /\ \E i \in 0 .. Len(f.fields) : InFields(f, i)
        BY <2>1 DEF AtFields
      <3>2. PICK i \in 0 .. Len(f.fields) : InFields(f, i)
        BY <3>1
      <3>3. AreMembers(f.fields, pool) /\ AfterFields(f) \in Seq(Units)
            /\ InMembers(f.fields, i, AfterFields(f))
        BY <3>1, <3>2, FileIs, FileLayouts DEF InFields
      <3>4. \E k \in DOMAIN f.fields : UnknownIn(f.fields[k].attributes)
        BY <1>1, <1>2, <3>3, MemberKnown
      <3>5. QED
        BY <3>4 DEF Unknown
    <2>2. CASE AtMethods(f)
      <3>1. pool = f.pool /\ \E i \in 0 .. Len(f.methods) : InMethods(f, i)
        BY <2>2 DEF AtMethods
      <3>2. PICK i \in 0 .. Len(f.methods) : InMethods(f, i)
        BY <3>1
      <3>3. AreMembers(f.methods, pool) /\ AttributesLayout(f.attributes) \in Seq(Units)
            /\ InMembers(f.methods, i, AttributesLayout(f.attributes))
        BY <3>1, <3>2, FileIs, FileLayouts DEF InMethods
      <3>4. \E k \in DOMAIN f.methods : UnknownIn(f.methods[k].attributes)
        BY <1>1, <1>2, <3>3, MemberKnown
      <3>5. QED
        BY <3>4 DEF Unknown
    <2>3. CASE AtAttributes(f)
      <3>1. pool = f.pool /\ InAttributes("class", <<>>, f.attributes, <<>>)
        BY <2>3 DEF AtAttributes
      <3>2. AreAttributes(f.attributes, pool)
        BY <3>1, FileIs
      <3>3. <<>> \in Seq(Units)
        OBVIOUS
      <3>4. UnknownIn(f.attributes)
        BY <1>1, <3>1, <3>2, <3>3, AttributeKnown
      <3>5. QED
        BY <3>4 DEF Unknown
    <2>4. QED
      BY <2>1, <2>2, <2>3
  <1>4. (Top.left > 0 /\ Kind \notin ATTRIBUTE_NAME_TAG_MAP)'
    BY <1>1, <1>2 DEF Top, Kind, Value
  <1>5. QED
    BY <1>1, <1>3, <1>4 DEF Stopped

\* Where the parser has stopped, it can only stop again.
LEMMA StoppedStep ==
  ASSUME NEW f, Stopped(f), ParseStep
  PROVE  Stopped(f)' /\ UNCHANGED fileVars
  <1>1. phase = "panic" /\ (open = <<>> \/ (Top.left > 0 /\ Kind \notin ATTRIBUTE_NAME_TAG_MAP))
        /\ Unknown(f)
    BY DEF Stopped
  <1>2. open # <<>> /\ (EndMember \/ EndFile \/ ParseAlone \/ BeginCode \/ EndCode \/ PanicAtAttribute)
    BY <1>1, StepIs
  <1>3. Top.left > 0 /\ Kind \notin ATTRIBUTE_NAME_TAG_MAP
    BY <1>1, <1>2
  <1>4. ~(EndMember \/ EndFile \/ EndCode)
    BY <1>3 DEF EndMember, EndFile, EndCode
  <1>5. ~(ParseAlone \/ BeginCode)
    <2>1. Kind \notin DOMAIN Plain /\ Kind \notin DOMAIN Tables /\ Kind \notin ByteStreams
          /\ Kind \notin Skipped /\ Kind # "Code" /\ Kind # "BootstrapMethods"
      BY <1>3 DEF ATTRIBUTE_NAME_TAG_MAP
    <2>2. QED
      BY <2>1 DEF ParseAlone, ParsePlain, ParseTable, ParseBootstrapMethods, ParseByteStream,
                  SkipAttribute, BeginCode
  <1>6. phase' = "panic" /\ UNCHANGED <<fileVars, rest, left, pool, cf, open>>
    BY <1>2, <1>4, <1>5 DEF PanicAtAttribute
  <1>7. (Top.left > 0 /\ Kind \notin ATTRIBUTE_NAME_TAG_MAP)'
    BY <1>3, <1>6 DEF Top, Kind, Value
  <1>8. QED
    BY <1>1, <1>6, <1>7 DEF Stopped

\* Every step of the parser keeps to the file.
LEMMA ParsingStep ==
  ASSUME NEW f, IsFile(f), Parsing(f), ParseStep
  PROVE  Parsing(f)' /\ UNCHANGED fileVars
  <1> DEFINE Attribute_ == EndMember \/ EndFile \/ ParseAlone \/ BeginCode \/ EndCode
  <1>1. \/ phase = "header" /\ ParseHeader
        \/ phase = "constants" /\ (ParseConstant \/ ParseUTF8 \/ PanicAtTag \/ ParseClassInfo)
        \/ phase = "interfaces" /\ ParseInterfaces
        \/ phase = "fieldCount" /\ ParseCount
        \/ phase \in {"fields", "methods"} /\ open = <<>> /\ (ParseCount \/ BeginMember)
        \/ open # <<>> /\ (Attribute_ \/ PanicAtAttribute)
    BY StepIs
  <1>2. CASE AtHeader(f)
    <2>1. phase = "header" /\ open = <<>>
      BY <1>2 DEF AtHeader
    <2>2. ParseHeader
      BY <1>1, <2>1
    <2>3. QED
      BY <1>2, <2>2, HeaderStep DEF Parsing
  <1>3. CASE AtConstants(f)
    <2>1. phase = "constants" /\ open = <<>>
      BY <1>3 DEF AtConstants
    <2>2. ParseConstant \/ ParseUTF8 \/ PanicAtTag \/ ParseClassInfo
      BY <1>1, <2>1
    <2>3. QED
      BY <1>3, <2>2, ConstantStep, TagPanics, ClassInfoStep DEF Parsing
  <1>4. CASE AtInterfaces(f)
    <2>1. phase = "interfaces" /\ open = <<>>
      BY <1>4 DEF AtInterfaces
    <2>2. ParseInterfaces
      BY <1>1, <2>1
    <2>3. QED
      BY <1>4, <2>2, InterfacesStep DEF Parsing
  <1>5. CASE AtFieldCount(f)
    <2>1. phase = "fieldCount" /\ open = <<>>
      BY <1>5 DEF AtFieldCount
    <2>2. ParseCount
      BY <1>1, <2>1
    <2>3. QED
      BY <1>5, <2>2, FieldCountStep DEF Parsing
  <1>6. CASE AtFields(f)
    <2>1. phase = "fields"
      BY <1>6 DEF AtFields
    <2>2. ParseCount \/ BeginMember \/ (open # <<>> /\ Attribute_) \/ PanicAtAttribute
      BY <1>1, <2>1
    <2>3. QED
      BY <1>6, <2>2, MethodCountStep, FieldStep, AttributePanics DEF Parsing
  <1>7. CASE AtMethods(f)
    <2>1. phase = "methods"
      BY <1>7 DEF AtMethods
    <2>2. ParseCount \/ BeginMember \/ (open # <<>> /\ Attribute_) \/ PanicAtAttribute
      BY <1>1, <2>1
    <2>3. QED
      BY <1>7, <2>2, AttributeCountStep, MethodStep, AttributePanics DEF Parsing
  <1>8. CASE AtAttributes(f)
    <2>1. phase = "attributes"
      BY <1>8 DEF AtAttributes
    <2>2. Attribute_ \/ PanicAtAttribute
      BY <1>1, <2>1
    <2>3. QED
      BY <1>8, <2>2, ClassStep, AttributePanics DEF Parsing
  <1>9. CASE AtEnd(f)
    BY <1>1, <1>9 DEF AtEnd
  <1>10. CASE Stopped(f)
    BY <1>10, StoppedStep DEF Parsing
  <1>11. CASE phase \in BuildPhases /\ open = <<>>
    BY <1>1, <1>11 DEF BuildPhases
  <1>12. QED
    BY <1>2, <1>3, <1>4, <1>5, <1>6, <1>7, <1>8, <1>9, <1>10, <1>11 DEF Parsing

-----------------------------------------------------------------------------
(* The constructors, and the next file *)

\* No step of the constructor is there twice.
LEMMA StepsDiffer ==
  ASSUME NEW n \in 1 .. 7
  PROVE  After(Steps[n]) = Steps[n + 1]
  <1> DEFINE c == CHOOSE i \in DOMAIN Steps : Steps[i] = Steps[n]
  <1>1. DOMAIN Steps = 1 .. 8
    BY DEF Steps
  <1>2. c \in 1 .. 8 /\ Steps[c] = Steps[n]
    BY <1>1
  <1>3. \A i, k \in 1 .. 8 : Steps[i] = Steps[k] => i = k
    BY DEF Steps
  <1>4. c = n
    BY <1>2, <1>3
  <1>5. After(Steps[n]) = Steps[1 + c]
    BY DEF After
  <1> HIDE DEF c
  <1>6. 1 + c = n + 1
    BY <1>4
  <1>7. QED
    BY <1>5, <1>6

\* The steps of the constructor, one by one.
LEMMA AfterIs ==
  /\ After("parsed") = "attributesStep" /\ After("attributesStep") = "fieldsStep"
  /\ After("fieldsStep") = "methodsStep" /\ After("methodsStep") = "supersStep"
  /\ After("supersStep") = "poolStep" /\ After("poolStep") = "slotsStep"
  /\ After("slotsStep") = "built"
  <1>1. /\ Steps[1] = "parsed" /\ Steps[2] = "attributesStep" /\ Steps[3] = "fieldsStep"
        /\ Steps[4] = "methodsStep" /\ Steps[5] = "supersStep" /\ Steps[6] = "poolStep"
        /\ Steps[7] = "slotsStep" /\ Steps[8] = "built"
    BY DEF Steps
  <1>2. /\ After(Steps[1]) = Steps[1 + 1] /\ After(Steps[2]) = Steps[2 + 1]
        /\ After(Steps[3]) = Steps[3 + 1] /\ After(Steps[4]) = Steps[4 + 1]
        /\ After(Steps[5]) = Steps[5 + 1] /\ After(Steps[6]) = Steps[6 + 1]
        /\ After(Steps[7]) = Steps[7 + 1]
    BY StepsDiffer
  <1>3. QED
    BY <1>1, <1>2

Constructing == \/ BeginClass \/ InitAttributes \/ InitFields \/ InitMethods
                \/ InitInterfaceAndSuperClass \/ MoveConstantPool \/ CalcFieldSlotId

\* A step of the constructor does not open anything.
LEMMA ConstructingStep ==
  ASSUME Constructing, open = <<>>
  PROVE  phase' \in BuildPhases /\ open' = <<>> /\ UNCHANGED fileVars
  <1>1. CASE BeginClass
    BY <1>1, AfterIs DEF BeginClass, StepTo, Unparsed, BuildPhases
  <1>2. CASE InitAttributes
    BY <1>2, AfterIs DEF InitAttributes, StepTo, Unparsed, BuildPhases
  <1>3. CASE InitFields
    BY <1>3, AfterIs DEF InitFields, StepTo, Unparsed, BuildPhases
  <1>4. CASE InitMethods
    BY <1>4, AfterIs DEF InitMethods, StepTo, Unparsed, BuildPhases
  <1>5. CASE InitInterfaceAndSuperClass
    BY <1>5, AfterIs DEF InitInterfaceAndSuperClass, StepTo, Unparsed, BuildPhases
  <1>6. CASE MoveConstantPool
    BY <1>6, AfterIs DEF MoveConstantPool, StepTo, Unparsed, BuildPhases
  <1>7. CASE CalcFieldSlotId
    BY <1>7, AfterIs DEF CalcFieldSlotId, StepTo, Unparsed, BuildPhases
  <1>8. QED
    BY <1>1, <1>2, <1>3, <1>4, <1>5, <1>6, <1>7 DEF Constructing

\* It happens in a phase of the constructor.
LEMMA ConstructingPhase ==
  ASSUME Constructing
  PROVE  phase \in BuildPhases \cup {"parsed"}
  <1>1. CASE BeginClass
    BY <1>1 DEF BeginClass
  <1>2. CASE InitAttributes
    BY <1>2 DEF InitAttributes, BuildPhases
  <1>3. CASE InitFields
    BY <1>3 DEF InitFields, BuildPhases
  <1>4. CASE InitMethods
    BY <1>4 DEF InitMethods, BuildPhases
  <1>5. CASE InitInterfaceAndSuperClass
    BY <1>5 DEF InitInterfaceAndSuperClass, BuildPhases
  <1>6. CASE MoveConstantPool
    BY <1>6 DEF MoveConstantPool, BuildPhases
  <1>7. CASE CalcFieldSlotId
    BY <1>7 DEF CalcFieldSlotId, BuildPhases
  <1>8. QED
    BY <1>1, <1>2, <1>3, <1>4, <1>5, <1>6, <1>7 DEF Constructing

\* What is not touched is as it was.
LEMMA ParsingStays ==
  ASSUME NEW f, Parsing(f), UNCHANGED <<phase, rest, left, pool, cf, open>>
  PROVE  Parsing(f)'
  <1>1. \A what, fixed, those, more : InAttributes(what, fixed, those, more)
                                      => InAttributes(what, fixed, those, more)'
    BY DEF InAttributes, Between, Within
  <1>2. \A ms, i, more : InMembers(ms, i, more) => InMembers(ms, i, more)'
    BY <1>1 DEF InMembers
  <1>3. AtHeader(f) => AtHeader(f)'
    BY DEF AtHeader
  <1>4. AtConstants(f) => AtConstants(f)'
    BY DEF AtConstants, InConstants
  <1>5. AtInterfaces(f) => AtInterfaces(f)'
    BY DEF AtInterfaces
  <1>6. AtFieldCount(f) => AtFieldCount(f)'
    BY DEF AtFieldCount
  <1>7. AtFields(f) => AtFields(f)'
    BY <1>2 DEF AtFields, InFields
  <1>8. AtMethods(f) => AtMethods(f)'
    BY <1>2 DEF AtMethods, InMethods
  <1>9. AtAttributes(f) => AtAttributes(f)'
    BY <1>1 DEF AtAttributes
  <1>10. AtEnd(f) => AtEnd(f)'
    BY DEF AtEnd
  <1>11. Stopped(f) => Stopped(f)'
    BY DEF Stopped, Top, Kind, Value
  <1>12. QED
    BY <1>3, <1>4, <1>5, <1>6, <1>7, <1>8, <1>9, <1>10, <1>11 DEF Parsing

\* A program is read file by file.
IInv == /\ program \in Programs
        /\ \/ at \in 1 .. Len(FilesOf(program)) /\ Parsing(File)
           \/ phase = "loaded" /\ open = <<>>

\* Every program has files, and they are class files.
LEMMA Files ==
  ASSUME NEW p \in Programs
  PROVE  /\ Len(FilesOf(p)) \in Nat \ {0}
         /\ \A i \in 1 .. Len(FilesOf(p)) : IsFile(FilesOf(p)[i])
  BY FilesAssumption

\* The parser begins at the header of the first file.
LEMMA InitIInv == Init => IInv
  <1> SUFFICES ASSUME Init
               PROVE  IInv
    OBVIOUS
  <1>1. PICK p \in Programs : Begins(p, 1)
    BY DEF Init
  <1>2. /\ program = p /\ at = 1 /\ phase = "header" /\ rest = Layout(FilesOf(p)[1])
        /\ pool = <<>> /\ cf = EmptyClassFile /\ open = <<>>
    BY <1>1 DEF Begins
  <1>3. 1 \in 1 .. Len(FilesOf(p))
    BY Files
  <1>4. AtHeader(File)
    BY <1>2 DEF AtHeader, File
  <1>5. QED
    BY <1>2, <1>3, <1>4 DEF IInv, Parsing

\* The file changes with the program or the place in it only.
LEMMA FileStays ==
  ASSUME NEW f, File = f, UNCHANGED fileVars
  PROVE  File' = f
  BY DEF File, fileVars

\* Every step of the program keeps the parser to the file.
LEMMA NextIInv ==
  ASSUME IInv, [Next]_vars
  PROVE  IInv'
  <1>1. program \in Programs
    BY DEF IInv
  <1>2. CASE at \in 1 .. Len(FilesOf(program)) /\ Parsing(File)
    <2>1. PICK f : f = File
      OBVIOUS
    <2>2. IsFile(f) /\ Parsing(f)
      BY <1>1, <1>2, <2>1, Files DEF File
    <2>3. CASE ParseStep
      <3>1. Parsing(f)' /\ UNCHANGED fileVars
        BY <2>2, <2>3, ParsingStep
      <3>2. File' = f
        BY <2>1, <3>1, FileStays
      <3>3. QED
        BY <1>1, <1>2, <3>1, <3>2 DEF IInv, fileVars
    <2>4. CASE Constructing
      <3>1. open = <<>>
        <4>1. phase \in BuildPhases \cup {"parsed"}
          BY <2>4, ConstructingPhase
        <4>2. QED
          BY <2>2, <4>1 DEF Parsing, AtHeader, AtConstants, AtInterfaces, AtFieldCount, AtFields,
                            AtMethods, AtAttributes, AtEnd, Stopped, BuildPhases
      <3>2. phase' \in BuildPhases /\ open' = <<>> /\ UNCHANGED fileVars
        BY <2>4, <3>1, ConstructingStep
      <3>3. Parsing(File)'
        BY <3>2 DEF Parsing
      <3>4. QED
        BY <1>1, <1>2, <3>2, <3>3 DEF IInv, fileVars
    <2>5. CASE NextFile
      <3>1. /\ at' = at + 1 /\ program' = program /\ open' = <<>>
            /\ pool' = <<>> /\ cf' = EmptyClassFile
            /\ IF at < Len(FilesOf(program))
               THEN rest' = Layout(FilesOf(program)[at + 1]) /\ phase' = "header"
               ELSE phase' = "loaded"
        BY <2>5 DEF NextFile
      <3>2. CASE at < Len(FilesOf(program))
        <4>1. at + 1 \in 1 .. Len(FilesOf(program))
          BY <1>1, <1>2, <3>2, Files
        <4>2. AtHeader(File)'
          BY <3>1, <3>2 DEF AtHeader, File
        <4>3. QED
          BY <1>1, <3>1, <4>1, <4>2 DEF IInv, Parsing
      <3>3. CASE ~(at < Len(FilesOf(program)))
        BY <1>1, <3>1, <3>3 DEF IInv
      <3>4. QED
        BY <3>2, <3>3
    <2>6. CASE Ended \/ UNCHANGED vars
      <3>1. UNCHANGED <<program, at, phase, rest, left, pool, cf, open>>
        BY <2>6 DEF Ended, vars, parserVars
      <3>2. Parsing(f)' /\ UNCHANGED fileVars
        BY <2>2, <3>1, ParsingStays DEF fileVars
      <3>3. File' = f
        BY <2>1, <3>2, FileStays
      <3>4. QED
        BY <1>1, <1>2, <3>2, <3>3 DEF IInv, fileVars
    <2>7. QED
      BY <2>3, <2>4, <2>5, <2>6 DEF Next, BuildStep, Constructing
  <1>3. CASE phase = "loaded" /\ open = <<>>
    <2>1. ~ParseStep
      BY <1>3, StepIs
    <2>2. ~BuildStep
      BY <1>3 DEF BuildStep, BeginClass, InitAttributes, InitFields, InitMethods,
                  InitInterfaceAndSuperClass, MoveConstantPool, CalcFieldSlotId, NextFile
    <2>3. UNCHANGED vars
      BY <2>1, <2>2 DEF Next, Ended
    <2>4. UNCHANGED <<program, at, phase, open>>
      BY <2>3 DEF vars, parserVars
    <2>5. QED
      BY <1>1, <1>3, <2>4 DEF IInv
  <1>4. QED
    BY <1>2, <1>3 DEF IInv

\* What the parser has read when it ends is the file: ParsedFaithfully.
THEOREM ParsedCorrectly == Spec => []ParsedFaithfully
  <1>1. IInv => ParsedFaithfully
    <2> SUFFICES ASSUME IInv, phase = "parsed"
                 PROVE  ParsedFaithfully
      BY DEF ParsedFaithfully
    <2>1. Parsing(File)
      BY DEF IInv
    <2>2. AtEnd(File)
      BY <2>1 DEF Parsing, AtHeader, AtConstants, AtInterfaces, AtFieldCount, AtFields,
                  AtMethods, AtAttributes, Stopped, BuildPhases
    <2>3. QED
      BY <2>2 DEF AtEnd, ReadOf, ParsedFaithfully
  <1>2. QED
    BY <1>1, InitIInv, NextIInv, PTL DEF Spec

-----------------------------------------------------------------------------
(* What the constructors find among the attributes *)

\* ks has what as has, but for the contents of the attributes nobody asks for.
SameContents(as, ks) ==
    /\ DOMAIN ks = 1 .. Len(as) /\ Len(ks) = Len(as)
    /\ \A i \in 1 .. Len(as) :
           /\ ks[i].kind = as[i].kind /\ ks[i].name = as[i].name
           /\ as[i].kind \notin Skipped =>
                  ks[i].fixed = as[i].fixed /\ ks[i].rows = as[i].rows /\ ks[i].bytes = as[i].bytes

\* What is kept of an attribute.
LEMMA KeptAloneIs ==
  ASSUME NEW a, a \in Attributes \/ a \in InnerAttributes
  PROVE  /\ KeptAlone(a).kind = a.kind /\ KeptAlone(a).name = a.name
         /\ a.kind \notin Skipped => KeptAlone(a) = a
  BY DEF KeptAlone, Attribute, Attributes, InnerAttributes

\* The same for one with attributes inside.
LEMMA KeptIs ==
  ASSUME NEW a \in Attributes
  PROVE  /\ Kept(a).kind = a.kind /\ Kept(a).name = a.name
         /\ a.kind \notin Skipped =>
                /\ Kept(a).fixed = a.fixed /\ Kept(a).rows = a.rows /\ Kept(a).bytes = a.bytes
                /\ Kept(a).attributes = [i \in DOMAIN a.attributes |-> KeptAlone(a.attributes[i])]
  <1> DEFINE b == KeptAlone(a)
             x == [i \in DOMAIN b.attributes |-> KeptAlone(b.attributes[i])]
  <1>1. Kept(a) = [b EXCEPT !.attributes = x]
    BY DEF Kept
  <1>2. CASE a.kind \in Skipped
    <2>1. b = Attribute(a.kind, a.name)
      BY <1>2 DEF KeptAlone
    <2> HIDE DEF b, x
    <2>2. QED
      BY <1>1, <1>2, <2>1 DEF Attribute
  <1>3. CASE a.kind \notin Skipped
    <2>1. b = a
      BY <1>3 DEF KeptAlone
    <2>2. x = [i \in DOMAIN a.attributes |-> KeptAlone(a.attributes[i])]
      BY <2>1
    <2> HIDE DEF b, x
    <2>3. QED
      BY <1>1, <2>1, <2>2 DEF Attributes
  <1>4. QED
    BY <1>2, <1>3

\* What the parser keeps has the contents of what the file has.
LEMMA KeptSame ==
  ASSUME NEW those, NEW p, AreAttributes(those, p)
  PROVE  /\ SameContents(those, KeptOf(those)) /\ OneOfEach(those)
         /\ Len(those) \in Nat /\ DOMAIN those = 1 .. Len(those)
  <1>1. /\ those \in Seq(Attributes) /\ DOMAIN those = 1 .. Len(those)
        /\ Len(those) \in Nat /\ \A i \in 1 .. Len(those) : those[i] \in Attributes
    BY AttributesAre, SeqHas, Zenon
  <1> DEFINE f == KeptOf(those)
             n == Len(those)
             K == {Kept(those[i]) : i \in 1 .. n}
  <1>2. f = [i \in 1 .. n |-> f[i]] /\ \A i \in 1 .. n : f[i] = Kept(those[i]) /\ f[i] \in K
    BY <1>1 DEF KeptOf
  <1>3. OneOfEach(those)
    BY DEF AreAttributes
  <1> HIDE DEF f, n, K
  <1>4. Len(f) = n /\ DOMAIN f = 1 .. n
    BY <1>1, <1>2, SeqIs DEF n
  <1>5. \A i \in 1 .. n :
            /\ f[i].kind = those[i].kind /\ f[i].name = those[i].name
            /\ those[i].kind \notin Skipped =>
                   f[i].fixed = those[i].fixed /\ f[i].rows = those[i].rows
                   /\ f[i].bytes = those[i].bytes
    BY <1>1, <1>2, KeptIs DEF n
  <1>6. SameContents(those, f)
    BY <1>4, <1>5 DEF SameContents, n
  <1>7. QED
    BY <1>1, <1>3, <1>6 DEF f

\* The attributes inside of a method's code.
LEMMA InsideSame ==
  ASSUME NEW a, NEW p, IsAttribute(a, p), OneOfEach(a.attributes)
  PROVE  LET ks == [i \in DOMAIN a.attributes |-> KeptAlone(a.attributes[i])]
         IN SameContents(a.attributes, ks) /\ Len(a.attributes) \in Nat
            /\ DOMAIN a.attributes = 1 .. Len(a.attributes)
  <1> DEFINE those == a.attributes
             n == Len(those)
             f == [i \in DOMAIN those |-> KeptAlone(those[i])]
             K == {KeptAlone(those[i]) : i \in 1 .. n}
  <1>1. those \in Seq(InnerAttributes)
    BY DEF IsAttribute, Attributes
  <1>2. n \in Nat /\ DOMAIN those = 1 .. n /\ \A i \in 1 .. n : those[i] \in InnerAttributes
    BY <1>1, SeqHas, Zenon
  <1>3. f = [i \in 1 .. n |-> f[i]] /\ \A i \in 1 .. n : f[i] = KeptAlone(those[i]) /\ f[i] \in K
    BY <1>2
  <1> HIDE DEF f, n, K
  <1>4. Len(f) = n /\ DOMAIN f = 1 .. n
    BY <1>2, <1>3, SeqIs
  <1>5. \A i \in 1 .. n :
            /\ f[i].kind = those[i].kind /\ f[i].name = those[i].name
            /\ those[i].kind \notin Skipped =>
                   f[i].fixed = those[i].fixed /\ f[i].rows = those[i].rows
                   /\ f[i].bytes = those[i].bytes
    BY <1>2, <1>3, KeptAloneIs
  <1>6. SameContents(those, f)
    BY <1>4, <1>5 DEF SameContents, n
  <1>7. QED
    BY <1>2, <1>6 DEF f, n

\* Of the attribute they look for there is one, the first and the last.
LEMMA Found ==
  ASSUME NEW those, NEW ks, SameContents(those, ks), OneOfEach(those),
         Len(those) \in Nat, DOMAIN those = 1 .. Len(those), NEW kind,
         NEW i \in 1 .. Len(those), those[i].kind = kind
  PROVE  AssignAttribute(ks, kind) = ks[i] /\ LastAttribute(ks, kind) = ks[i]
         /\ Said(those, kind) = those[i]
  <1> DEFINE n == Len(those)
  <1>1. DOMAIN ks = 1 .. n /\ Len(ks) = n /\ \A k \in 1 .. n : ks[k].kind = those[k].kind
    BY DEF SameContents
  <1>2. \A k \in 1 .. n : those[k].kind = kind => k = i
    BY DEF OneOfEach
  <1>3. \A k \in 1 .. n : ks[k].kind = kind => k = i
    BY <1>1, <1>2
  <1> HIDE DEF n
  <1>4. n \in Nat /\ i \in 1 .. n /\ ks[i].kind = kind /\ those[i].kind = kind
    BY <1>1 DEF n
  <1>5. Before(ks, kind, i)
    <2>1. ASSUME NEW k \in 1 .. i - 1 PROVE ks[k].kind # kind
      <3>1. k \in 1 .. n /\ k # i
        BY <1>4
      <3>2. QED
        BY <1>3, <3>1
    <2>2. QED
      BY <2>1 DEF Before
  <1>6. \A k \in i + 1 .. Len(ks) : ks[k].kind # kind
    <2>1. ASSUME NEW k \in i + 1 .. Len(ks) PROVE ks[k].kind # kind
      <3>1. k \in 1 .. n /\ k # i
        BY <1>1, <1>4
      <3>2. QED
        BY <1>3, <3>1
    <2>2. QED
      BY <2>1
  <1>7. AssignAttribute(ks, kind) = ks[i]
    <2> DEFINE c == CHOOSE k \in DOMAIN ks : ks[k].kind = kind /\ Before(ks, kind, k)
    <2>1. c \in DOMAIN ks /\ ks[c].kind = kind
      BY <1>1, <1>4, <1>5
    <2>2. AssignAttribute(ks, kind) = ks[c]
      BY <1>1, <1>4 DEF AssignAttribute
    <2> HIDE DEF c
    <2>3. QED
      BY <1>1, <1>3, <2>1, <2>2
  <1>8. LastAttribute(ks, kind) = ks[i]
    <2> DEFINE c == CHOOSE k \in DOMAIN ks :
                        ks[k].kind = kind /\ \A j \in k + 1 .. Len(ks) : ks[j].kind # kind
    <2>1. c \in DOMAIN ks /\ ks[c].kind = kind
      BY <1>1, <1>4, <1>6
    <2>2. LastAttribute(ks, kind) = ks[c]
      BY <1>1, <1>4 DEF LastAttribute
    <2> HIDE DEF c
    <2>3. QED
      BY <1>1, <1>3, <2>1, <2>2
  <1>9. Said(those, kind) = those[i]
    <2> DEFINE c == CHOOSE a \in {those[k] : k \in DOMAIN those} : a.kind = kind
    <2>1. c \in {those[k] : k \in DOMAIN those} /\ c.kind = kind
      BY <1>4 DEF n
    <2>2. Said(those, kind) = c
      BY <1>4 DEF Said, n
    <2> HIDE DEF c
    <2>3. PICK k \in DOMAIN those : c = those[k]
      BY <2>1
    <2>4. QED
      BY <1>2, <2>1, <2>2, <2>3 DEF n
  <1>10. QED
    BY <1>7, <1>8, <1>9

\* What the file does not have is not found.
LEMMA Missing ==
  ASSUME NEW those, NEW ks, SameContents(those, ks), DOMAIN those = 1 .. Len(those), NEW kind,
         \A i \in 1 .. Len(those) : those[i].kind # kind
  PROVE  AssignAttribute(ks, kind) = NullAttribute /\ LastAttribute(ks, kind) = NullAttribute
         /\ Said(those, kind) = Attribute(kind, 0)
  <1>1. \A i \in DOMAIN ks : ks[i].kind # kind
    BY DEF SameContents
  <1>2. AssignAttribute(ks, kind) = NullAttribute
    BY <1>1 DEF AssignAttribute
  <1>3. LastAttribute(ks, kind) = NullAttribute
    BY <1>1 DEF LastAttribute
  <1>4. Said(those, kind) = Attribute(kind, 0)
    BY DEF Said
  <1>5. QED
    BY <1>2, <1>3, <1>4

\* In either case, what is found is what the file says.
Tells(a, s) == a.fixed = s.fixed /\ a.rows = s.rows /\ a.bytes = s.bytes

\* What the file has is found, whichever way one looks for it.
LEMMA Told ==
  ASSUME NEW those, NEW ks, SameContents(those, ks), OneOfEach(those),
         Len(those) \in Nat, DOMAIN those = 1 .. Len(those), NEW kind, kind \notin Skipped
  PROVE  /\ Tells(AssignAttribute(ks, kind), Said(those, kind))
         /\ Tells(LastAttribute(ks, kind), Said(those, kind))
         /\ Index(AssignAttribute(ks, kind)) = Number(those, kind)
         /\ Index(LastAttribute(ks, kind)) = Number(those, kind)
  <1>1. /\ Tells(AssignAttribute(ks, kind), Said(those, kind))
        /\ Tells(LastAttribute(ks, kind), Said(those, kind))
    <2>1. CASE \E i \in 1 .. Len(those) : those[i].kind = kind
      <3>1. PICK i \in 1 .. Len(those) : those[i].kind = kind
        BY <2>1
      <3>2. AssignAttribute(ks, kind) = ks[i] /\ LastAttribute(ks, kind) = ks[i]
            /\ Said(those, kind) = those[i]
        BY <3>1, Found
      <3>3. Tells(ks[i], those[i])
        BY <3>1 DEF SameContents, Tells
      <3>4. QED
        BY <3>2, <3>3
    <2>2. CASE ~ \E i \in 1 .. Len(those) : those[i].kind = kind
      <3>1. AssignAttribute(ks, kind) = NullAttribute /\ LastAttribute(ks, kind) = NullAttribute
            /\ Said(those, kind) = Attribute(kind, 0)
        BY <2>2, Missing
      <3>2. Tells(NullAttribute, Attribute(kind, 0))
        BY DEF Tells, NullAttribute, Attribute
      <3>3. QED
        BY <3>1, <3>2
    <2>3. QED
      BY <2>1, <2>2
  <1>2. QED
    BY <1>1 DEF Tells, Index, Number

\* Rows of one number, put together.
LEMMA FlattenOnes ==
  ASSUME NEW rows \in Seq(Seq(Nat)), \A i \in 1 .. Len(rows) : Len(rows[i]) = 1
  PROVE  FlattenSeq(rows) = [i \in DOMAIN rows |-> rows[i][1]]
  <1> DEFINE n == Len(rows)
             Says(s, d) == /\ s \in Seq(Nat) /\ Len(s) = d
                           /\ \A j \in 1 .. d : s[j] = rows[n - d + j][1]
             S == {d \in Nat : d <= n => Says(Rest(rows, n + 1 - d), d)}
  <1>1. n \in Nat /\ DOMAIN rows = 1 .. n /\ \A i \in 1 .. n : rows[i] \in Seq(Nat)
    BY SeqHas
  <1>2. 0 \in S
    <2>1. Rest(rows, n + 1) = <<>>
      BY RestEnd
    <2>2. n + 1 - 0 = n + 1
      BY <1>1
    <2>3. Says(<<>>, 0)
      OBVIOUS
    <2>4. QED
      BY <2>1, <2>2, <2>3
  <1>3. ASSUME NEW d \in Nat, d \in S PROVE d + 1 \in S
    <2>1. CASE d + 1 <= n
      <3> DEFINE i == n - d
                 r == rows[i]
                 t == Rest(rows, i + 1)
                 u == r \o t
      <3>1. i \in 1 .. n /\ n + 1 - (d + 1) = i /\ n + 1 - d = i + 1 /\ d <= n
        <4> HIDE DEF n
        <4>1. QED
          BY <1>1, <2>1
      <3>2. Says(t, d)
        BY <1>3, <3>1
      <3>3. Rest(rows, i) = u
        BY <3>1, RestStep
      <3>4. r \in Seq(Nat) /\ Len(r) = 1
        BY <1>1, <3>1
      <3>5. /\ u \in Seq(Nat) /\ Len(u) = 1 + d
            /\ \A j \in 1 .. 1 + d : u[j] = IF j <= 1 THEN r[j] ELSE t[j - 1]
        <4>1. t \in Seq(Nat) /\ Len(t) = d
          BY <3>2
        <4> HIDE DEF r, t, n, i
        <4>2. /\ u \in Seq(Nat) /\ Len(u) = Len(r) + Len(t)
              /\ \A j \in 1 .. Len(r) + Len(t) :
                     u[j] = IF j <= Len(r) THEN r[j] ELSE t[j - Len(r)]
          BY <3>4, <4>1, ConcatProperties
        <4> HIDE DEF u
        <4>3. QED
          BY <3>4, <4>1, <4>2
      <3>6. Says(u, d + 1)
        <4>1. ASSUME NEW j \in 1 .. d + 1 PROVE u[j] = rows[n - (d + 1) + j][1]
          <5> HIDE DEF n, t, u
          <5>1. CASE j = 1
            <6>1. n - (d + 1) + j = i
              BY <1>1, <5>1
            <6>2. u[j] = r[1]
              BY <3>5, <5>1
            <6>3. QED
              BY <6>1, <6>2
          <5>2. CASE j # 1
            <6>1. j - 1 \in 1 .. d /\ n - d + (j - 1) = n - (d + 1) + j /\ ~(j <= 1)
                  /\ j \in 1 .. 1 + d
              BY <1>1, <5>2
            <6>2. u[j] = t[j - 1]
              BY <3>5, <6>1
            <6>3. t[j - 1] = rows[n - d + (j - 1)][1]
              BY <3>2, <6>1
            <6>4. QED
              BY <6>1, <6>2, <6>3
          <5>3. QED
            BY <5>1, <5>2
        <4> HIDE DEF u
        <4>2. QED
          BY <3>5, <4>1
      <3>7. Says(Rest(rows, n + 1 - (d + 1)), d + 1)
        BY <3>1, <3>3, <3>6
      <3> HIDE DEF Says, n
      <3>8. QED
        BY <3>7
    <2>2. CASE ~(d + 1 <= n)
      BY <2>2
    <2>3. QED
      BY <2>1, <2>2
  <1>4. n \in S
    <2> HIDE DEF S
    <2>1. QED
      BY <1>1, <1>2, <1>3, Induction
  <1>5. Says(Rest(rows, 1), n)
    <2>1. n + 1 - n = 1 /\ n <= n
      <3> HIDE DEF n
      <3>1. QED
        BY <1>1
    <2>2. Says(Rest(rows, n + 1 - n), n)
      BY <1>4, <2>1
    <2>3. QED
      BY <2>1, <2>2
  <1> DEFINE s == FlattenSeq(rows)
             g == [i \in 1 .. n |-> rows[i][1]]
  <1>6. s \in Seq(Nat) /\ Len(s) = n /\ \A j \in 1 .. n : s[j] = rows[j][1]
    <2>1. s = Rest(rows, 1)
      BY RestAll
    <2>2. \A j \in 1 .. n : n - n + j = j
      <3> HIDE DEF n
      <3>1. QED
        BY <1>1
    <2> HIDE DEF s
    <2>3. QED
      BY <1>5, <2>1, <2>2
  <1>7. g \in Seq(Nat) /\ Len(g) = n /\ \A j \in 1 .. n : g[j] = rows[j][1]
    <2>1. \A j \in 1 .. n : s[j] \in Nat
      <3> HIDE DEF s, n
      <3>1. QED
        BY <1>1, <1>6, SeqHas, Zenon
    <2>2. g = [i \in 1 .. n |-> g[i]] /\ \A j \in 1 .. n : g[j] \in Nat /\ g[j] = rows[j][1]
      BY <1>6, <2>1
    <2> HIDE DEF g, n
    <2>3. QED
      BY <1>1, <2>2, SeqIs
  <1> HIDE DEF s, g
  <1>8. s = g
    BY <1>6, <1>7, SeqEqual
  <1>9. QED
    BY <1>1, <1>8 DEF s, g

-----------------------------------------------------------------------------
(* What a member is built from *)

\* While the pool is the file's, an index means the text it means in the file.
LEMMA TextSame ==
  ASSUME NEW f, pool = f.pool, NEW i
  PROVE  Text(i) = TextIn(f, i)
  BY DEF Text, TextIn, StringAt

\* The i-th member as the parser has read it.
LEMMA MemberKept ==
  ASSUME NEW ms, NEW p, AreMembers(ms, p), NEW i \in 1 .. Len(ms)
  PROVE  /\ KeptMembers(ms)[i].fixed = ms[i].fixed
         /\ KeptMembers(ms)[i].attributes = KeptOf(ms[i].attributes)
         /\ AreAttributes(ms[i].attributes, p)
         /\ IsText(p, ms[i].fixed[2]) /\ IsText(p, ms[i].fixed[3])
         /\ IsNative(ms[i]) => \A k \in DOMAIN ms[i].attributes :
                                   ms[i].attributes[k].kind # "Code"
  <1>1. /\ [fixed |-> ms[i].fixed, attributes |-> KeptOf(ms[i].attributes)] = KeptMembers(ms)[i]
        /\ AreAttributes(ms[i].attributes, p) /\ i \in DOMAIN ms
    BY MembersAre
  <1>2. KeptMembers(ms)[i].fixed = ms[i].fixed
        /\ KeptMembers(ms)[i].attributes = KeptOf(ms[i].attributes)
    <2> DEFINE x == KeptOf(ms[i].attributes)
               y == KeptMembers(ms)[i]
    <2>1. [fixed |-> ms[i].fixed, attributes |-> x] = y
      BY <1>1
    <2> HIDE DEF x, y
    <2>2. y.fixed = ms[i].fixed /\ y.attributes = x
      BY <2>1
    <2>3. QED
      BY <2>2 DEF x, y
  <1>3. /\ IsText(p, ms[i].fixed[2]) /\ IsText(p, ms[i].fixed[3])
        /\ IsNative(ms[i]) => \A k \in DOMAIN ms[i].attributes :
                                  ms[i].attributes[k].kind # "Code"
    BY <1>1 DEF AreMembers
  <1>4. QED
    BY <1>1, <1>2, <1>3

\* ClassMember says what the file says of the member.
LEMMA MemberSays ==
  ASSUME NEW f, pool = f.pool, NEW ms, AreMembers(ms, f.pool), NEW i \in 1 .. Len(ms)
  PROVE  SaysOf(f, ms[i], MemberOf(KeptMembers(ms)[i]))
  <1> DEFINE m == ms[i]
             k == KeptMembers(ms)[i]
             those == m.attributes
             ks == k.attributes
             r == MemberOf(k)
  <1>1. k.fixed = m.fixed /\ ks = KeptOf(those) /\ AreAttributes(those, f.pool)
    BY MemberKept
  <1>2. SameContents(those, ks) /\ OneOfEach(those) /\ Len(those) \in Nat
        /\ DOMAIN those = 1 .. Len(those)
    BY <1>1, KeptSame
  <1>3. Index(AssignAttribute(ks, "Signature")) = Number(those, "Signature")
    <2>1. "Signature" \notin Skipped
      BY DEF Skipped
    <2>2. QED
      BY <1>2, <2>1, Told
  <1>4. AssignAttribute(ks, "RuntimeVisibleAnnotations").bytes
            = Said(those, "RuntimeVisibleAnnotations").bytes
    <2>1. "RuntimeVisibleAnnotations" \notin Skipped
      BY DEF Skipped
    <2>2. QED
      BY <1>2, <2>1, Told DEF Tells
  <1>5. AssignAttribute(ks, "RuntimeVisibleTypeAnnotations").bytes
            = Said(those, "RuntimeVisibleTypeAnnotations").bytes
    <2>1. "RuntimeVisibleTypeAnnotations" \notin Skipped
      BY DEF Skipped
    <2>2. QED
      BY <1>2, <2>1, Told DEF Tells
  <1>6. /\ r.access = k.fixed[1] /\ r.name = Text(k.fixed[2]) /\ r.descriptor = Text(k.fixed[3])
        /\ r.signature = Index(AssignAttribute(ks, "Signature"))
        /\ r.annotations = AssignAttribute(ks, "RuntimeVisibleAnnotations").bytes
        /\ r.typeAnnotations = AssignAttribute(ks, "RuntimeVisibleTypeAnnotations").bytes
    <2> HIDE DEF k
    <2>1. QED
      BY DEF MemberOf
  <1>7. r.name = TextIn(f, m.fixed[2]) /\ r.descriptor = TextIn(f, m.fixed[3])
    BY <1>1, <1>6, TextSame
  <1> HIDE DEF r
  <1>8. SaysOf(f, m, r)
    BY <1>1, <1>3, <1>4, <1>5, <1>6, <1>7 DEF SaysOf
  <1>9. QED
    BY <1>8 DEF r

\* What a derived object has of its base.
SameBase(x, y) == /\ x.access = y.access /\ x.name = y.name /\ x.descriptor = y.descriptor
                  /\ x.signature = y.signature /\ x.annotations = y.annotations
                  /\ x.typeAnnotations = y.typeAnnotations

\* What a member says is said by what it has of its base.
LEMMA SaysOfBase ==
  ASSUME NEW f, NEW m, NEW x, NEW y, SameBase(x, y), SaysOf(f, m, y)
  PROVE  SaysOf(f, m, x)
  BY DEF SameBase, SaysOf

FieldNames == {"access", "name", "descriptor", "signature", "annotations", "typeAnnotations",
               "constant", "slot", "slotType"}

\* Field says what the file says of the field.
LEMMA FieldSays ==
  ASSUME NEW f, pool = f.pool, NEW ms, AreMembers(ms, f.pool), NEW i \in 1 .. Len(ms)
  PROVE  LET x == FieldOf(KeptMembers(ms)[i])
         IN /\ SaysOf(f, ms[i], x)
            /\ x.constant = Number(ms[i].attributes, "ConstantValue")
            /\ DOMAIN x = FieldNames
  <1> DEFINE m == ms[i]
             k == KeptMembers(ms)[i]
             those == m.attributes
             ks == k.attributes
             x == FieldOf(k)
  <1>1. ks = KeptOf(those) /\ AreAttributes(those, f.pool)
    BY MemberKept
  <1>2. SameContents(those, ks) /\ OneOfEach(those) /\ Len(those) \in Nat
        /\ DOMAIN those = 1 .. Len(those)
    BY <1>1, KeptSame
  <1>3. "ConstantValue" \notin Skipped
    BY DEF Skipped
  <1>4. Index(AssignAttribute(ks, "ConstantValue")) = Number(those, "ConstantValue")
    BY <1>2, <1>3, Told
  <1>5. SaysOf(f, m, MemberOf(k))
    BY MemberSays
  <1>6. /\ SameBase(x, MemberOf(k))
        /\ x.constant = Index(AssignAttribute(ks, "ConstantValue"))
        /\ DOMAIN x = FieldNames
    <2> HIDE DEF k
    <2>1. SameBase(x, MemberOf(k))
      BY DEF SameBase, FieldOf, MemberOf, Derived
    <2>2. x.constant = Index(AssignAttribute(ks, "ConstantValue"))
      BY DEF FieldOf, MemberOf, Derived
    <2>3. DOMAIN x = FieldNames
      BY DEF FieldOf, MemberOf, Derived, FieldNames
    <2>4. QED
      BY <2>1, <2>2, <2>3
  <1> HIDE DEF x
  <1>7. SaysOf(f, m, x)
    BY <1>5, <1>6, SaysOfBase
  <1>8. QED
    BY <1>4, <1>6, <1>7 DEF x

\* What the file says of the code of a method.
CodeSays(those, x) ==
    LET code == Said(those, "Code")
    IN /\ x.bytes = code.bytes /\ x.catches = code.rows
       /\ x.lines = Said(code.attributes, "LineNumberTable").rows

\* A method without Code has none.
LEMMA NoCodeSaid ==
  ASSUME NEW those, Said(those, "Code") = Attribute("Code", 0)
  PROVE  CodeSays(those, NoCode)
  <1> DEFINE none == Attribute("Code", 0).attributes
  <1>1. none = <<>> /\ Attribute("Code", 0).bytes = <<>> /\ Attribute("Code", 0).rows = <<>>
    BY DEF Attribute
  <1>2. Said(none, "LineNumberTable") = Attribute("LineNumberTable", 0)
    <2>1. DOMAIN none = {}
      BY <1>1
    <2> HIDE DEF none
    <2>2. QED
      BY <2>1 DEF Said
  <1>3. Attribute("LineNumberTable", 0).rows = <<>>
    BY DEF Attribute
  <1>4. NoCode.bytes = <<>> /\ NoCode.catches = <<>> /\ NoCode.lines = <<>>
    BY DEF NoCode
  <1>5. QED
    BY <1>1, <1>2, <1>3, <1>4 DEF CodeSays

\* initCode takes the code, its handlers and its own line numbers.
LEMMA MethodCode ==
  ASSUME NEW those, NEW p, AreAttributes(those, p), NEW m, m.attributes = KeptOf(those),
         Has(m.fixed[1], ACC_NATIVE) => \A k \in DOMAIN those : those[k].kind # "Code"
  PROVE  CodeSays(those, CodeOf(m))
  <1> DEFINE ks == KeptOf(those)
             n == Len(those)
  <1>1. SameContents(those, ks) /\ OneOfEach(those) /\ n \in Nat /\ DOMAIN those = 1 .. n
    BY KeptSame
  <1>2. CASE \A k \in 1 .. n : those[k].kind # "Code"
    <2>1. AssignAttribute(ks, "Code") = NullAttribute /\ Said(those, "Code") = Attribute("Code", 0)
      BY <1>1, <1>2, Missing
    <2>2. CodeOf(m) = NoCode
      BY <2>1 DEF CodeOf
    <2>3. QED
      BY <2>1, <2>2, NoCodeSaid
  <1>3. CASE \E k \in 1 .. n : those[k].kind = "Code"
    <2>1. PICK k \in 1 .. n : those[k].kind = "Code"
      BY <1>3
    <2> DEFINE a == those[k]
               c == ks[k]
               inside == [i \in DOMAIN a.attributes |-> KeptAlone(a.attributes[i])]
    <2>2. AssignAttribute(ks, "Code") = c /\ Said(those, "Code") = a
      BY <1>1, <2>1, Found
    <2>3. ~Has(m.fixed[1], ACC_NATIVE)
      BY <1>1, <2>1
    <2>4. a \in Attributes /\ IsAttribute(a, p) /\ OneOfEach(a.attributes)
      <3>1. those \in Seq(Attributes) /\ IsAttribute(a, p)
        BY AttributesAre
      <3>2. OneOfEach(a.attributes)
        BY <1>1 DEF AreAttributes
      <3>3. QED
        BY <3>1, <3>2, SeqHas, Zenon
    <2>5. c = Kept(a)
      BY <1>1 DEF KeptOf
    <2>6. "Code" \notin Skipped /\ "LineNumberTable" \notin Skipped
      BY DEF Skipped
    <2>7. c.kind = "Code" /\ c.rows = a.rows /\ c.bytes = a.bytes /\ c.attributes = inside
      BY <2>1, <2>4, <2>5, <2>6, KeptIs
    <2>8. c # NullAttribute
      BY <2>7 DEF NullAttribute, Attribute
    <2>9. AssignAttribute(inside, "LineNumberTable").rows
              = Said(a.attributes, "LineNumberTable").rows
      <3>1. SameContents(a.attributes, inside) /\ Len(a.attributes) \in Nat
            /\ DOMAIN a.attributes = 1 .. Len(a.attributes)
        BY <2>4, InsideSame
      <3>2. QED
        BY <2>4, <2>6, <3>1, Told DEF Tells
    <2>10. CodeOf(m) = [maxLocals |-> c.fixed[2], bytes |-> c.bytes, catches |-> c.rows,
                        lines |-> AssignAttribute(c.attributes, "LineNumberTable").rows]
      <3> HIDE DEF c
      <3>1. QED
        BY <2>2, <2>3, <2>8 DEF CodeOf
    <2> DEFINE x == CodeOf(m)
    <2>11. x.bytes = c.bytes /\ x.catches = c.rows
           /\ x.lines = AssignAttribute(c.attributes, "LineNumberTable").rows
      <3> HIDE DEF c
      <3>1. QED
        BY <2>10
    <2> HIDE DEF x, c, a, inside
    <2>12. CodeSays(those, x)
      BY <2>2, <2>7, <2>9, <2>11 DEF CodeSays
    <2>13. QED
      BY <2>12 DEF x
  <1>4. QED
    BY <1>2, <1>3

\* initExceptions takes the classes of the exceptions.
LEMMA MethodExceptions ==
  ASSUME NEW those, NEW p, AreAttributes(those, p), NEW m, m.attributes = KeptOf(those)
  PROVE  ExceptionsOf(m) = FlattenSeq(Said(those, "Exceptions").rows)
  <1> DEFINE ks == KeptOf(those)
             n == Len(those)
             rows == Said(those, "Exceptions").rows
  <1>1. SameContents(those, ks) /\ OneOfEach(those) /\ n \in Nat /\ DOMAIN those = 1 .. n
    BY KeptSame
  <1>2. AssignAttribute(ks, "Exceptions").rows = rows
    <2>1. "Exceptions" \notin Skipped
      BY DEF Skipped
    <2>2. QED
      BY <1>1, <2>1, Told DEF Tells
  <1>3. rows \in Seq(Seq(Nat)) /\ \A i \in 1 .. Len(rows) : Len(rows[i]) = 1
    <2>1. CASE \A k \in 1 .. n : those[k].kind # "Exceptions"
      <3>1. Said(those, "Exceptions") = Attribute("Exceptions", 0)
        BY <1>1, <2>1, Missing
      <3>2. rows = <<>>
        BY <3>1 DEF Attribute
      <3>3. <<>> \in Seq(Seq(Nat)) /\ Len(<<>>) = 0
        OBVIOUS
      <3> HIDE DEF rows
      <3>4. QED
        BY <3>2, <3>3
    <2>2. CASE \E k \in 1 .. n : those[k].kind = "Exceptions"
      <3>1. PICK k \in 1 .. n : those[k].kind = "Exceptions"
        BY <2>2
      <3> DEFINE a == those[k]
      <3>2. rows = a.rows
        BY <1>1, <3>1, Found
      <3>3. a \in Attributes /\ IsContent(a)
        <4>1. those \in Seq(Attributes) /\ IsAttribute(a, p)
          BY AttributesAre
        <4>2. QED
          BY <4>1 DEF IsAttribute
      <3>4. a.rows \in Seq(Seq(Nat))
        BY <3>3 DEF Attributes
      <3>5. DOMAIN a.rows = 1 .. Len(a.rows)
        BY <3>4, SeqHas, Zenon
      <3>6. HasColumns(a, 1)
        BY <3>1, <3>3 DEF IsContent, ColumnsOf
      <3>7. \A i \in 1 .. Len(a.rows) : Len(a.rows[i]) = 1
        BY <3>5, <3>6 DEF HasColumns
      <3>8. QED
        BY <3>2, <3>4, <3>7
    <2>3. QED
      BY <2>1, <2>2
  <1>4. ExceptionsOf(m) = [i \in DOMAIN rows |-> rows[i][1]]
    BY <1>2 DEF ExceptionsOf
  <1> HIDE DEF rows
  <1>5. FlattenSeq(rows) = [i \in DOMAIN rows |-> rows[i][1]]
    BY <1>3, FlattenOnes
  <1>6. QED
    BY <1>4, <1>5 DEF rows

MethodNames ==
    {"access", "name", "descriptor", "signature", "annotations", "typeAnnotations", "paramType",
     "returnType", "paramSlotType", "paramSlotSize", "slotType", "parameterAnnotations",
     "annotationDefault", "code", "exceptions", "slot"}

\* A Method has what a member has, and what its constructor adds.
LEMMA MethodHas ==
  ASSUME NEW m
  PROVE  LET x == MethodOf(m)
         IN /\ SameBase(x, MemberOf(m)) /\ DOMAIN x = MethodNames
            /\ x.code = CodeOf(m) /\ x.exceptions = ExceptionsOf(m)
            /\ x.parameterAnnotations
                   = AssignAttribute(m.attributes, "RuntimeVisibleParameterAnnotations").bytes
            /\ x.annotationDefault = AssignAttribute(m.attributes, "AnnotationDefault").bytes
            /\ x.paramType = ParseMethodDescriptor(x.descriptor).params
            /\ x.returnType = ParseMethodDescriptor(x.descriptor).returns
            /\ x.paramSlotSize = Len(ParamSlotTypes(x.access, x.paramType))
  <1> DEFINE x == MethodOf(m)
  <1>1. SameBase(x, MemberOf(m))
    BY DEF SameBase, MethodOf, MemberOf, Derived
  <1>2. DOMAIN x = MethodNames
    BY DEF MethodOf, MemberOf, Derived, MethodNames
  <1>3. x.code = CodeOf(m) /\ x.exceptions = ExceptionsOf(m)
    BY DEF MethodOf, MemberOf, Derived
  <1>4. /\ x.parameterAnnotations
               = AssignAttribute(m.attributes, "RuntimeVisibleParameterAnnotations").bytes
        /\ x.annotationDefault = AssignAttribute(m.attributes, "AnnotationDefault").bytes
    BY DEF MethodOf, MemberOf, Derived
  <1>5. /\ x.paramType = ParseMethodDescriptor(Text(m.fixed[3])).params
        /\ x.returnType = ParseMethodDescriptor(Text(m.fixed[3])).returns
        /\ x.paramSlotSize = Len(ParamSlotTypes(m.fixed[1], x.paramType))
    BY DEF MethodOf, MemberOf, Derived
  <1>6. x.access = m.fixed[1] /\ x.descriptor = Text(m.fixed[3])
    BY DEF MethodOf, MemberOf, Derived
  <1> HIDE DEF x
  <1>7. QED
    BY <1>1, <1>2, <1>3, <1>4, <1>5, <1>6 DEF x

\* Method says what the file says of the method.
LEMMA MethodSays ==
  ASSUME NEW f, pool = f.pool, NEW ms, AreMembers(ms, f.pool), NEW i \in 1 .. Len(ms)
  PROVE  SaysOfMethod(f, ms[i], MethodOf(KeptMembers(ms)[i]))
  <1> DEFINE m == ms[i]
             k == KeptMembers(ms)[i]
             those == m.attributes
             ks == k.attributes
             x == MethodOf(k)
  <1>1. /\ k.fixed = m.fixed /\ ks = KeptOf(those) /\ AreAttributes(those, f.pool)
        /\ IsNative(m) => \A j \in DOMAIN those : those[j].kind # "Code"
    BY MemberKept
  <1>2. SameContents(those, ks) /\ OneOfEach(those) /\ Len(those) \in Nat
        /\ DOMAIN those = 1 .. Len(those)
    BY <1>1, KeptSame
  <1>3. SaysOf(f, m, MemberOf(k))
    BY MemberSays
  <1>4. Has(k.fixed[1], ACC_NATIVE) => \A j \in DOMAIN those : those[j].kind # "Code"
    BY <1>1 DEF Has, IsNative, ACC_NATIVE
  <1>5. AssignAttribute(ks, "RuntimeVisibleParameterAnnotations").bytes
            = Said(those, "RuntimeVisibleParameterAnnotations").bytes
    <2>1. "RuntimeVisibleParameterAnnotations" \notin Skipped
      BY DEF Skipped
    <2>2. QED
      BY <1>2, <2>1, Told DEF Tells
  <1>6. AssignAttribute(ks, "AnnotationDefault").bytes = Said(those, "AnnotationDefault").bytes
    <2>1. "AnnotationDefault" \notin Skipped
      BY DEF Skipped
    <2>2. QED
      BY <1>2, <2>1, Told DEF Tells
  <1> HIDE DEF k
  <1>7. CodeSays(those, CodeOf(k)) /\ ExceptionsOf(k) = FlattenSeq(Said(those, "Exceptions").rows)
    BY <1>1, <1>4, MethodCode, MethodExceptions
  <1>8. /\ SameBase(x, MemberOf(k)) /\ x.code = CodeOf(k) /\ x.exceptions = ExceptionsOf(k)
        /\ x.parameterAnnotations
               = AssignAttribute(ks, "RuntimeVisibleParameterAnnotations").bytes
        /\ x.annotationDefault = AssignAttribute(ks, "AnnotationDefault").bytes
    BY MethodHas
  <1> HIDE DEF x
  <1>9. SaysOf(f, m, x)
    BY <1>3, <1>8, SaysOfBase
  <1>10. SaysOfMethod(f, m, x)
    BY <1>5, <1>6, <1>7, <1>8, <1>9 DEF SaysOfMethod, CodeSays
  <1>11. QED
    BY <1>10 DEF x, k

-----------------------------------------------------------------------------
(* What the constructors keep of the members, and what they look for *)

\* Sorting loses and adds nothing.
LEMMA SortedHas ==
  ASSUME NEW n \in Nat, NEW s, s = [i \in 1 .. n |-> s[i]], NEW t \in Sorted(s)
  PROVE  /\ DOMAIN t = 1 .. n /\ Len(t) = n
         /\ \A i \in 1 .. n : \E k \in 1 .. n : t[k] = s[i]
         /\ \A k \in 1 .. n : \E i \in 1 .. n : t[k] = s[i]
  <1> DEFINE K == {s[i] : i \in 1 .. n}
             D == 1 .. n
  <1>1. DOMAIN s = D /\ Len(s) = n
    <2>1. \A i \in 1 .. n : s[i] \in K
      OBVIOUS
    <2> HIDE DEF K
    <2>2. QED
      BY <2>1, SeqIs
  <1>2. CASE t = s
    BY <1>1, <1>2
  <1>3. CASE t # s
    <2>1. PICK p \in [D -> D] : /\ t = [i \in D |-> s[p[i]]]
                                /\ Cardinality({p[i] : i \in D}) = n
      BY <1>1, <1>3 DEF Sorted
    <2> DEFINE R == {p[i] : i \in D}
    <2>2. R = D
      <3>1. IsFiniteSet(D) /\ Cardinality(D) = n
        <4>1. 1 \in Int /\ n \in Int
          OBVIOUS
        <4>2. IsFiniteSet(1 .. n) /\ Cardinality(1 .. n) = IF 1 > n THEN 0 ELSE n - 1 + 1
          BY <4>1, FS_Interval, Zenon
        <4>3. QED
          BY <4>2
      <3>2. R \in SUBSET D
        BY <2>1
      <3>3. Cardinality(R) = n
        BY <2>1
      <3> HIDE DEF D, R
      <3>4. QED
        BY <3>1, <3>2, <3>3, FS_Subset
    <2>3. DOMAIN t = D /\ t = [i \in D |-> t[i]] /\ \A i \in D : t[i] \in K
      BY <2>1
    <2>4. Len(t) = n
      <3> HIDE DEF K
      <3>1. QED
        BY <2>3, SeqIs
    <2>5. \A i \in D : \E k \in D : t[k] = s[i]
      <3>1. ASSUME NEW i \in D PROVE \E k \in D : t[k] = s[i]
        <4>1. i \in R
          BY <2>2
        <4>2. PICK k \in D : p[k] = i
          BY <4>1
        <4>3. QED
          BY <2>1, <4>2
      <3>2. QED
        BY <3>1
    <2>6. \A k \in D : \E i \in D : t[k] = s[i]
      BY <2>1
    <2>7. QED
      BY <2>3, <2>4, <2>5, <2>6
  <1>4. QED
    BY <1>2, <1>3

\* A text is not null.
LEMMA NotNull ==
  ASSUME NEW text
  PROVE  Utf8(text) # NullConstant
  BY DEF Utf8, NullConstant, NoConstant

\* Nothing is null yet of the attributes the parser has read.
LEMMA SearchRuns ==
  ASSUME NEW those, NEW f, IsFile(f), AreAttributes(those, f.pool), pool = f.pool, NEW kind
  PROVE  CanSearch(KeptOf(those), kind)
  <1> DEFINE ks == KeptOf(those)
  <1>1. SameContents(those, ks)
    BY KeptSame
  <1>2. DOMAIN f.pool = 1 .. Len(f.pool) /\ Len(f.pool) \in Nat
    <2>1. f.pool \in Seq(Constants)
      BY DEF IsFile
    <2>2. QED
      BY <2>1, SeqHas, Zenon
  <1>3. ASSUME NEW i \in 1 .. Len(those)
        PROVE  ks[i] # NullAttribute /\ pool[ks[i].name] # NullConstant
    <2>1. ks[i].name = those[i].name
      BY <1>1 DEF SameContents
    <2>2. IsNamed(those[i], f.pool)
      BY AttributesAre DEF IsAttribute
    <2>3. pool[ks[i].name] # NullConstant
      BY <2>1, <2>2, NotNull DEF IsNamed
    <2>4. ks[i].name # 0
      BY <1>2, <2>1, <2>2 DEF IsNamed
    <2>5. NullAttribute.name = 0
      BY DEF NullAttribute, Attribute
    <2>6. QED
      BY <2>3, <2>4, <2>5
  <1>4. DOMAIN ks = 1 .. Len(those)
    BY <1>1 DEF SameContents
  <1> HIDE DEF ks
  <1>5. CanSearch(ks, kind)
    BY <1>3, <1>4 DEF CanSearch, Visited
  <1>6. QED
    BY <1>5 DEF ks

\* Nor is the constant at an index of a text.
LEMMA TextNotNull ==
  ASSUME NEW p, NEW i, IsText(p, i)
  PROVE  p[i] # NullConstant
  BY DEF IsText, NullConstant, NoConstant

\* The name of a class is where its constant says.
LEMMA ClassNamed ==
  ASSUME NEW f, IsFile(f), pool = f.pool, NEW i, i = 0 \/ IsClassName(f.pool, i)
  PROVE  CanName(i) /\ ClassName(i) = NameIn(f, i)
  <1>1. CASE i = 0
    BY <1>1 DEF CanName, ClassName, NameIn
  <1>2. CASE i # 0
    <2> DEFINE c == f.pool[i]
    <2>1. i \in DOMAIN f.pool /\ c.tag = 7 /\ IsText(f.pool, c.fixed[1])
      BY <1>2 DEF IsClassName
    <2>2. IsConstant(f.pool, i)
      BY <2>1 DEF IsFile
    <2>3. Len(c.fixed) = Len(Item(7))
      BY <2>1, <2>2 DEF IsConstant
    <2>4. Len(Item(7)) = 1
      BY DEF Item
    <2>5. c.fixed # <<>>
      <3>1. Len(<<>>) = 0
        OBVIOUS
      <3> HIDE DEF c
      <3>2. QED
        BY <2>3, <2>4, <3>1
    <2>6. Index(c) = c.fixed[1]
      BY <2>5 DEF Index
    <2>7. c # NullConstant
      BY <2>1 DEF NullConstant, NoConstant
    <2>8. f.pool[Index(c)] # NullConstant
      BY <2>1, <2>6, TextNotNull
    <2> HIDE DEF c
    <2>9. CanName(i)
      BY <2>7, <2>8 DEF CanName, c
    <2>10. Text(c.fixed[1]) = TextIn(f, c.fixed[1])
      BY TextSame
    <2>11. ClassName(i) = NameIn(f, i)
      BY <1>2, <2>6, <2>10 DEF ClassName, NameIn, c
    <2>12. QED
      BY <2>9, <2>11
  <1>3. QED
    BY <1>1, <1>2

\* No member's constructor dereferences null while nothing has been moved.
LEMMA MembersRun ==
  ASSUME NEW f, IsFile(f), pool = f.pool, NEW ms, AreMembers(ms, f.pool)
  PROVE  \A i \in DOMAIN KeptMembers(ms) : CanBuild(KeptMembers(ms)[i])
  <1> SUFFICES ASSUME NEW i \in DOMAIN KeptMembers(ms)
               PROVE  CanBuild(KeptMembers(ms)[i])
    OBVIOUS
  <1>1. i \in 1 .. Len(ms)
    BY MembersAre DEF KeptMembers
  <1> DEFINE k == KeptMembers(ms)[i]
  <1>2. /\ k.fixed = ms[i].fixed /\ k.attributes = KeptOf(ms[i].attributes)
        /\ AreAttributes(ms[i].attributes, f.pool)
        /\ IsText(f.pool, ms[i].fixed[2]) /\ IsText(f.pool, ms[i].fixed[3])
    BY <1>1, MemberKept
  <1>3. CanSearch(k.attributes, "none")
    BY <1>2, SearchRuns
  <1> HIDE DEF k
  <1>4. CanBuild(k)
    BY <1>2, <1>3, TextNotNull DEF CanBuild
  <1>5. QED
    BY <1>4 DEF k

\* The fields of a class say what the file says of its fields, in some order.
FieldsSay(f, fs) ==
    LET n == Len(f.fields)
    IN /\ n \in Nat /\ DOMAIN f.fields = 1 .. n /\ DOMAIN fs = 1 .. n /\ Len(fs) = n
       /\ \A i \in 1 .. n : \E k \in 1 .. n :
              /\ SaysOf(f, f.fields[i], fs[k])
              /\ fs[k].constant = Number(f.fields[i].attributes, "ConstantValue")
       /\ \A k \in 1 .. n : /\ DOMAIN fs[k] = FieldNames
                            /\ \E i \in 1 .. n : SaysOf(f, f.fields[i], fs[k])

\* The fields of a class, however sorted, say what the file says.
LEMMA FieldsBuilt ==
  ASSUME NEW f, pool = f.pool, AreMembers(f.fields, f.pool), cf.fields = KeptMembers(f.fields),
         NEW fs \in Sorted([i \in DOMAIN cf.fields |-> FieldOf(cf.fields[i])])
  PROVE  FieldsSay(f, fs)
  <1> DEFINE n == Len(f.fields)
             s == [i \in DOMAIN cf.fields |-> FieldOf(cf.fields[i])]
  <1>1. n \in Nat /\ DOMAIN f.fields = 1 .. n
    BY MembersAre
  <1>2. DOMAIN cf.fields = 1 .. n
    BY <1>1 DEF KeptMembers
  <1>3. s = [i \in 1 .. n |-> s[i]]
    BY <1>2
  <1>4. ASSUME NEW i \in 1 .. n
        PROVE  /\ SaysOf(f, f.fields[i], s[i]) /\ DOMAIN s[i] = FieldNames
               /\ s[i].constant = Number(f.fields[i].attributes, "ConstantValue")
    <2>1. s[i] = FieldOf(KeptMembers(f.fields)[i])
      BY <1>2
    <2> HIDE DEF s
    <2>2. QED
      BY <2>1, FieldSays
  <1> HIDE DEF s, n
  <1>5. fs \in Sorted(s)
    BY DEF s
  <1>6. /\ DOMAIN fs = 1 .. n /\ Len(fs) = n
        /\ \A i \in 1 .. n : \E k \in 1 .. n : fs[k] = s[i]
        /\ \A k \in 1 .. n : \E i \in 1 .. n : fs[k] = s[i]
    BY <1>1, <1>3, <1>5, SortedHas, Zenon
  <1>7. \A i \in 1 .. n : \E k \in 1 .. n :
            /\ SaysOf(f, f.fields[i], fs[k])
            /\ fs[k].constant = Number(f.fields[i].attributes, "ConstantValue")
    <2>1. ASSUME NEW i \in 1 .. n
          PROVE  \E k \in 1 .. n : /\ SaysOf(f, f.fields[i], fs[k])
                                   /\ fs[k].constant = Number(f.fields[i].attributes, "ConstantValue")
      <3>1. PICK k \in 1 .. n : fs[k] = s[i]
        BY <1>6
      <3>2. QED
        BY <1>4, <3>1
    <2>2. QED
      BY <2>1
  <1>8. \A k \in 1 .. n : /\ DOMAIN fs[k] = FieldNames
                          /\ \E i \in 1 .. n : SaysOf(f, f.fields[i], fs[k])
    <2>1. ASSUME NEW k \in 1 .. n
          PROVE  DOMAIN fs[k] = FieldNames /\ \E i \in 1 .. n : SaysOf(f, f.fields[i], fs[k])
      <3>1. PICK i \in 1 .. n : fs[k] = s[i]
        BY <1>6
      <3>2. QED
        BY <1>4, <3>1
    <2>2. QED
      BY <2>1
  <1>9. QED
    BY <1>1, <1>6, <1>7, <1>8 DEF FieldsSay, n

\* The methods likewise; a method's place is its slot, and its types are those
\* of its descriptor.
TypedBy(x) ==
    /\ x.paramType = ParseMethodDescriptor(x.descriptor).params
    /\ x.returnType = ParseMethodDescriptor(x.descriptor).returns
    /\ x.paramSlotSize = Len(ParamSlotTypes(x.access, x.paramType))
MethodsSay(f, ms) ==
    LET n == Len(f.methods)
    IN /\ n \in Nat /\ DOMAIN f.methods = 1 .. n /\ DOMAIN ms = 1 .. n /\ Len(ms) = n
       /\ \A i \in 1 .. n : \E k \in 1 .. n : SaysOfMethod(f, f.methods[i], ms[k])
       /\ \A k \in 1 .. n : /\ ms[k].slot = k - 1 /\ TypedBy(ms[k])
                            /\ \E i \in 1 .. n : SaysOfMethod(f, f.methods[i], ms[k])

\* A method says the same after it has got its slot.
LEMMA SlotSays ==
  ASSUME NEW f, NEW m, NEW x, DOMAIN x = MethodNames, SaysOfMethod(f, m, x), TypedBy(x),
         NEW slot, NEW y, y = [x EXCEPT !.slot = slot]
  PROVE  SaysOfMethod(f, m, y) /\ TypedBy(y) /\ y.slot = slot
  <1>1. /\ SameBase(y, x) /\ y.code = x.code /\ y.exceptions = x.exceptions
        /\ y.annotationDefault = x.annotationDefault
        /\ y.parameterAnnotations = x.parameterAnnotations /\ y.slot = slot
    BY DEF MethodNames, SameBase
  <1>2. SaysOf(f, m, y)
    BY <1>1, SaysOfBase DEF SaysOfMethod
  <1>3. SaysOfMethod(f, m, y)
    BY <1>1, <1>2 DEF SaysOfMethod
  <1>4. TypedBy(y)
    <2>1. /\ y.descriptor = x.descriptor /\ y.access = x.access /\ y.paramType = x.paramType
          /\ y.returnType = x.returnType /\ y.paramSlotSize = x.paramSlotSize
      BY DEF MethodNames
    <2>2. QED
      BY <2>1, Zenon DEF TypedBy
  <1>5. QED
    BY <1>1, <1>3, <1>4

\* The methods likewise.
LEMMA MethodsBuilt ==
  ASSUME NEW f, pool = f.pool, AreMembers(f.methods, f.pool), cf.methods = KeptMembers(f.methods),
         NEW ms \in Sorted([i \in DOMAIN cf.methods |-> MethodOf(cf.methods[i])])
  PROVE  MethodsSay(f, Numbered(ms))
  <1> DEFINE n == Len(f.methods)
             s == [i \in DOMAIN cf.methods |-> MethodOf(cf.methods[i])]
             y == Numbered(ms)
             K == {y[k] : k \in 1 .. n}
  <1>1. n \in Nat /\ DOMAIN f.methods = 1 .. n
    BY MembersAre
  <1>2. DOMAIN cf.methods = 1 .. n
    BY <1>1 DEF KeptMembers
  <1>3. s = [i \in 1 .. n |-> s[i]]
    BY <1>2
  <1>4. ASSUME NEW i \in 1 .. n
        PROVE  SaysOfMethod(f, f.methods[i], s[i]) /\ DOMAIN s[i] = MethodNames /\ TypedBy(s[i])
    <2>1. s[i] = MethodOf(KeptMembers(f.methods)[i])
      BY <1>2
    <2> HIDE DEF s
    <2>2. TypedBy(s[i])
      BY <2>1, MethodHas, Zenon DEF TypedBy
    <2>3. QED
      BY <2>1, <2>2, MethodSays, MethodHas
  <1> HIDE DEF s, n
  <1>5. ms \in Sorted(s)
    BY DEF s
  <1>6. /\ DOMAIN ms = 1 .. n /\ Len(ms) = n
        /\ \A i \in 1 .. n : \E k \in 1 .. n : ms[k] = s[i]
        /\ \A k \in 1 .. n : \E i \in 1 .. n : ms[k] = s[i]
    BY <1>1, <1>3, <1>5, SortedHas, Zenon
  <1>7. /\ y = [k \in 1 .. n |-> y[k]] /\ DOMAIN y = 1 .. n
        /\ \A k \in 1 .. n : y[k] = [ms[k] EXCEPT !.slot = k - 1] /\ y[k] \in K
    BY <1>6 DEF Numbered
  <1> HIDE DEF y, K
  <1>8. Len(y) = n
    BY <1>1, <1>7, SeqIs
  <1>9. ASSUME NEW k \in 1 .. n, NEW m, SaysOfMethod(f, m, ms[k])
        PROVE  SaysOfMethod(f, m, y[k]) /\ y[k].slot = k - 1 /\ TypedBy(y[k])
    <2>1. PICK i \in 1 .. n : ms[k] = s[i]
      BY <1>6
    <2> DEFINE x == ms[k]
               slot == k - 1
               z == y[k]
    <2>2. z = [x EXCEPT !.slot = slot]
      BY <1>7
    <2>3. DOMAIN x = MethodNames /\ SaysOfMethod(f, m, x) /\ TypedBy(x)
      BY <1>4, <1>9, <2>1
    <2> HIDE DEF x, z, slot
    <2>4. SaysOfMethod(f, m, z) /\ TypedBy(z) /\ z.slot = slot
      BY <2>2, <2>3, SlotSays
    <2>5. QED
      BY <2>4 DEF z, slot
  <1>10. ASSUME NEW k \in 1 .. n
         PROVE  /\ y[k].slot = k - 1 /\ TypedBy(y[k])
                /\ \E i \in 1 .. n : SaysOfMethod(f, f.methods[i], y[k])
    <2>1. PICK i \in 1 .. n : ms[k] = s[i]
      BY <1>6
    <2>2. QED
      BY <1>4, <1>9, <2>1
  <1>11. \A i \in 1 .. n : \E k \in 1 .. n : SaysOfMethod(f, f.methods[i], y[k])
    <2>1. ASSUME NEW i \in 1 .. n
          PROVE  \E k \in 1 .. n : SaysOfMethod(f, f.methods[i], y[k])
      <3>1. PICK k \in 1 .. n : ms[k] = s[i]
        BY <1>6
      <3>2. QED
        BY <1>4, <1>9, <3>1
    <2>2. QED
      BY <2>1
  <1>12. QED
    BY <1>1, <1>7, <1>8, <1>10, <1>11 DEF MethodsSay, n, y

-----------------------------------------------------------------------------
(* The constructors step by step: what is moved, and what is left *)

ClassNames ==
    {"name", "access", "sourceFile", "signature", "bootstrapMethods", "enclosingMethod",
     "innerClasses", "annotations", "typeAnnotations", "fields", "methods", "overrideFinalize",
     "interfaces", "superClass", "pool", "instanceSlotCount", "staticSlotCount",
     "instanceDataType", "staticDataType"}
FileNames == {"access", "this", "super", "interfaces", "fields", "methods", "attributes"}

NameSays(f, k) == /\ k.name = NameIn(f, f.this)
                  /\ k.sourceFile = TextIn(f, Number(f.attributes, "SourceFile"))
AttributesSay(f, k) ==
    /\ k.signature = Number(f.attributes, "Signature")
    /\ k.bootstrapMethods = Said(f.attributes, "BootstrapMethods").rows
    /\ k.enclosingMethod = Said(f.attributes, "EnclosingMethod").fixed
    /\ k.innerClasses = Said(f.attributes, "InnerClasses").rows
    /\ k.annotations = Said(f.attributes, "RuntimeVisibleAnnotations").bytes

\* An interface has no superclass.
SuperSays(f, k) == k.superClass \in {<<>>, NameIn(f, f.super)}

\* What has been moved to the class is what the file says, and what later
\* steps are going to look at has not been moved yet.
Moved(f) ==
    /\ phase \in {"attributesStep", "fieldsStep", "methodsStep", "supersStep", "poolStep",
                  "slotsStep", "built"} => DOMAIN klass = ClassNames /\ NameSays(f, klass)
    /\ phase \in {"fieldsStep", "methodsStep", "supersStep", "poolStep", "slotsStep", "built"}
           => AttributesSay(f, klass)
    /\ phase \in {"methodsStep", "supersStep", "poolStep", "slotsStep", "built"}
           => FieldsSay(f, klass.fields)
    /\ phase \in {"supersStep", "poolStep", "slotsStep", "built"}
           => MethodsSay(f, klass.methods)
    /\ phase \in {"poolStep", "slotsStep", "built"} => SuperSays(f, klass)
    /\ phase \in {"slotsStep", "built"} => klass.pool = f.pool
NotMoved(f) ==
    /\ phase \in {"attributesStep", "fieldsStep", "methodsStep", "supersStep", "poolStep"}
           => pool = f.pool
    /\ phase \in {"attributesStep", "fieldsStep", "methodsStep", "supersStep"}
           => DOMAIN cf = FileNames /\ cf.super = f.super /\ cf.interfaces = f.interfaces
    /\ phase \in {"attributesStep", "fieldsStep", "methodsStep"}
           => cf.methods = KeptMembers(f.methods)
    /\ phase \in {"attributesStep", "fieldsStep"} => cf.fields = KeptMembers(f.fields)
    /\ phase = "attributesStep" => cf.attributes = KeptOf(f.attributes)
Building(f) == phase # "crashed" /\ Moved(f) /\ NotMoved(f)

\* A constructor's step that can run, runs.
LEMMA StepRuns ==
  ASSUME NEW step, NEW k, NEW file, NEW entries, StepTo(step, TRUE, k, file, entries)
  PROVE  klass' = k /\ cf' = file /\ pool' = entries /\ phase' = After(step)
  BY DEF StepTo

\* The names of what a class has.
LEMMA NamesAre == DOMAIN EmptyClass = ClassNames
  BY DEF EmptyClass, ClassNames

\* What the parser has read, one by one.
LEMMA ReadNames ==
  ASSUME NEW f, NEW is, NEW fs, NEW ms, NEW those
  PROVE  LET r == ReadOf(f, is, fs, ms, those)
         IN /\ DOMAIN r = FileNames /\ r.this = f.this /\ r.super = f.super /\ r.interfaces = is
            /\ r.fields = fs /\ r.methods = ms /\ r.attributes = those
  BY DEF ReadOf, FileNames

\* The first step finds the name, the access and the source file.
LEMMA BeginClassStep ==
  ASSUME NEW f, IsFile(f), AtEnd(f), BeginClass
  PROVE  Building(f)'
  <1> DEFINE those == f.attributes
             text == Text(Index(AssignAttribute(cf.attributes, "SourceFile")))
             name == ClassName(cf.this)
             k == [EmptyClass EXCEPT !.name = name, !.access = cf.access, !.sourceFile = text]
  <1>1. /\ pool = f.pool /\ phase = "parsed"
        /\ cf = ReadOf(f, f.interfaces, KeptMembers(f.fields), KeptMembers(f.methods), KeptOf(those))
    BY DEF AtEnd
  <1>2. /\ DOMAIN cf = FileNames /\ cf.this = f.this /\ cf.super = f.super
        /\ cf.interfaces = f.interfaces /\ cf.fields = KeptMembers(f.fields)
        /\ cf.methods = KeptMembers(f.methods) /\ cf.attributes = KeptOf(those)
    BY <1>1, ReadNames
  <1>3. AreAttributes(those, f.pool) /\ IsClassName(f.pool, f.this)
    BY DEF IsFile
  <1>4. CanSearch(cf.attributes, "SourceFile")
    BY <1>1, <1>2, <1>3, SearchRuns
  <1>5. CanName(cf.this) /\ name = NameIn(f, f.this)
    BY <1>1, <1>2, <1>3, ClassNamed
  <1>6. text = TextIn(f, Number(those, "SourceFile"))
    <2>1. "SourceFile" \notin Skipped
      BY DEF Skipped
    <2>2. SameContents(those, KeptOf(those)) /\ OneOfEach(those) /\ Len(those) \in Nat
          /\ DOMAIN those = 1 .. Len(those)
      BY <1>3, KeptSame
    <2>3. Index(AssignAttribute(KeptOf(those), "SourceFile")) = Number(those, "SourceFile")
      BY <2>1, <2>2, Told
    <2>4. QED
      BY <1>1, <1>2, <2>3, TextSame
  <1>7. klass' = k /\ cf' = cf /\ pool' = pool /\ phase' = After("parsed")
    BY <1>4, <1>5, StepRuns DEF BeginClass
  <1>8. DOMAIN k = ClassNames /\ k.name = name /\ k.sourceFile = text
    <2> DEFINE e == EmptyClass
    <2>1. DOMAIN e = ClassNames
      BY NamesAre
    <2>2. k = [e EXCEPT !.name = name, !.access = cf.access, !.sourceFile = text]
      OBVIOUS
    <2> HIDE DEF e, k, name, text
    <2>3. QED
      BY <2>1, <2>2 DEF ClassNames
  <1>9. phase' = "attributesStep"
    BY <1>7, AfterIs
  <1> HIDE DEF k, name, text
  <1>10. DOMAIN klass' = ClassNames /\ NameSays(f, klass')
    BY <1>5, <1>6, <1>7, <1>8 DEF NameSays
  <1>11. Moved(f)'
    BY <1>9, <1>10 DEF Moved
  <1>12. NotMoved(f)'
    BY <1>1, <1>2, <1>7, <1>9 DEF NotMoved
  <1>13. QED
    BY <1>9, <1>11, <1>12 DEF Building

\* initAttributes moves the attributes of the class, once the source file is
\* known.
LEMMA InitAttributesStep ==
  ASSUME NEW f, IsFile(f), Building(f), InitAttributes
  PROVE  Building(f)'
  <1> DEFINE those == f.attributes
             last(kind) == LastAttribute(cf.attributes, kind)
             boot == last("BootstrapMethods").rows
             enclosing == last("EnclosingMethod").fixed
             inner == last("InnerClasses").rows
             visible == last("RuntimeVisibleAnnotations").bytes
             types == last("RuntimeVisibleTypeAnnotations").bytes
             signature == Index(last("Signature"))
             k == [klass EXCEPT !.bootstrapMethods = boot, !.enclosingMethod = enclosing,
                       !.innerClasses = inner, !.annotations = visible,
                       !.typeAnnotations = types, !.signature = signature]
             empty == WithoutMoved(cf.attributes)
             file == [cf EXCEPT !.attributes = empty]
  <1>1. phase = "attributesStep"
    BY DEF InitAttributes
  <1>2. /\ pool = f.pool /\ DOMAIN cf = FileNames /\ cf.super = f.super
        /\ cf.interfaces = f.interfaces /\ cf.methods = KeptMembers(f.methods)
        /\ cf.fields = KeptMembers(f.fields) /\ cf.attributes = KeptOf(those)
        /\ DOMAIN klass = ClassNames /\ NameSays(f, klass)
    BY <1>1 DEF Building, Moved, NotMoved
  <1>3. AreAttributes(those, f.pool)
    BY DEF IsFile
  <1>4. CanSearch(cf.attributes, "none")
    BY <1>2, <1>3, SearchRuns
  <1>5. klass' = k /\ cf' = file /\ pool' = pool /\ phase' = After("attributesStep")
    BY <1>4, StepRuns DEF InitAttributes
  <1>6. phase' = "fieldsStep"
    BY <1>5, AfterIs
  <1>7. /\ boot = Said(those, "BootstrapMethods").rows
        /\ enclosing = Said(those, "EnclosingMethod").fixed
        /\ inner = Said(those, "InnerClasses").rows
        /\ visible = Said(those, "RuntimeVisibleAnnotations").bytes
        /\ signature = Number(those, "Signature")
    <2>1. /\ "BootstrapMethods" \notin Skipped /\ "EnclosingMethod" \notin Skipped
          /\ "InnerClasses" \notin Skipped /\ "RuntimeVisibleAnnotations" \notin Skipped
          /\ "Signature" \notin Skipped
      BY DEF Skipped
    <2> DEFINE ks == KeptOf(those)
    <2>2. SameContents(those, ks) /\ OneOfEach(those) /\ Len(those) \in Nat
          /\ DOMAIN those = 1 .. Len(those)
      BY <1>3, KeptSame
    <2> HIDE DEF ks
    <2>3. \A kind : kind \notin Skipped =>
              /\ LastAttribute(ks, kind).fixed = Said(those, kind).fixed
              /\ LastAttribute(ks, kind).rows = Said(those, kind).rows
              /\ LastAttribute(ks, kind).bytes = Said(those, kind).bytes
              /\ Index(LastAttribute(ks, kind)) = Number(those, kind)
      BY <2>2, Told DEF Tells
    <2>4. QED
      BY <1>2, <2>1, <2>3 DEF ks
  <1> HIDE DEF boot, enclosing, inner, visible, types, signature, empty, last
  <1>8. /\ DOMAIN k = ClassNames /\ k.name = klass.name /\ k.sourceFile = klass.sourceFile
        /\ k.bootstrapMethods = boot /\ k.enclosingMethod = enclosing /\ k.innerClasses = inner
        /\ k.annotations = visible /\ k.signature = signature
    BY <1>2 DEF ClassNames
  <1>9. /\ DOMAIN file = FileNames /\ file.super = cf.super /\ file.interfaces = cf.interfaces
        /\ file.methods = cf.methods /\ file.fields = cf.fields
    BY <1>2 DEF FileNames
  <1> HIDE DEF k, file
  <1>10. DOMAIN klass' = ClassNames /\ NameSays(f, klass') /\ AttributesSay(f, klass')
    BY <1>2, <1>5, <1>7, <1>8 DEF NameSays, AttributesSay
  <1>11. Moved(f)'
    BY <1>6, <1>10 DEF Moved
  <1>12. NotMoved(f)'
    BY <1>2, <1>5, <1>6, <1>9 DEF NotMoved
  <1>13. QED
    BY <1>6, <1>11, <1>12 DEF Building

\* initFields builds the fields while the pool and their attributes are there.
LEMMA InitFieldsStep ==
  ASSUME NEW f, IsFile(f), Building(f), InitFields
  PROVE  Building(f)'
  <1>1. phase = "fieldsStep"
    BY DEF InitFields
  <1>2. /\ pool = f.pool /\ DOMAIN cf = FileNames /\ cf.super = f.super
        /\ cf.interfaces = f.interfaces /\ cf.methods = KeptMembers(f.methods)
        /\ cf.fields = KeptMembers(f.fields)
        /\ DOMAIN klass = ClassNames /\ NameSays(f, klass) /\ AttributesSay(f, klass)
    BY <1>1 DEF Building, Moved, NotMoved
  <1>3. AreMembers(f.fields, f.pool)
    BY DEF IsFile
  <1>4. \A i \in DOMAIN cf.fields : CanBuild(cf.fields[i])
    BY <1>2, <1>3, MembersRun
  <1> DEFINE drained == Drained(cf.fields)
             file == [cf EXCEPT !.fields = drained]
  <1>5. PICK fs \in Sorted([i \in DOMAIN cf.fields |-> FieldOf(cf.fields[i])]) :
            StepTo("fieldsStep", \A i \in DOMAIN cf.fields : CanBuild(cf.fields[i]),
                   [klass EXCEPT !.fields = fs], file, pool)
    BY DEF InitFields
  <1> DEFINE k == [klass EXCEPT !.fields = fs]
  <1>6. klass' = k /\ cf' = file /\ pool' = pool /\ phase' = After("fieldsStep")
    BY <1>4, <1>5, StepRuns
  <1>7. phase' = "methodsStep"
    BY <1>6, AfterIs
  <1>8. FieldsSay(f, fs)
    BY <1>2, <1>3, FieldsBuilt
  <1> HIDE DEF drained
  <1>9. /\ DOMAIN k = ClassNames /\ k.fields = fs /\ k.name = klass.name
        /\ k.sourceFile = klass.sourceFile /\ k.signature = klass.signature
        /\ k.bootstrapMethods = klass.bootstrapMethods /\ k.innerClasses = klass.innerClasses
        /\ k.enclosingMethod = klass.enclosingMethod /\ k.annotations = klass.annotations
    BY <1>2 DEF ClassNames
  <1>10. /\ DOMAIN file = FileNames /\ file.super = cf.super /\ file.interfaces = cf.interfaces
         /\ file.methods = cf.methods
    BY <1>2 DEF FileNames
  <1> HIDE DEF k, file
  <1>11. /\ DOMAIN klass' = ClassNames /\ NameSays(f, klass') /\ AttributesSay(f, klass')
         /\ FieldsSay(f, klass'.fields)
    BY <1>2, <1>6, <1>8, <1>9 DEF NameSays, AttributesSay
  <1>12. Moved(f)'
    BY <1>7, <1>11 DEF Moved
  <1>13. NotMoved(f)'
    BY <1>2, <1>6, <1>7, <1>10 DEF NotMoved
  <1>14. QED
    BY <1>7, <1>12, <1>13 DEF Building

\* initMethods builds the methods while the pool and their attributes are
\* there.
LEMMA InitMethodsStep ==
  ASSUME NEW f, IsFile(f), Building(f), InitMethods
  PROVE  Building(f)'
  <1>1. phase = "methodsStep"
    BY DEF InitMethods
  <1>2. /\ pool = f.pool /\ DOMAIN cf = FileNames /\ cf.super = f.super
        /\ cf.interfaces = f.interfaces /\ cf.methods = KeptMembers(f.methods)
        /\ DOMAIN klass = ClassNames /\ NameSays(f, klass) /\ AttributesSay(f, klass)
        /\ FieldsSay(f, klass.fields)
    BY <1>1 DEF Building, Moved, NotMoved
  <1>3. AreMembers(f.methods, f.pool)
    BY DEF IsFile
  <1>4. \A i \in DOMAIN cf.methods : CanBuild(cf.methods[i])
    BY <1>2, <1>3, MembersRun
  <1> DEFINE drained == Drained(cf.methods)
             file == [cf EXCEPT !.methods = drained]
             overrides(ms) == /\ klass.name # JAVA_LANG_OBJECT_NAME
                              /\ \E i \in DOMAIN ms : IsFinalize(ms[i])
  <1>5. PICK ms \in Sorted([i \in DOMAIN cf.methods |-> MethodOf(cf.methods[i])]) :
            StepTo("methodsStep", \A i \in DOMAIN cf.methods : CanBuild(cf.methods[i]),
                   [klass EXCEPT !.methods = Numbered(ms), !.overrideFinalize = overrides(ms)],
                   file, pool)
    BY Zenon DEF InitMethods
  <1> DEFINE numbered == Numbered(ms)
             finalize == overrides(ms)
             k == [klass EXCEPT !.methods = numbered, !.overrideFinalize = finalize]
  <1>6. klass' = k /\ cf' = file /\ pool' = pool /\ phase' = After("methodsStep")
    BY <1>4, <1>5, StepRuns
  <1>7. phase' = "supersStep"
    BY <1>6, AfterIs
  <1>8. MethodsSay(f, numbered)
    BY <1>2, <1>3, MethodsBuilt
  <1> HIDE DEF drained, numbered, finalize
  <1>9. /\ DOMAIN k = ClassNames /\ k.methods = numbered /\ k.fields = klass.fields
        /\ k.name = klass.name
        /\ k.sourceFile = klass.sourceFile /\ k.signature = klass.signature
        /\ k.bootstrapMethods = klass.bootstrapMethods /\ k.innerClasses = klass.innerClasses
        /\ k.enclosingMethod = klass.enclosingMethod /\ k.annotations = klass.annotations
    BY <1>2 DEF ClassNames
  <1>10. DOMAIN file = FileNames /\ file.super = cf.super /\ file.interfaces = cf.interfaces
    BY <1>2 DEF FileNames
  <1> HIDE DEF k, file
  <1>11. /\ DOMAIN klass' = ClassNames /\ NameSays(f, klass') /\ AttributesSay(f, klass')
         /\ FieldsSay(f, klass'.fields) /\ MethodsSay(f, klass'.methods)
    BY <1>2, <1>6, <1>8, <1>9 DEF NameSays, AttributesSay
  <1>12. Moved(f)'
    BY <1>7, <1>11 DEF Moved
  <1>13. NotMoved(f)'
    BY <1>2, <1>6, <1>7, <1>10 DEF NotMoved
  <1>14. QED
    BY <1>7, <1>12, <1>13 DEF Building

\* The names of superclass and interfaces are read while the pool is there.
LEMMA InitSupersStep ==
  ASSUME NEW f, IsFile(f), Building(f), InitInterfaceAndSuperClass
  PROVE  Building(f)'
  <1>1. phase = "supersStep"
    BY DEF InitInterfaceAndSuperClass
  <1>2. /\ pool = f.pool /\ DOMAIN cf = FileNames /\ cf.super = f.super
        /\ cf.interfaces = f.interfaces
        /\ DOMAIN klass = ClassNames /\ NameSays(f, klass) /\ AttributesSay(f, klass)
        /\ FieldsSay(f, klass.fields) /\ MethodsSay(f, klass.methods)
    BY <1>1 DEF Building, Moved, NotMoved
  <1>3. CanName(cf.super) /\ \A i \in DOMAIN cf.interfaces : CanName(cf.interfaces[i])
    <2>1. f.super = 0 \/ IsClassName(f.pool, f.super)
      BY DEF IsFile
    <2>2. \A i \in DOMAIN f.interfaces : IsClassName(f.pool, f.interfaces[i])
      BY DEF IsFile
    <2>3. QED
      BY <1>2, <2>1, <2>2, ClassNamed
  <1> DEFINE is == [i \in DOMAIN cf.interfaces |-> ClassName(cf.interfaces[i])]
             super == IF Has(klass.access, ACC_INTERFACE) THEN <<>> ELSE ClassName(cf.super)
             k == [klass EXCEPT !.interfaces = is, !.superClass = super]
  <1>4. klass' = k /\ cf' = cf /\ pool' = pool /\ phase' = After("supersStep")
    BY <1>3 DEF InitInterfaceAndSuperClass, StepTo
  <1>5. phase' = "poolStep"
    BY <1>4, AfterIs
  <1>11. super \in {<<>>, NameIn(f, f.super)}
    <2>1. f.super = 0 \/ IsClassName(f.pool, f.super)
      BY DEF IsFile
    <2>2. ClassName(f.super) = NameIn(f, f.super)
      BY <1>2, <2>1, ClassNamed
    <2>3. QED
      BY <1>2, <2>2
  <1> HIDE DEF is, super
  <1>6. /\ DOMAIN k = ClassNames /\ k.methods = klass.methods /\ k.fields = klass.fields
        /\ k.name = klass.name /\ k.superClass = super
        /\ k.sourceFile = klass.sourceFile /\ k.signature = klass.signature
        /\ k.bootstrapMethods = klass.bootstrapMethods /\ k.innerClasses = klass.innerClasses
        /\ k.enclosingMethod = klass.enclosingMethod /\ k.annotations = klass.annotations
    BY <1>2 DEF ClassNames
  <1> HIDE DEF k
  <1>7. /\ DOMAIN klass' = ClassNames /\ NameSays(f, klass') /\ AttributesSay(f, klass')
        /\ FieldsSay(f, klass'.fields) /\ MethodsSay(f, klass'.methods) /\ SuperSays(f, klass')
    BY <1>2, <1>4, <1>6, <1>11 DEF NameSays, AttributesSay, SuperSays
  <1>8. Moved(f)'
    BY <1>5, <1>7 DEF Moved
  <1>9. NotMoved(f)'
    BY <1>2, <1>4, <1>5 DEF NotMoved
  <1>10. QED
    BY <1>5, <1>8, <1>9 DEF Building

\* moveConstantPool comes when only the slots are left to do.
LEMMA MovePoolStep ==
  ASSUME NEW f, Building(f), MoveConstantPool
  PROVE  Building(f)'
  <1>1. phase = "poolStep"
    BY DEF MoveConstantPool
  <1>2. /\ pool = f.pool
        /\ DOMAIN klass = ClassNames /\ NameSays(f, klass) /\ AttributesSay(f, klass)
        /\ FieldsSay(f, klass.fields) /\ MethodsSay(f, klass.methods) /\ SuperSays(f, klass)
    BY <1>1 DEF Building, Moved, NotMoved
  <1> DEFINE k == [klass EXCEPT !.pool = pool]
  <1>3. klass' = k /\ phase' = After("poolStep")
    BY StepRuns DEF MoveConstantPool
  <1>4. phase' = "slotsStep"
    BY <1>3, AfterIs
  <1>5. /\ DOMAIN k = ClassNames /\ k.methods = klass.methods /\ k.fields = klass.fields
        /\ k.name = klass.name /\ k.superClass = klass.superClass /\ k.pool = pool
        /\ k.sourceFile = klass.sourceFile /\ k.signature = klass.signature
        /\ k.bootstrapMethods = klass.bootstrapMethods /\ k.innerClasses = klass.innerClasses
        /\ k.enclosingMethod = klass.enclosingMethod /\ k.annotations = klass.annotations
    BY <1>2 DEF ClassNames
  <1> HIDE DEF k
  <1>6. /\ DOMAIN klass' = ClassNames /\ NameSays(f, klass') /\ AttributesSay(f, klass')
        /\ FieldsSay(f, klass'.fields) /\ MethodsSay(f, klass'.methods) /\ klass'.pool = f.pool
        /\ SuperSays(f, klass')
    BY <1>2, <1>3, <1>5 DEF NameSays, AttributesSay, SuperSays
  <1>7. Moved(f)'
    BY <1>4, <1>6 DEF Moved
  <1>8. NotMoved(f)'
    BY <1>4 DEF NotMoved
  <1>9. QED
    BY <1>4, <1>7, <1>8 DEF Building

\* A field says the same after it has got its slot.
LEMMA SlottedSays ==
  ASSUME NEW f, NEW k, FieldsSay(f, k.fields)
  PROVE  FieldsSay(f, Slotted(k))
  <1> DEFINE n == Len(f.fields)
             fs == k.fields
             gs == Slotted(k)
             K == {gs[i] : i \in 1 .. n}
  <1>1. n \in Nat /\ DOMAIN fs = 1 .. n /\ \A i \in 1 .. n : DOMAIN fs[i] = FieldNames
    BY DEF FieldsSay
  <1> DEFINE Slot(i) == Rank(fs, i) + IF IsStatic(fs[i]) THEN 0 ELSE FirstSlot(k)
             Type(i) == SlotTypeOfDescriptor(fs[i].descriptor[1])
             G(i) == [fs[i] EXCEPT !.slot = Slot(i), !.slotType = Type(i)]
  <1>0. gs = [i \in DOMAIN fs |-> G(i)]
    BY Zenon DEF Slotted
  <1>2. gs = [i \in 1 .. n |-> gs[i]] /\ DOMAIN gs = 1 .. n
        /\ \A i \in 1 .. n : gs[i] = G(i) /\ gs[i] \in K
    <2> HIDE DEF G, gs, fs
    <2>1. QED
      BY <1>0, <1>1
  <1>3. Len(gs) = n
    <2> HIDE DEF gs, n, K, G
    <2>1. QED
      BY <1>1, <1>2, SeqIs
  <1>4. ASSUME NEW i \in 1 .. n
        PROVE  /\ SameBase(gs[i], fs[i]) /\ gs[i].constant = fs[i].constant
               /\ DOMAIN gs[i] = FieldNames
    <2> DEFINE x == fs[i]
               slot == Slot(i)
               type == Type(i)
               y == gs[i]
    <2>1. y = [x EXCEPT !.slot = slot, !.slotType = type]
      BY <1>2, Zenon
    <2>2. DOMAIN x = FieldNames
      BY <1>1
    <2> HIDE DEF x, y, slot, type
    <2>3. SameBase(y, x) /\ y.constant = x.constant /\ DOMAIN y = FieldNames
      BY <2>1, <2>2 DEF FieldNames, SameBase
    <2>4. QED
      BY <2>3 DEF x, y
  <1> HIDE DEF gs, fs, G
  <1>5. \A m, i : i \in 1 .. n /\ SaysOf(f, m, fs[i]) => SaysOf(f, m, gs[i])
    BY <1>4, SaysOfBase
  <1>6. QED
    BY <1>2, <1>3, <1>4, <1>5 DEF FieldsSay, gs, fs

\* calcFieldSlotId, written out.
LEMMA SlotsGiven ==
  ASSUME CalcFieldSlotId, DOMAIN klass = ClassNames
  PROVE  LET fs == Slotted(klass)
             instance == FirstSlot(klass) + Count(fs, FALSE)
         IN /\ DOMAIN klass' = ClassNames /\ klass'.fields = fs
            /\ klass'.instanceSlotCount = instance
            /\ klass'.instanceDataType = TypeTable(instance, fs \o Inherited(klass), FALSE)
            /\ klass'.staticDataType = TypeTable(Count(fs, TRUE), fs, TRUE)
            /\ klass'.methods = klass.methods /\ klass'.name = klass.name
            /\ klass'.superClass = klass.superClass /\ klass'.pool = klass.pool
            /\ klass'.sourceFile = klass.sourceFile /\ klass'.signature = klass.signature
            /\ klass'.bootstrapMethods = klass.bootstrapMethods
            /\ klass'.innerClasses = klass.innerClasses
            /\ klass'.enclosingMethod = klass.enclosingMethod
            /\ klass'.annotations = klass.annotations
            /\ phase' = "built" /\ UNCHANGED <<fileVars, library>>
  <1> DEFINE fs == Slotted(klass)
             all == fs \o Inherited(klass)
             instance == FirstSlot(klass) + Count(fs, FALSE)
             static == Count(fs, TRUE)
             instanceTypes == TypeTable(instance, all, FALSE)
             staticTypes == TypeTable(static, fs, TRUE)
             k == [klass EXCEPT !.fields = fs, !.instanceSlotCount = instance,
                       !.staticSlotCount = static, !.instanceDataType = instanceTypes,
                       !.staticDataType = staticTypes]
  <1>1. klass' = k /\ phase' = After("slotsStep") /\ UNCHANGED <<fileVars, library>>
    BY DEF CalcFieldSlotId, StepTo, Unparsed
  <1>2. phase' = "built"
    BY <1>1, AfterIs
  <1> HIDE DEF fs, instance, static, instanceTypes, staticTypes
  <1>3. /\ DOMAIN k = ClassNames /\ k.methods = klass.methods /\ k.fields = fs
        /\ k.instanceSlotCount = instance /\ k.instanceDataType = instanceTypes
        /\ k.staticDataType = staticTypes
        /\ k.name = klass.name /\ k.pool = klass.pool /\ k.superClass = klass.superClass
        /\ k.sourceFile = klass.sourceFile /\ k.signature = klass.signature
        /\ k.bootstrapMethods = klass.bootstrapMethods /\ k.innerClasses = klass.innerClasses
        /\ k.enclosingMethod = klass.enclosingMethod /\ k.annotations = klass.annotations
    BY DEF ClassNames
  <1> HIDE DEF k
  <1>4. QED
    BY <1>1, <1>2, <1>3 DEF fs, instance, static, instanceTypes, staticTypes

\* calcFieldSlotId changes the slots of fields and nothing they say.
LEMMA CalcSlotsStep ==
  ASSUME NEW f, Building(f), CalcFieldSlotId
  PROVE  Building(f)'
  <1>1. phase = "slotsStep"
    BY DEF CalcFieldSlotId
  <1>2. /\ DOMAIN klass = ClassNames /\ NameSays(f, klass) /\ AttributesSay(f, klass)
        /\ FieldsSay(f, klass.fields) /\ MethodsSay(f, klass.methods) /\ klass.pool = f.pool
        /\ SuperSays(f, klass)
    BY <1>1 DEF Building, Moved, NotMoved
  <1>3. FieldsSay(f, Slotted(klass))
    BY <1>2, SlottedSays
  <1>4. /\ DOMAIN klass' = ClassNames /\ NameSays(f, klass') /\ AttributesSay(f, klass')
        /\ FieldsSay(f, klass'.fields) /\ MethodsSay(f, klass'.methods) /\ klass'.pool = f.pool
        /\ SuperSays(f, klass') /\ phase' = "built"
    BY <1>2, <1>3, SlotsGiven DEF NameSays, AttributesSay, SuperSays
  <1>5. Moved(f)'
    BY <1>4 DEF Moved
  <1>6. NotMoved(f)'
    BY <1>4 DEF NotMoved
  <1>7. QED
    BY <1>4, <1>5, <1>6 DEF Building

\* The parser hands over to the constructors at the end of the file only.
LEMMA ParsePhase ==
  ASSUME ParseStep, phase \notin BuildPhases
  PROVE  phase' \notin BuildPhases
  <1>1. CASE ParseHeader
    BY <1>1 DEF ParseHeader, BuildPhases
  <1>2. CASE ParseConstant \/ ParseUTF8
    BY <1>2 DEF ParseConstant, ParseUTF8, Adds
  <1>3. CASE PanicAtTag \/ PanicAtAttribute
    BY <1>3 DEF PanicAtTag, PanicAtAttribute, BuildPhases
  <1>4. CASE ParseClassInfo
    BY <1>4 DEF ParseClassInfo, BuildPhases
  <1>5. CASE ParseInterfaces
    BY <1>5 DEF ParseInterfaces, BuildPhases
  <1>6. CASE ParseCount
    BY <1>6 DEF ParseCount, BuildPhases
  <1>7. CASE BeginMember \/ EndMember
    BY <1>7 DEF BeginMember, EndMember
  <1>8. CASE EndFile
    BY <1>8 DEF EndFile, BuildPhases
  <1>9. CASE ParsePlain \/ ParseTable \/ ParseBootstrapMethods \/ ParseByteStream \/ SkipAttribute
    BY <1>9 DEF ParsePlain, ParseTable, ParseBootstrapMethods, ParseByteStream, SkipAttribute,
                AddAttribute
  <1>10. CASE BeginCode \/ EndCode
    BY <1>10 DEF BeginCode, EndCode
  <1>11. QED
    BY <1>1, <1>2, <1>3, <1>4, <1>5, <1>6, <1>7, <1>8, <1>9, <1>10 DEF ParseStep

\* The parser does nothing while a class is constructed.
LEMMA ParsingPhase ==
  ASSUME ParseStep, NEW f, Parsing(f)
  PROVE  phase \notin BuildPhases
  BY StepIs DEF Parsing, AtHeader, AtConstants, AtInterfaces, AtFieldCount, AtFields, AtMethods,
                AtAttributes, AtEnd, Stopped, BuildPhases

\* While nothing is constructed nothing has been moved.
LEMMA NotBuilding ==
  ASSUME NEW f, phase \notin BuildPhases
  PROVE  Building(f)
  BY DEF Building, Moved, NotMoved, BuildPhases

\* Every step of the constructor keeps to the file.
LEMMA ConstructingBuilds ==
  ASSUME NEW f, IsFile(f), Parsing(f), Building(f), Constructing
  PROVE  Building(f)'
  <1>1. CASE BeginClass
    <2>1. phase = "parsed"
      BY <1>1 DEF BeginClass
    <2>2. AtEnd(f)
      BY <2>1 DEF Parsing, AtHeader, AtConstants, AtInterfaces, AtFieldCount, AtFields,
                  AtMethods, AtAttributes, Stopped, BuildPhases
    <2>3. QED
      BY <1>1, <2>2, BeginClassStep
  <1>2. QED
    BY <1>1, InitAttributesStep, InitFieldsStep, InitMethodsStep, InitSupersStep, MovePoolStep,
       CalcSlotsStep DEF Constructing

\* What is not touched is as it was.
LEMMA BuildingStays ==
  ASSUME NEW f, Building(f), UNCHANGED <<phase, pool, cf, klass>>
  PROVE  Building(f)'
  BY DEF Building, Moved, NotMoved

\* Nothing is constructed to begin with.
LEMMA InitBuilding == Init => Building(File)
  <1>1. Init => phase \notin BuildPhases
    BY DEF Init, Begins, BuildPhases
  <1>2. QED
    BY <1>1, NotBuilding

\* Every step of the program keeps what has been moved to what the file says.
LEMMA NextBuilding ==
  ASSUME IInv, Building(File), [Next]_vars
  PROVE  Building(File)'
  <1>1. program \in Programs
    BY DEF IInv
  <1>2. CASE at \in 1 .. Len(FilesOf(program)) /\ Parsing(File)
    <2>1. PICK f : f = File
      OBVIOUS
    <2>2. IsFile(f) /\ Parsing(f) /\ Building(f)
      BY <1>1, <1>2, <2>1, Files DEF File
    <2>3. CASE ParseStep
      <3>1. phase' \notin BuildPhases
        BY <2>2, <2>3, ParsePhase, ParsingPhase
      <3>2. QED
        BY <3>1 DEF Building, Moved, NotMoved, BuildPhases
    <2>4. CASE Constructing
      <3>1. Building(f)'
        BY <2>2, <2>4, ConstructingBuilds
      <3>2. UNCHANGED fileVars
        <4>1. phase \in BuildPhases \cup {"parsed"}
          BY <2>4, ConstructingPhase
        <4>2. open = <<>>
          BY <2>2, <4>1 DEF Parsing, AtHeader, AtConstants, AtInterfaces, AtFieldCount, AtFields,
                            AtMethods, AtAttributes, AtEnd, Stopped, BuildPhases
        <4>3. QED
          BY <2>4, <4>2, ConstructingStep
      <3>3. File' = f
        BY <2>1, <3>2, FileStays
      <3>4. QED
        BY <3>1, <3>3
    <2>5. CASE NextFile
      <3>1. phase' \in {"header", "loaded"}
        BY <2>5 DEF NextFile
      <3>2. QED
        BY <3>1 DEF Building, Moved, NotMoved
    <2>6. CASE Ended \/ UNCHANGED vars
      <3>1. UNCHANGED <<phase, pool, cf, klass>> /\ UNCHANGED fileVars
        BY <2>6 DEF Ended, vars, parserVars, fileVars
      <3>2. Building(f)'
        BY <2>2, <3>1, BuildingStays
      <3>3. File' = f
        BY <2>1, <3>1, FileStays
      <3>4. QED
        BY <3>2, <3>3
    <2>7. QED
      BY <2>3, <2>4, <2>5, <2>6 DEF Next, BuildStep, Constructing
  <1>3. CASE phase = "loaded" /\ open = <<>>
    <2>1. ~ParseStep
      BY <1>3, StepIs
    <2>2. ~BuildStep
      BY <1>3 DEF BuildStep, BeginClass, InitAttributes, InitFields, InitMethods,
                  InitInterfaceAndSuperClass, MoveConstantPool, CalcFieldSlotId, NextFile
    <2>3. phase' = "loaded"
      BY <1>3, <2>1, <2>2 DEF Next, Ended, vars, parserVars
    <2>4. QED
      BY <2>3 DEF Building, Moved, NotMoved
  <1>4. QED
    BY <1>2, <1>3 DEF IInv

\* No step of a constructor looks at what an earlier one has moved, and the
\* program ends at a file it does not know, only: NothingMovedIsRead.
THEOREM NothingMovedIsLookedAt == Spec => []NothingMovedIsRead
  <1>1. IInv /\ Building(File) => NothingMovedIsRead
    <2> SUFFICES ASSUME IInv, Building(File), phase = "panic"
                 PROVE  Unknown(File)
      BY DEF NothingMovedIsRead, Building
    <2>1. Parsing(File)
      BY DEF IInv
    <2>2. Stopped(File)
      BY <2>1 DEF Parsing, AtHeader, AtConstants, AtInterfaces, AtFieldCount, AtFields,
                  AtMethods, AtAttributes, AtEnd, BuildPhases
    <2>3. QED
      BY <2>2 DEF Stopped
  <1>2. QED
    BY <1>1, InitIInv, NextIInv, InitBuilding, NextBuilding, PTL DEF Spec

\* The class has what the file says, after all the moving and sorting:
\* BuiltFaithfully.
THEOREM BuiltAsTheFileSays == Spec => []BuiltFaithfully
  <1>1. Building(File) => BuiltFaithfully
    <2> SUFFICES ASSUME Building(File), phase = "built"
                 PROVE  BuiltFaithfully
      BY DEF BuiltFaithfully
    <2> DEFINE f == File
    <2>1. /\ NameSays(f, klass) /\ AttributesSay(f, klass) /\ klass.pool = f.pool
          /\ FieldsSay(f, klass.fields) /\ MethodsSay(f, klass.methods)
      BY DEF Building, Moved
    <2> HIDE DEF f
    <2>2. /\ Len(klass.fields) = Len(f.fields)
          /\ \A i \in DOMAIN f.fields : \E k \in DOMAIN klass.fields :
                 /\ SaysOf(f, f.fields[i], klass.fields[k])
                 /\ klass.fields[k].constant = Number(f.fields[i].attributes, "ConstantValue")
      BY <2>1 DEF FieldsSay
    <2>3. /\ Len(klass.methods) = Len(f.methods)
          /\ \A i \in DOMAIN f.methods : \E k \in DOMAIN klass.methods :
                 SaysOfMethod(f, f.methods[i], klass.methods[k])
          /\ \A k \in DOMAIN klass.methods : klass.methods[k].slot = k - 1
      BY <2>1 DEF MethodsSay
    <2>4. QED
      BY <2>1, <2>2, <2>3 DEF BuiltFaithfully, NameSays, AttributesSay, f
  <1>2. QED
    BY <1>1, InitIInv, NextIInv, InitBuilding, NextBuilding, PTL DEF Spec

-----------------------------------------------------------------------------
(* Slots of fields *)

\* How many of S are among the first m numbers: C(0), C(1), ...
Below(S, m) == Cardinality({k \in 1 .. m : k \in S})

\* It grows by one where S has a number, and is a number.
LEMMA BelowStep ==
  ASSUME NEW S, NEW m \in Nat
  PROVE  /\ Below(S, 0) = 0 /\ Below(S, m) \in Nat
         /\ m + 1 \in S => Below(S, m + 1) = Below(S, m) + 1
         /\ m + 1 \notin S => Below(S, m + 1) = Below(S, m)
  <1> DEFINE A(j) == {k \in 1 .. j : k \in S}
  <1>1. A(0) = {}
    OBVIOUS
  <1>2. IsFiniteSet(A(m))
    <2>1. IsFiniteSet(1 .. m) /\ A(m) \subseteq 1 .. m
      BY FS_Interval
    <2>2. QED
      BY <2>1, FS_Subset
  <1>3. m + 1 \in S => A(m + 1) = A(m) \cup {m + 1}
    OBVIOUS
  <1>4. m + 1 \notin S => A(m + 1) = A(m)
    OBVIOUS
  <1>5. m + 1 \notin A(m)
    OBVIOUS
  <1> HIDE DEF A
  <1>6. Cardinality(A(m)) \in Nat /\ Cardinality(A(m) \cup {m + 1}) = Cardinality(A(m)) + 1
    BY <1>2, <1>5, FS_CardinalityType, FS_AddElement
  <1>7. Cardinality(A(0)) = 0
    BY <1>1, FS_EmptySet
  <1>8. Below(S, 0) = Cardinality(A(0)) /\ Below(S, m) = Cardinality(A(m))
        /\ Below(S, m + 1) = Cardinality(A(m + 1))
    BY DEF Below, A
  <1>9. QED
    BY <1>3, <1>4, <1>6, <1>7, <1>8

\* It never goes down.
LEMMA BelowGrows ==
  ASSUME NEW S, NEW i \in Nat, NEW n \in Nat, i <= n
  PROVE  Below(S, i) <= Below(S, n)
  <1> DEFINE T == {d \in Nat : Below(S, i) <= Below(S, i + d)}
  <1>1. Below(S, i) \in Nat
    BY BelowStep
  <1>2. 0 \in T
    BY <1>1
  <1>3. ASSUME NEW d \in Nat, d \in T PROVE d + 1 \in T
    <2>1. i + d \in Nat /\ (i + d) + 1 = i + (d + 1)
      OBVIOUS
    <2>2. Below(S, i + d) \in Nat /\ Below(S, (i + d) + 1) \in {Below(S, i + d), Below(S, i + d) + 1}
      BY <2>1, BelowStep
    <2>3. Below(S, i) <= Below(S, i + d)
      BY <1>3
    <2>4. Below(S, i) <= Below(S, i + (d + 1))
      BY <1>1, <2>1, <2>2, <2>3
    <2>5. QED
      BY <2>4
  <1> HIDE DEF T
  <1>4. n - i \in T
    BY <1>2, <1>3, Induction
  <1>5. i + (n - i) = n
    OBVIOUS
  <1>6. QED
    BY <1>4, <1>5 DEF T

\* The numbers of S, counted up to n, are counted one to one by 0, 1, ...
LEMMA BelowCounts ==
  ASSUME NEW S, NEW n \in Nat
  PROVE  /\ \A i \in 1 .. n : i \in S => Below(S, i - 1) \in 0 .. Below(S, n) - 1
         /\ \A i, k \in 1 .. n : i \in S /\ k \in S /\ Below(S, i - 1) = Below(S, k - 1) => i = k
         /\ \A s \in 0 .. Below(S, n) - 1 : \E i \in 1 .. n : i \in S /\ Below(S, i - 1) = s
  <1>1. ASSUME NEW i \in 1 .. n, i \in S, NEW k \in i .. n
        PROVE  Below(S, i - 1) \in Nat /\ Below(S, k) \in Nat /\ Below(S, i - 1) < Below(S, k)
    <2>1. i - 1 \in Nat /\ (i - 1) + 1 = i /\ i \in Nat /\ k \in Nat /\ i <= k
      OBVIOUS
    <2>2. Below(S, i - 1) \in Nat /\ Below(S, i) = Below(S, i - 1) + 1
      BY <1>1, <2>1, BelowStep
    <2>3. Below(S, k) \in Nat
      BY <2>1, BelowStep
    <2>4. Below(S, i) <= Below(S, k)
      BY <2>1, BelowGrows
    <2>5. QED
      BY <2>2, <2>3, <2>4
  <1>2. ASSUME NEW i \in 1 .. n, i \in S
        PROVE  Below(S, i - 1) \in 0 .. Below(S, n) - 1
    <2>1. n \in i .. n
      OBVIOUS
    <2>2. Below(S, i - 1) \in Nat /\ Below(S, n) \in Nat /\ Below(S, i - 1) < Below(S, n)
      BY <1>1, <1>2, <2>1
    <2>3. QED
      BY <2>2
  <1>3. ASSUME NEW i \in 1 .. n, i \in S, NEW k \in 1 .. n, k \in S, i < k
        PROVE  Below(S, i - 1) # Below(S, k - 1)
    <2>1. k - 1 \in i .. n
      BY <1>3
    <2>2. Below(S, i - 1) \in Nat /\ Below(S, k - 1) \in Nat /\ Below(S, i - 1) < Below(S, k - 1)
      BY <1>1, <1>3, <2>1
    <2>3. QED
      BY <2>2
  <1>4. \A i, k \in 1 .. n : i \in S /\ k \in S /\ Below(S, i - 1) = Below(S, k - 1) => i = k
    <2> SUFFICES ASSUME NEW i \in 1 .. n, NEW k \in 1 .. n, i \in S, k \in S,
                        Below(S, i - 1) = Below(S, k - 1)
                 PROVE  i = k
      BY Zenon
    <2>1. i = k \/ i < k \/ k < i
      OBVIOUS
    <2>2. QED
      BY <1>3, <2>1
  <1>5. \A s \in 0 .. Below(S, n) - 1 : \E i \in 1 .. n : i \in S /\ Below(S, i - 1) = s
    <2> DEFINE T == {m \in Nat : \A s \in 0 .. Below(S, m) - 1 :
                                     \E i \in 1 .. m : i \in S /\ Below(S, i - 1) = s}
    <2>1. 0 \in T
      <3>1. Below(S, 0) = 0
        BY BelowStep
      <3>2. QED
        BY <3>1
    <2>2. ASSUME NEW m \in Nat, m \in T PROVE m + 1 \in T
      <3> SUFFICES ASSUME NEW s \in 0 .. Below(S, m + 1) - 1
                   PROVE  \E i \in 1 .. m + 1 : i \in S /\ Below(S, i - 1) = s
        OBVIOUS
      <3>1. Below(S, m) \in Nat /\ (m + 1 \in S => Below(S, m + 1) = Below(S, m) + 1)
            /\ (m + 1 \notin S => Below(S, m + 1) = Below(S, m))
        BY BelowStep
      <3>2. CASE s \in 0 .. Below(S, m) - 1
        <4>1. PICK i \in 1 .. m : i \in S /\ Below(S, i - 1) = s
          BY <2>2, <3>2
        <4>2. i \in 1 .. m + 1
          OBVIOUS
        <4>3. QED
          BY <4>1, <4>2
      <3>3. CASE s \notin 0 .. Below(S, m) - 1
        <4>1. m + 1 \in S /\ s = Below(S, m)
          BY <3>1, <3>3
        <4>2. m + 1 \in 1 .. m + 1 /\ (m + 1) - 1 = m
          OBVIOUS
        <4>3. Below(S, (m + 1) - 1) = s
          BY <4>1, <4>2
        <4>4. QED
          BY <4>1, <4>2, <4>3
      <3>4. QED
        BY <3>2, <3>3
    <2> HIDE DEF T
    <2>3. n \in T
      BY <2>1, <2>2, Induction
    <2>4. QED
      BY <2>3 DEF T
  <1>6. QED
    BY <1>2, <1>4, <1>5
\* The slots of those fields are the numbers of A, each taken once.
Fills(fs, own, A) ==
    /\ \A i \in own : fs[i].slot \in A
    /\ \A i, k \in own : fs[i].slot = fs[k].slot => i = k
    /\ \A s \in A : \E i \in own : fs[i].slot = s
Own(fs, static) == {i \in DOMAIN fs : IsStatic(fs[i]) = static}
TypeKnown(x) == x.slotType = SlotTypeOfClass(ClassNameByFieldDescriptor(x.descriptor))
IsSeq(s) == Len(s) \in Nat /\ s = [i \in 1 .. Len(s) |-> s[i]]

\* The table of types has the type of the field whose slot it is.
LEMMA TableIs ==
  ASSUME NEW fs, DOMAIN fs \subseteq Nat, NEW static, NEW n \in Nat,
         Fills(fs, Own(fs, static), 0 .. n - 1), \A i \in DOMAIN fs : TypeKnown(fs[i])
  PROVE  LET types == TypeTable(n, fs, static)
         IN OneToOne(fs, static, types) /\ Len(types) = n /\ IsSeq(types)
  <1> DEFINE types == TypeTable(n, fs, static)
             here(s) == {i \in DOMAIN fs : IsStatic(fs[i]) = static /\ fs[i].slot = s - 1}
             type(s) == IF here(s) = {} THEN "NONE"
                        ELSE fs[CHOOSE i \in here(s) : \A j \in here(s) : j <= i].slotType
  <1>1. types = [s \in 1 .. n |-> type(s)]
    BY Zenon DEF TypeTable
  <1> HIDE DEF types
  <1>2. types = [s \in 1 .. n |-> types[s]]
    BY <1>1
  <1>3. Len(types) = n /\ DOMAIN types = 1 .. n
    <2> DEFINE U == {types[s] : s \in 1 .. n}
    <2>1. \A s \in 1 .. n : types[s] \in U
      OBVIOUS
    <2> HIDE DEF U
    <2>2. QED
      BY <1>2, <2>1, SeqIs
  <1>4. ASSUME NEW i \in Own(fs, static)
        PROVE  fs[i].slot \in 0 .. n - 1 /\ types[fs[i].slot + 1] = fs[i].slotType
    <2> DEFINE s == fs[i].slot + 1
    <2>1. fs[i].slot \in 0 .. n - 1
      BY DEF Fills
    <2>2. s \in 1 .. n /\ s - 1 = fs[i].slot
      BY <2>1
    <2> HIDE DEF s
    <2>3. here(s) = {i}
      <3>1. i \in here(s)
        BY <2>2 DEF Own
      <3>2. ASSUME NEW k \in here(s) PROVE k = i
        <4>1. k \in Own(fs, static) /\ fs[k].slot = fs[i].slot
          BY <2>2 DEF Own
        <4>2. QED
          BY <4>1 DEF Fills
      <3> HIDE DEF here
      <3>3. QED
        BY <3>1, <3>2
    <2> HIDE DEF here
    <2>4. i \in Nat
      BY DEF Own
    <2>5. (CHOOSE k \in here(s) : \A j \in here(s) : j <= k) = i
      BY <2>3, <2>4
    <2>6. type(s) = fs[i].slotType
      BY <2>3, <2>5
    <2>7. types[s] = type(s)
      BY <1>1, <2>2
    <2>8. QED
      BY <2>1, <2>6, <2>7 DEF s
  <1>5. OneToOne(fs, static, types)
    <2> DEFINE own == Own(fs, static)
    <2>1. \A i, k \in own : fs[i].slot = fs[k].slot => i = k
      BY DEF Fills
    <2>2. \A i \in own :
             /\ fs[i].slot \in 0 .. Len(types) - 1
             /\ types[fs[i].slot + 1] =
                    SlotTypeOfClass(ClassNameByFieldDescriptor(fs[i].descriptor))
      BY <1>3, <1>4 DEF Own, TypeKnown
    <2>3. \A s \in DOMAIN types : \E i \in own : fs[i].slot = s - 1
      <3>1. ASSUME NEW s \in DOMAIN types PROVE \E i \in own : fs[i].slot = s - 1
        <4>1. s - 1 \in 0 .. n - 1
          BY <1>3
        <4>2. QED
          BY <4>1 DEF Fills
      <3>2. QED
        BY <3>1
    <2>4. own = {i \in DOMAIN fs : IsStatic(fs[i]) = static}
      BY DEF Own
    <2> HIDE DEF own
    <2>5. QED
      BY <2>1, <2>2, <2>3, <2>4, Zenon DEF OneToOne
  <1>6. QED
    BY <1>2, <1>3, <1>5 DEF IsSeq, types

\* What calcFieldSlotId makes of a field.
LEMMA SlottedIs ==
  ASSUME NEW k, NEW i \in DOMAIN k.fields, DOMAIN k.fields[i] = FieldNames
  PROVE  LET x == k.fields[i]
             y == Slotted(k)[i]
         IN /\ DOMAIN Slotted(k) = DOMAIN k.fields
            /\ IsStatic(y) = IsStatic(x) /\ y.descriptor = x.descriptor
            /\ y.slot = Rank(k.fields, i) + IF IsStatic(x) THEN 0 ELSE FirstSlot(k)
            /\ y.slotType = SlotTypeOfDescriptor(x.descriptor[1])
  <1> DEFINE x == k.fields[i]
             slot == Rank(k.fields, i) + IF IsStatic(x) THEN 0 ELSE FirstSlot(k)
             type == SlotTypeOfDescriptor(x.descriptor[1])
             y == Slotted(k)[i]
  <1>1. y = [x EXCEPT !.slot = slot, !.slotType = type] /\ DOMAIN Slotted(k) = DOMAIN k.fields
    BY Zenon DEF Slotted
  <1>2. DOMAIN x = FieldNames
    OBVIOUS
  <1> HIDE DEF x, slot, type, y
  <1>3. y.access = x.access /\ y.descriptor = x.descriptor /\ y.slot = slot /\ y.slotType = type
    BY <1>1, <1>2 DEF FieldNames
  <1>4. IsStatic(y) = IsStatic(x)
    BY <1>3 DEF IsStatic
  <1>5. QED
    BY <1>1, <1>3, <1>4 DEF x, slot, type, y

\* A class numbers its own fields, the static ones from 0 and the others from
\* where its superclass has stopped.
LEMMA SlottedFills ==
  ASSUME NEW k, NEW n \in Nat, DOMAIN k.fields = 1 .. n,
         \A i \in 1 .. n : DOMAIN k.fields[i] = FieldNames, NEW static \in BOOLEAN,
         NEW first \in Nat, first = IF static THEN 0 ELSE FirstSlot(k)
  PROVE  LET fs == Slotted(k)
         IN /\ DOMAIN fs = 1 .. n /\ Count(fs, static) \in Nat
            /\ Fills(fs, Own(fs, static), first .. first + Count(fs, static) - 1)
  <1> DEFINE gs == k.fields
             fs == Slotted(k)
             S == {i \in 1 .. n : IsStatic(gs[i]) = static}
             count == Below(S, n)
  <1>1. DOMAIN fs = 1 .. n
    BY Zenon DEF Slotted
  <1>2. \A i \in 1 .. n : IsStatic(fs[i]) = IsStatic(gs[i])
    BY SlottedIs
  <1>3. Own(fs, static) = S
    BY <1>1, <1>2, Zenon DEF Own
  <1>4. Count(fs, static) = count
    <2>1. {i \in DOMAIN fs : IsStatic(fs[i]) = static} = {i \in 1 .. n : i \in S}
      BY <1>1, <1>2, Zenon
    <2>2. QED
      BY <2>1 DEF Count, Below
  <1>5. ASSUME NEW i \in S PROVE fs[i].slot = Below(S, i - 1) + first
    <2>1. i \in 1 .. n /\ IsStatic(gs[i]) = static
      OBVIOUS
    <2>2. fs[i].slot = Rank(gs, i) + first
      BY <2>1, SlottedIs
    <2>3. {j \in 1 .. i - 1 : IsStatic(gs[j]) = IsStatic(gs[i])} = {j \in 1 .. i - 1 : j \in S}
      <3>1. \A j \in 1 .. i - 1 : j \in 1 .. n
        BY <2>1
      <3>2. QED
        BY <2>1, <3>1, Zenon
    <2>4. Rank(gs, i) = Below(S, i - 1)
      BY <2>3 DEF Rank, Below
    <2>5. QED
      BY <2>2, <2>4
  <1> DEFINE B(i) == Below(S, i - 1)
  <1>6. S \subseteq 1 .. n
    OBVIOUS
  <1> HIDE DEF S
  <1>7. /\ \A i \in 1 .. n : i \in S => B(i) \in 0 .. count - 1
        /\ \A i, j \in 1 .. n : i \in S /\ j \in S /\ B(i) = B(j) => i = j
        /\ \A s \in 0 .. count - 1 : \E i \in 1 .. n : i \in S /\ B(i) = s
    BY BelowCounts
  <1>8. count \in Nat
    BY BelowStep
  <1> HIDE DEF B, count, gs, fs
  <1>9. \A i \in S : fs[i].slot = B(i) + first
    BY <1>5 DEF B
  <1>10. \A i \in S : fs[i].slot \in first .. first + count - 1
    BY <1>6, <1>7, <1>8, <1>9
  <1>11. \A i, j \in S : fs[i].slot = fs[j].slot => i = j
    <2> SUFFICES ASSUME NEW i \in S, NEW j \in S, fs[i].slot = fs[j].slot PROVE i = j
      OBVIOUS
    <2>1. B(i) \in Nat /\ B(j) \in Nat
      BY <1>6, <1>7, <1>8
    <2>2. B(i) = B(j)
      BY <1>9, <2>1
    <2>3. QED
      BY <1>6, <1>7, <2>2
  <1>12. \A s \in first .. first + count - 1 : \E i \in S : fs[i].slot = s
    <2> SUFFICES ASSUME NEW s \in first .. first + count - 1 PROVE \E i \in S : fs[i].slot = s
      OBVIOUS
    <2>1. s - first \in 0 .. count - 1
      BY <1>8
    <2>2. PICK i \in S : B(i) = s - first
      BY <1>7, <2>1
    <2>3. fs[i].slot = (s - first) + first
      BY <1>9, <2>2
    <2>4. QED
      BY <2>3
  <1>13. Fills(fs, S, first .. first + count - 1)
    BY <1>10, <1>11, <1>12 DEF Fills
  <1>14. QED
    BY <1>1, <1>3, <1>4, <1>8, <1>13 DEF fs

\* all is fs with sup behind it.
BothTables(fs, sup, all) ==
    LET n == Len(fs)
        m == Len(sup)
    IN /\ n \in Nat /\ m \in Nat /\ DOMAIN fs = 1 .. n /\ DOMAIN sup = 1 .. m
       /\ DOMAIN all = 1 .. n + m
       /\ \A i \in 1 .. n : all[i] = fs[i]
       /\ \A i \in 1 .. m : all[n + i] = sup[i]

\* Every field is of one of the two, and none of the inherited ones is lost.
OfBoth(fs, sup, all) ==
    /\ \A i \in DOMAIN all : (\E j \in DOMAIN fs : all[i] = fs[j])
                             \/ (\E j \in DOMAIN sup : all[i] = sup[j])
    /\ \A j \in Own(sup, FALSE) : \E i \in Own(all, FALSE) : all[i] = sup[j]

\* So it is for sequences.
LEMMA JoinedIs ==
  ASSUME NEW U, NEW fs \in Seq(U), NEW sup \in Seq(U)
  PROVE  BothTables(fs, sup, fs \o sup) /\ fs \o sup \in Seq(U)
  <1> DEFINE n == Len(fs)
             m == Len(sup)
             all == fs \o sup
  <1>1. all \in Seq(U) /\ Len(all) = n + m
    BY ConcatProperties
  <1>2. n \in Nat /\ m \in Nat /\ DOMAIN fs = 1 .. n /\ DOMAIN sup = 1 .. m
    BY SeqHas
  <1>3. DOMAIN all = 1 .. Len(all)
    BY <1>1, SeqHas
  <1>4. \A i \in 1 .. n : all[i] = fs[i]
    BY <1>2
  <1>5. \A i \in 1 .. m : all[n + i] = sup[i]
    BY <1>2
  <1>6. QED
    BY <1>1, <1>2, <1>3, <1>4, <1>5 DEF BothTables

\* The fields of a class and those it inherits.
LEMMA JoinedFills ==
  ASSUME NEW fs, NEW sup, NEW all, BothTables(fs, sup, all), NEW b \in Nat, NEW c \in Nat,
         Fills(sup, Own(sup, FALSE), 0 .. b - 1), Fills(fs, Own(fs, FALSE), b .. b + c - 1)
  PROVE  /\ DOMAIN all \subseteq Nat /\ Fills(all, Own(all, FALSE), 0 .. b + c - 1)
         /\ OfBoth(fs, sup, all)
  <1> DEFINE n == Len(fs)
             m == Len(sup)
  <1>1. /\ n \in Nat /\ m \in Nat /\ DOMAIN fs = 1 .. n /\ DOMAIN sup = 1 .. m
        /\ DOMAIN all = 1 .. n + m
        /\ \A i \in 1 .. n : all[i] = fs[i]
        /\ \A i \in 1 .. m : all[n + i] = sup[i]
    BY DEF BothTables
  <1> HIDE DEF n, m
  <1>2. ASSUME NEW i \in 1 .. n + m
        PROVE  i \in 1 .. n \/ (i - n \in 1 .. m /\ i = n + (i - n))
    BY <1>1
  <1>3. ASSUME NEW i \in Own(all, FALSE)
        PROVE  \/ i \in 1 .. n /\ i \in Own(fs, FALSE) /\ all[i] = fs[i]
               \/ i - n \in Own(sup, FALSE) /\ all[i] = sup[i - n] /\ i = n + (i - n)
    <2>1. i \in 1 .. n + m /\ IsStatic(all[i]) = FALSE
      BY <1>1 DEF Own
    <2>2. CASE i \in 1 .. n
      BY <1>1, <2>1, <2>2 DEF Own
    <2>3. CASE i - n \in 1 .. m /\ i = n + (i - n)
      <3>1. all[i] = sup[i - n]
        BY <1>1, <2>3
      <3>2. QED
        BY <1>1, <2>1, <2>3, <3>1 DEF Own
    <2>4. QED
      BY <1>2, <2>1, <2>2, <2>3
  <1>4. ASSUME NEW i \in Own(fs, FALSE) PROVE i \in Own(all, FALSE) /\ all[i] = fs[i]
    <2>1. i \in 1 .. n /\ i \in 1 .. n + m
      BY <1>1 DEF Own
    <2>2. QED
      BY <1>1, <2>1 DEF Own
  <1>5. ASSUME NEW j \in Own(sup, FALSE) PROVE n + j \in Own(all, FALSE) /\ all[n + j] = sup[j]
    <2>1. j \in 1 .. m /\ n + j \in 1 .. n + m
      BY <1>1 DEF Own
    <2>2. QED
      BY <1>1, <2>1 DEF Own
  <1>6. \A i \in Own(all, FALSE) : all[i].slot \in 0 .. b + c - 1
    <2>1. ASSUME NEW i \in Own(all, FALSE) PROVE all[i].slot \in 0 .. b + c - 1
      <3>1. all[i].slot \in 0 .. b - 1 \/ all[i].slot \in b .. b + c - 1
        BY <1>3, Zenon DEF Fills
      <3>2. QED
        BY <3>1
    <2>2. QED
      BY <2>1
  <1>7. ASSUME NEW i \in Own(all, FALSE), NEW k \in Own(all, FALSE), all[i].slot = all[k].slot
        PROVE  i = k
    <2> DEFINE slot == all[i].slot
    <2>1. slot \in 0 .. b - 1 => slot \notin b .. b + c - 1
      OBVIOUS
    <2>2. CASE i \in Own(fs, FALSE) /\ all[i] = fs[i]
      <3>1. fs[i].slot = slot /\ slot \in b .. b + c - 1
        BY <2>2 DEF Fills
      <3>2. \A j \in Own(sup, FALSE) : sup[j].slot \in 0 .. b - 1
        BY DEF Fills
      <3>3. k \in Own(fs, FALSE) /\ all[k] = fs[k]
        BY <1>3, <1>7, <2>1, <3>1, <3>2
      <3>4. QED
        BY <1>7, <2>2, <3>3 DEF Fills
    <2>3. CASE i - n \in Own(sup, FALSE) /\ all[i] = sup[i - n] /\ i = n + (i - n)
      <3>1. sup[i - n].slot = slot /\ slot \in 0 .. b - 1
        BY <2>3 DEF Fills
      <3>2. \A j \in Own(fs, FALSE) : fs[j].slot \in b .. b + c - 1
        BY DEF Fills
      <3>3. k - n \in Own(sup, FALSE) /\ all[k] = sup[k - n] /\ k = n + (k - n)
        BY <1>3, <1>7, <2>1, <3>1, <3>2
      <3>4. i - n = k - n
        BY <1>7, <2>3, <3>3 DEF Fills
      <3>5. QED
        BY <2>3, <3>3, <3>4
    <2>4. QED
      BY <1>3, <2>2, <2>3
  <1>8. ASSUME NEW s \in 0 .. b + c - 1 PROVE \E i \in Own(all, FALSE) : all[i].slot = s
    <2>1. CASE s \in 0 .. b - 1
      <3>1. PICK j \in Own(sup, FALSE) : sup[j].slot = s
        BY <2>1 DEF Fills
      <3>2. QED
        BY <1>5, <3>1
    <2>2. CASE s \in b .. b + c - 1
      <3>1. PICK j \in Own(fs, FALSE) : fs[j].slot = s
        BY <2>2 DEF Fills
      <3>2. QED
        BY <1>4, <3>1
    <2>3. s \in 0 .. b - 1 \/ s \in b .. b + c - 1
      OBVIOUS
    <2>4. QED
      BY <2>1, <2>2, <2>3
  <1>9. Fills(all, Own(all, FALSE), 0 .. b + c - 1)
    BY <1>6, <1>7, <1>8 DEF Fills
  <1>10. \A i \in DOMAIN all : (\E j \in DOMAIN fs : all[i] = fs[j])
                                 \/ (\E j \in DOMAIN sup : all[i] = sup[j])
    <2> SUFFICES ASSUME NEW i \in 1 .. n + m
                 PROVE  (\E j \in DOMAIN fs : all[i] = fs[j])
                        \/ (\E j \in DOMAIN sup : all[i] = sup[j])
      BY <1>1, Zenon
    <2>1. i \in 1 .. n => i \in DOMAIN fs /\ all[i] = fs[i]
      BY <1>1
    <2>2. i - n \in 1 .. m /\ i = n + (i - n) => i - n \in DOMAIN sup /\ all[i] = sup[i - n]
      BY <1>1
    <2>3. QED
      BY <1>2, <2>1, <2>2, Zenon
  <1>11. DOMAIN all \subseteq Nat
    BY <1>1
  <1>12. QED
    BY <1>5, <1>9, <1>10, <1>11 DEF OfBoth

\* What a sequence begins with, member by member.
LEMMA PrefixIs ==
  ASSUME NEW s, NEW t, IsSeq(s), IsSeq(t), Len(s) <= Len(t),
         \A i \in 1 .. Len(s) : s[i] = t[i]
  PROVE  IsPrefix(s, t)
  <1> DEFINE n == Len(s)
             U == {s[i] : i \in 1 .. n}
             u == SubSeq(s, 1, n)
             v == SubSeq(t, 1, n)
  <1>1. n \in Nat
    BY DEF IsSeq
  <1>2. \A i \in 1 .. n : s[i] \in U /\ t[i] \in U
    OBVIOUS
  <1> HIDE DEF n, U
  <1>3. /\ u \in Seq(U) /\ Len(u) = n /\ \A i \in 1 .. n : u[i] = s[i]
        /\ v \in Seq(U) /\ Len(v) = n /\ \A i \in 1 .. n : v[i] = t[i]
    BY <1>1, <1>2, SubSeqProperties
  <1>4. \A i \in 1 .. n : u[i] = v[i]
    BY <1>3 DEF n
  <1> HIDE DEF u, v
  <1>5. u = v
    BY <1>1, <1>3, <1>4, SeqEqual
  <1>6. QED
    BY <1>5 DEF IsPrefix, n, u, v

\* The type of a field by the first character of its descriptor is that by the
\* name of its class.
LEMMA FieldTypes ==
  ASSUME NEW d \in Seq(STRING), IsFieldDescriptor(d)
  PROVE  SlotTypeOfDescriptor(d[1]) = SlotTypeOfClass(ClassNameByFieldDescriptor(d))
  <1>1. Len(d) \in Nat /\ DOMAIN d = 1 .. Len(d) /\ \A i \in 1 .. Len(d) : d[i] \in STRING
    BY SeqHas
  <1> DEFINE Unreserved(x) == x \notin PrimitiveTypes
             Base(x) == x \in BaseTypes
             words == {<<w>> : w \in PrimitiveTypes}
  <1>2. PICK e \in 1 .. Len(d) :
            /\ \A j \in 1 .. e - 1 : d[j] = "["
            /\ \/ e = Len(d) /\ Base(d[e])
               \/ e + 1 < Len(d) /\ d[e] = "L" /\ (e + 2 = Len(d) => Unreserved(d[e + 1]))
    BY Zenon DEF IsFieldDescriptor, IsType
  <1> HIDE DEF Unreserved, Base
  <1>3. ASSUME NEW name, name \notin words PROVE SlotTypeOfClass(name) = "REF"
    BY <1>3 DEF SlotTypeOfClass, PrimitiveTypes
  <1>4. CASE e # 1
    <2>1. d[1] = "["
      <3>1. 1 \in 1 .. e - 1
        BY <1>1, <1>4
      <3>2. QED
        BY <1>2, <3>1
    <2>2. d \notin words
      BY <2>1 DEF PrimitiveTypes
    <2>3. SlotTypeOfClass(d) = "REF"
      BY <1>3, <2>2
    <2>4. ClassNameByFieldDescriptor(d) = d /\ SlotTypeOfDescriptor(d[1]) = "REF"
      BY <2>1 DEF ClassNameByFieldDescriptor, SlotTypeOfDescriptor
    <2>5. QED
      BY <2>3, <2>4
  <1>5. CASE Base(d[1])
    <2>1. ClassNameByFieldDescriptor(d) = <<PrimitiveName[d[1]]>>
      BY <1>5 DEF ClassNameByFieldDescriptor, Base, BaseTypes
    <2>2. QED
      BY <1>5, <2>1 DEF Base, BaseTypes, PrimitiveName, SlotTypeOfDescriptor, SlotTypeOfClass
  <1>6. CASE 2 < Len(d) /\ d[1] = "L" /\ (3 = Len(d) => Unreserved(d[2]))
    <2> DEFINE name == SubSeq(d, 2, Len(d) - 1)
    <2>1. Len(name) = Len(d) - 2 /\ name[1] = d[2]
      BY <1>1, <1>6
    <2> HIDE DEF name
    <2>2. ASSUME NEW w \in PrimitiveTypes PROVE name # <<w>>
      <3>1. name = <<w>> => Len(name) = 1 /\ name[1] = w
        OBVIOUS
      <3>2. Len(name) = 1 => 3 = Len(d)
        <4> DEFINE n == Len(d)
                   m == Len(name)
        <4>1. n \in Nat /\ m = n - 2
          BY <1>1, <2>1, Zenon
        <4> HIDE DEF n, m
        <4>2. m = 1 => 3 = n
          BY <4>1
        <4>3. QED
          BY <4>2 DEF n, m
      <3>3. Len(name) = 1 => Unreserved(d[2])
        BY <1>6, <3>2, Zenon
      <3>4. QED
        BY <2>1, <3>1, <3>3, Zenon DEF Unreserved
    <2>3. ClassNameByFieldDescriptor(d) = name /\ SlotTypeOfDescriptor(d[1]) = "REF"
      BY <1>6 DEF ClassNameByFieldDescriptor, SlotTypeOfDescriptor, name
    <2>4. QED
      BY <1>3, <2>2, <2>3
  <1>7. CASE e = 1
    BY <1>1, <1>2, <1>5, <1>6, <1>7
  <1>8. QED
    BY <1>4, <1>7

-----------------------------------------------------------------------------
(* The library *)

\* Super and SuperClasses of ClassBuild, for any library.
SuperIn(lib, k) == IF k.superClass \in DOMAIN lib THEN <<lib[k.superClass]>> ELSE <<>>
ChainIn(lib, f, k) ==
    LET super == SuperIn(lib, k)
    IN super \o (IF super = <<>> THEN <<>> ELSE f[super[1].name])
IsAbove(lib, f) == f = [n \in DOMAIN lib |-> ChainIn(lib, f, lib[n])]
FieldsOf(ks) == FlattenSeq([i \in DOMAIN ks |-> ks[i].fields])

\* The slots of a class and of the classes above it.
Housed(k, ks) ==
    LET fs == k.fields \o FieldsOf(ks) IN
    /\ IsSeq(k.fields) /\ IsSeq(k.instanceDataType)
    /\ k.instanceSlotCount = Len(k.instanceDataType)
    /\ OneToOne(fs, FALSE, k.instanceDataType)
    /\ \A i \in DOMAIN fs : TypeKnown(fs[i])

\* There is one way to tell the classes above each class of the library, and
\* each class goes on where those have stopped.
ShelvedBy(lib, f) ==
    /\ IsAbove(lib, f) /\ \A g : IsAbove(lib, g) => g = f
    /\ \A n \in DOMAIN lib : /\ lib[n].name = n
                            /\ f[n] \in Seq({lib[m] : m \in DOMAIN lib})
                            /\ Housed(lib[n], f[n])

\* The fields of classes, joined.
LEMMA FieldsJoined ==
  ASSUME NEW K, NEW U, \A k \in K : k.fields \in Seq(U), NEW ks \in Seq(K)
  PROVE  /\ FieldsOf(<<>>) = <<>> /\ FieldsOf(ks) \in Seq(U)
         /\ \A k \in K : FieldsOf(<<k>> \o ks) = k.fields \o FieldsOf(ks)
  <1> DEFINE n == Len(ks)
             s == [i \in DOMAIN ks |-> ks[i].fields]
  <1>1. n \in Nat /\ DOMAIN ks = 1 .. n /\ \A i \in 1 .. n : ks[i] \in K
    BY SeqHas
  <1>2. s = [i \in 1 .. n |-> s[i]] /\ \A i \in 1 .. n : s[i] = ks[i].fields /\ s[i] \in Seq(U)
    BY <1>1
  <1> HIDE DEF s, n
  <1>3. s \in Seq(Seq(U)) /\ Len(s) = n /\ DOMAIN s = 1 .. n
    BY <1>1, <1>2, SeqIs
  <1>4. FieldsOf(ks) = FlattenSeq(s)
    BY DEF FieldsOf, s
  <1>5. FlattenSeq(s) \in Seq(U)
    BY <1>3, FlattenType
  <1>6. FieldsOf(<<>>) = <<>>
    <2>1. [i \in DOMAIN <<>> |-> <<>>[i].fields] = <<>>
      OBVIOUS
    <2>2. QED
      BY <2>1, FlattenEmpty DEF FieldsOf
  <1>7. ASSUME NEW k \in K PROVE FieldsOf(<<k>> \o ks) = k.fields \o FieldsOf(ks)
    <2> DEFINE js == <<k>> \o ks
               t == [i \in DOMAIN js |-> js[i].fields]
    <2>1. /\ js \in Seq(K) /\ Len(js) = n + 1 /\ js[1] = k
          /\ \A i \in 1 .. n : js[i + 1] = ks[i]
      <3>1. <<k>> \in Seq(K) /\ Len(<<k>>) = 1
        OBVIOUS
      <3>2. js \in Seq(K) /\ Len(js) = Len(<<k>>) + Len(ks)
        BY <3>1, ConcatProperties
      <3>3. Len(ks) = n
        BY DEF n
      <3>4. js[1] = k /\ \A i \in 1 .. n : js[i + 1] = ks[i]
        BY <1>1, <3>3
      <3>5. QED
        BY <1>1, <3>1, <3>2, <3>3, <3>4
    <2>2. DOMAIN js = 1 .. n + 1 /\ \A i \in 1 .. n + 1 : js[i] \in K
      BY <2>1, SeqHas
    <2> HIDE DEF js
    <2>3. /\ t = [i \in 1 .. n + 1 |-> t[i]]
          /\ \A i \in 1 .. n + 1 : t[i] = js[i].fields /\ t[i] \in Seq(U)
      BY <2>2
    <2> HIDE DEF t
    <2>4. t \in Seq(Seq(U)) /\ Len(t) = n + 1
      BY <1>1, <2>3, SeqIs
    <2>5. t # <<>> /\ t[1] = k.fields
      <3>1. 1 \in 1 .. n + 1
        BY <1>1
      <3>2. QED
        BY <1>1, <2>1, <2>3, <2>4, <3>1
    <2>6. Tail(t) = s
      <3>1. Tail(t) \in Seq(Seq(U)) /\ Len(Tail(t)) = n /\ \A i \in 1 .. n : Tail(t)[i] = t[i + 1]
        BY <1>1, <2>4, <2>5, TailIs
      <3>2. \A i \in 1 .. n : t[i + 1] = s[i]
        <4>1. \A i \in 1 .. n : i + 1 \in 1 .. n + 1
          BY <1>1
        <4>2. QED
          BY <1>2, <2>1, <2>3, <4>1
      <3> DEFINE u == Tail(t)
      <3> HIDE DEF u
      <3>3. u \in Seq(Seq(U)) /\ Len(u) = Len(s) /\ \A i \in 1 .. Len(u) : u[i] = s[i]
        BY <1>3, <3>1, <3>2 DEF u
      <3>4. u = s
        BY <1>3, <3>3, SeqEqual
      <3>5. QED
        BY <3>4 DEF u
    <2>7. FlattenSeq(t) = t[1] \o FlattenSeq(Tail(t))
      BY <2>4, <2>5, FlattenHead
    <2>8. FieldsOf(js) = FlattenSeq(t)
      BY DEF FieldsOf, t
    <2>9. QED
      BY <1>4, <2>5, <2>6, <2>7, <2>8 DEF js
  <1>8. QED
    BY <1>4, <1>5, <1>6, <1>7

\* A class that is not in the library yet, under the classes above it.
LEMMA ChainIs ==
  ASSUME NEW lib, NEW f, ShelvedBy(lib, f), NEW k
  PROVE  LET ks == ChainIn(lib, f, k)
             s == lib[k.superClass]
         IN /\ ks \in Seq({lib[m] : m \in DOMAIN lib})
            /\ k.superClass \notin DOMAIN lib => SuperIn(lib, k) = <<>> /\ ks = <<>>
            /\ k.superClass \in DOMAIN lib =>
                   SuperIn(lib, k) = <<s>> /\ ks = <<s>> \o f[k.superClass]
  <1> DEFINE K == {lib[m] : m \in DOMAIN lib}
             ks == ChainIn(lib, f, k)
             s == lib[k.superClass]
  <1>1. CASE k.superClass \notin DOMAIN lib
    <2>1. SuperIn(lib, k) = <<>>
      BY <1>1 DEF SuperIn
    <2>2. ks = <<>> \o <<>>
      BY <2>1 DEF ChainIn
    <2>3. QED
      BY <1>1, <2>1, <2>2
  <1>2. CASE k.superClass \in DOMAIN lib
    <2>1. SuperIn(lib, k) = <<s>>
      BY <1>2 DEF SuperIn
    <2>2. s.name = k.superClass /\ f[k.superClass] \in Seq(K) /\ s \in K
      BY <1>2 DEF ShelvedBy
    <2> HIDE DEF s, K
    <2>3. <<s>> # <<>> /\ <<s>>[1] = s /\ <<s>> \in Seq(K)
      BY <2>2
    <2>4. ks = <<s>> \o f[s.name]
      BY <2>1, <2>3, Zenon DEF ChainIn
    <2>5. ks \in Seq(K)
      BY <2>2, <2>3, <2>4, ConcatProperties
    <2>6. QED
      BY <1>2, <2>1, <2>2, <2>4, <2>5 DEF s, K
  <1>3. QED
    BY <1>1, <1>2

\* A library with the class k; k is new in it, and the superclass of none.
Adding(lib, k) == [n \in DOMAIN lib \cup {k.name} |-> IF n = k.name THEN k ELSE lib[n]]
NotAbove(lib, k) == /\ k.name \notin DOMAIN lib /\ k.superClass # k.name
                    /\ \A n \in DOMAIN lib : lib[n].superClass # k.name

\* A library with a class more is told in one way again.
LEMMA ShelvedMore ==
  ASSUME NEW lib, NEW f, ShelvedBy(lib, f), NEW k, NotAbove(lib, k),
         Housed(k, ChainIn(lib, f, k))
  PROVE  \E g : ShelvedBy(Adding(lib, k), g)
  <1> DEFINE more == Adding(lib, k)
             N == DOMAIN lib
             name == k.name
             ks == ChainIn(lib, f, k)
             K == {lib[m] : m \in N}
             g == [n \in N \cup {name} |-> IF n = name THEN ks ELSE f[n]]
             Old(h) == [n \in N |-> h[n]]
  <1>1. /\ DOMAIN more = N \cup {name} /\ more[name] = k
        /\ \A n \in N : n # name /\ more[n] = lib[n] /\ lib[n].superClass # name
        /\ k.superClass # name
    BY DEF NotAbove, Adding
  <1> HIDE DEF more
  <1>2. f = [n \in N |-> ChainIn(lib, f, lib[n])] /\ \A h : IsAbove(lib, h) => h = f
    BY DEF ShelvedBy, IsAbove
  <1>3. \A n \in N : lib[n].name = n /\ f[n] \in Seq(K) /\ Housed(lib[n], f[n])
    BY Zenon DEF ShelvedBy
  <1>4. ks \in Seq(K)
    BY ChainIs
  <1> HIDE DEF ks
  <1>5. /\ DOMAIN g = N \cup {name} /\ g[name] = ks /\ \A n \in N : g[n] = f[n]
        /\ g = [n \in N \cup {name} |-> g[n]]
    BY <1>1
  \* Of the new class, nothing that is above an old one depends.
  <1>6. ASSUME NEW h, NEW c, c.superClass # name
        PROVE  ChainIn(more, h, c) = ChainIn(lib, Old(h), c)
    <2>1. CASE c.superClass \in N
      <3>1. SuperIn(more, c) = <<lib[c.superClass]>> /\ SuperIn(lib, c) = <<lib[c.superClass]>>
        BY <1>1, <2>1 DEF SuperIn
      <3>2. lib[c.superClass].name = c.superClass
        BY <1>3, <2>1
      <3>3. Old(h)[c.superClass] = h[c.superClass]
        BY <2>1
      <3> DEFINE s == lib[c.superClass]
      <3>4. <<s>> # <<>> /\ <<s>>[1] = s
        OBVIOUS
      <3> HIDE DEF s
      <3>5. QED
        BY <3>1, <3>2, <3>3, <3>4 DEF ChainIn, s
    <2>2. CASE c.superClass \notin N
      <3>1. SuperIn(more, c) = <<>> /\ SuperIn(lib, c) = <<>>
        BY <1>1, <1>6, <2>2 DEF SuperIn
      <3>2. QED
        BY <3>1 DEF ChainIn
    <2>3. QED
      BY <2>1, <2>2
  <1>7. Old(g) = f
    BY <1>2, <1>5
  <1> HIDE DEF g
  <1>8. IsAbove(more, g)
    <2>1. ASSUME NEW n \in N \cup {name} PROVE g[n] = ChainIn(more, g, more[n])
      <3>1. CASE n = name
        <4>1. ChainIn(more, g, k) = ChainIn(lib, Old(g), k)
          BY <1>1, <1>6
        <4>2. ChainIn(more, g, k) = ks
          BY <1>7, <4>1 DEF ks
        <4>3. QED
          BY <1>1, <1>5, <3>1, <4>2
      <3>2. CASE n \in N
        <4>1. ChainIn(more, g, more[n]) = ChainIn(lib, f, lib[n])
          BY <1>1, <1>6, <1>7, <3>2
        <4>2. f[n] = ChainIn(lib, f, lib[n])
          BY <1>2, <3>2
        <4>3. QED
          BY <1>5, <3>2, <4>1, <4>2
      <3>3. QED
        BY <3>1, <3>2
    <2>2. g = [n \in DOMAIN more |-> ChainIn(more, g, more[n])]
      BY <1>1, <1>5, <2>1, Zenon
    <2>3. QED
      BY <2>2 DEF IsAbove
  <1>9. ASSUME NEW h, IsAbove(more, h) PROVE h = g
    <2>1. h = [n \in N \cup {name} |-> ChainIn(more, h, more[n])]
      BY <1>1, <1>9 DEF IsAbove
    <2>2. \A n \in N : h[n] = ChainIn(lib, Old(h), lib[n])
      <3>1. ASSUME NEW n \in N PROVE h[n] = ChainIn(lib, Old(h), lib[n])
        <4>1. h[n] = ChainIn(more, h, lib[n])
          BY <1>1, <2>1
        <4>2. ChainIn(more, h, lib[n]) = ChainIn(lib, Old(h), lib[n])
          BY <1>1, <1>6
        <4>3. QED
          BY <4>1, <4>2
      <3>2. QED
        BY <3>1
    <2>3. h[name] = ChainIn(lib, Old(h), k)
      <3>1. h[name] = ChainIn(more, h, k)
        BY <1>1, <2>1
      <3>2. ChainIn(more, h, k) = ChainIn(lib, Old(h), k)
        BY <1>1, <1>6
      <3>3. QED
        BY <3>1, <3>2
    <2>4. Old(h) = [n \in N |-> ChainIn(lib, Old(h), lib[n])]
      BY <2>2, Zenon
    <2>5. Old(h) = f
      BY <1>2, <2>4 DEF IsAbove
    <2>6. h[name] = ks /\ \A n \in N : h[n] = f[n]
      <3>1. h[name] = ks
        BY <2>3, <2>5 DEF ks
      <3>2. \A n \in N : Old(h)[n] = h[n]
        OBVIOUS
      <3>3. QED
        BY <2>5, <3>1, <3>2
    <2>7. h = [n \in N \cup {name} |-> h[n]]
      BY <2>1
    <2>8. \A n \in N \cup {name} : h[n] = g[n]
      BY <1>5, <2>6
    <2>9. QED
      BY <1>5, <2>7, <2>8, Zenon
  <1>10. ASSUME NEW n \in N \cup {name}
         PROVE  /\ more[n].name = n /\ g[n] \in Seq({more[m] : m \in N \cup {name}})
                /\ Housed(more[n], g[n])
    <2>1. K \subseteq {more[m] : m \in N \cup {name}}
      BY <1>1
    <2>2. g[n] \in Seq(K)
      BY <1>3, <1>4, <1>5
    <2>3. g[n] \in Seq({more[m] : m \in N \cup {name}})
      <3> DEFINE M == {more[m] : m \in N \cup {name}}
      <3> HIDE DEF M, K
      <3>1. K \subseteq M
        BY <2>1 DEF M
      <3>2. g[n] \in Seq(M)
        BY <2>2, <3>1
      <3>3. QED
        BY <3>2 DEF M
    <2>4. Housed(more[n], g[n])
      <3>1. CASE n = name
        BY <1>1, <1>5, <3>1 DEF ks
      <3>2. CASE n \in N
        BY <1>1, <1>3, <1>5, <3>2
      <3>3. QED
        BY <3>1, <3>2
    <2>5. more[n].name = n
      BY <1>1, <1>3
    <2>6. QED
      BY <2>3, <2>4, <2>5
  <1>11. ShelvedBy(more, g)
    BY <1>1, <1>8, <1>9, <1>10 DEF ShelvedBy
  <1>12. QED
    BY <1>11 DEF more

\* Slots that are told one to one fill the table.
LEMMA OneToOneFills ==
  ASSUME NEW fs, NEW static, NEW types, OneToOne(fs, static, types), IsSeq(types)
  PROVE  Fills(fs, Own(fs, static), 0 .. Len(types) - 1)
  <1> DEFINE own == Own(fs, static)
             n == Len(types)
  <1>1. n \in Nat /\ DOMAIN types = 1 .. n
    BY DEF IsSeq
  <1>2. /\ \A i, k \in own : fs[i].slot = fs[k].slot => i = k
        /\ \A i \in own : fs[i].slot \in 0 .. n - 1
        /\ \A s \in DOMAIN types : \E i \in own : fs[i].slot = s - 1
    BY Zenon DEF OneToOne, Own
  <1>3. ASSUME NEW s \in 0 .. n - 1 PROVE \E i \in own : fs[i].slot = s
    <2>1. s + 1 \in DOMAIN types /\ (s + 1) - 1 = s
      BY <1>1
    <2>2. PICK i \in own : fs[i].slot = (s + 1) - 1
      BY <1>2, <2>1
    <2>3. QED
      BY <2>1, <2>2
  <1>4. QED
    BY <1>2, <1>3 DEF Fills

\* What calcFieldSlotId makes of a class whose superclasses are in the library.
LEMMA SlotsHoused ==
  ASSUME NEW f, ShelvedBy(library, f), NEW k, NEW n \in Nat, DOMAIN k.fields = 1 .. n,
         \A i \in 1 .. n : /\ DOMAIN k.fields[i] = FieldNames
                           /\ k.fields[i].descriptor \in Seq(STRING)
                           /\ IsFieldDescriptor(k.fields[i].descriptor)
  PROVE  LET fs == Slotted(k)
             all == fs \o FieldsOf(ChainIn(library, f, k))
             N == FirstSlot(k) + Count(fs, FALSE)
             types == TypeTable(N, all, FALSE)
         IN /\ IsSeq(fs) /\ IsSeq(types) /\ N = Len(types)
            /\ OneToOne(all, FALSE, types) /\ \A i \in DOMAIN all : TypeKnown(all[i])
            /\ OneToOne(fs, TRUE, TypeTable(Count(fs, TRUE), fs, TRUE))
            /\ k.superClass \in DOMAIN library =>
                   IsPrefix(library[k.superClass].instanceDataType, types)
  <1> DEFINE fs == Slotted(k)
             ks == ChainIn(library, f, k)
             up == FieldsOf(ks)
             all == fs \o up
             b == FirstSlot(k)
             c == Count(fs, FALSE)
             types == TypeTable(b + c, all, FALSE)
             own == Own(up, FALSE)
             Held(s) == {s.fields[i] : i \in DOMAIN s.fields}
             K == {library[m] : m \in DOMAIN library}
             V == {fs[i] : i \in 1 .. n}
             W == UNION {Held(s) : s \in K}
             U == W \cup V
             super == library[k.superClass]
  <1>1. \A s \in K : s.fields \in Seq(U)
    <2>1. ASSUME NEW s \in K PROVE s.fields \in Seq(U)
      <3>1. IsSeq(s.fields)
        BY DEF ShelvedBy, Housed
      <3> DEFINE x == s.fields
      <3>2. \A i \in DOMAIN x : x[i] \in U
        <4>1. \A i \in DOMAIN x : x[i] \in Held(s)
          OBVIOUS
        <4>2. Held(s) \in {Held(t) : t \in K}
          BY Zenon
        <4> HIDE DEF x, Held, K
        <4>3. QED
          BY <4>1, <4>2
      <3> HIDE DEF x, U
      <3>3. Len(x) \in Nat /\ x = [i \in 1 .. Len(x) |-> x[i]]
        BY <3>1 DEF IsSeq, x
      <3>4. \A i \in 1 .. Len(x) : x[i] \in U
        BY <3>2, <3>3
      <3>5. QED
        BY <3>3, <3>4, SeqIs DEF x
    <2>2. QED
      BY <2>1
  <1>2. /\ ks \in Seq(K)
        /\ k.superClass \notin DOMAIN library => SuperIn(library, k) = <<>> /\ ks = <<>>
        /\ k.superClass \in DOMAIN library =>
               SuperIn(library, k) = <<super>> /\ ks = <<super>> \o f[k.superClass]
    BY ChainIs
  <1>3. up \in Seq(U)
    <2> HIDE DEF K, U, ks
    <2>1. QED
      BY <1>1, <1>2, FieldsJoined
  <1>4. k.superClass \in DOMAIN library =>
            /\ OneToOne(up, FALSE, super.instanceDataType) /\ IsSeq(super.instanceDataType)
            /\ \A i \in DOMAIN up : TypeKnown(up[i])
            /\ b = Len(super.instanceDataType)
    <2> SUFFICES ASSUME k.superClass \in DOMAIN library
                 PROVE  /\ OneToOne(up, FALSE, super.instanceDataType)
                        /\ IsSeq(super.instanceDataType)
                        /\ \A i \in DOMAIN up : TypeKnown(up[i])
                        /\ b = Len(super.instanceDataType)
      BY Zenon
    <2>1. f[k.superClass] \in Seq(K) /\ Housed(super, f[k.superClass])
      BY Zenon DEF ShelvedBy
    <2>2. super \in K
      OBVIOUS
    <2>3. up = super.fields \o FieldsOf(f[k.superClass])
      <3> HIDE DEF K, U
      <3>1. FieldsOf(<<super>> \o f[k.superClass]) = super.fields \o FieldsOf(f[k.superClass])
        BY <1>1, <2>1, <2>2, FieldsJoined
      <3>2. QED
        BY <1>2, <3>1
    <2>4. b = super.instanceSlotCount
      <3> HIDE DEF super
      <3>1. Super(k) = <<super>>
        BY <1>2 DEF Super, SuperIn
      <3>2. <<super>> # <<>> /\ <<super>>[1] = super
        OBVIOUS
      <3>3. QED
        BY <3>1, <3>2 DEF FirstSlot
    <2> HIDE DEF up, b, super
    <2>5. QED
      BY <2>1, <2>3, <2>4, Zenon DEF Housed
  <1>5. k.superClass \notin DOMAIN library => up = <<>> /\ b = 0
    <2> SUFFICES ASSUME k.superClass \notin DOMAIN library PROVE up = <<>> /\ b = 0
      OBVIOUS
    <2>1. ks = <<>> /\ Super(k) = <<>>
      BY <1>2 DEF Super, SuperIn
    <2>2. FieldsOf(<<>>) = <<>>
      <3> HIDE DEF K, U, ks
      <3>1. QED
        BY <1>1, <1>2, FieldsJoined
    <2>3. QED
      BY <2>1, <2>2 DEF FirstSlot
  <1>6. b \in Nat /\ Fills(up, own, 0 .. b - 1) /\ \A i \in DOMAIN up : TypeKnown(up[i])
    <2>1. CASE k.superClass \in DOMAIN library
      <3> DEFINE t == super.instanceDataType
      <3> HIDE DEF up, b, super, t
      <3>1. OneToOne(up, FALSE, t) /\ IsSeq(t) /\ b = Len(t)
        BY <1>4, <2>1 DEF t
      <3>2. Fills(up, own, 0 .. Len(t) - 1)
        BY <3>1, OneToOneFills
      <3>3. QED
        BY <1>4, <2>1, <3>1, <3>2 DEF IsSeq
    <2>2. CASE k.superClass \notin DOMAIN library
      <3> HIDE DEF up, b
      <3>1. b = 0 /\ DOMAIN up = {}
        BY <1>5, <2>2
      <3>2. own = {} /\ 0 .. b - 1 = {}
        BY <3>1 DEF Own
      <3> HIDE DEF own
      <3>3. QED
        BY <3>1, <3>2 DEF Fills
    <2>3. QED
      BY <2>1, <2>2
  <1>7. /\ DOMAIN fs = 1 .. n /\ c \in Nat /\ Count(fs, TRUE) \in Nat
        /\ Fills(fs, Own(fs, FALSE), b .. b + c - 1)
        /\ Fills(fs, Own(fs, TRUE), 0 .. Count(fs, TRUE) - 1)
    <2> HIDE DEF b
    <2>1. /\ DOMAIN fs = 1 .. n /\ c \in Nat
          /\ Fills(fs, Own(fs, FALSE), b .. b + c - 1)
      BY <1>6, SlottedFills DEF b
    <2>2. /\ Count(fs, TRUE) \in Nat
          /\ Fills(fs, Own(fs, TRUE), 0 .. 0 + Count(fs, TRUE) - 1)
      BY SlottedFills
    <2> DEFINE count == Count(fs, TRUE)
    <2>3. count \in Nat
      BY <2>2
    <2> HIDE DEF count
    <2>4. 0 + count - 1 = count - 1
      BY <2>3
    <2>5. Fills(fs, Own(fs, TRUE), 0 .. count - 1)
      BY <2>2, <2>4 DEF count
    <2>6. QED
      BY <2>1, <2>2, <2>5 DEF count
  <1>8. \A i \in 1 .. n : TypeKnown(fs[i])
    <2>1. ASSUME NEW i \in 1 .. n PROVE TypeKnown(fs[i])
      <3> DEFINE d == k.fields[i].descriptor
      <3>1. fs[i].descriptor = d /\ fs[i].slotType = SlotTypeOfDescriptor(d[1])
        BY SlottedIs
      <3>2. SlotTypeOfDescriptor(d[1]) = SlotTypeOfClass(ClassNameByFieldDescriptor(d))
        BY FieldTypes
      <3>3. QED
        BY <3>1, <3>2 DEF TypeKnown
    <2>2. QED
      BY <2>1
  <1>9. fs \in Seq(U) /\ Len(fs) = n /\ IsSeq(fs)
    <2> DEFINE G(i) == [k.fields[i] EXCEPT
                           !.slot = Rank(k.fields, i) + IF IsStatic(k.fields[i]) THEN 0 ELSE b,
                           !.slotType = SlotTypeOfDescriptor(k.fields[i].descriptor[1])]
    <2>0. fs = [i \in DOMAIN k.fields |-> G(i)]
      BY Zenon DEF Slotted
    <2> HIDE DEF fs, G
    <2>1. fs = [i \in 1 .. n |-> fs[i]]
      BY <2>0
    <2>2. \A i \in 1 .. n : fs[i] \in U
      <3>1. \A i \in 1 .. n : fs[i] \in V
        OBVIOUS
      <3> HIDE DEF V, W
      <3>2. QED
        BY <3>1
    <2> HIDE DEF U
    <2>3. fs \in Seq(U) /\ Len(fs) = n
      BY <2>1, <2>2, SeqIs
    <2>4. QED
      BY <2>1, <2>3 DEF IsSeq
  <1> HIDE DEF fs, up, b, c, U, K
  <1>10. /\ DOMAIN all \subseteq Nat /\ Fills(all, Own(all, FALSE), 0 .. b + c - 1)
         /\ \A i \in DOMAIN all : (\E j \in DOMAIN fs : all[i] = fs[j])
                                  \/ (\E j \in DOMAIN up : all[i] = up[j])
         /\ \A j \in own : \E i \in Own(all, FALSE) : all[i] = up[j]
    <2>1. BothTables(fs, up, all)
      BY <1>3, <1>9, JoinedIs
    <2> HIDE DEF all
    <2>2. b \in Nat /\ c \in Nat /\ Fills(up, Own(up, FALSE), 0 .. b - 1)
          /\ Fills(fs, Own(fs, FALSE), b .. b + c - 1)
      BY <1>6, <1>7
    <2>3. DOMAIN all \subseteq Nat
      BY <2>1, <2>2, JoinedFills
    <2>4. Fills(all, Own(all, FALSE), 0 .. b + c - 1)
      BY <2>1, <2>2, JoinedFills
    <2>5. OfBoth(fs, up, all)
      BY <2>1, <2>2, JoinedFills
    <2>6. QED
      BY <2>3, <2>4, <2>5, Zenon DEF OfBoth
  <1> HIDE DEF all
  <1>11. \A i \in DOMAIN all : TypeKnown(all[i])
    BY <1>6, <1>7, <1>8, <1>10, Zenon
  <1>12. OneToOne(all, FALSE, types) /\ Len(types) = b + c /\ IsSeq(types)
    <2>1. b + c \in Nat /\ DOMAIN all \subseteq Nat
      BY <1>6, <1>7, <1>10
    <2> DEFINE m == b + c
    <2>0. m - 1 = b + c - 1
      BY <1>6, <1>7
    <2>2. m \in Nat /\ Fills(all, Own(all, FALSE), 0 .. m - 1)
      BY <1>10, <2>0, <2>1
    <2> HIDE DEF m
    <2>3. LET t == TypeTable(m, all, FALSE)
          IN OneToOne(all, FALSE, t) /\ Len(t) = m /\ IsSeq(t)
      BY <1>11, <2>1, <2>2, TableIs
    <2>4. QED
      BY <2>3 DEF m
  <1>13. OneToOne(fs, TRUE, TypeTable(Count(fs, TRUE), fs, TRUE))
    <2>1. DOMAIN fs \subseteq Nat
      BY <1>7
    <2>2. QED
      BY <1>7, <1>8, <2>1, TableIs
  <1> HIDE DEF types
  <1>14. ASSUME k.superClass \in DOMAIN library
         PROVE  IsPrefix(super.instanceDataType, types)
    <2> DEFINE t == super.instanceDataType
    <2>1. OneToOne(up, FALSE, t) /\ IsSeq(t) /\ Len(t) = b
      BY <1>4, <1>14
    <2> HIDE DEF t
    <2>2. Len(t) <= Len(types) /\ DOMAIN t = 1 .. b
      BY <1>6, <1>7, <1>12, <2>1 DEF IsSeq
    <2>3. \A s \in 1 .. Len(t) : t[s] = types[s]
      <3> SUFFICES ASSUME NEW s \in 1 .. b PROVE t[s] = types[s]
        BY <2>1
      <3> DEFINE T(x) == SlotTypeOfClass(ClassNameByFieldDescriptor(x.descriptor))
      <3>1. PICK j \in own : up[j].slot = s - 1
        BY <2>1, <2>2, Zenon DEF OneToOne, Own
      <3>2. t[up[j].slot + 1] = T(up[j])
        BY <2>1, Zenon DEF OneToOne, Own
      <3>3. PICK i \in Own(all, FALSE) : all[i] = up[j]
        BY <1>10
      <3>4. types[all[i].slot + 1] = T(all[i])
        BY <1>12, Zenon DEF OneToOne, Own
      <3>5. up[j].slot + 1 = s
        BY <3>1
      <3>6. QED
        BY <3>2, <3>3, <3>4, <3>5
    <2>4. QED
      BY <1>12, <2>1, <2>2, <2>3, PrefixIs DEF t
  <1>15. QED
    BY <1>9, <1>11, <1>12, <1>13, <1>14 DEF all, types, fs, up, b, c

\* SuperClasses, for any library.
AboveIn(lib, k) ==
    LET above[n \in DOMAIN lib] ==
            LET super == SuperIn(lib, lib[n])
            IN super \o (IF super = <<>> THEN <<>> ELSE above[super[1].name])
    IN SuperIn(lib, k)
       \o (IF SuperIn(lib, k) = <<>> THEN <<>> ELSE above[SuperIn(lib, k)[1].name])

\* It follows the one way there is.
LEMMA AboveIs ==
  ASSUME NEW lib, NEW f, ShelvedBy(lib, f), NEW k
  PROVE  AboveIn(lib, k) = ChainIn(lib, f, k)
  <1> DEFINE above == CHOOSE g : g = [n \in DOMAIN lib |->
                          LET super == SuperIn(lib, lib[n])
                          IN super \o (IF super = <<>> THEN <<>> ELSE g[super[1].name])]
  <1>1. \E g : g = [n \in DOMAIN lib |->
                         LET super == SuperIn(lib, lib[n])
                         IN super \o (IF super = <<>> THEN <<>> ELSE g[super[1].name])]
    BY Zenon DEF ShelvedBy, IsAbove, ChainIn
  <1>2. above = [n \in DOMAIN lib |->
                     LET super == SuperIn(lib, lib[n])
                     IN super \o (IF super = <<>> THEN <<>> ELSE above[super[1].name])]
    BY <1>1, Zenon
  <1>3. AboveIn(lib, k) = SuperIn(lib, k) \o (IF SuperIn(lib, k) = <<>> THEN <<>>
                                               ELSE above[SuperIn(lib, k)[1].name])
    BY Zenon DEF AboveIn
  <1> HIDE DEF above
  <1>4. IsAbove(lib, above)
    BY <1>2, Zenon DEF IsAbove, ChainIn
  <1>5. above = f
    BY <1>4, Zenon DEF ShelvedBy
  <1>6. QED
    BY <1>3, <1>5, Zenon DEF ChainIn

\* So it is before and after a step.
LEMMA InheritedIs ==
  /\ Inherited(klass) = FieldsOf(AboveIn(library, klass))
  /\ Inherited(klass)' = FieldsOf(AboveIn(library', klass'))
  BY Zenon DEF Inherited, FieldsOf, SuperClasses, AboveIn, Super, SuperIn

-----------------------------------------------------------------------------
(* The slots of every class *)

ThisOf(f) == NameIn(f, f.this)
SuperOf(f) == NameIn(f, f.super)

\* The library has the classes of the first n files.
Listed(files, n, lib) ==
    /\ DOMAIN lib = {ThisOf(files[j]) : j \in 1 .. n}
    /\ \A j \in 1 .. n : lib[ThisOf(files[j])].superClass \in {<<>>, SuperOf(files[j])}

\* The classes in the library have got their slots, and a class that is built
\* has got its own.
Shelved ==
    /\ \E f : ShelvedBy(library, f)
    /\ Listed(FilesOf(program), at - 1, library)
    /\ phase = "built" =>
           /\ SlotsAreDistinct
           /\ \A f : ShelvedBy(library, f) => Housed(klass, ChainIn(library, f, klass))

\* The library is empty to begin with.
LEMMA InitShelved == Init => Shelved
  <1> SUFFICES ASSUME Init PROVE Shelved
    OBVIOUS
  <1>1. DOMAIN library = {} /\ at = 1 /\ phase = "header"
    BY DEF Init, Begins
  <1> DEFINE f == [n \in DOMAIN library |-> <<>>]
  <1>2. ShelvedBy(library, f)
    <2>1. \A g : IsAbove(library, g) <=> g = f
      <3>1. \A g : IsAbove(library, g) <=> g = [n \in {} |-> ChainIn(library, g, library[n])]
        BY <1>1 DEF IsAbove
      <3>2. \A g : [n \in {} |-> ChainIn(library, g, library[n])] = f
        BY <1>1
      <3>3. QED
        BY <3>1, <3>2
    <2> HIDE DEF f
    <2>2. QED
      BY <1>1, <2>1 DEF ShelvedBy
  <1>3. Listed(FilesOf(program), at - 1, library)
    BY <1>1 DEF Listed
  <1>4. QED
    BY <1>1, <1>2, <1>3, Zenon DEF Shelved

\* A text of the file is a sequence of tokens.
LEMMA TextTyped ==
  ASSUME NEW f, f.pool \in Seq(Constants), NEW t, IsText(f.pool, t)
  PROVE  TextIn(f, t) \in Seq(STRING)
  <1>1. t \in 1 .. Len(f.pool) /\ Len(f.pool) \in Nat /\ f.pool[t] \in Constants
    BY SeqHas DEF IsText
  <1>2. TextIn(f, t) = f.pool[t].bytes
    BY <1>1 DEF TextIn
  <1>3. QED
    BY <1>1, <1>2 DEF Constants

\* The fields of a class have the descriptors of the file.
LEMMA FieldsTyped ==
  ASSUME NEW f, IsFile(f), NEW fs, FieldsSay(f, fs)
  PROVE  LET n == Len(f.fields)
         IN /\ n \in Nat /\ DOMAIN fs = 1 .. n
            /\ \A i \in 1 .. n : /\ DOMAIN fs[i] = FieldNames
                                 /\ fs[i].descriptor \in Seq(STRING)
                                 /\ IsFieldDescriptor(fs[i].descriptor)
  <1> DEFINE n == Len(f.fields)
  <1>1. /\ n \in Nat /\ DOMAIN f.fields = 1 .. n /\ DOMAIN fs = 1 .. n
        /\ \A k \in 1 .. n : /\ DOMAIN fs[k] = FieldNames
                             /\ \E i \in 1 .. n : SaysOf(f, f.fields[i], fs[k])
    BY DEF FieldsSay
  <1>2. ASSUME NEW i \in 1 .. n
        PROVE  LET d == TextIn(f, f.fields[i].fixed[3])
               IN d \in Seq(STRING) /\ IsFieldDescriptor(d)
    <2> DEFINE t == f.fields[i].fixed[3]
    <2>1. IsText(f.pool, t) /\ f.pool \in Seq(Constants) /\ IsFieldDescriptor(TextIn(f, t))
      BY <1>1 DEF IsFile, AreMembers
    <2> HIDE DEF t
    <2>2. QED
      BY <2>1, TextTyped DEF t
  <1>3. ASSUME NEW k \in 1 .. n
        PROVE  fs[k].descriptor \in Seq(STRING) /\ IsFieldDescriptor(fs[k].descriptor)
    <2>1. PICK i \in 1 .. n : SaysOf(f, f.fields[i], fs[k])
      BY <1>1
    <2>2. fs[k].descriptor = TextIn(f, f.fields[i].fixed[3])
      BY <2>1 DEF SaysOf
    <2>3. QED
      BY <1>2, <2>2
  <1>4. QED
    BY <1>1, <1>3

\* calcFieldSlotId gives every field a slot of its own.
LEMMA CalcSlotsShelves ==
  ASSUME NEW file, IsFile(file), Building(file), Shelved, CalcFieldSlotId
  PROVE  Shelved'
  <1>1. phase = "slotsStep"
    BY DEF CalcFieldSlotId
  <1>2. DOMAIN klass = ClassNames /\ FieldsSay(file, klass.fields)
    BY <1>1 DEF Building, Moved
  <1> DEFINE fs == Slotted(klass)
             instance == FirstSlot(klass) + Count(fs, FALSE)
             all == fs \o Inherited(klass)
             types == TypeTable(instance, all, FALSE)
             statics == TypeTable(Count(fs, TRUE), fs, TRUE)
  <1>3. /\ klass'.fields = fs /\ klass'.instanceSlotCount = instance
        /\ klass'.instanceDataType = types /\ klass'.staticDataType = statics
        /\ klass'.superClass = klass.superClass
        /\ phase' = "built" /\ UNCHANGED <<fileVars, library>>
    BY <1>2, SlotsGiven
  <1>4. PICK f : ShelvedBy(library, f)
    BY DEF Shelved
  <1> DEFINE ks == ChainIn(library, f, klass)
  <1>5. Inherited(klass) = FieldsOf(ks)
    BY <1>4, InheritedIs, AboveIs
  <1>6. /\ IsSeq(fs) /\ IsSeq(types) /\ instance = Len(types)
        /\ OneToOne(all, FALSE, types) /\ \A i \in DOMAIN all : TypeKnown(all[i])
        /\ OneToOne(fs, TRUE, statics)
        /\ klass.superClass \in DOMAIN library =>
               IsPrefix(library[klass.superClass].instanceDataType, types)
    <2>1. LET n == Len(file.fields)
          IN /\ n \in Nat /\ DOMAIN klass.fields = 1 .. n
             /\ \A i \in 1 .. n : /\ DOMAIN klass.fields[i] = FieldNames
                                  /\ klass.fields[i].descriptor \in Seq(STRING)
                                  /\ IsFieldDescriptor(klass.fields[i].descriptor)
      BY <1>2, FieldsTyped
    <2>2. all = fs \o FieldsOf(ks)
      BY <1>5
    <2> HIDE DEF all, fs
    <2>3. QED
      BY <1>4, <2>1, <2>2, SlotsHoused DEF fs
  <1> HIDE DEF fs, instance, types, statics
  <1>7. ChainIn(library, f, klass') = ks
    BY <1>3 DEF ChainIn, SuperIn
  <1>8. Inherited(klass)' = FieldsOf(ks)
    <2>1. Inherited(klass)' = FieldsOf(AboveIn(library, klass'))
      BY <1>3, InheritedIs
    <2>2. AboveIn(library, klass') = ChainIn(library, f, klass')
      BY <1>4, AboveIs
    <2>3. QED
      BY <1>7, <2>1, <2>2
  <1> HIDE DEF ks
  <1>9. SlotsAreDistinct'
    <2>1. OneToOne(klass'.fields \o Inherited(klass)', FALSE, klass'.instanceDataType)
      BY <1>3, <1>5, <1>6, <1>8
    <2>2. OneToOne(klass'.fields, TRUE, klass'.staticDataType)
      BY <1>3, <1>6
    <2>3. Super(klass)' # <<>> => IsPrefix(Super(klass)'[1].instanceDataType, klass'.instanceDataType)
      <3> SUFFICES ASSUME Super(klass)' # <<>>
                   PROVE  IsPrefix(Super(klass)'[1].instanceDataType, types)
        BY <1>3
      <3>1. klass.superClass \in DOMAIN library /\ Super(klass)' = <<library[klass.superClass]>>
        BY <1>3 DEF Super
      <3>2. Super(klass)'[1] = library[klass.superClass]
        BY <3>1
      <3>3. QED
        BY <1>6, <3>1, <3>2
    <2>4. QED
      BY <2>1, <2>2, <2>3, Zenon DEF SlotsAreDistinct
  <1>10. Housed(klass', ks)
    BY <1>3, <1>5, <1>6 DEF Housed
  <1>11. \A g : ShelvedBy(library, g) => Housed(klass', ChainIn(library, g, klass'))
    <2>1. \A g : ShelvedBy(library, g) => g = f
      BY <1>4, Zenon DEF ShelvedBy
    <2>2. QED
      BY <1>7, <1>10, <2>1
  <1>12. QED
    BY <1>3, <1>9, <1>11 DEF Shelved, fileVars

\* A class that is ready joins the library.
LEMMA NextFileShelves ==
  ASSUME program \in Programs, at \in 1 .. Len(FilesOf(program)), Building(File), Shelved,
         NextFile
  PROVE  Shelved'
  <1> DEFINE files == FilesOf(program)
             name == klass.name
  <1>1. PICK file : file = File
    OBVIOUS
  <1>2. phase = "built" /\ phase' # "built" /\ program' = program /\ at' = at + 1
    BY DEF NextFile
  <1>3. library' = [n \in DOMAIN library \cup {name} |-> IF n = name THEN klass ELSE library[n]]
    BY Zenon DEF NextFile
  <1>4. name = ThisOf(file) /\ klass.superClass \in {<<>>, SuperOf(file)}
    BY <1>1, <1>2 DEF Building, Moved, NameSays, SuperSays, ThisOf, SuperOf
  <1>5. file = files[at] /\ DOMAIN library = {ThisOf(files[j]) : j \in 1 .. at - 1}
        /\ \A j \in 1 .. at - 1 : library[ThisOf(files[j])].superClass \in {<<>>, SuperOf(files[j])}
    BY <1>1 DEF File, Shelved, Listed
  <1>6. /\ ThisOf(files[at]) # <<>>
        /\ \A i \in 1 .. at : SuperOf(files[i]) # ThisOf(files[at])
        /\ \A i \in 1 .. at - 1 : ThisOf(files[i]) # ThisOf(files[at])
    <2>1. InOrder(files)
      BY FilesAssumption
    <2>2. at \in DOMAIN files
      <3>1. \A i \in 1 .. Len(files) : IsFile(files[i])
        BY FilesAssumption
      <3>2. QED
        OBVIOUS
    <2>3. QED
      BY <2>1, <2>2 DEF InOrder, ThisOf, SuperOf
  <1> HIDE DEF files, name
  <1>7. name \notin DOMAIN library /\ klass.superClass # name
    BY <1>4, <1>5, <1>6
  <1>8. \A n \in DOMAIN library : library[n].superClass # name
    BY <1>4, <1>5, <1>6
  <1>9. PICK f : ShelvedBy(library, f)
    BY DEF Shelved
  <1>10. Housed(klass, ChainIn(library, f, klass))
    BY <1>2, <1>9 DEF Shelved
  <1>11. \E g : ShelvedBy(library', g)
    <2>1. NotAbove(library, klass)
      BY <1>7, <1>8 DEF name, NotAbove
    <2>2. library' = Adding(library, klass)
      BY <1>3 DEF name, Adding
    <2>3. QED
      BY <1>9, <1>10, <2>1, <2>2, ShelvedMore
  <1>12. Listed(files, at, library')
    <2>1. DOMAIN library' = DOMAIN library \cup {ThisOf(files[at])}
      BY <1>3, <1>4, <1>5
    <2>2. DOMAIN library' = {ThisOf(files[j]) : j \in 1 .. at}
      BY <1>5, <2>1
    <2>3. ASSUME NEW j \in 1 .. at
          PROVE  library'[ThisOf(files[j])].superClass \in {<<>>, SuperOf(files[j])}
      <3>1. CASE j = at
        BY <1>3, <1>4, <1>5, <3>1
      <3>2. CASE j \in 1 .. at - 1
        <4>1. ThisOf(files[j]) # name /\ ThisOf(files[j]) \in DOMAIN library
          BY <1>4, <1>5, <1>6, <3>2
        <4>2. library'[ThisOf(files[j])] = library[ThisOf(files[j])]
          BY <1>3, <4>1
        <4>3. QED
          BY <1>5, <3>2, <4>2
      <3>3. QED
        BY <3>1, <3>2
    <2>4. QED
      BY <2>2, <2>3 DEF Listed
  <1>13. FilesOf(program)' = files /\ at' - 1 = at
    BY <1>2 DEF files
  <1>14. QED
    BY <1>2, <1>11, <1>12, <1>13 DEF Shelved

\* The other steps leave the library alone.
LEMMA ShelvedStays ==
  ASSUME Shelved, UNCHANGED <<program, at, library>>,
         phase' # "built" \/ UNCHANGED <<phase, klass>>
  PROVE  Shelved'
  <1>1. CASE phase' # "built"
    BY <1>1 DEF Shelved
  <1>2. CASE UNCHANGED <<phase, klass>>
    <2>1. SlotsAreDistinct => SlotsAreDistinct'
      <3>1. Inherited(klass)' = Inherited(klass)
        BY <1>2, InheritedIs
      <3>2. Super(klass)' = Super(klass)
        BY <1>2 DEF Super
      <3>3. QED
        BY <1>2, <3>1, <3>2 DEF SlotsAreDistinct
    <2>2. QED
      BY <1>2, <2>1 DEF Shelved
  <1>3. QED
    BY <1>1, <1>2

\* Every step of the program keeps the library in order.
LEMMA NextShelved ==
  ASSUME IInv, Building(File), Shelved, [Next]_vars
  PROVE  Shelved'
  <1>1. program \in Programs
    BY DEF IInv
  <1>2. CASE at \in 1 .. Len(FilesOf(program)) /\ Parsing(File)
    <2>1. PICK f : f = File
      OBVIOUS
    <2>2. IsFile(f) /\ Parsing(f) /\ Building(f)
      BY <1>1, <1>2, <2>1, Files DEF File
    <2>3. CASE ParseStep /\ UNCHANGED <<klass, library>>
      <3>1. phase' \notin BuildPhases
        BY <2>2, <2>3, ParsePhase, ParsingPhase
      <3>2. UNCHANGED fileVars
        BY <2>2, <2>3, ParsingStep
      <3>3. QED
        BY <2>3, <3>1, <3>2, ShelvedStays DEF fileVars, BuildPhases
    <2>4. CASE Constructing
      <3>1. CASE CalcFieldSlotId
        BY <2>2, <3>1, CalcSlotsShelves
      <3>2. CASE ~CalcFieldSlotId
        <4>1. UNCHANGED Unparsed
          BY <2>4, Zenon DEF Constructing, BeginClass, InitAttributes, InitFields, InitMethods,
                      InitInterfaceAndSuperClass, MoveConstantPool, CalcFieldSlotId
        <4>2. phase' # "built"
          <5>1. BeginClass => phase' \in {"crashed", After("parsed")}
            BY DEF BeginClass, StepTo
          <5>2. InitAttributes => phase' \in {"crashed", After("attributesStep")}
            BY DEF InitAttributes, StepTo
          <5>3. InitFields => phase' \in {"crashed", After("fieldsStep")}
            BY DEF InitFields, StepTo
          <5>4. InitMethods => phase' \in {"crashed", After("methodsStep")}
            BY DEF InitMethods, StepTo
          <5>5. InitInterfaceAndSuperClass => phase' \in {"crashed", After("supersStep")}
            BY DEF InitInterfaceAndSuperClass, StepTo
          <5>6. MoveConstantPool => phase' \in {"crashed", After("poolStep")}
            BY DEF MoveConstantPool, StepTo
          <5>7. QED
            BY <2>4, <3>2, <5>1, <5>2, <5>3, <5>4, <5>5, <5>6, AfterIs DEF Constructing
        <4>3. QED
          BY <4>1, <4>2, ShelvedStays DEF Unparsed, fileVars
      <3>3. QED
        BY <3>1, <3>2
    <2>5. CASE NextFile
      BY <1>1, <1>2, <2>5, NextFileShelves
    <2>6. CASE Ended \/ UNCHANGED vars
      <3>1. UNCHANGED <<phase, klass, program, at, library>>
        BY <2>6 DEF Ended, vars, parserVars
      <3>2. QED
        BY <3>1, ShelvedStays
    <2>7. QED
      BY <2>3, <2>4, <2>5, <2>6 DEF Next, BuildStep, Constructing
  <1>3. CASE phase = "loaded" /\ open = <<>>
    <2>1. ~ParseStep
      BY <1>3, StepIs
    <2>2. ~BuildStep
      BY <1>3 DEF BuildStep, BeginClass, InitAttributes, InitFields, InitMethods,
                  InitInterfaceAndSuperClass, MoveConstantPool, CalcFieldSlotId, NextFile
    <2>3. UNCHANGED <<phase, klass, program, at, library>>
      BY <2>1, <2>2 DEF Next, Ended, vars, parserVars
    <2>4. QED
      BY <2>3, ShelvedStays
  <1>4. QED
    BY <1>2, <1>3 DEF IInv

\* The fields of an object, the inherited ones included, have slots of their
\* own, every slot has the type of its field, and a subclass goes on with the
\* table of its superclass: SlotsAreDistinct.
THEOREM SlotsAreOneToOne == Spec => []SlotsAreDistinct
  <1>1. Shelved => SlotsAreDistinct
    BY DEF Shelved, SlotsAreDistinct
  <1>2. QED
    BY <1>1, InitIInv, NextIInv, InitBuilding, NextBuilding, InitShelved, NextShelved, PTL DEF Spec

-----------------------------------------------------------------------------
(* Descriptors *)

\* Appending one and SubSeq.
LEMMA AppendHas ==
  ASSUME NEW U, NEW s \in Seq(U), NEW x \in U
  PROVE  LET t == Append(s, x)
             n == Len(s)
         IN /\ n \in Nat /\ t \in Seq(U) /\ Len(t) = n + 1 /\ DOMAIN t = 1 .. n + 1
            /\ t[n + 1] = x /\ \A i \in 1 .. n : t[i] = s[i]
  <1>1. Len(s) \in Nat
    BY SeqHas
  <1>2. Append(s, x) \in Seq(U) /\ Len(Append(s, x)) = Len(s) + 1
    BY AppendProperties
  <1>3. DOMAIN Append(s, x) = 1 .. Len(s) + 1
    BY <1>2, SeqHas
  <1>4. QED
    BY <1>1, <1>2, <1>3, AppendProperties

\* Flattening ends with the last sequence.
LEMMA FlattenAppend ==
  ASSUME NEW U, NEW s \in Seq(Seq(U)), NEW x \in Seq(U)
  PROVE  FlattenSeq(Append(s, x)) = FlattenSeq(s) \o x
  <1> DEFINE n == Len(s)
             t == Append(s, x)
  <1>1. /\ n \in Nat /\ Len(t) = n + 1 /\ t[n + 1] = x /\ \A i \in 1 .. n : t[i] = s[i]
    BY AppendHas
  <1> HIDE DEF t
  <1>2. PICK f : IsJoin(f, t) /\ FlattenSeq(t) = f[n + 1]
    BY <1>1, JoinOf
  <1>3. ASSUME NEW i \in 1 .. n + 1 PROVE f[i] = IF i = 1 THEN t[i] ELSE f[i - 1] \o t[i]
    BY <1>1, <1>2 DEF IsJoin
  <1>4. CASE s = <<>>
    <2>1. n = 0 /\ FlattenSeq(s) = <<>>
      BY <1>4, FlattenEmpty
    <2>2. f[1] = x
      BY <1>1, <1>3, <2>1
    <2>3. <<>> \o x = x
      OBVIOUS
    <2>4. QED
      BY <1>2, <2>1, <2>2, <2>3 DEF t
  <1>5. CASE s # <<>>
    <2>1. n \in Nat \ {0}
      BY <1>5
    <2>2. PICK g : IsJoin(g, s) /\ FlattenSeq(s) = g[n]
      BY <2>1, JoinOf
    <2> HIDE DEF n
    <2> DEFINE S == {m \in Nat : m + 1 <= n => f[m + 1] = g[m + 1]}
    <2>3. ASSUME NEW i \in 1 .. n PROVE g[i] = IF i = 1 THEN s[i] ELSE g[i - 1] \o s[i]
      BY <2>2 DEF IsJoin, n
    <2>4. 0 \in S
      BY <1>1, <1>3, <2>3
    <2>5. ASSUME NEW m \in Nat, m \in S PROVE m + 1 \in S
      <3> SUFFICES ASSUME (m + 1) + 1 <= n PROVE f[(m + 1) + 1] = g[(m + 1) + 1]
        OBVIOUS
      <3> DEFINE i == (m + 1) + 1
      <3>1. i \in 1 .. n /\ i \in 1 .. n + 1 /\ i # 1 /\ i - 1 = m + 1 /\ m + 1 <= n
        BY <1>1
      <3> HIDE DEF i
      <3>2. f[i - 1] = g[i - 1]
        BY <2>5, <3>1
      <3>3. f[i] = f[i - 1] \o t[i] /\ g[i] = g[i - 1] \o s[i] /\ t[i] = s[i]
        BY <1>1, <1>3, <2>3, <3>1
      <3>4. QED
        BY <3>2, <3>3 DEF i
    <2> HIDE DEF S
    <2>6. n - 1 \in Nat /\ (n - 1) + 1 = n
      BY <2>1
    <2>7. n - 1 \in S
      BY <2>4, <2>5, <2>6, Induction
    <2>8. f[n] = g[n]
      BY <2>6, <2>7 DEF S
    <2>9. f[n + 1] = f[n] \o x
      <3>1. n + 1 \in 1 .. n + 1 /\ n + 1 # 1 /\ (n + 1) - 1 = n
        BY <2>1
      <3>2. QED
        BY <1>1, <1>3, <3>1
    <2>10. QED
      BY <1>2, <2>2, <2>8, <2>9 DEF t
  <1>6. QED
    BY <1>4, <1>5 DEF t

\* The first c at or behind the i-th place of d.
LEMMA FindIs ==
  ASSUME NEW d, NEW c, NEW i \in Nat, NEW e \in i .. Len(d), d[e] = c,
         \A j \in i .. e - 1 : d[j] # c, Len(d) \in Nat
  PROVE  Find(d, c, i) = e
  <1>1. ASSUME NEW k \in i .. Len(d), d[k] = c, \A j \in i .. k - 1 : d[j] # c
        PROVE  k = e
    <2>1. k < e => k \in i .. e - 1
      OBVIOUS
    <2>2. e < k => e \in i .. k - 1
      OBVIOUS
    <2>3. QED
      BY <1>1, <2>1, <2>2
  <1>2. QED
    BY <1>1 DEF Find

\* What d begins with is as long as that.
LEMMA BracketsAre ==
  ASSUME NEW d, Len(d) \in Nat, NEW e \in 2 .. Len(d), d[e] # "[",
         \A j \in 1 .. e - 1 : d[j] = "["
  PROVE  Brackets(d) = e - 1
  <1>1. e - 1 \in 1 .. Len(d) - 1 /\ d[(e - 1) + 1] # "["
    OBVIOUS
  <1>2. ASSUME NEW k \in 1 .. Len(d) - 1, d[k + 1] # "[", \A j \in 1 .. k : d[j] = "["
        PROVE  k = e - 1
    <2>1. k < e - 1 => k + 1 \in 1 .. e - 1
      OBVIOUS
    <2>2. e - 1 < k => e \in 1 .. k
      OBVIOUS
    <2>3. QED
      BY <1>2, <2>1, <2>2
  <1>3. QED
    BY <1>1, <1>2 DEF Brackets

\* The names of primitive types
Words == {<<w>> : w \in PrimitiveTypes}

\* are told from every other name.
LEMMA WordsAre ==
  /\ \A c \in DOMAIN PrimitiveName : <<PrimitiveName[c]>> \in Words
  /\ \A c \in DOMAIN PrimitiveName : DescriptorOf(<<PrimitiveName[c]>>) = <<c>>
  /\ \A name : name \notin Words => SlotTypeOfClass(name) = "REF"
  /\ \A name : name \notin Words =>
         DescriptorOf(name) = IF name[1] = "[" THEN name ELSE <<"L">> \o name \o <<";">>
  <1>1. \A c \in DOMAIN PrimitiveName : PrimitiveName[c] \in PrimitiveTypes
    BY DEF PrimitiveName, PrimitiveTypes
  <1>2. \A b, c \in DOMAIN PrimitiveName : PrimitiveName[b] = PrimitiveName[c] => b = c
    BY DEF PrimitiveName
  <1>3. \A c \in DOMAIN PrimitiveName : <<PrimitiveName[c]>> \in Words
    BY <1>1 DEF Words
  <1>4. ASSUME NEW c \in DOMAIN PrimitiveName
        PROVE  DescriptorOf(<<PrimitiveName[c]>>) = <<c>>
    <2> DEFINE name == <<PrimitiveName[c]>>
    <2>1. \A b \in DOMAIN PrimitiveName : name = <<PrimitiveName[b]>> <=> b = c
      BY <1>2
    <2> HIDE DEF name
    <2>2. (CHOOSE b \in DOMAIN PrimitiveName : name = <<PrimitiveName[b]>>) = c
      BY <2>1
    <2>3. \E b \in DOMAIN PrimitiveName : name = <<PrimitiveName[b]>>
      BY <2>1
    <2>4. DescriptorOf(name) = <<c>>
      BY <2>2, <2>3, Zenon DEF DescriptorOf
    <2>5. QED
      BY <2>4 DEF name
  <1>5. ASSUME NEW name, name \notin Words
        PROVE  SlotTypeOfClass(name) = "REF"
    BY <1>5 DEF Words, SlotTypeOfClass, PrimitiveTypes
  <1>6. ASSUME NEW name, name \notin Words
        PROVE  DescriptorOf(name) = IF name[1] = "[" THEN name ELSE <<"L">> \o name \o <<";">>
    BY <1>3, <1>6, Zenon DEF DescriptorOf
  <1>7. QED
    BY <1>3, <1>4, <1>5, <1>6, Zenon

\* A part of a sequence.
LEMMA PartIs ==
  ASSUME NEW U, NEW s \in Seq(U), NEW i \in Nat \ {0}, NEW k \in Nat, i <= k + 1, k <= Len(s)
  PROVE  LET t == SubSeq(s, i, k)
         IN /\ t \in Seq(U) /\ Len(t) = (k + 1) - i
            /\ \A j \in 1 .. (k + 1) - i : t[j] = s[(i + j) - 1]
  <1>1. Len(s) \in Nat /\ \A j \in 1 .. Len(s) : s[j] \in U
    BY SeqHas
  <1>2. \A j \in i .. k : s[j] \in U
    BY <1>1
  <1>3. /\ SubSeq(s, i, k) \in Seq(U) /\ Len(SubSeq(s, i, k)) = IF i <= k THEN k - i + 1 ELSE 0
        /\ \A j \in 1 .. k - i + 1 : SubSeq(s, i, k)[j] = s[i + j - 1]
    BY <1>2, SubSeqProperties
  <1>4. k - i + 1 = (k + 1) - i /\ (i > k => (k + 1) - i = 0)
    OBVIOUS
  <1>5. \A j \in 1 .. (k + 1) - i : i + j - 1 = (i + j) - 1
    OBVIOUS
  <1>6. QED
    BY <1>3, <1>4, <1>5

\* A sequence told by its members.
LEMMA SameSeq ==
  ASSUME NEW U, NEW s \in Seq(U), NEW t \in Seq(U), NEW n, Len(s) = n, Len(t) = n,
         \A j \in 1 .. n : s[j] = t[j]
  PROVE  s = t
  BY SeqEqual

\* One sequence behind the other.
Follows(s, t, z) ==
    /\ Len(z) = Len(s) + Len(t)
    /\ \A i \in 1 .. Len(s) : z[i] = s[i]
    /\ \A i \in 1 .. Len(t) : z[Len(s) + i] = t[i]

\* Joined, it is.
LEMMA FollowsIs ==
  ASSUME NEW U, NEW s \in Seq(U), NEW t \in Seq(U)
  PROVE  Follows(s, t, s \o t) /\ s \o t \in Seq(U)
  <1> DEFINE n == Len(s)
             m == Len(t)
  <1>1. n \in Nat /\ m \in Nat /\ DOMAIN s = 1 .. n /\ DOMAIN t = 1 .. m
    BY SeqHas
  <1>2. s \o t \in Seq(U) /\ Len(s \o t) = n + m
    BY ConcatProperties
  <1>3. \A i \in 1 .. n : (s \o t)[i] = s[i]
    BY <1>1
  <1>4. \A i \in 1 .. m : (s \o t)[n + i] = t[i]
    BY <1>1
  <1>5. QED
    BY <1>2, <1>3, <1>4 DEF Follows

\* Two parts, one behind the other.
LEMMA PartsJoined ==
  ASSUME NEW U, NEW d \in Seq(U), NEW from \in Nat \ {0}, NEW p \in Nat, NEW k \in Nat,
         from <= p, p <= k + 1, k <= Len(d)
  PROVE  SubSeq(d, from, p - 1) \o SubSeq(d, p, k) = SubSeq(d, from, k)
  <1> DEFINE q == p - 1
             u == SubSeq(d, from, q)
             v == SubSeq(d, p, k)
             w == SubSeq(d, from, k)
             z == u \o v
  <1>1. /\ u \in Seq(U) /\ Len(u) = p - from
        /\ \A j \in 1 .. p - from : u[j] = d[(from + j) - 1]
    <2>1. q \in Nat /\ from <= q + 1 /\ q <= Len(d) /\ (q + 1) - from = p - from
      <3>1. Len(d) \in Nat
        BY SeqHas
      <3>2. QED
        BY <3>1
    <2> HIDE DEF q
    <2>2. /\ u \in Seq(U) /\ Len(u) = (q + 1) - from
          /\ \A j \in 1 .. (q + 1) - from : u[j] = d[(from + j) - 1]
      BY <2>1, PartIs
    <2> HIDE DEF u
    <2>3. QED
      BY <2>1, <2>2
  <1>2. /\ v \in Seq(U) /\ Len(v) = (k + 1) - p
        /\ \A j \in 1 .. (k + 1) - p : v[j] = d[(p + j) - 1]
    BY PartIs
  <1>3. /\ w \in Seq(U) /\ Len(w) = (k + 1) - from
        /\ \A j \in 1 .. (k + 1) - from : w[j] = d[(from + j) - 1]
    <2>1. from <= k + 1
      OBVIOUS
    <2>2. QED
      BY <2>1, PartIs
  <1> HIDE DEF u, v, w
  <1>4. Follows(u, v, z) /\ z \in Seq(U)
    BY <1>1, <1>2, FollowsIs
  <1> HIDE DEF z
  <1>5. /\ Len(z) = (p - from) + ((k + 1) - p)
        /\ \A j \in 1 .. p - from : z[j] = u[j]
        /\ \A j \in 1 .. (k + 1) - p : z[(p - from) + j] = v[j]
    BY <1>1, <1>2, <1>4 DEF Follows
  <1>6. Len(z) = (k + 1) - from
    BY <1>5
  <1>7. ASSUME NEW j \in 1 .. (k + 1) - from PROVE z[j] = w[j]
    <2>1. CASE j <= p - from
      <3>1. j \in 1 .. p - from
        BY <2>1
      <3>2. QED
        BY <1>1, <1>3, <1>5, <3>1
    <2>2. CASE ~(j <= p - from)
      <3> DEFINE i == j - (p - from)
      <3>1. i \in 1 .. (k + 1) - p /\ (p - from) + i = j /\ (p + i) - 1 = (from + j) - 1
        BY <2>2
      <3> HIDE DEF i
      <3>2. z[j] = v[i] /\ v[i] = d[(from + j) - 1]
        BY <1>2, <1>5, <3>1
      <3>3. QED
        BY <1>3, <3>2
    <2>3. QED
      BY <2>1, <2>2
  <1>8. z = w
    BY <1>3, <1>4, <1>6, <1>7, SameSeq
  <1>9. QED
    BY <1>8 DEF z, u, v, w, q

\* All of it,
LEMMA AllOf ==
  ASSUME NEW U, NEW s \in Seq(U), NEW n, n = Len(s)
  PROVE  SubSeq(s, 1, n) = s
  BY SubSeqFull

\* and one of it.
LEMMA OneOf ==
  ASSUME NEW U, NEW s \in Seq(U), NEW i \in 1 .. Len(s)
  PROVE  SubSeq(s, i, i) = <<s[i]>>
  <1> DEFINE t == SubSeq(s, i, i)
  <1>1. i \in Nat \ {0} /\ i <= i + 1 /\ i <= Len(s) /\ (i + 1) - i = 1 /\ (i + 1) - 1 = i
    BY SeqHas
  <1>2. t \in Seq(U) /\ Len(t) = 1 /\ t[1] = s[i]
    <2>1. /\ t \in Seq(U) /\ Len(t) = (i + 1) - i
          /\ \A j \in 1 .. (i + 1) - i : t[j] = s[(i + j) - 1]
      BY <1>1, PartIs
    <2> HIDE DEF t
    <2>2. QED
      BY <1>1, <2>1
  <1> HIDE DEF t
  <1>3. s[i] \in U
    BY SeqHas
  <1>4. <<s[i]>> \in Seq(U) /\ Len(<<s[i]>>) = 1 /\ <<s[i]>>[1] = s[i]
    BY <1>3
  <1>5. t = <<s[i]>>
    BY <1>2, <1>4, SameSeq
  <1>6. QED
    BY <1>5 DEF t

\* What is between the first token and the e-th.
LEMMA PartBetween ==
  ASSUME NEW U, NEW l \in Seq(U), NEW e \in 1 .. Len(l), 2 <= e, NEW a \in U, NEW b \in U,
         l[1] = a, l[e] = b
  PROVE  LET name == SubSeq(l, 2, e - 1)
         IN /\ name \in Seq(U) /\ Len(name) = e - 2 /\ (2 < e => name[1] = l[2])
            /\ <<a>> \o name \o <<b>> = SubSeq(l, 1, e)
  <1> DEFINE k == e - 1
             name == SubSeq(l, 2, k)
  <1>1. /\ e \in Nat /\ k \in Nat /\ 2 <= k + 1 /\ k <= Len(l) /\ (k + 1) - 2 = e - 2
        /\ 1 \in 1 .. Len(l) /\ 2 - 1 = 1 /\ e <= Len(l) /\ 1 <= e /\ 1 <= 2
        /\ (2 < e => 1 \in 1 .. e - 2) /\ (2 + 1) - 1 = 2
    BY SeqHas
  <1> HIDE DEF k
  <1>2. name \in Seq(U) /\ Len(name) = e - 2 /\ (2 < e => name[1] = l[2])
    <2>1. /\ name \in Seq(U) /\ Len(name) = (k + 1) - 2
          /\ \A j \in 1 .. (k + 1) - 2 : name[j] = l[(2 + j) - 1]
      BY <1>1, PartIs
    <2> HIDE DEF name
    <2>2. QED
      BY <1>1, <2>1
  <1>3. <<a>> \o name = SubSeq(l, 1, k)
    <2>1. SubSeq(l, 1, 2 - 1) \o name = SubSeq(l, 1, k)
      BY <1>1, PartsJoined
    <2>2. SubSeq(l, 1, 1) = <<a>>
      BY <1>1, OneOf
    <2>3. QED
      BY <1>1, <2>1, <2>2
  <1>4. SubSeq(l, 1, k) \o <<b>> = SubSeq(l, 1, e)
    <2>1. e <= e + 1
      BY <1>1
    <2>2. SubSeq(l, 1, e - 1) \o SubSeq(l, e, e) = SubSeq(l, 1, e)
      BY <1>1, <2>1, PartsJoined
    <2>3. SubSeq(l, e, e) = <<b>>
      BY OneOf
    <2>4. QED
      BY <2>2, <2>3 DEF k
  <1>5. QED
    BY <1>2, <1>3, <1>4 DEF k, name

\* The tokens of a type, and a type in them.
Closing == ")"
Bracket == "["
Semicolon == ";"
IsBase(c) == c \in BaseTypes
Inner(c) == c \notin {";", "[", "(", ")"}
Unreserved(c) == c \notin PrimitiveTypes
TypeBy(d, i, k, e) ==
    /\ \A j \in i .. e - 1 : d[j] = Bracket
    /\ \/ e = k /\ IsBase(d[e])
       \/ /\ e + 1 < k /\ d[e] = "L" /\ d[k] = Semicolon
          /\ \A j \in e + 1 .. k - 1 : Inner(d[j])
          /\ e + 2 = k => Unreserved(d[e + 1])

\* A type is told by its last bracket.
LEMMA TypeByIs ==
  ASSUME NEW d, NEW i, NEW k
  PROVE  IsType(d, i, k) <=> \E e \in i .. k : TypeBy(d, i, k, e)
  BY Zenon DEF IsType, TypeBy, IsBase, Inner, Unreserved, Bracket, Semicolon

\* They are told apart.
LEMMA TokensDiffer ==
  /\ \A c : IsBase(c) => c # Bracket /\ c # "L" /\ c # Semicolon /\ c # Closing /\ c # "V"
  /\ \A c : Inner(c) => c # Semicolon /\ c # Bracket /\ c # Closing
  /\ Bracket # "L" /\ Bracket # "V" /\ Bracket # Semicolon /\ Semicolon # "L"
  /\ Closing # Bracket /\ Closing # "L" /\ Closing # Semicolon /\ Closing # "V"
  BY Zenon DEF IsBase, Inner, BaseTypes, Closing, Bracket, Semicolon

\* What is taken from d by its first token.
LEMMA SingleIs ==
  ASSUME NEW d
  PROVE  LET one == SingleDescriptor(d)
             n == Brackets(d)
         IN /\ IsBase(d[1]) \/ d[1] = "V" =>
                /\ one.size = 1 /\ d[1] \in DOMAIN PrimitiveName
                /\ one.slots = IF SlotTypeOfClass(<<PrimitiveName[d[1]]>>) \in WideSlot THEN 2 ELSE 1
                /\ NameOf(d, one) = <<PrimitiveName[d[1]]>>
            /\ d[1] = "L" => /\ one.size = Find(d, Semicolon, 3) /\ one.slots = 1
                             /\ NameOf(d, one) = SubSeq(d, 2, one.size - 1)
            /\ d[1] = Bracket =>
                   /\ one.size = IF d[n + 1] = "L" THEN Find(d, Semicolon, n + 1) ELSE n + 1
                   /\ one.slots = 1 /\ NameOf(d, one) = SubSeq(d, 1, one.size)
  <1>1. CASE IsBase(d[1]) \/ d[1] = "V"
    <2>1. d[1] # "L" /\ d[1] # Bracket
      BY <1>1, TokensDiffer
    <2>2. CASE d[1] \in {"J", "D"}
      <3>1. SingleDescriptor(d) = [size |-> 1, slots |-> 2, type |-> "primitive"]
        BY <2>2, Zenon DEF SingleDescriptor
      <3>2. d[1] \in DOMAIN PrimitiveName /\ SlotTypeOfClass(<<PrimitiveName[d[1]]>>) \in WideSlot
        BY <2>2 DEF PrimitiveName, SlotTypeOfClass, WideSlot
      <3>3. QED
        BY <2>1, <3>1, <3>2 DEF NameOf
    <2>3. CASE d[1] \notin {"J", "D"}
      <3>1. d[1] \in {"B", "C", "S", "F", "I", "Z", "V"}
        BY <1>1, <2>3 DEF IsBase, BaseTypes
      <3>2. SingleDescriptor(d) = [size |-> 1, slots |-> 1, type |-> "primitive"]
        BY <3>1, Zenon DEF SingleDescriptor
      <3>3. d[1] \in DOMAIN PrimitiveName /\ SlotTypeOfClass(<<PrimitiveName[d[1]]>>) \notin WideSlot
        BY <3>1 DEF PrimitiveName, SlotTypeOfClass, WideSlot
      <3>4. QED
        BY <2>1, <3>2, <3>3 DEF NameOf
    <2>4. QED
      BY <2>2, <2>3
  <1>2. CASE d[1] = "L"
    <2>1. SingleDescriptor(d) = [size |-> Find(d, Semicolon, 3), slots |-> 1, type |-> "class"]
      BY <1>2, Zenon DEF SingleDescriptor, Semicolon
    <2>2. ~IsBase(d[1]) /\ d[1] # "V" /\ d[1] # Bracket
      BY <1>2, TokensDiffer
    <2> DEFINE one == SingleDescriptor(d)
    <2>3. one.size = Find(d, Semicolon, 3) /\ one.slots = 1 /\ one.type = "class"
      BY <2>1
    <2> HIDE DEF one
    <2>4. NameOf(d, one) = SubSeq(d, 2, one.size - 1)
      BY <2>3 DEF NameOf
    <2>5. QED
      BY <1>2, <2>2, <2>3, <2>4 DEF one
  <1>3. CASE d[1] = Bracket
    <2> DEFINE n == Brackets(d)
               size == IF d[n + 1] = "L" THEN Find(d, Semicolon, n + 1) ELSE n + 1
    <2>1. SingleDescriptor(d) = [size |-> size, slots |-> 1, type |-> "array"]
      BY <1>3, Zenon DEF SingleDescriptor, Bracket, Semicolon
    <2> HIDE DEF size
    <2>2. ~IsBase(d[1]) /\ d[1] # "V" /\ d[1] # "L"
      BY <1>3, TokensDiffer
    <2> DEFINE one == SingleDescriptor(d)
    <2>3. one.size = size /\ one.slots = 1 /\ one.type = "array"
      BY <2>1
    <2> HIDE DEF one
    <2>4. NameOf(d, one) = SubSeq(d, 1, one.size)
      BY <2>3 DEF NameOf
    <2>5. QED
      BY <1>3, <2>2, <2>3, <2>4 DEF one, size
  <1>4. QED
    BY <1>1, <1>2, <1>3

\* The first e tokens of l are taken for the type they are.
SlotsFor(name) == IF SlotTypeOfClass(name) \in WideSlot THEN 2 ELSE 1
IsTaken(l, e) ==
    LET one == SingleDescriptor(l)
        name == NameOf(l, one)
    IN /\ one.size = e /\ one.slots = SlotsFor(name)
       /\ DescriptorOf(name) = SubSeq(l, 1, e)
       /\ \A j \in 1 .. e : l[j] # Closing

\* A name that is not a word, and is not in brackets or is an array.
LEMMA NoWord ==
  ASSUME NEW name, Len(name) # 1 \/ name[1] = Bracket \/ Unreserved(name[1])
  PROVE  name \notin Words
  <1>1. ASSUME NEW w \in PrimitiveTypes PROVE name # <<w>>
    <2>1. name = <<w>> => Len(name) = 1 /\ name[1] = w
      OBVIOUS
    <2>2. Unreserved(name[1]) => name[1] # w
      BY <1>1, Zenon DEF Unreserved
    <2>3. w # Bracket
      BY <1>1, Zenon DEF PrimitiveTypes, Bracket
    <2>4. QED
      BY <2>1, <2>2, <2>3, Zenon
  <1>2. QED
    BY <1>1, Zenon DEF Words

\* What words and other names take and say.
LEMMA NameTakes ==
  ASSUME NEW name, name \notin Words
  PROVE  /\ SlotsFor(name) = 1
         /\ name[1] = Bracket => DescriptorOf(name) = name
         /\ name[1] # Bracket => DescriptorOf(name) = <<"L">> \o name \o <<Semicolon>>
  <1>1. SlotTypeOfClass(name) = "REF"
    BY WordsAre, Zenon
  <1>2. SlotsFor(name) = 1
    BY <1>1 DEF SlotsFor, WideSlot
  <1>3. DescriptorOf(name) = IF name[1] = Bracket THEN name ELSE <<"L">> \o name \o <<Semicolon>>
    BY WordsAre, Zenon DEF Bracket, Semicolon
  <1>4. QED
    BY <1>2, <1>3, Zenon

\* A letter.
LEMMA LetterTaken ==
  ASSUME NEW l, Len(l) \in Nat, l \in Seq(STRING), 1 <= Len(l), IsBase(l[1]) \/ l[1] = "V"
  PROVE  IsTaken(l, 1)
  <1> DEFINE one == SingleDescriptor(l)
             word == <<PrimitiveName[l[1]]>>
  <1>1. /\ one.size = 1 /\ l[1] \in DOMAIN PrimitiveName /\ one.slots = SlotsFor(word)
        /\ NameOf(l, one) = word
    BY SingleIs DEF SlotsFor
  <1> HIDE DEF one
  <1>2. DescriptorOf(word) = <<l[1]>>
    BY <1>1, WordsAre, Zenon
  <1> HIDE DEF word
  <1>3. SubSeq(l, 1, 1) = <<l[1]>>
    <2> DEFINE s == SubSeq(l, 1, 1)
               t == <<l[1]>>
    <2>1. /\ s \in Seq(STRING) /\ Len(s) = (1 + 1) - 1
          /\ \A j \in 1 .. (1 + 1) - 1 : s[j] = l[(1 + j) - 1]
      BY PartIs
    <2> HIDE DEF s
    <2>2. l[1] \in STRING
      BY SeqHas
    <2>3. t \in Seq(STRING) /\ Len(t) = 1 /\ t[1] = l[1]
      BY <2>2
    <2> HIDE DEF t
    <2>4. Len(s) = 1 /\ \A j \in 1 .. 1 : s[j] = t[j]
      BY <2>1, <2>3
    <2>5. s = t
      BY <2>1, <2>3, <2>4, SameSeq
    <2>6. QED
      BY <2>5 DEF s, t
  <1>4. l[1] # Closing
    BY TokensDiffer
  <1>5. \A j \in 1 .. 1 : l[j] # Closing
    BY <1>4
  <1>6. QED
    BY <1>1, <1>2, <1>3, <1>5 DEF IsTaken, one

\* The first tokens of l are a type.
LEMMA TypeTaken ==
  ASSUME NEW l \in Seq(STRING), NEW e \in 1 .. Len(l), IsType(l, 1, e)
  PROVE  IsTaken(l, e)
  <1>0. Len(l) \in Nat /\ e \in Nat /\ e <= Len(l) /\ 1 <= e
    BY SeqHas
  <1>1. PICK b \in 1 .. e : TypeBy(l, 1, e, b)
    BY TypeByIs, Zenon
  <1> DEFINE one == SingleDescriptor(l)
             name == NameOf(l, one)
  <1>2. b \in Nat /\ 1 <= b /\ b <= e
    OBVIOUS
  <1>3. l[b] # Bracket /\ l[b] # Closing
    BY <1>1, TokensDiffer DEF TypeBy
  <1>4. \A j \in 1 .. e : l[j] # Closing
    BY <1>0, <1>1, <1>2, <1>3, TokensDiffer DEF TypeBy
  <1>5. \A j \in b .. e - 1 : l[j] # Semicolon
    <2>1. l[b] # Semicolon
      BY <1>1, TokensDiffer DEF TypeBy
    <2>2. ASSUME NEW j \in b .. e - 1 PROVE l[j] # Semicolon
      <3>1. j # b => j \in b + 1 .. e - 1 /\ e # b
        BY <1>0, <1>2
      <3>2. QED
        BY <1>1, <2>1, <3>1, TokensDiffer DEF TypeBy
    <2>3. QED
      BY <2>2
  <1>6. CASE b = 1 /\ IsBase(l[1]) /\ e = 1
    BY <1>0, <1>6, LetterTaken
  <1>7. CASE b = 1 /\ l[1] = "L" /\ e # 1
    <2>1. /\ 2 < e /\ l[e] = Semicolon /\ (3 = e => Unreserved(l[2]))
          /\ \A j \in 2 .. e - 1 : Inner(l[j])
      <3>1. 1 + 1 = 2 /\ 1 + 2 = 3 /\ (1 + 1 < e => 2 < e)
        BY <1>0
      <3>2. QED
        BY <1>1, <1>7, <3>1 DEF TypeBy
    <2>2. Find(l, Semicolon, 3) = e
      <3>1. e \in 3 .. Len(l) /\ 3 \in Nat
        BY <1>0, <2>1
      <3>2. \A j \in 3 .. e - 1 : l[j] # Semicolon
        BY <1>5, <1>7
      <3>3. QED
        BY <1>0, <2>1, <3>1, <3>2, FindIs
    <2>3. one.size = e /\ one.slots = 1 /\ name = SubSeq(l, 2, e - 1)
      BY <1>7, <2>2, SingleIs
    <2>4. /\ Len(name) = e - 2 /\ name[1] = l[2]
          /\ <<"L">> \o name \o <<Semicolon>> = SubSeq(l, 1, e)
      <3>1. "L" \in STRING /\ Semicolon \in STRING
        <4>1. \A j \in 1 .. Len(l) : l[j] \in STRING
          BY SeqHas
        <4>2. 1 \in 1 .. Len(l)
          BY <1>0
        <4>3. QED
          BY <1>7, <2>1, <4>1, <4>2
      <3>2. QED
        BY <1>7, <2>1, <2>3, <3>1, PartBetween
    <2> HIDE DEF name
    <2>5. name[1] # Bracket
      <3>1. 2 \in 2 .. e - 1
        BY <1>0, <2>1
      <3>2. QED
        BY <2>1, <2>4, <3>1, TokensDiffer
    <2>6. Len(name) # 1 \/ Unreserved(name[1])
      <3>1. e - 2 = 1 => 3 = e
        BY <1>0
      <3>2. QED
        BY <2>1, <2>4, <3>1
    <2>7. name \notin Words
      BY <2>6, NoWord, Zenon
    <2>8. SlotsFor(name) = 1 /\ DescriptorOf(name) = SubSeq(l, 1, e)
      BY <2>4, <2>5, <2>7, NameTakes, Zenon
    <2>9. QED
      BY <1>4, <2>3, <2>8 DEF IsTaken, name
  <1>8. CASE b # 1
    <2>1. l[1] = Bracket
      <3>1. 1 \in 1 .. b - 1
        BY <1>2, <1>8
      <3>2. QED
        BY <1>1, <3>1 DEF TypeBy
    <2>2. Brackets(l) = b - 1
      <3>1. b \in 2 .. Len(l)
        BY <1>0, <1>2, <1>8
      <3>2. l[b] # "[" /\ \A j \in 1 .. b - 1 : l[j] = "["
        BY <1>1, <1>3, Zenon DEF TypeBy, Bracket
      <3>3. QED
        BY <1>0, <3>1, <3>2, BracketsAre, Zenon
    <2>3. Brackets(l) + 1 = b
      BY <1>2, <2>2
    <2>4. /\ one.size = IF l[b] = "L" THEN Find(l, Semicolon, b) ELSE b
          /\ one.slots = 1 /\ name = SubSeq(l, 1, one.size)
      BY <2>1, <2>3, SingleIs
    <2>5. one.size = e
      <3>1. CASE e = b
        <4>1. l[b] # "L"
          BY <1>1, <1>2, <3>1, TokensDiffer DEF TypeBy
        <4>2. QED
          BY <2>4, <3>1, <4>1
      <3>2. CASE e # b
        <4>1. l[b] = "L" /\ l[e] = Semicolon
          BY <1>1, <3>2 DEF TypeBy
        <4>2. e \in b .. Len(l)
          BY <1>0, <1>2
        <4>3. Find(l, Semicolon, b) = e
          BY <1>0, <1>2, <1>5, <4>1, <4>2, FindIs
        <4>4. QED
          BY <2>4, <4>1, <4>3
      <3>3. QED
        BY <3>1, <3>2
    <2>6. name = SubSeq(l, 1, e) /\ name[1] = Bracket
      <3>1. SubSeq(l, 1, e)[1] = l[1]
        BY <1>0
      <3>2. QED
        BY <2>1, <2>4, <2>5, <3>1
    <2> HIDE DEF name
    <2>7. name \notin Words
      BY <2>6, NoWord, Zenon
    <2>8. SlotsFor(name) = 1 /\ DescriptorOf(name) = name
      BY <2>6, <2>7, NameTakes, Zenon
    <2>9. QED
      BY <1>4, <2>4, <2>5, <2>6, <2>8 DEF IsTaken, name
  <1>9. QED
    BY <1>1, <1>2, <1>6, <1>7, <1>8 DEF TypeBy

\* A part of a part.
LEMMA PartOfPart ==
  ASSUME NEW U, NEW s \in Seq(U), NEW p \in Nat \ {0}, NEW n \in Nat, p <= n + 1, n <= Len(s),
         NEW i \in Nat \ {0}, NEW k \in Nat, i <= k + 1, k <= (n + 1) - p,
         NEW a, a = (p + i) - 1, NEW b, b = (p + k) - 1
  PROVE  SubSeq(SubSeq(s, p, n), i, k) = SubSeq(s, a, b)
  <1> DEFINE t == SubSeq(s, p, n)
             u == SubSeq(t, i, k)
             v == SubSeq(s, a, b)
             m == (k + 1) - i
  <1>1. t \in Seq(U) /\ Len(t) = (n + 1) - p /\ \A j \in 1 .. (n + 1) - p : t[j] = s[(p + j) - 1]
    BY PartIs
  <1> HIDE DEF t
  <1>2. u \in Seq(U) /\ Len(u) = m /\ \A j \in 1 .. m : u[j] = t[(i + j) - 1]
    BY <1>1, PartIs
  <1>3. a \in Nat \ {0} /\ b \in Nat /\ a <= b + 1 /\ b <= Len(s) /\ (b + 1) - a = m
    <2>1. Len(s) \in Nat
      BY SeqHas
    <2>2. QED
      BY <2>1
  <1>4. v \in Seq(U) /\ Len(v) = m /\ \A j \in 1 .. m : v[j] = s[(a + j) - 1]
    <2>1. v \in Seq(U) /\ Len(v) = (b + 1) - a /\ \A j \in 1 .. (b + 1) - a : v[j] = s[(a + j) - 1]
      BY <1>3, PartIs
    <2>2. QED
      BY <1>3, <2>1
  <1> HIDE DEF u, v
  <1>5. ASSUME NEW j \in 1 .. m PROVE u[j] = v[j]
    <2>1. (i + j) - 1 \in 1 .. (n + 1) - p /\ (p + ((i + j) - 1)) - 1 = (a + j) - 1
      OBVIOUS
    <2>2. QED
      BY <1>1, <1>2, <1>4, <2>1
  <1>6. u = v
    BY <1>2, <1>4, <1>5, SameSeq
  <1>7. QED
    BY <1>6 DEF u, v, t

\* A type in d is one in the part that begins with it.
LEMMA TypeMoved ==
  ASSUME NEW d \in Seq(STRING), NEW p \in Nat \ {0}, NEW n \in Nat, n <= Len(d),
         NEW k \in p .. n, IsType(d, p, k)
  PROVE  IsType(SubSeq(d, p, n), 1, (k + 1) - p)
  <1> DEFINE l == SubSeq(d, p, n)
             e == (k + 1) - p
  <1>1. \A j \in 1 .. (n + 1) - p : l[j] = d[(p + j) - 1]
    BY PartIs
  <1> HIDE DEF l
  <1>2. PICK b \in p .. k : TypeBy(d, p, k, b)
    BY TypeByIs, Zenon
  <1> DEFINE c == (b + 1) - p
  <1>3. c \in 1 .. e /\ e \in Nat /\ e <= (n + 1) - p /\ (p + c) - 1 = b /\ (p + e) - 1 = k
    OBVIOUS
  <1>4. \A j \in 1 .. e : l[j] = d[(p + j) - 1]
    BY <1>1, <1>3
  <1>5. l[c] = d[b] /\ l[e] = d[k]
    BY <1>3, <1>4
  <1>6. \A j \in 1 .. c - 1 : l[j] = Bracket
    <2>1. ASSUME NEW j \in 1 .. c - 1 PROVE l[j] = Bracket
      <3>1. j \in 1 .. e /\ (p + j) - 1 \in p .. b - 1
        BY <1>3
      <3>2. QED
        BY <1>2, <1>4, <3>1 DEF TypeBy
    <2>2. QED
      BY <2>1
  <1>7. CASE b = k /\ IsBase(d[b])
    <2>1. c = e
      BY <1>7
    <2>2. TypeBy(l, 1, e, c)
      BY <1>5, <1>6, <1>7, <2>1 DEF TypeBy
    <2>3. QED
      BY <1>3, <2>2, TypeByIs, Zenon DEF l
  <1>8. CASE ~(b = k /\ IsBase(d[b]))
    <2>1. /\ b + 1 < k /\ d[b] = "L" /\ d[k] = Semicolon
          /\ \A j \in b + 1 .. k - 1 : Inner(d[j])
          /\ b + 2 = k => Unreserved(d[b + 1])
      BY <1>2, <1>8 DEF TypeBy
    <2>2. c + 1 < e /\ (c + 2 = e => b + 2 = k)
      BY <2>1
    <2>3. ASSUME NEW j \in c + 1 .. e - 1 PROVE Inner(l[j])
      <3>1. j \in 1 .. e /\ (p + j) - 1 \in b + 1 .. k - 1
        BY <1>3
      <3>2. QED
        BY <1>4, <2>1, <3>1
    <2>4. l[c + 1] = d[b + 1]
      <3>1. c + 1 \in 1 .. e /\ (p + (c + 1)) - 1 = b + 1
        BY <1>3, <2>2
      <3>2. QED
        BY <1>4, <3>1
    <2>5. TypeBy(l, 1, e, c)
      BY <1>5, <1>6, <2>1, <2>2, <2>3, <2>4 DEF TypeBy
    <2>6. QED
      BY <1>3, <2>5, TypeByIs, Zenon DEF l
  <1>9. QED
    BY <1>7, <1>8

\* How TypesIn goes over d.
NextType(x) ==
    LET one == SingleDescriptor(x.left)
    IN IF x.left = <<>> THEN x
       ELSE [left |-> From(x.left, one.size + 1),
             names |-> Append(x.names, NameOf(x.left, one)), slots |-> x.slots + one.slots]
Start(d) == [left |-> d, names |-> <<>>, slots |-> 0]
IsWalk(f, d, n) == f = [k \in 0 .. n |-> IF k = 0 THEN Start(d) ELSE NextType(f[k - 1])]

\* There is such a function.
LEMMA WalkExists ==
  ASSUME NEW d, NEW n \in Nat
  PROVE  \E f : IsWalk(f, d, n)
  <1> DEFINE S == {m \in Nat : \E f : IsWalk(f, d, m)}
  <1>1. 0 \in S
    <2> DEFINE f == [k \in 0 .. 0 |-> Start(d)]
    <2>1. f = [k \in 0 .. 0 |-> IF k = 0 THEN Start(d) ELSE NextType(f[k - 1])]
      OBVIOUS
    <2>2. QED
      BY <2>1 DEF IsWalk
  <1>2. ASSUME NEW m \in Nat, m \in S PROVE m + 1 \in S
    <2>1. PICK f : IsWalk(f, d, m)
      BY <1>2
    <2> DEFINE g == [k \in 0 .. m + 1 |-> IF k = 0 THEN Start(d) ELSE NextType(f[k - 1])]
    <2>2. \A k \in 0 .. m : f[k] = g[k]
      BY <2>1 DEF IsWalk
    <2>3. ASSUME NEW k \in 0 .. m + 1
          PROVE  g[k] = IF k = 0 THEN Start(d) ELSE NextType(g[k - 1])
      <3>1. k # 0 => k - 1 \in 0 .. m
        OBVIOUS
      <3>2. QED
        BY <2>2, <3>1
    <2>4. IsWalk(g, d, m + 1)
      BY <2>3 DEF IsWalk
    <2>5. QED
      BY <2>4
  <1>3. QED
    BY <1>1, <1>2, Induction

\* TypesIn is its last value.
LEMMA TypesAre ==
  ASSUME NEW d, NEW n \in Nat, Len(d) = n
  PROVE  \E f : IsWalk(f, d, n) /\ TypesIn(d) = f[n]
  <1> DEFINE f == CHOOSE g : IsWalk(g, d, n)
  <1>1. IsWalk(f, d, n)
    BY WalkExists
  <1>2. TypesIn(d) = f[n]
    BY Zenon DEF TypesIn, IsWalk, NextType, Start
  <1>3. QED
    BY <1>1, <1>2

\* h is g with y behind it:
OneMore(g, y, h) ==
    LET n == Len(g)
    IN h = [k \in 1 .. n + 1 |-> h[k]] /\ h[n + 1] = y /\ \A k \in 1 .. n : h[k] = g[k]

\* that is Append.
LEMMA OneMoreIs ==
  ASSUME NEW V, NEW g \in Seq(V), NEW y \in V, NEW h, OneMore(g, y, h)
  PROVE  h = Append(g, y) /\ h \in Seq(V)
  <1> DEFINE n == Len(g)
             a == Append(g, y)
  <1>1. n \in Nat /\ h = [k \in 1 .. n + 1 |-> h[k]] /\ h[n + 1] = y /\ \A k \in 1 .. n : h[k] = g[k]
    BY SeqHas DEF OneMore
  <1>2. /\ a \in Seq(V) /\ Len(a) = n + 1 /\ DOMAIN a = 1 .. n + 1 /\ a[n + 1] = y
        /\ \A k \in 1 .. n : a[k] = g[k]
    BY AppendHas
  <1> HIDE DEF a, n
  <1>3. \A k \in 1 .. n + 1 : h[k] = a[k]
    <2>1. \A k \in 1 .. n + 1 : k \in 1 .. n \/ k = n + 1
      BY <1>1
    <2>2. QED
      BY <1>1, <1>2, <2>1
  <1>4. a = [k \in 1 .. n + 1 |-> a[k]]
    BY <1>2
  <1>5. h = a
    BY <1>1, <1>3, <1>4
  <1>6. QED
    BY <1>2, <1>5 DEF a

\* The names taken from d, what they say, and the slots they take, when d has
\* been read up to the p-th token.
SaidBy(names) == [k \in DOMAIN names |-> DescriptorOf(names[k])]
SlotsOfName(name) == LET type == SlotTypeOfClass(name)
                     IN IF type \in WideSlot THEN <<type, type>> ELSE <<type>>
SlotsBy(names) == [k \in DOMAIN names |-> SlotsOfName(names[k])]
NamesIn(d, n) == {NameOf(SubSeq(d, i, n), SingleDescriptor(SubSeq(d, i, n))) : i \in 1 .. n}
SlotTypes == {SlotTypeOfClass(name) : name \in Words} \cup {"REF"}
WalkedTo(x, d, from, p, n) ==
    /\ x.left = SubSeq(d, p, n)
    /\ x.names \in Seq(NamesIn(d, n))
    /\ SaidBy(x.names) \in Seq(Seq(STRING)) /\ FlattenSeq(SaidBy(x.names)) = SubSeq(d, from, p - 1)
    /\ SlotsBy(x.names) \in Seq(Seq(SlotTypes)) /\ x.slots = Len(FlattenSeq(SlotsBy(x.names)))
    /\ \A j \in from .. p - 1 : d[j] # Closing

\* A slot type is one of six.
LEMMA SlotTypesAre == \A name : SlotTypeOfClass(name) \in SlotTypes
  <1>1. ASSUME NEW name PROVE SlotTypeOfClass(name) \in SlotTypes
    <2>1. CASE name \in Words
      BY <2>1 DEF SlotTypes
    <2>2. CASE name \notin Words
      BY <2>2, WordsAre, Zenon DEF SlotTypes
    <2>3. QED
      BY <2>1, <2>2
  <1>2. QED
    BY <1>1

\* One type more.
LEMMA WalkStep ==
  ASSUME NEW d \in Seq(STRING), NEW from \in Nat \ {0}, NEW n \in Nat, n <= Len(d),
         NEW p \in from .. n, NEW k \in p .. n, IsType(d, p, k),
         NEW x, WalkedTo(x, d, from, p, n)
  PROVE  WalkedTo(NextType(x), d, from, k + 1, n)
  <1> DEFINE l == SubSeq(d, p, n)
             e == (k + 1) - p
             one == SingleDescriptor(l)
             name == NameOf(l, one)
             names == x.names
             more == Append(names, name)
             said == SaidBy(names)
             slots == SlotsBy(names)
             new == SlotsOfName(name)
             y == NextType(x)
  <1>1. /\ l \in Seq(STRING) /\ Len(l) = (n + 1) - p
        /\ \A j \in 1 .. (n + 1) - p : l[j] = d[(p + j) - 1]
    BY PartIs
  <1>2. e \in 1 .. Len(l) /\ p \in Nat \ {0} /\ p <= n /\ k \in Nat /\ p <= k /\ k <= n
    BY <1>1
  <1>3. IsType(l, 1, e)
    BY <1>2, TypeMoved
  <1>4. IsTaken(l, e)
    BY <1>1, <1>2, <1>3, TypeTaken
  <1>5. l # <<>> /\ x.left = l
    <2>1. Len(l) # 0
      BY <1>1, <1>2
    <2>2. x.left = l
      BY DEF WalkedTo
    <2> HIDE DEF l
    <2>3. QED
      BY <2>1, <2>2
  <1>6. /\ one.size = e /\ one.slots = SlotsFor(name)
        /\ DescriptorOf(name) = SubSeq(l, 1, e)
        /\ \A j \in 1 .. e : l[j] # Closing
    BY <1>4 DEF IsTaken
  <1>7. y.left = From(l, e + 1) /\ y.names = more /\ y.slots = x.slots + SlotsFor(name)
    <2> HIDE DEF l, one, name, more, names
    <2>1. y = [left |-> From(l, e + 1), names |-> more, slots |-> x.slots + SlotsFor(name)]
      BY <1>5, <1>6 DEF NextType, one, name, more, names
    <2>2. QED
      BY <2>1
  <1>8. From(l, e + 1) = SubSeq(d, k + 1, n)
    <2> DEFINE m == Len(l)
    <2>1. /\ m = (n + 1) - p /\ e + 1 \in Nat \ {0} /\ m \in Nat /\ e + 1 <= m + 1
          /\ k + 1 = (p + (e + 1)) - 1 /\ n = (p + m) - 1
      BY <1>1, <1>2
    <2> HIDE DEF m
    <2>2. SubSeq(l, e + 1, m) = SubSeq(d, k + 1, n)
      BY <1>2, <2>1, PartOfPart
    <2>3. QED
      BY <2>2 DEF From, m
  <1>9. DescriptorOf(name) = SubSeq(d, p, k) /\ SubSeq(d, p, k) \in Seq(STRING)
    <2>1. 1 \in Nat \ {0} /\ e \in Nat /\ 1 <= e + 1 /\ e <= (n + 1) - p /\ p = (p + 1) - 1 /\ k = (p + e) - 1
      BY <1>2
    <2>2. SubSeq(l, 1, e) = SubSeq(d, p, k)
      BY <1>2, <2>1, PartOfPart
    <2>3. p <= k + 1 /\ k <= Len(d)
      <3>1. Len(d) \in Nat
        BY SeqHas
      <3>2. QED
        BY <1>2, <3>1
    <2>4. SubSeq(d, p, k) \in Seq(STRING)
      BY <1>2, <2>3, PartIs
    <2>5. QED
      BY <1>6, <2>2, <2>4
  <1>10. name \in NamesIn(d, n) /\ names \in Seq(NamesIn(d, n))
    <2>1. p \in 1 .. n
      BY <1>2
    <2>2. QED
      BY <2>1, Zenon DEF NamesIn, WalkedTo
  <1>11. more \in Seq(NamesIn(d, n)) /\ DOMAIN more = 1 .. Len(names) + 1
         /\ more[Len(names) + 1] = name /\ (\A i \in 1 .. Len(names) : more[i] = names[i])
         /\ Len(names) \in Nat /\ DOMAIN names = 1 .. Len(names) /\ more = Append(names, name)
    <2> HIDE DEF more, name, names
    <2>1. Len(names) \in Nat /\ DOMAIN names = 1 .. Len(names)
      BY <1>10, SeqHas
    <2>2. QED
      BY <1>10, <2>1, AppendHas DEF more
  <1> HIDE DEF l, one, name, names, more, y
  <1>12. /\ SaidBy(more) = Append(said, SubSeq(d, p, k))
         /\ SaidBy(more) \in Seq(Seq(STRING)) /\ said \in Seq(Seq(STRING))
    <2> DEFINE h == SaidBy(more)
               v == SubSeq(d, p, k)
    <2>1. said \in Seq(Seq(STRING)) /\ DOMAIN said = DOMAIN names
      BY DEF WalkedTo, names, SaidBy
    <2>2. Len(said) = Len(names)
      BY <1>11, <2>1, SeqHas
    <2>3. h = [i \in DOMAIN more |-> h[i]]
      BY DEF SaidBy
    <2>4. \A i \in 1 .. Len(names) : h[i] = said[i]
      BY <1>11 DEF SaidBy
    <2>5. h[Len(names) + 1] = v
      <3>1. Len(names) + 1 \in DOMAIN more
        BY <1>11
      <3>2. QED
        BY <1>9, <1>11, <3>1 DEF SaidBy
    <2> HIDE DEF h, said, v
    <2>6. v \in Seq(STRING)
      BY <1>9 DEF v
    <2>7. OneMore(said, v, h)
      BY <1>11, <2>2, <2>3, <2>4, <2>5 DEF OneMore
    <2>8. h = Append(said, v) /\ h \in Seq(Seq(STRING))
      BY <2>1, <2>6, <2>7, OneMoreIs
    <2>9. QED
      BY <2>1, <2>8 DEF h, v
  <1>13. FlattenSeq(SaidBy(more)) = SubSeq(d, from, k)
    <2> DEFINE u == SubSeq(d, from, p - 1)
               v == SubSeq(d, p, k)
               w == SubSeq(d, from, k)
    <2>1. FlattenSeq(said) = u
      BY DEF WalkedTo, names
    <2>2. FlattenSeq(SaidBy(more)) = u \o v
      BY <1>9, <1>12, <2>1, FlattenAppend
    <2>3. u \o v = w
      <3>1. Len(d) \in Nat
        BY SeqHas
      <3>2. from <= p /\ p <= k + 1 /\ k <= Len(d)
        BY <1>2, <3>1
      <3>3. QED
        BY <1>2, <3>2, PartsJoined
    <2>4. QED
      BY <2>2, <2>3
  <1>14. /\ SlotsBy(more) \in Seq(Seq(SlotTypes))
         /\ x.slots + SlotsFor(name) = Len(FlattenSeq(SlotsBy(more)))
    <2> DEFINE h == SlotsBy(more)
    <2>1. slots \in Seq(Seq(SlotTypes)) /\ DOMAIN slots = DOMAIN names
          /\ x.slots = Len(FlattenSeq(slots))
      BY DEF WalkedTo, names, SlotsBy
    <2>2. Len(slots) = Len(names)
      BY <1>11, <2>1, SeqHas
    <2>3. h = [i \in DOMAIN more |-> h[i]]
      BY DEF SlotsBy
    <2>4. \A i \in 1 .. Len(names) : h[i] = slots[i]
      BY <1>11 DEF SlotsBy
    <2>5. h[Len(names) + 1] = new
      <3>1. Len(names) + 1 \in DOMAIN more
        BY <1>11
      <3>2. QED
        BY <1>11, <3>1 DEF SlotsBy
    <2>6. new \in Seq(SlotTypes) /\ Len(new) = SlotsFor(name)
      <3> DEFINE type == SlotTypeOfClass(name)
      <3>1. type \in SlotTypes
        BY SlotTypesAre
      <3>2. new = (IF type \in WideSlot THEN <<type, type>> ELSE <<type>>)
            /\ SlotsFor(name) = IF type \in WideSlot THEN 2 ELSE 1
        BY DEF SlotsOfName, SlotsFor
      <3> HIDE DEF type, new
      <3>3. QED
        BY <3>1, <3>2
    <2> HIDE DEF h, slots, new
    <2>7. OneMore(slots, new, h)
      BY <1>11, <2>2, <2>3, <2>4, <2>5 DEF OneMore
    <2>8. h = Append(slots, new) /\ h \in Seq(Seq(SlotTypes))
      BY <2>1, <2>6, <2>7, OneMoreIs
    <2>9. FlattenSeq(h) = FlattenSeq(slots) \o new
      BY <2>1, <2>6, <2>8, FlattenAppend
    <2>10. FlattenSeq(slots) \in Seq(SlotTypes)
      BY <2>1, FlattenType
    <2>11. Len(FlattenSeq(slots) \o new) = Len(FlattenSeq(slots)) + Len(new)
      BY <2>6, <2>10, ConcatProperties
    <2>12. QED
      BY <2>1, <2>6, <2>8, <2>9, <2>11 DEF h
  <1>15. \A j \in from .. k : d[j] # Closing
    <2>1. ASSUME NEW j \in from .. k PROVE d[j] # Closing
      <3>1. CASE j < p
        <4>1. j \in from .. p - 1
          BY <1>2, <3>1
        <4>2. QED
          BY <4>1 DEF WalkedTo
      <3>2. CASE ~(j < p)
        <4>1. (j + 1) - p \in 1 .. e /\ (j + 1) - p \in 1 .. (n + 1) - p /\ (p + ((j + 1) - p)) - 1 = j
          BY <1>2, <3>2
        <4>2. QED
          BY <1>1, <1>6, <4>1
      <3>3. QED
        BY <3>1, <3>2
    <2>2. QED
      BY <2>1
  <1>16. (k + 1) - 1 = k
    BY <1>2
  <1>17. QED
    BY <1>7, <1>8, <1>11, <1>12, <1>13, <1>14, <1>15, <1>16 DEF WalkedTo, y

\* Types one after the other are all read.
LEMMA WalkEnds ==
  ASSUME NEW d \in Seq(STRING), NEW from \in Nat \ {0}, NEW n \in Nat, from <= n + 1, n <= Len(d),
         NEW starts \in SUBSET (from .. n), NEW end, end = n + 1, from \in starts \cup {end},
         AreTypes(d, starts, end)
  PROVE  WalkedTo(TypesIn(SubSeq(d, from, n)), d, from, end, n)
  <1> DEFINE l == SubSeq(d, from, n)
             m == end - from
  <1>1. m \in Nat /\ Len(l) = m /\ l \in Seq(STRING)
    BY PartIs
  <1> HIDE DEF l
  <1>2. PICK f : IsWalk(f, l, m) /\ TypesIn(l) = f[m]
    BY <1>1, TypesAre
  <1> DEFINE To(k, p) == WalkedTo(f[k], d, from, p, n)
             S == {k \in Nat : k <= m => \E p \in starts \cup {end} : p >= from + k /\ To(k, p)}
  <1>3. f[0] = Start(l) /\ \A k \in 0 .. m : k # 0 => f[k] = NextType(f[k - 1])
    BY <1>1, <1>2 DEF IsWalk
  <1>4. 0 \in S
    <2> DEFINE x == Start(l)
               z == SubSeq(d, from, from - 1)
    <2>1. x.left = l /\ x.names = <<>> /\ x.slots = 0
      BY DEF Start
    <2>2. SaidBy(<<>>) = <<>> /\ SlotsBy(<<>>) = <<>>
      BY DEF SaidBy, SlotsBy
    <2>3. z = <<>>
      <3> DEFINE q == from - 1
      <3>1. q \in Nat /\ from <= q + 1 /\ q <= Len(d) /\ (q + 1) - from = 0
        <4>1. Len(d) \in Nat
          BY SeqHas
        <4>2. QED
          BY <4>1
      <3> HIDE DEF q
      <3>2. SubSeq(d, from, q) \in Seq(STRING) /\ Len(SubSeq(d, from, q)) = (q + 1) - from
        BY <3>1, PartIs
      <3> DEFINE s == SubSeq(d, from, q)
      <3>3. s \in Seq(STRING) /\ Len(s) = 0
        BY <3>1, <3>2
      <3> HIDE DEF s
      <3>4. s = <<>>
        BY <3>3
      <3>5. QED
        BY <3>4 DEF s, q
    <2> HIDE DEF x, z
    <2>4. \A j \in from .. from - 1 : d[j] # Closing
      OBVIOUS
    <2>5. <<>> \in Seq(NamesIn(d, n)) /\ <<>> \in Seq(Seq(STRING)) /\ <<>> \in Seq(Seq(SlotTypes))
      OBVIOUS
    <2>6. 0 = Len(<<>>)
      OBVIOUS
    <2>7. WalkedTo(x, d, from, from, n)
      BY <2>1, <2>2, <2>3, <2>4, <2>5, <2>6, FlattenEmpty, Zenon DEF WalkedTo, l, z
    <2>8. To(0, from)
      BY <1>3, <2>7 DEF x
    <2> HIDE DEF To
    <2>9. from >= from + 0
      OBVIOUS
    <2>10. QED
      BY <2>8, <2>9
  <1>5. ASSUME NEW k \in Nat, k \in S PROVE k + 1 \in S
    <2> SUFFICES ASSUME k + 1 <= m
                 PROVE  \E p \in starts \cup {end} : p >= from + (k + 1) /\ To(k + 1, p)
      OBVIOUS
    <2>1. PICK p \in starts \cup {end} : p >= from + k /\ To(k, p)
      BY <1>1, <1>5
    <2>2. f[k + 1] = NextType(f[k])
      <3>1. k + 1 \in 0 .. m /\ k + 1 # 0 /\ (k + 1) - 1 = k
        BY <1>1
      <3>2. QED
        BY <1>3, <3>1
    <2>3. CASE p = end
      <3>1. f[k].left = <<>>
        <4>1. f[k].left = SubSeq(d, end, n)
          BY <2>1, <2>3 DEF WalkedTo
        <4>2. SubSeq(d, end, n) = <<>>
          <5> DEFINE s == SubSeq(d, end, n)
          <5>1. s \in Seq(STRING) /\ Len(s) = (n + 1) - end
            BY PartIs
          <5> HIDE DEF s
          <5>2. s = <<>>
            BY <5>1
          <5>3. QED
            BY <5>2 DEF s
        <4>3. QED
          BY <4>1, <4>2
      <3>2. NextType(f[k]) = f[k]
        BY <3>1 DEF NextType
      <3>3. To(k + 1, p)
        BY <2>1, <2>2, <3>2
      <3> HIDE DEF To
      <3>4. p >= from + (k + 1)
        BY <1>1, <2>3
      <3>5. QED
        BY <3>3, <3>4
    <2>4. CASE p # end
      <3>1. p \in starts
        BY <2>4
      <3>2. PICK e \in p .. end - 1 : IsType(d, p, e) /\ e + 1 \in starts \cup {end}
        BY <3>1, Zenon DEF AreTypes
      <3>3. p \in from .. n /\ e \in p .. n
        <4>1. p \in from .. n
          BY <3>1
        <4>2. QED
          BY <4>1
      <3>4. WalkedTo(NextType(f[k]), d, from, e + 1, n)
        BY <2>1, <3>2, <3>3, WalkStep
      <3>5. To(k + 1, e + 1)
        BY <2>2, <3>4
      <3> HIDE DEF To
      <3>6. e + 1 >= from + (k + 1)
        BY <2>1, <3>3
      <3>7. QED
        BY <3>2, <3>5, <3>6
    <2>5. QED
      BY <2>3, <2>4
  <1> HIDE DEF To
  <1>6. m \in S
    <2> HIDE DEF S
    <2>1. QED
      BY <1>1, <1>4, <1>5, Induction
  <1>7. PICK p \in starts \cup {end} : p >= from + m /\ To(m, p)
    BY <1>1, <1>6
  <1>8. p = end
    <2>1. p \in from .. n \/ p = end
      OBVIOUS
    <2>2. QED
      BY <1>7, <2>1
  <1>9. QED
    BY <1>2, <1>7, <1>8 DEF To, l

\* One type that is all of l.
LEMMA OneTaken ==
  ASSUME NEW l \in Seq(STRING), 1 <= Len(l), IsTaken(l, Len(l))
  PROVE  DescriptorOf(ParseDescriptor(l)[1]) = l
  <1> DEFINE n == Len(l)
             one == SingleDescriptor(l)
             name == NameOf(l, one)
             s == SubSeq(l, 1, n)
             x == NextType(Start(l))
             rest1 == SubSeq(l, n + 1, n)
  <1>1. n \in Nat /\ 1 <= n
    BY SeqHas
  <1>2. PICK f : IsWalk(f, l, n) /\ TypesIn(l) = f[n]
    BY <1>1, TypesAre
  <1>3. s = l
    BY AllOf
  <1>4. one.size = n /\ DescriptorOf(name) = l
    BY <1>3 DEF IsTaken
  <1>5. rest1 = <<>>
    <2>0. n <= Len(l) /\ n + 1 \in Nat \ {0} /\ n + 1 <= n + 1
      BY <1>1
    <2> HIDE DEF n
    <2>1. rest1 \in Seq(STRING) /\ Len(rest1) = (n + 1) - (n + 1)
      BY <1>1, <2>0, PartIs
    <2> HIDE DEF rest1
    <2>2. QED
      BY <1>1, <2>1
  <1>6. l # <<>>
    BY <1>1
  <1> HIDE DEF one, name
  <1>7. x.left = <<>> /\ x.names = Append(<<>>, name)
    <2> DEFINE y == [left |-> From(l, one.size + 1), names |-> Append(<<>>, name), slots |-> 0 + one.slots]
    <2>1. Start(l).left = l /\ Start(l).names = <<>> /\ Start(l).slots = 0
      BY DEF Start
    <2>2. x = y
      BY <1>6, <2>1, Zenon DEF NextType, one, name
    <2>3. From(l, one.size + 1) = <<>>
      BY <1>4, <1>5 DEF From
    <2>4. QED
      BY <2>2, <2>3
  <1>8. x.names[1] = name
    BY <1>7
  <1>9. NextType(x) = x
    BY <1>7 DEF NextType
  <1> HIDE DEF x, n
  <1>10. f[0] = Start(l) /\ \A k \in 0 .. n : k # 0 => f[k] = NextType(f[k - 1])
    BY <1>1, <1>2 DEF IsWalk
  <1> DEFINE S == {k \in Nat : k + 1 <= n => f[k + 1] = x}
  <1>11. 0 \in S
    <2>1. 1 \in 0 .. n /\ 0 + 1 = 1 /\ 1 - 1 = 0
      BY <1>1
    <2>2. f[1] = x
      BY <1>10, <2>1 DEF x
    <2>3. QED
      BY <2>2
  <1>12. ASSUME NEW k \in Nat, k \in S PROVE k + 1 \in S
    <2> SUFFICES ASSUME (k + 1) + 1 <= n PROVE f[(k + 1) + 1] = x
      OBVIOUS
    <2>1. (k + 1) + 1 \in 0 .. n /\ (k + 1) + 1 # 0 /\ ((k + 1) + 1) - 1 = k + 1 /\ k + 1 <= n
      BY <1>1
    <2>2. f[k + 1] = x
      BY <1>12, <2>1
    <2>3. QED
      BY <1>9, <1>10, <2>1, <2>2
  <1> HIDE DEF S
  <1>13. n - 1 \in Nat /\ (n - 1) + 1 = n
    BY <1>1
  <1>14. n - 1 \in S
    BY <1>11, <1>12, <1>13, Induction
  <1>15. f[n] = x
    BY <1>13, <1>14 DEF S
  <1>16. QED
    BY <1>2, <1>4, <1>8, <1>15 DEF ParseDescriptor

\* A sequence put together from what is in front of, between and behind two
\* of its members.
LEMMA PutTogether ==
  ASSUME NEW U, NEW d \in Seq(U), NEW n, n = Len(d), NEW e \in 2 .. n - 1,
         NEW a \in U, NEW b \in U, d[1] = a, d[e] = b
  PROVE  d = <<a>> \o SubSeq(d, 2, e - 1) \o <<b>> \o SubSeq(d, e + 1, n)
  <1>1. n \in Nat /\ e \in 1 .. n /\ 2 <= e /\ e \in Nat /\ e + 1 <= n
    BY SeqHas
  <1>2. <<a>> \o SubSeq(d, 2, e - 1) \o <<b>> = SubSeq(d, 1, e)
    BY <1>1, PartBetween
  <1>3. SubSeq(d, 1, e) \o SubSeq(d, e + 1, n) = SubSeq(d, 1, n)
    <2> DEFINE p == e + 1
    <2>1. p \in Nat /\ 1 <= p /\ p <= n + 1 /\ p - 1 = e
      BY <1>1
    <2> HIDE DEF p
    <2>2. SubSeq(d, 1, p - 1) \o SubSeq(d, p, n) = SubSeq(d, 1, n)
      BY <1>1, <2>1, PartsJoined
    <2>3. QED
      BY <2>1, <2>2 DEF p
  <1>4. SubSeq(d, 1, n) = d
    BY AllOf
  <1>5. QED
    BY <1>2, <1>3, <1>4

\* What a descriptor says of the types.
Opening == "("
DescriptorSays(d, type) ==
    /\ d = <<Opening>> \o FlattenSeq(SaidBy(type.params)) \o <<Closing>> \o DescriptorOf(type.returns)
    /\ SlotsBy(type.params) \in Seq(Seq(SlotTypes))
    /\ \A static \in BOOLEAN :
           ParamSlotSizeFromDescriptor(d, static)
               = (IF static THEN 0 ELSE 1) + Len(FlattenSeq(SlotsBy(type.params)))

\* What is parsed of a method descriptor is what it says.
LEMMA DescriptorParsed ==
  ASSUME NEW d \in Seq(STRING), IsMethodDescriptor(d)
  PROVE  DescriptorSays(d, ParseMethodDescriptor(d))
  <1> DEFINE n == Len(d)
  <1>1. PICK end \in 2 .. n - 1 :
            /\ d[1] = Opening /\ d[end] = Closing
            /\ \E starts \in SUBSET (2 .. end - 1) :
                   2 \in starts \cup {end} /\ AreTypes(d, starts, end)
            /\ IsType(d, end + 1, n) \/ (end + 1 = n /\ d[end + 1] = "V")
    BY Zenon DEF IsMethodDescriptor, Opening, Closing
  <1>2. PICK starts \in SUBSET (2 .. end - 1) : 2 \in starts \cup {end} /\ AreTypes(d, starts, end)
    BY <1>1, Zenon
  <1> DEFINE m == end - 1
             params == SubSeq(d, 2, m)
             l == From(d, end + 1)
             type == ParseMethodDescriptor(d)
             t == TypesIn(params)
  <1>3. n \in Nat /\ end \in Nat /\ 2 <= end /\ end <= n - 1 /\ m \in Nat /\ 2 <= m + 1 /\ m <= n /\ end = m + 1
    BY SeqHas
  <1>4. WalkedTo(t, d, 2, end, m)
    <2> HIDE DEF m
    <2>1. starts \in SUBSET (2 .. m)
      BY <1>2 DEF m
    <2>2. QED
      BY <1>2, <1>3, <2>1, WalkEnds
  <1>5. \A j \in 1 .. end - 1 : d[j] # Closing
    <2>1. d[1] # Closing
      BY <1>1, Zenon DEF Opening, Closing
    <2>2. \A j \in 2 .. end - 1 : d[j] # Closing
      BY <1>4 DEF WalkedTo
    <2>3. \A j \in 1 .. end - 1 : j = 1 \/ j \in 2 .. end - 1
      BY <1>3
    <2>4. QED
      BY <2>1, <2>2, <2>3
  <1>6. Find(d, Opening, 1) = 1
    <2>1. 1 \in 1 .. n /\ 1 \in Nat /\ \A j \in 1 .. 1 - 1 : d[j] # Opening
      BY <1>3
    <2>2. QED
      BY <1>1, <1>3, <2>1, FindIs
  <1>7. Find(d, Closing, 1) = end
    <2>1. end \in 1 .. n /\ 1 \in Nat
      BY <1>3
    <2>2. QED
      BY <1>1, <1>3, <1>5, <2>1, FindIs
  <1>8. /\ type.params = ParseDescriptor(SubSeq(d, Find(d, Opening, 1) + 1, Find(d, Closing, 1) - 1))
        /\ type.returns = ParseDescriptor(From(d, Find(d, Closing, 1) + 1))[1]
    BY Zenon DEF ParseMethodDescriptor, Opening, Closing
  <1>9. /\ type.params = t.names /\ type.returns = ParseDescriptor(l)[1]
    <2>1. 1 + 1 = 2
      OBVIOUS
    <2>2. QED
      BY <1>6, <1>7, <1>8, <2>1, Zenon DEF ParseDescriptor
  <1>10. \A static \in BOOLEAN :
             ParamSlotSizeFromDescriptor(d, static)
                 = (IF static THEN 0 ELSE 1) + Len(FlattenSeq(SlotsBy(t.names)))
    <2>1. \A static :
              ParamSlotSizeFromDescriptor(d, static)
                  = (IF static THEN 0 ELSE 1)
                    + SlotsOf(SubSeq(d, Find(d, Opening, 1) + 1, Find(d, Closing, 1) - 1))
      BY Zenon DEF ParamSlotSizeFromDescriptor, Opening, Closing
    <2>2. SlotsOf(params) = Len(FlattenSeq(SlotsBy(t.names)))
      BY <1>4, Zenon DEF SlotsOf, WalkedTo
    <2>3. 1 + 1 = 2
      OBVIOUS
    <2>4. QED
      BY <1>6, <1>7, <2>1, <2>2, <2>3, Zenon
  <1>11. l = SubSeq(d, end + 1, n) /\ l \in Seq(STRING) /\ Len(l) = n - end
         /\ l[1] = d[end + 1]
    <2> DEFINE p == end + 1
               s == SubSeq(d, p, n)
    <2>1. p \in Nat \ {0} /\ p <= n + 1 /\ (n + 1) - p = n - end /\ 1 \in 1 .. n - end /\ (p + 1) - 1 = p
      BY <1>3
    <2> HIDE DEF p
    <2>2. s \in Seq(STRING) /\ Len(s) = (n + 1) - p /\ \A j \in 1 .. (n + 1) - p : s[j] = d[(p + j) - 1]
      BY <1>3, <2>1, PartIs
    <2> HIDE DEF s
    <2>3. s \in Seq(STRING) /\ Len(s) = n - end /\ s[1] = d[p]
      BY <2>1, <2>2
    <2>4. QED
      BY <2>3 DEF s, p, From
  <1> HIDE DEF l
  <1>12. IsTaken(l, Len(l)) /\ 1 <= Len(l)
    <2>1. 1 <= Len(l) /\ Len(l) \in Nat
      BY <1>3, <1>11
    <2>2. CASE IsType(d, end + 1, n)
      <3> DEFINE p == end + 1
                 e == (n + 1) - p
      <3>1. p \in Nat \ {0} /\ n \in p .. n /\ e = n - end /\ e \in 1 .. n - end /\ n <= Len(d)
        BY <1>3
      <3> HIDE DEF p, e
      <3>2. IsType(SubSeq(d, p, n), 1, (n + 1) - p)
        BY <1>3, <2>2, <3>1, TypeMoved DEF p
      <3>3. IsType(l, 1, e)
        BY <1>11, <3>2 DEF e, p
      <3>4. IsTaken(l, e)
        BY <1>11, <3>1, <3>3, TypeTaken
      <3>5. QED
        BY <1>11, <2>1, <3>1, <3>4
    <2>3. CASE end + 1 = n /\ d[end + 1] = "V"
      <3> HIDE DEF n
      <3>1. n - end = 1
        BY <1>3, <2>3
      <3>2. Len(l) = 1 /\ l[1] = "V"
        BY <1>11, <2>3, <3>1
      <3>3. IsTaken(l, 1)
        BY <1>11, <2>1, <3>2, LetterTaken
      <3>4. QED
        BY <2>1, <3>2, <3>3
    <2>4. QED
      BY <1>1, <2>1, <2>2, <2>3
  <1>13. DescriptorOf(type.returns) = l
    BY <1>9, <1>11, <1>12, OneTaken
  <1>14. FlattenSeq(SaidBy(t.names)) = params /\ SlotsBy(t.names) \in Seq(Seq(SlotTypes))
    BY <1>4 DEF WalkedTo
  <1>15. d = <<Opening>> \o params \o <<Closing>> \o SubSeq(d, end + 1, n)
    <2>1. Opening \in STRING /\ Closing \in STRING
      <3>1. \A j \in 1 .. n : d[j] \in STRING
        BY SeqHas
      <3>2. 1 \in 1 .. n /\ end \in 1 .. n
        BY <1>3
      <3>3. QED
        BY <1>1, <3>1, <3>2
    <2>2. QED
      BY <1>1, <2>1, PutTogether
  <1> HIDE DEF type, t, params, n
  <1>16. QED
    BY <1>9, <1>10, <1>11, <1>13, <1>14, <1>15, Zenon DEF DescriptorSays, type

\* The slots of the parameters and of the receiver.
LEMMA SlotsCounted ==
  ASSUME NEW access, NEW names, SlotsBy(names) \in Seq(Seq(SlotTypes))
  PROVE  Len(ParamSlotTypes(access, names))
             = (IF Has(access, ACC_STATIC) THEN 0 ELSE 1) + Len(FlattenSeq(SlotsBy(names)))
  <1> DEFINE s == FlattenSeq(SlotsBy(names))
             b == IF Has(access, ACC_STATIC) THEN <<>> ELSE <<"REF">>
  <1>1. s \in Seq(SlotTypes)
    BY FlattenType
  <1>2. ParamSlotTypes(access, names) = b \o s
    BY DEF ParamSlotTypes, SlotsBy, SlotsOfName
  <1>3. b \in Seq(SlotTypes) /\ Len(b) = IF Has(access, ACC_STATIC) THEN 0 ELSE 1
    <2>1. "REF" \in SlotTypes
      BY DEF SlotTypes
    <2> HIDE DEF SlotTypes
    <2>2. CASE Has(access, ACC_STATIC)
      BY <2>2
    <2>3. CASE ~Has(access, ACC_STATIC)
      BY <2>1, <2>3
    <2>4. QED
      BY <2>2, <2>3
  <1> HIDE DEF s, b
  <1>4. Len(b \o s) = Len(b) + Len(s)
    BY <1>1, <1>3, ConcatProperties, Zenon
  <1>5. QED
    BY <1>2, <1>3, <1>4 DEF s

\* The methods of a class have the descriptors of the file, and their types.
LEMMA MethodsTyped ==
  ASSUME NEW f, IsFile(f), NEW ms, MethodsSay(f, ms), NEW k \in DOMAIN ms
  PROVE  /\ ms[k].descriptor \in Seq(STRING) /\ IsMethodDescriptor(ms[k].descriptor)
         /\ TypedBy(ms[k])
  <1> DEFINE n == Len(f.methods)
  <1>1. DOMAIN f.methods = 1 .. n /\ k \in 1 .. n /\ TypedBy(ms[k])
    BY DEF MethodsSay
  <1>2. PICK i \in 1 .. n : SaysOfMethod(f, f.methods[i], ms[k])
    BY DEF MethodsSay
  <1> DEFINE t == f.methods[i].fixed[3]
  <1>3. IsText(f.pool, t) /\ f.pool \in Seq(Constants) /\ IsMethodDescriptor(TextIn(f, t))
    BY <1>1 DEF IsFile, AreMembers
  <1>4. ms[k].descriptor = TextIn(f, t)
    BY <1>2 DEF SaysOfMethod, SaysOf
  <1> HIDE DEF t
  <1>5. QED
    BY <1>1, <1>3, <1>4, TextTyped

\* The types of a method are those of its descriptor, and the two ways to count
\* the slots of its parameters agree: ParametersAgree.
THEOREM TypesAreOfDescriptor == Spec => []ParametersAgree
  <1>1. IInv /\ Building(File) => ParametersAgree
    <2> SUFFICES ASSUME IInv, Building(File), phase = "built", NEW i \in DOMAIN klass.methods
                 PROVE  LET m == klass.methods[i] IN
                        /\ m.paramSlotSize = ParamSlotSizeFromDescriptor(m.descriptor, IsStatic(m))
                        /\ m.descriptor
                               = <<Opening>> \o FlattenSeq(SaidBy(m.paramType)) \o <<Closing>>
                                 \o DescriptorOf(m.returnType)
      BY Zenon DEF ParametersAgree, Opening, Closing, SaidBy
    <2> DEFINE f == File
               m == klass.methods[i]
               type == ParseMethodDescriptor(m.descriptor)
    <2>1. IsFile(f)
      BY Files, ParsingPhase DEF IInv, File
    <2>2. MethodsSay(f, klass.methods)
      BY DEF Building, Moved
    <2> HIDE DEF f
    <2>3. m.descriptor \in Seq(STRING) /\ IsMethodDescriptor(m.descriptor) /\ TypedBy(m)
      BY <2>1, <2>2, MethodsTyped
    <2> HIDE DEF m
    <2>4. DescriptorSays(m.descriptor, type)
      BY <2>3, DescriptorParsed
    <2>5. /\ m.paramType = type.params /\ m.returnType = type.returns
          /\ m.paramSlotSize = Len(ParamSlotTypes(m.access, m.paramType))
      BY <2>3 DEF TypedBy
    <2> HIDE DEF type
    <2>6. m.paramSlotSize = ParamSlotSizeFromDescriptor(m.descriptor, IsStatic(m))
      <3>1. IsStatic(m) \in BOOLEAN /\ IsStatic(m) = Has(m.access, ACC_STATIC)
        BY DEF IsStatic, Has
      <3>2. Len(ParamSlotTypes(m.access, type.params))
                = (IF Has(m.access, ACC_STATIC) THEN 0 ELSE 1) + Len(FlattenSeq(SlotsBy(type.params)))
        BY <2>4, SlotsCounted DEF DescriptorSays
      <3>3. QED
        BY <2>4, <2>5, <3>1, <3>2, Zenon DEF DescriptorSays
    <2>7. QED
      BY <2>4, <2>5, <2>6, Zenon DEF DescriptorSays, m
  <1>2. QED
    BY <1>1, InitIInv, NextIInv, InitBuilding, NextBuilding, PTL DEF Spec

=============================================================================
