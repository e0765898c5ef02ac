---------------------------- MODULE ReflectionProofs ----------------------------
(***************************************************************************)
(* TLAPS proofs about Reflection.tla, for any threads, classes, members,   *)
(* strings and natives called: one object for each class, member and       *)
(* string; nothing points to what has been deleted; a name is loaded once. *)
(*                                                                         *)
(* The first part is about what a native still has to do, as a sequence of *)
(* calls: which call may stand in front of which others, where clMutex is  *)
(* released, when the class whose mirror is asked for has been found, and  *)
(* where objects are in C++ variables; that the natives of CoreNatives.tla *)
(* are such sequences, and stay so when a call makes others.  The second   *)
(* part is about what the threads share.                                   *)
(***************************************************************************)
EXTENDS Reflection, SequenceTheorems, FiniteSetTheorems, WellFoundedInduction, TLAPS

\* The names of classes, members and strings, and those forName0 is asked for.
Words == {""} \cup DOMAIN KindOf \cup Bytes \cup {call.of : call \in Calls}
Operations == {"find", "look", "unlock", "emplace", "define", "anonymous", "rename", "intern",
               "insert", "mirror", "lockMirror", "make", "unlockMirror", "java", "leave",
               "notFound", "tested", "return"}
Entities == [name : Words, copy : Nat]
Objects == [of : Entities, n : Nat]
Steps == [do : Operations, of : Entities, into : Entities]

\* The calls that load a class.
Loading == {"find", "look", "unlock", "emplace"}
\* Those that end with an object in a C++ variable or in a mirror.
Giving == {"intern", "insert", "mirror", "lockMirror", "make", "unlockMirror"}
Making == {"lockMirror", "make", "unlockMirror"}

IsClass(e) == e \in Entities /\ e.name \in ClassNames
IsMember(e) == e \in Entities /\ e.name \in Members
IsFoundMirror(x) == x.do = "mirror" /\ x.of = NoEntity

-----------------------------------------------------------------------------
(* What a thread still has to do *)

\* What holds of each call; names are the classes defined from bytes so far.
StepOK(x, names) ==
    /\ x.do = "emplace" => IsClass(x.of)
    /\ x.do = "emplace" /\ x.of.name = AnonymousName => names # {}
    /\ x.do \in {"define", "anonymous", "rename"} => x.of.name \in ClassFiles
    /\ x.do = "rename" => x.of.name \in names
    /\ x.do \in {"intern", "insert"} => x.of.name \in Bytes
    /\ x.do = "mirror" => x.of = NoEntity \/ x.of.name \in DOMAIN KindOf
    /\ x.do \in Making => x.of.name \in DOMAIN KindOf
    /\ x.into # NoEntity => /\ IsMember(x.into)
                            /\ x.do \in Giving
                            /\ x.do \in Making \cup {"mirror"} => x.of = NoEntity \/ IsClass(x.of)

\* A class of the class path, that nobody has defined from bytes.
Locked(x, names) == x.do = "emplace" /\ x.of.name \notin names \cup {AnonymousName}
NeedsLock(x, names) == x.do = "look" \/ Locked(x, names)
Closed(x, names) == x.do \in {"insert", "unlock"} \/ Locked(x, names)

Depth == CHOOSE depth \in [ClassFiles -> 0 .. Cardinality(ClassFiles)] :
            \A n \in ClassFiles : \A i \in DOMAIN Above[n] : depth[Above[n][i]] < depth[n]
IsAbove(c, d) == c \in ClassFiles /\ d \in ClassFiles /\ Depth[c] < Depth[d]

\* x may stand in front of y.
Before(x, y, names) ==
    /\ x.do # "return"
    /\ y.do # "make"
    /\ Closed(y, names) => x.do \in Loading
    /\ Locked(y, names) /\ x.do \in Loading \ {"unlock"} => IsAbove(x.of.name, y.of.name)
    /\ y.into # NoEntity \/ y.do = "unlockMirror" => x.do # "java"

Ordered(s, names) ==
    /\ \A i \in DOMAIN s : StepOK(s[i], names)
    /\ \A i, j \in DOMAIN s : i < j => Before(s[i], s[j], names)

\* clMutex is held until the lookup is over and the class is in the map.
Locking(s, names) ==
    \A i \in DOMAIN s : NeedsLock(s[i], names) =>
                            \E j \in DOMAIN s : i < j /\ s[j].do = "unlock"

EndsWithReturn(s) == s # <<>> => s[Len(s)].do = "return"

\* The class whose mirror is asked for has been found, or will be.
Settles(x) == \/ x.do \in {"emplace", "notFound", "define", "anonymous", "rename"}
              \/ x.do \in {"find", "look"} /\ x.of.name \in Loadable
Keeps(x) == x.do \in {"unlock", "java"}
Settled(s, f, j) == \E i \in 0 .. j : /\ IF i = 0 THEN f # NoEntity ELSE Settles(s[i])
                                      /\ \A k \in i + 1 .. j : Keeps(s[k])
Found(s, f) == \A j \in DOMAIN s : IsFoundMirror(s[j]) => Settled(s, f, j - 1)

\* Where Java code runs outside a ThreadSafeGuard, no object is in a variable.
Unguarded(s, j) == s[j].do = "java" /\ \A k \in DOMAIN s : k > j => s[k].do # "leave"
Careful(s, objects) ==
    /\ s = <<>> => objects = {}
    /\ \A j \in DOMAIN s : Unguarded(s, j) =>
           objects = {} /\ \A i \in 1 .. j - 1 : s[i].do \notin Giving

Unlocks(s) == {i \in DOMAIN s : s[i].do = "unlock"}

GoodTodo(s, names, f, g) ==
    /\ s \in Seq(Steps)
    /\ Ordered(s, names)
    /\ Locking(s, names)
    /\ EndsWithReturn(s)
    /\ Found(s, f)
    /\ Careful(s, g)

-----------------------------------------------------------------------------
(* Induction, and sequences *)

\* A set that has 0, and n + 1 with every n, has all natural numbers.
LEMMA SetInduction ==
  ASSUME NEW S, 0 \in S, \A n \in Nat : n \in S => n + 1 \in S
  PROVE  Nat \subseteq S
  <1> DEFINE R == OpToRel(<, Nat)
             T == Nat \ S
  <1>1. IsWellFoundedOn(R, Nat)
    BY NatLessThanWellFounded, Zenon
  <1>2. \A x, y \in Nat : <<x, y>> \in R <=> x < y
    BY DEF OpToRel
  <1> HIDE DEF R
  <1>3. SUFFICES ASSUME T # {} PROVE FALSE
    OBVIOUS
  <1>4. PICK x \in T : \A y \in T : ~ (<<y, x>> \in R)
    BY <1>1, <1>3, WFMin, T \subseteq Nat
  <1>5. x # 0 /\ x - 1 \in Nat /\ x - 1 < x /\ x = (x - 1) + 1
    BY <1>4
  <1>6. x - 1 \in S
    BY <1>4, <1>5, <1>2
  <1>7. QED
    BY <1>4, <1>5, <1>6

\* What FlattenSeq computes step by step, for the first n sequences.
Flattens(f, ss, n) ==
    f = [i \in 1 .. n |-> IF i = 1 THEN ss[i] ELSE f[i - 1] \o ss[i]]

\* A set of sequences that is closed under \o has the concatenation of any
\* number of its members.
LEMMA FlattenSeqStays ==
  ASSUME NEW G, <<>> \in G, \A r, s \in G : r \o s \in G, NEW ss \in Seq(G)
  PROVE  FlattenSeq(ss) \in G
  <1> DEFINE Good == {n \in Nat : n <= Len(ss) => \E f \in [1 .. n -> G] : Flattens(f, ss, n)}
  <1>1. 0 \in Good
    <2>1. [i \in 1 .. 0 |-> <<>>] \in [1 .. 0 -> G]
      OBVIOUS
    <2>2. Flattens([i \in 1 .. 0 |-> <<>>], ss, 0)
      BY DEF Flattens
    <2>3. QED
      BY <2>1, <2>2
  <1>2. ASSUME NEW n \in Nat, n \in Good PROVE n + 1 \in Good
    <2>1. SUFFICES ASSUME n + 1 <= Len(ss)
                   PROVE  \E f \in [1 .. n + 1 -> G] : Flattens(f, ss, n + 1)
      OBVIOUS
    <2>2. PICK f \in [1 .. n -> G] : Flattens(f, ss, n)
      BY <1>2, <2>1
    <2> DEFINE g == [i \in 1 .. n + 1 |-> IF i = 1 THEN ss[i]
                                          ELSE IF i = n + 1 THEN f[n] \o ss[i] ELSE f[i]]
    <2>3. \A i \in 1 .. n + 1 : ss[i] \in G
      BY <2>1
    <2>4. g \in [1 .. n + 1 -> G]
      <3>1. ASSUME NEW i \in 1 .. n + 1 PROVE g[i] \in G
        <4>1. CASE i = 1
          BY <2>3, <4>1
        <4>2. CASE i # 1 /\ i = n + 1
          BY <2>2, <2>3, <4>2
        <4>3. CASE i # 1 /\ i # n + 1
          BY <2>2, <4>3
        <4>4. QED
          BY <4>1, <4>2, <4>3
      <3>2. g = [i \in 1 .. n + 1 |-> g[i]]
        OBVIOUS
      <3> HIDE DEF g
      <3>3. QED
        BY <3>1, <3>2
    <2>5. ASSUME NEW i \in 1 .. n + 1
          PROVE  g[i] = IF i = 1 THEN ss[i] ELSE g[i - 1] \o ss[i]
      <3>1. \A k \in 1 .. n : f[k] = IF k = 1 THEN ss[k] ELSE f[k - 1] \o ss[k]
        BY <2>2 DEF Flattens
      <3>2. \A k \in 1 .. n : g[k] = f[k]
        <4>1. \A k \in 1 .. n : g[k] = IF k = 1 THEN ss[k] ELSE f[k]
          OBVIOUS
        <4> HIDE DEF g
        <4>2. QED
          BY <3>1, <4>1
      <3>3. CASE i = 1
        BY <3>3
      <3>4. CASE i # 1 /\ i = n + 1
        <4>1. i - 1 = n /\ n \in 1 .. n
          BY <3>4
        <4>2. g[i] = f[n] \o ss[i]
          BY <3>4
        <4> HIDE DEF g
        <4>3. QED
          BY <3>2, <3>4, <4>1, <4>2
      <3>5. CASE i # 1 /\ i # n + 1
        <4>1. i \in 1 .. n /\ i - 1 \in 1 .. n
          BY <3>5
        <4> HIDE DEF g
        <4>2. QED
          BY <3>1, <3>2, <3>5, <4>1
      <3>6. QED
        BY <3>3, <3>4, <3>5
    <2>6. Flattens(g, ss, n + 1)
      <3>1. g = [i \in 1 .. n + 1 |-> g[i]]
        OBVIOUS
      <3> HIDE DEF g
      <3>2. QED
        BY <2>5, <3>1 DEF Flattens
    <2>7. QED
      BY <2>4, <2>6
  <1> HIDE DEF Good
  <1>3. Nat \subseteq Good
    BY <1>1, <1>2, SetInduction
  <1>4. CASE Len(ss) = 0
    BY <1>4, EmptySeq DEF FlattenSeq
  <1>5. CASE Len(ss) # 0
    <2> DEFINE n == Len(ss)
               h == CHOOSE f : Flattens(f, ss, n)
    <2>1. n \in Nat \ {0} /\ n \in Good
      BY <1>3, <1>5
    <2>2. PICK f \in [1 .. n -> G] : Flattens(f, ss, n)
      BY <2>1 DEF Good
    <2>3. Flattens(h, ss, n)
      BY <2>2
    <2>4. FlattenSeq(ss) = h[n]
      BY <1>5 DEF FlattenSeq, Flattens
    <2> HIDE DEF h
    <2> DEFINE In == {k \in Nat : k \in 1 .. n => h[k] \in G}
    <2>5. 0 \in In
      OBVIOUS
    <2>6. ASSUME NEW k \in Nat, k \in In PROVE k + 1 \in In
      <3>1. SUFFICES ASSUME k + 1 \in 1 .. n PROVE h[k + 1] \in G
        OBVIOUS
      <3>2. ss[k + 1] \in G
        BY <3>1
      <3>3. \A i \in 1 .. n : h[i] = IF i = 1 THEN ss[i] ELSE h[i - 1] \o ss[i]
        <4>1. \A i \in 1 .. n : [j \in 1 .. n |-> IF j = 1 THEN ss[j] ELSE h[j - 1] \o ss[j]][i]
                                   = IF i = 1 THEN ss[i] ELSE h[i - 1] \o ss[i]
          OBVIOUS
        <4>2. h = [j \in 1 .. n |-> IF j = 1 THEN ss[j] ELSE h[j - 1] \o ss[j]]
          BY <2>3 DEF Flattens
        <4>3. QED
          BY <4>1, <4>2, Zenon
      <3>4. CASE k = 0
        <4>1. h[k + 1] = ss[k + 1]
          BY <3>1, <3>3, <3>4
        <4>2. QED
          BY <3>2, <4>1
      <3>5. CASE k # 0
        <4>1. k \in 1 .. n /\ k + 1 # 1 /\ (k + 1) - 1 = k
          BY <3>1, <3>5
        <4>2. h[k] \in G /\ h[k + 1] = h[k] \o ss[k + 1]
          BY <2>6, <3>1, <3>3, <4>1
        <4>3. QED
          BY <3>2, <4>2
      <3>6. QED
        BY <3>4, <3>5
    <2> HIDE DEF In
    <2>7. n \in In
      BY <2>1, <2>5, <2>6, SetInduction
    <2>8. QED
      BY <2>1, <2>4, <2>7 DEF In
  <1>6. QED
    BY <1>4, <1>5

\* r is s with its first call replaced by the calls of more.
Splice(r, s, more) ==
    /\ r \in Seq(Steps) /\ s \in Seq(Steps) /\ more \in Seq(Steps)
    /\ s # <<>>
    /\ Len(r) = Len(more) + Len(s) - 1
    /\ \A i \in 1 .. Len(more) : r[i] = more[i]
    /\ \A i \in 2 .. Len(s) : r[Len(more) + i - 1] = s[i]

\* What Continue makes of todo[t] is such a splice.
LEMMA SpliceOfTail ==
  ASSUME NEW s \in Seq(Steps), s # <<>>, NEW more \in Seq(Steps)
  PROVE  Splice(more \o Tail(s), s, more)
  <1>1. /\ Tail(s) \in Seq(Steps) /\ Len(Tail(s)) = Len(s) - 1
        /\ \A i \in 1 .. Len(s) - 1 : Tail(s)[i] = s[i + 1]
        /\ Len(s) \in Nat /\ Len(s) > 0 /\ Len(more) \in Nat
    BY HeadTailProperties, EmptySeq
  <1>2. /\ more \o Tail(s) \in Seq(Steps)
        /\ Len(more \o Tail(s)) = Len(more) + Len(Tail(s))
        /\ \A i \in 1 .. Len(more) + Len(Tail(s)) :
              (more \o Tail(s))[i] = IF i <= Len(more) THEN more[i] ELSE Tail(s)[i - Len(more)]
    BY <1>1, ConcatProperties
  <1>3. ASSUME NEW i \in 2 .. Len(s) PROVE (more \o Tail(s))[Len(more) + i - 1] = s[i]
    <2>1. /\ Len(more) + i - 1 \in 1 .. Len(more) + Len(Tail(s))
          /\ ~(Len(more) + i - 1 <= Len(more))
          /\ Len(more) + i - 1 - Len(more) = i - 1 /\ i - 1 + 1 = i
          /\ i - 1 \in 1 .. Len(s) - 1
      BY <1>1
    <2>2. (more \o Tail(s))[Len(more) + i - 1] = Tail(s)[i - 1]
      BY <1>2, <2>1
    <2>3. QED
      BY <1>1, <2>1, <2>2
  <1>4. QED
    BY <1>1, <1>2, <1>3 DEF Splice

\* Where a call of r comes from.
LEMMA SpliceOrigin ==
  ASSUME NEW r, NEW s, NEW more, Splice(r, s, more), NEW k \in DOMAIN r
  PROVE  \/ k \in DOMAIN more /\ r[k] = more[k]
         \/ \E i \in DOMAIN s : i > 1 /\ k = Len(more) + i - 1 /\ r[k] = s[i]
  <1>1. /\ Len(r) \in Nat /\ Len(s) \in Nat /\ Len(more) \in Nat
        /\ DOMAIN r = 1 .. Len(r) /\ DOMAIN s = 1 .. Len(s) /\ DOMAIN more = 1 .. Len(more)
        /\ Len(r) = Len(more) + Len(s) - 1
    BY DEF Splice
  <1>2. CASE k <= Len(more)
    BY <1>1, <1>2 DEF Splice
  <1>3. CASE ~(k <= Len(more))
    <2> DEFINE i == k - Len(more) + 1
    <2>1. i \in 2 .. Len(s) /\ k = Len(more) + i - 1
      BY <1>1, <1>3
    <2> HIDE DEF i
    <2>2. r[k] = s[i]
      BY <2>1 DEF Splice
    <2>3. i \in DOMAIN s /\ i > 1
      BY <1>1, <2>1
    <2>4. QED
      BY <2>1, <2>2, <2>3
  <1>4. QED
    BY <1>2, <1>3

\* What may follow x may follow all of more.
StandsFor(more, x, names) ==
    \A i \in DOMAIN more : \A y \in Steps : Before(x, y, names) => Before(more[i], y, names)

\* The order of the calls survives when one makes others.
LEMMA OrderedSplice ==
  ASSUME NEW r, NEW s, NEW more, NEW names, Splice(r, s, more),
         Ordered(s, names), Ordered(more, names), StandsFor(more, s[1], names)
  PROVE  Ordered(r, names)
  <1>1. /\ Len(r) \in Nat /\ Len(s) \in Nat /\ Len(more) \in Nat /\ Len(s) > 0
        /\ DOMAIN r = 1 .. Len(r) /\ DOMAIN s = 1 .. Len(s) /\ DOMAIN more = 1 .. Len(more)
        /\ \A i \in DOMAIN s : s[i] \in Steps
    BY EmptySeq DEF Splice
  <1>2. ASSUME NEW k \in DOMAIN r PROVE StepOK(r[k], names)
    BY <1>2, SpliceOrigin DEF Ordered
  <1>3. ASSUME NEW j \in DOMAIN r, NEW k \in DOMAIN r, j < k PROVE Before(r[j], r[k], names)
    <2>1. CASE k \in DOMAIN more /\ r[k] = more[k]
      <3>1. j \in DOMAIN more /\ r[j] = more[j]
        BY <1>1, <1>3, <2>1 DEF Splice
      <3>2. QED
        BY <1>3, <2>1, <3>1 DEF Ordered
    <2>2. ASSUME NEW i \in DOMAIN s, i > 1, k = Len(more) + i - 1, r[k] = s[i]
          PROVE  Before(r[j], r[k], names)
      <3>1. CASE j \in DOMAIN more /\ r[j] = more[j]
        <4>1. Before(s[1], s[i], names)
          BY <1>1, <2>2 DEF Ordered
        <4>2. QED
          BY <1>1, <2>2, <3>1, <4>1 DEF StandsFor
      <3>2. ASSUME NEW h \in DOMAIN s, h > 1, j = Len(more) + h - 1, r[j] = s[h]
            PROVE  Before(r[j], r[k], names)
        <4>1. h < i
          <5>1. h \in Nat /\ i \in Nat /\ Len(more) \in Nat
            BY <1>1
          <5>2. Len(more) + h - 1 < Len(more) + i - 1
            BY <1>3, <2>2, <3>2
          <5>3. QED
            BY <5>1, <5>2
        <4>2. Before(s[h], s[i], names)
          BY <4>1 DEF Ordered
        <4>3. QED
          BY <2>2, <3>2, <4>2
      <3>3. QED
        BY <3>1, <3>2, SpliceOrigin
    <2>3. QED
      BY <2>1, <2>2, SpliceOrigin
  <1>4. QED
    BY <1>2, <1>3 DEF Ordered

\* Who needs clMutex in more releases it there, or its call did later.
Releases(more, x, names) ==
    \A i \in DOMAIN more : NeedsLock(more[i], names) =>
        NeedsLock(x, names) \/ \E j \in DOMAIN more : i < j /\ more[j].do = "unlock"

\* Who needs clMutex still releases it later.
LEMMA LockingSplice ==
  ASSUME NEW r, NEW s, NEW more, NEW names, Splice(r, s, more),
         Locking(s, names), Releases(more, s[1], names)
  PROVE  Locking(r, names)
  <1>1. /\ Len(r) \in Nat /\ Len(s) \in Nat /\ Len(more) \in Nat /\ Len(s) > 0
        /\ DOMAIN r = 1 .. Len(r) /\ DOMAIN s = 1 .. Len(s) /\ DOMAIN more = 1 .. Len(more)
        /\ Len(r) = Len(more) + Len(s) - 1
    BY EmptySeq DEF Splice
  <1> SUFFICES ASSUME NEW k \in DOMAIN r, NeedsLock(r[k], names)
               PROVE  \E j \in DOMAIN r : k < j /\ r[j].do = "unlock"
    BY DEF Locking
  <1>2. ASSUME NEW i \in DOMAIN s, NeedsLock(s[i], names), k < Len(more) + i
        PROVE  \E j \in DOMAIN r : k < j /\ r[j].do = "unlock"
    <2>1. PICK j \in DOMAIN s : i < j /\ s[j].do = "unlock"
      BY <1>2 DEF Locking
    <2>2. Len(more) + j - 1 \in DOMAIN r /\ r[Len(more) + j - 1] = s[j]
      BY <1>1, <1>2, <2>1 DEF Splice
    <2>3. k < Len(more) + j - 1
      <3>1. k \in Nat /\ i \in Nat /\ j \in Nat /\ Len(more) \in Nat
        BY <1>1
      <3>2. QED
        BY <3>1, <1>2, <2>1
    <2>4. QED
      BY <2>1, <2>2, <2>3
  <1>3. CASE k \in DOMAIN more /\ r[k] = more[k]
    <2>1. CASE NeedsLock(s[1], names)
      BY <1>1, <1>2, <1>3, <2>1
    <2>2. CASE ~ NeedsLock(s[1], names)
      <3>1. PICK j \in DOMAIN more : k < j /\ more[j].do = "unlock"
        BY <1>3, <2>2 DEF Releases
      <3>2. QED
        BY <1>1, <3>1 DEF Splice
    <2>3. QED
      BY <2>1, <2>2
  <1>4. ASSUME NEW i \in DOMAIN s, i > 1, k = Len(more) + i - 1, r[k] = s[i]
        PROVE  \E j \in DOMAIN r : k < j /\ r[j].do = "unlock"
    BY <1>1, <1>2, <1>4
  <1>5. QED
    BY <1>3, <1>4, SpliceOrigin

\* The last call is still the return.
LEMMA ReturnSplice ==
  ASSUME NEW r, NEW s, NEW more, Splice(r, s, more), EndsWithReturn(s), s[1].do # "return"
  PROVE  EndsWithReturn(r) /\ r # <<>> /\ Len(s) > 1
  <1>1. /\ Len(r) \in Nat /\ Len(s) \in Nat /\ Len(more) \in Nat /\ Len(s) > 0
        /\ Len(r) = Len(more) + Len(s) - 1 /\ s # <<>>
    BY EmptySeq DEF Splice
  <1>2. Len(s) # 1
    BY <1>1 DEF EndsWithReturn
  <1>3. Len(s) \in 2 .. Len(s) /\ Len(more) + Len(s) - 1 = Len(r)
    <2>1. \A n \in Nat : n > 0 /\ n # 1 => n \in 2 .. n /\ n > 1
      OBVIOUS
    <2>2. QED
      BY <1>1, <1>2, <2>1
  <1>4. r[Len(r)] = s[Len(s)]
    BY <1>3 DEF Splice
  <1>5. Len(r) > 0 /\ s[Len(s)].do = "return"
    BY <1>1, <1>3 DEF EndsWithReturn
  <1>6. QED
    BY <1>1, <1>3, <1>4, <1>5, EmptySeq DEF EndsWithReturn

\* A place m of a splice as a place of what was spliced, and back.
LEMMA PlaceBefore ==
  ASSUME NEW n \in Nat, NEW len \in Nat, NEW i \in 2 .. len, NEW k, k = n + i - 1,
         NEW m \in n + 1 .. k - 1
  PROVE  m - n + 1 \in 2 .. i - 1 /\ m - n + 1 \in 2 .. len /\ n + (m - n + 1) - 1 = m
  OBVIOUS

\* A place of s behind its first call, in the splice.
LEMMA PlaceAfter ==
  ASSUME NEW n \in Nat, NEW len \in Nat, NEW i \in 2 .. len, NEW k, k = n + i - 1,
         NEW h \in 2 .. i - 1
  PROVE  /\ n + h - 1 \in n + 1 .. k - 1 /\ n + h - 1 \in 0 .. k - 1 /\ n + h - 1 # 0
         /\ (n + h - 1) - n + 1 = h
         /\ \A m \in (n + h - 1) + 1 .. k - 1 : m \in n + 1 .. k - 1
                                                 /\ m - n + 1 \in h + 1 .. i - 1
  OBVIOUS

\* What lies between place e of more and place k of the splice.
LEMMA PlaceWithin ==
  ASSUME NEW n \in Nat, NEW len \in Nat, NEW i \in 2 .. len, NEW k, k = n + i - 1,
         NEW e \in 0 .. n
  PROVE  /\ e \in 0 .. k - 1 /\ (e # 0 => e \in 1 .. n)
         /\ \A m \in e + 1 .. k - 1 : (m \in e + 1 .. n /\ m \in 1 .. n) \/ m \in n + 1 .. k - 1
  OBVIOUS

\* The class whose mirror is asked for has still been found before.
LEMMA FoundSplice ==
  ASSUME NEW r, NEW s, NEW more, NEW f, NEW g, Splice(r, s, more),
         Found(s, f), Found(more, g),
         Settles(s[1]) \/ (f # NoEntity /\ Keeps(s[1])) => Settled(more, g, Len(more))
  PROVE  Found(r, g)
  <1>1. /\ Len(r) \in Nat /\ Len(s) \in Nat /\ Len(more) \in Nat /\ Len(s) > 0
        /\ DOMAIN r = 1 .. Len(r) /\ DOMAIN s = 1 .. Len(s) /\ DOMAIN more = 1 .. Len(more)
        /\ Len(r) = Len(more) + Len(s) - 1
    BY EmptySeq DEF Splice
  <1>2. \A i \in 1 .. Len(more) : r[i] = more[i]
    BY DEF Splice
  <1> SUFFICES ASSUME NEW k \in DOMAIN r, IsFoundMirror(r[k])
               PROVE  Settled(r, g, k - 1)
    BY DEF Found
  <1>3. CASE k \in DOMAIN more /\ r[k] = more[k]
    <2>1. Settled(more, g, k - 1)
      BY <1>3 DEF Found
    <2>2. PICK h \in 0 .. k - 1 : /\ IF h = 0 THEN g # NoEntity ELSE Settles(more[h])
                                  /\ \A m \in h + 1 .. k - 1 : Keeps(more[m])
      BY <2>1 DEF Settled
    <2>3. \A m \in 1 .. k - 1 : r[m] = more[m]
      BY <1>1, <1>2, <1>3
    <2>4. /\ h # 0 => h \in 1 .. k - 1
          /\ \A m \in h + 1 .. k - 1 : m \in 1 .. k - 1
      BY <1>1, <2>2
    <2>5. QED
      BY <2>2, <2>3, <2>4 DEF Settled
  <1>4. ASSUME NEW i \in DOMAIN s, i > 1, k = Len(more) + i - 1, r[k] = s[i]
        PROVE  Settled(r, g, k - 1)
    <2>1. PICK h \in 0 .. i - 1 : /\ IF h = 0 THEN f # NoEntity ELSE Settles(s[h])
                                  /\ \A m \in h + 1 .. i - 1 : Keeps(s[m])
      BY <1>4 DEF Found, Settled
    <2> DEFINE n == Len(more)
    <2>0. n \in Nat /\ i \in 2 .. Len(s) /\ Len(s) \in Nat /\ k = n + i - 1
      BY <1>1, <1>4
    <2>6. n = Len(more)
      OBVIOUS
    <2> HIDE DEF n
    <2>2. ASSUME NEW m \in n + 1 .. k - 1
          PROVE  m - n + 1 \in 2 .. i - 1 /\ r[m] = s[m - n + 1]
      <3>1. m - n + 1 \in 2 .. i - 1 /\ m - n + 1 \in 2 .. Len(s) /\ n + (m - n + 1) - 1 = m
        <4>1. k = n + i - 1
          BY <2>0
        <4>2. QED
          BY <2>0, <4>1, <2>2, PlaceBefore
      <3>2. QED
        BY <2>6, <3>1 DEF Splice
    <2>3. CASE h > 1
      <3>1. /\ n + h - 1 \in n + 1 .. k - 1 /\ n + h - 1 \in 0 .. k - 1 /\ n + h - 1 # 0
            /\ (n + h - 1) - n + 1 = h
            /\ \A m \in (n + h - 1) + 1 .. k - 1 : m \in n + 1 .. k - 1
                                                    /\ m - n + 1 \in h + 1 .. i - 1
        <4>1. h \in 2 .. i - 1
          BY <2>0, <2>1, <2>3
        <4>2. QED
          BY <2>0, <4>1, PlaceAfter
      <3>2. Settles(r[n + h - 1])
        BY <2>1, <2>2, <3>1
      <3>3. \A m \in (n + h - 1) + 1 .. k - 1 : Keeps(r[m])
        BY <2>1, <2>2, <3>1
      <3>4. QED
        BY <3>1, <3>2, <3>3 DEF Settled
    <2>4. CASE h \in {0, 1}
      <3>1. \A m \in 2 .. i - 1 : Keeps(s[m])
        BY <2>1, <2>4
      <3>2. Settles(s[1]) \/ (f # NoEntity /\ Keeps(s[1]))
        BY <2>0, <2>1, <2>4
      <3>3. PICK e \in 0 .. n : /\ IF e = 0 THEN g # NoEntity ELSE Settles(more[e])
                                /\ \A m \in e + 1 .. n : Keeps(more[m])
        BY <2>6, <3>2 DEF Settled
      <3>4. /\ e \in 0 .. k - 1 /\ (e # 0 => e \in 1 .. n)
            /\ \A m \in e + 1 .. k - 1 : (m \in e + 1 .. n /\ m \in 1 .. n) \/ m \in n + 1 .. k - 1
        BY <2>0, <3>3, PlaceWithin, Zenon
      <3>5. \A m \in e + 1 .. k - 1 : Keeps(r[m])
        BY <1>2, <2>6, <2>2, <3>1, <3>3, <3>4
      <3>6. IF e = 0 THEN g # NoEntity ELSE Settles(r[e])
        BY <1>2, <2>6, <3>3, <3>4
      <3>7. QED
        BY <3>4, <3>5, <3>6 DEF Settled
    <2>5. QED
      BY <1>1, <2>1, <2>3, <2>4
  <1>5. QED
    BY <1>3, <1>4, SpliceOrigin

\* No object is in a variable where Java code is to run outside a guard.
LEMMA CarefulSplice ==
  ASSUME NEW r, NEW s, NEW more, NEW g, NEW h, Splice(r, s, more), r # <<>>,
         Careful(s, g),
         \A i \in DOMAIN more : /\ more[i].do # "java"
                                /\ more[i].do \in Giving => s[1].do \in Giving,
         h # {} => g # {} \/ s[1].do \in Giving
  PROVE  Careful(r, h)
  <1>1. /\ Len(r) \in Nat /\ Len(s) \in Nat /\ Len(more) \in Nat /\ Len(s) > 0
        /\ DOMAIN r = 1 .. Len(r) /\ DOMAIN s = 1 .. Len(s) /\ DOMAIN more = 1 .. Len(more)
        /\ Len(r) = Len(more) + Len(s) - 1
    BY EmptySeq DEF Splice
  <1> SUFFICES ASSUME NEW k \in DOMAIN r, Unguarded(r, k)
               PROVE  h = {} /\ \A j \in 1 .. k - 1 : r[j].do \notin Giving
    BY DEF Careful
  <1>2. PICK i \in DOMAIN s : i > 1 /\ k = Len(more) + i - 1 /\ r[k] = s[i]
    BY SpliceOrigin DEF Unguarded
  <1>3. Unguarded(s, i)
    <2>1. ASSUME NEW m \in DOMAIN s, m > i PROVE s[m].do # "leave"
      <3>0. i \in Nat /\ m \in Nat /\ Len(more) \in Nat /\ Len(s) \in Nat
            /\ m > i /\ i > 1 /\ m <= Len(s) /\ k = Len(more) + i - 1
        BY <1>1, <1>2, <2>1
      <3>1. m \in 2 .. Len(s) /\ Len(more) + m - 1 \in DOMAIN r /\ Len(more) + m - 1 > k
        BY <1>1, <3>0
      <3>2. r[Len(more) + m - 1] = s[m]
        BY <3>1 DEF Splice
      <3>3. QED
        BY <3>1, <3>2 DEF Unguarded
    <2>2. QED
      BY <1>2, <2>1 DEF Unguarded
  <1>4. g = {} /\ \A j \in 1 .. i - 1 : s[j].do \notin Giving
    BY <1>3 DEF Careful
  <1>5. s[1].do \notin Giving
    BY <1>1, <1>2, <1>4
  <1>6. ASSUME NEW j \in 1 .. k - 1 PROVE r[j].do \notin Giving
    <2>1. j \in DOMAIN r
      BY <1>1
    <2>2. CASE j \in DOMAIN more /\ r[j] = more[j]
      BY <1>5, <2>2
    <2>3. ASSUME NEW m \in DOMAIN s, m > 1, j = Len(more) + m - 1, r[j] = s[m]
          PROVE  r[j].do \notin Giving
      <3>0. i \in Nat /\ m \in Nat /\ Len(more) \in Nat /\ m > 1
            /\ Len(more) + m - 1 <= (Len(more) + i - 1) - 1
        BY <1>1, <1>2, <2>3
      <3>1. m \in 1 .. i - 1
        BY <3>0
      <3>2. QED
        BY <1>4, <2>3, <3>1
    <2>4. QED
      BY <2>1, <2>2, <2>3, SpliceOrigin
  <1>7. QED
    BY <1>4, <1>5, <1>6

\* A native has finitely many unlocks left.
LEMMA UnlocksAreFinite ==
  ASSUME NEW s \in Seq(Steps)
  PROVE  IsFiniteSet(Unlocks(s)) /\ Cardinality(Unlocks(s)) \in Nat
  <1>1. Unlocks(s) \in SUBSET (1 .. Len(s)) /\ Len(s) \in Nat
    BY DEF Unlocks
  <1>2. IsFiniteSet(1 .. Len(s))
    BY <1>1, FS_Interval
  <1>3. QED
    BY <1>1, <1>2, FS_Subset, FS_CardinalityType

\* The unlocks a native has left, when its next call makes those of more.
LEMMA CountSplice ==
  ASSUME NEW r, NEW s, NEW more, Splice(r, s, more)
  PROVE  Cardinality(Unlocks(r)) = Cardinality(Unlocks(more)) + Cardinality(Unlocks(s))
                                   - (IF s[1].do = "unlock" THEN 1 ELSE 0)
  <1>1. /\ Len(r) \in Nat /\ Len(s) \in Nat /\ Len(more) \in Nat /\ Len(s) > 0
        /\ DOMAIN r = 1 .. Len(r) /\ DOMAIN s = 1 .. Len(s) /\ DOMAIN more = 1 .. Len(more)
        /\ Len(r) = Len(more) + Len(s) - 1
        /\ r \in Seq(Steps) /\ s \in Seq(Steps) /\ more \in Seq(Steps)
    BY EmptySeq DEF Splice
  <1> DEFINE n == Len(more)
             U == Unlocks(s) \ {1}
             V == Unlocks(r) \ (1 .. n)
             f == [i \in U |-> n + i - 1]
  <1>2. /\ IsFiniteSet(Unlocks(s)) /\ IsFiniteSet(Unlocks(r)) /\ IsFiniteSet(Unlocks(more))
        /\ IsFiniteSet(U) /\ IsFiniteSet(V)
        /\ Cardinality(U) = Cardinality(Unlocks(s)) - (IF s[1].do = "unlock" THEN 1 ELSE 0)
        /\ Cardinality(Unlocks(s)) \in Nat /\ Cardinality(Unlocks(more)) \in Nat
        /\ Cardinality(U) \in Nat
    <2>1. IsFiniteSet(Unlocks(s)) /\ IsFiniteSet(Unlocks(r)) /\ IsFiniteSet(Unlocks(more))
          /\ Cardinality(Unlocks(s)) \in Nat /\ Cardinality(Unlocks(more)) \in Nat
      BY <1>1, UnlocksAreFinite
    <2>2. 1 \in Unlocks(s) <=> s[1].do = "unlock"
      BY <1>1 DEF Unlocks
    <2>3. IsFiniteSet(U) /\ Cardinality(U) = IF 1 \in Unlocks(s) THEN Cardinality(Unlocks(s)) - 1
                                             ELSE Cardinality(Unlocks(s))
      BY <2>1, FS_RemoveElement
    <2>4. IsFiniteSet(V)
      BY <2>1, FS_Difference
    <2>5. Cardinality(U) \in Nat
      BY <2>3, FS_CardinalityType
    <2> HIDE DEF U, V
    <2>6. QED
      BY <2>1, <2>2, <2>3, <2>4, <2>5
  <1>3. \A i \in U : i \in 2 .. Len(s) /\ s[i].do = "unlock" /\ r[n + i - 1] = s[i]
                     /\ n + i - 1 \in DOMAIN r /\ n + i - 1 \notin 1 .. n
    <2>1. \A i \in U : i \in 2 .. Len(s) /\ s[i].do = "unlock"
      BY <1>1 DEF Unlocks
    <2>2. \A i \in 2 .. Len(s) : n + i - 1 \in DOMAIN r /\ n + i - 1 \notin 1 .. n
                                 /\ r[n + i - 1] = s[i]
      BY <1>1 DEF Splice
    <2>3. QED
      BY <2>1, <2>2
  <1>4. \A k \in V : \E i \in U : k = n + i - 1
    <2> SUFFICES ASSUME NEW k \in V PROVE \E i \in U : k = n + i - 1
      OBVIOUS
    <2>1. k \in DOMAIN r /\ r[k].do = "unlock" /\ k \notin DOMAIN more
      BY <1>1 DEF Unlocks
    <2>2. PICK i \in DOMAIN s : i > 1 /\ k = n + i - 1 /\ r[k] = s[i]
      BY <2>1, SpliceOrigin
    <2>3. QED
      BY <2>1, <2>2 DEF Unlocks
  <1>5. \A k \in 1 .. n : k \in Unlocks(r) <=> k \in Unlocks(more)
    <2>1. \A k \in 1 .. n : k \in DOMAIN r /\ k \in DOMAIN more /\ r[k] = more[k]
      BY <1>1 DEF Splice
    <2>2. QED
      BY <2>1 DEF Unlocks
  <1>6. f \in Bijection(U, V)
    <2>1. \A i \in U : f[i] \in V
      BY <1>3 DEF Unlocks
    <2>2. \A i, j \in U : f[i] = f[j] => i = j
      BY <1>1, <1>3
    <2>3. \A k \in V : \E i \in U : f[i] = k
      BY <1>4
    <2>4. f \in [U -> V]
      BY <2>1
    <2> HIDE DEF f, U, V
    <2>5. f \in Injection(U, V)
      BY <2>2, <2>4 DEF Injection, IsInjective
    <2>6. f \in Surjection(U, V)
      BY <2>3, <2>4 DEF Surjection
    <2>7. QED
      BY <2>5, <2>6 DEF Bijection
  <1>7. Cardinality(V) = Cardinality(U)
    BY <1>2, <1>6, FS_Bijection DEF ExistsBijection
  <1>8. Unlocks(r) = Unlocks(more) \cup V /\ Unlocks(more) \cap V = {}
    BY <1>1, <1>5 DEF Unlocks
  <1>9. Cardinality(Unlocks(r)) = Cardinality(Unlocks(more)) + Cardinality(V)
                                  - Cardinality(Unlocks(more) \cap V)
    BY <1>2, <1>8, FS_Union
  <1> HIDE DEF U, V
  <1>10. Cardinality(Unlocks(more) \cap V) = 0
    BY <1>8, FS_EmptySet
  <1>11. QED
    BY <1>2, <1>7, <1>9, <1>10

\* More names are defined from bytes.
LEMMA BeforeStays ==
  ASSUME NEW x, NEW y, NEW names, NEW more, names \subseteq more, Before(x, y, names)
  PROVE  Before(x, y, more)
  BY DEF Before, Closed, Locked

\* What holds of a call holds of it then,
LEMMA StepStays ==
  ASSUME NEW x, NEW names, NEW more, names \subseteq more, StepOK(x, names)
  PROVE  StepOK(x, more)
  BY DEF StepOK

\* and what holds of a native does.
LEMMA GoodStays ==
  ASSUME NEW s, NEW names, NEW more, names \subseteq more, NEW f, NEW g, GoodTodo(s, names, f, g)
  PROVE  GoodTodo(s, more, f, g)
  <1>1. Ordered(s, more)
    BY BeforeStays, StepStays DEF GoodTodo, Ordered
  <1>2. Locking(s, more)
    BY DEF GoodTodo, Locking, NeedsLock, Locked
  <1>3. QED
    BY <1>1, <1>2 DEF GoodTodo

\* A call x that makes the calls of more, while the class found is f before
\* and f2 after.
Replaces(more, x, names) ==
    /\ more \in Seq(Steps)
    /\ Ordered(more, names)
    /\ StandsFor(more, x, names)
    /\ Releases(more, x, names)
    /\ \A i \in DOMAIN more : /\ more[i].do # "java"
                              /\ more[i].do \in Giving => x.do \in Giving

\* What more finds, and asks the mirror of, when x has found f2.
Finds(more, x, f, f2) ==
    /\ Found(more, f2)
    /\ Settles(x) \/ (f # NoEntity /\ Keeps(x)) => Settled(more, f2, Len(more))

\* A native stays as it should be when its next call makes others.
LEMMA Continues ==
  ASSUME NEW s, NEW names, NEW f, NEW g, GoodTodo(s, names, f, g), s # <<>>, s[1].do # "return",
         NEW more, Replaces(more, s[1], names), NEW f2, Finds(more, s[1], f, f2),
         NEW g2, g2 # {} => g # {} \/ s[1].do \in Giving
  PROVE  GoodTodo(more \o Tail(s), names, f2, g2)
  <1> DEFINE r == more \o Tail(s)
  <1>1. Splice(r, s, more)
    BY SpliceOfTail DEF GoodTodo, Replaces
  <1> HIDE DEF r
  <1>2. Ordered(r, names)
    BY <1>1, OrderedSplice DEF GoodTodo, Replaces
  <1>3. Locking(r, names)
    BY <1>1, LockingSplice DEF GoodTodo, Replaces
  <1>4. EndsWithReturn(r) /\ r # <<>>
    BY <1>1, ReturnSplice DEF GoodTodo
  <1>5. Found(r, f2)
    BY <1>1, FoundSplice DEF GoodTodo, Finds
  <1>6. Careful(r, g2)
    BY <1>1, <1>4, CarefulSplice DEF GoodTodo, Replaces
  <1>7. QED
    BY <1>1, <1>2, <1>3, <1>4, <1>5, <1>6 DEF GoodTodo, Splice, r

-----------------------------------------------------------------------------
(* Sequences of calls that can be put one after another *)

\* Calls of A, none of which relies on a class found before.
Chunks(A) == {s \in Seq(A) : Found(s, NoEntity)}

\* Two of them in a row rely on no class found before either.
LEMMA FoundConcat ==
  ASSUME NEW A, NEW r \in Chunks(A), NEW s \in Chunks(A)
  PROVE  r \o s \in Chunks(A)
  <1> DEFINE n == Len(r)
             c == r \o s
  <1>1. r \in Seq(A) /\ s \in Seq(A) /\ n \in Nat /\ Len(s) \in Nat
        /\ Found(r, NoEntity) /\ Found(s, NoEntity)
    BY DEF Chunks
  <1>2. /\ c \in Seq(A) /\ Len(c) = n + Len(s)
        /\ DOMAIN c = 1 .. Len(c) /\ DOMAIN r = 1 .. n /\ DOMAIN s = 1 .. Len(s)
        /\ \A i \in 1 .. n : c[i] = r[i]
        /\ \A i \in n + 1 .. n + Len(s) : c[i] = s[i - n]
    <2>1. /\ c \in Seq(A) /\ Len(c) = n + Len(s)
          /\ \A i \in 1 .. n + Len(s) : c[i] = IF i <= n THEN r[i] ELSE s[i - n]
      BY <1>1, ConcatProperties
    <2> HIDE DEF c, n
    <2>2. \A i \in 1 .. n : i \in 1 .. n + Len(s) /\ i <= n
      BY <1>1
    <2>3. \A i \in n + 1 .. n + Len(s) : i \in 1 .. n + Len(s) /\ ~(i <= n)
      BY <1>1
    <2>4. QED
      BY <1>1, <2>1, <2>2, <2>3 DEF n
  <1> HIDE DEF c, n
  <1>3. SUFFICES ASSUME NEW k \in DOMAIN c, IsFoundMirror(c[k])
                 PROVE  Settled(c, NoEntity, k - 1)
    BY <1>2 DEF Chunks, Found, c
  <1>4. CASE k <= n
    <2>1. k \in DOMAIN r /\ c[k] = r[k]
      BY <1>1, <1>2, <1>4
    <2>2. PICK h \in 0 .. k - 1 : /\ IF h = 0 THEN NoEntity # NoEntity ELSE Settles(r[h])
                                  /\ \A m \in h + 1 .. k - 1 : Keeps(r[m])
      BY <1>1, <1>3, <2>1 DEF Found, Settled
    <2>3. h \in 1 .. n /\ \A m \in h + 1 .. k - 1 : m \in 1 .. n
      BY <1>1, <1>2, <1>4, <2>2
    <2>4. Settles(c[h]) /\ \A m \in h + 1 .. k - 1 : Keeps(c[m])
      BY <1>2, <2>2, <2>3
    <2>5. QED
      BY <2>2, <2>3, <2>4 DEF Settled
  <1>5. CASE ~(k <= n)
    <2>1. k - n \in DOMAIN s /\ c[k] = s[k - n]
      BY <1>1, <1>2, <1>5
    <2>2. PICK h \in 0 .. k - n - 1 : /\ IF h = 0 THEN NoEntity # NoEntity ELSE Settles(s[h])
                                      /\ \A m \in h + 1 .. k - n - 1 : Keeps(s[m])
      BY <1>1, <1>3, <2>1 DEF Found, Settled
    <2>3. h \in 1 .. k - n - 1 /\ k \in Int
      BY <1>1, <1>2, <2>2
    <2>4. \E p \in n + 1 .. n + Len(s) :
              /\ p - n = h /\ p \in 0 .. k - 1 /\ p # 0
              /\ \A m \in p + 1 .. k - 1 : m \in n + 1 .. n + Len(s) /\ m - n \in h + 1 .. k - n - 1
      <3>1. /\ n + h \in n + 1 .. n + Len(s) /\ (n + h) - n = h /\ n + h \in 0 .. k - 1 /\ n + h # 0
            /\ \A m \in (n + h) + 1 .. k - 1 : m \in n + 1 .. n + Len(s)
                 /\ m - n \in h + 1 .. k - n - 1
        BY <1>1, <1>2, <2>3
      <3>2. QED
        BY <3>1
    <2>5. PICK p \in n + 1 .. n + Len(s) :
              /\ p - n = h /\ p \in 0 .. k - 1 /\ p # 0
              /\ \A m \in p + 1 .. k - 1 : m \in n + 1 .. n + Len(s) /\ m - n \in h + 1 .. k - n - 1
      BY <2>4
    <2>6. Settles(c[p])
      BY <1>2, <2>2, <2>3, <2>5
    <2>7. \A m \in p + 1 .. k - 1 : Keeps(c[m])
      BY <1>2, <2>2, <2>5
    <2>8. QED
      BY <2>5, <2>6, <2>7 DEF Settled
  <1>6. QED
    BY <1>1, <1>2, <1>4, <1>5

\* No call at all relies on none.
LEMMA EmptyChunk ==
  ASSUME NEW A
  PROVE  <<>> \in Chunks(A)
  BY EmptySeq DEF Chunks, Found

\* Nor do any number of them, one after another.
LEMMA ChunksFlattened ==
  ASSUME NEW A, NEW ss \in Seq(Chunks(A))
  PROVE  FlattenSeq(ss) \in Chunks(A)
  BY EmptyChunk, FoundConcat, FlattenSeqStays, Zenon

\* Calls that do not ask for the mirror of the class found.
LEMMA PlainChunk ==
  ASSUME NEW A, NEW s \in Seq(A), \A x \in A : x.of # NoEntity \/ x.do # "mirror"
  PROVE  s \in Chunks(A)
  BY DEF Chunks, Found, IsFoundMirror

\* A single call that is not for the mirror of the class found.
LEMMA OneCallChunk ==
  ASSUME NEW A, NEW x \in A, x.of # NoEntity \/ x.do # "mirror"
  PROVE  <<x>> \in Chunks(A)
  BY DEF Chunks, Found, IsFoundMirror

\* A class is found, then its mirror is asked for.
LEMMA MirrorChunk ==
  ASSUME NEW A, NEW x \in A, NEW y \in A, Settles(x), x.do # "mirror"
  PROVE  <<x, y>> \in Chunks(A)
  <1>1. <<x, y>> \in Seq(A) /\ DOMAIN <<x, y>> = 1 .. 2
    OBVIOUS
  <1>2. Settled(<<x, y>>, NoEntity, 2 - 1)
    <2>1. 1 \in 0 .. 2 - 1 /\ \A k \in 1 + 1 .. 2 - 1 : FALSE
      OBVIOUS
    <2>2. QED
      BY <2>1 DEF Settled
  <1>3. Found(<<x, y>>, NoEntity)
    <2>1. ASSUME NEW j \in DOMAIN <<x, y>>, IsFoundMirror(<<x, y>>[j])
          PROVE  Settled(<<x, y>>, NoEntity, j - 1)
      <3>1. j = 1 \/ j = 2
        BY <1>1
      <3>2. j # 1
        BY <2>1 DEF IsFoundMirror
      <3>3. QED
        BY <1>2, <3>1, <3>2
    <2>2. QED
      BY <2>1 DEF Found
  <1>4. QED
    BY <1>1, <1>3 DEF Chunks

\* Calls of A are calls of a larger set.
LEMMA ChunkMonotone ==
  ASSUME NEW A, NEW B, A \subseteq B, NEW s \in Chunks(A)
  PROVE  s \in Chunks(B)
  BY SeqMonotonic DEF Chunks

-----------------------------------------------------------------------------
(* The bodies of the natives *)

\* The calls of natives that run no Java code, and of those that do.
Calm == {x \in Steps : /\ x.do \in {"find", "mirror", "intern", "define", "anonymous"}
                       /\ x.into = NoEntity
                       /\ StepOK(x, {})}
InJavaToo == Calm \cup {Run, Tested}

\* The names the constants are about, by the assumptions on the constants.
LEMMA Names ==
  /\ DOMAIN KindOf \subseteq Words /\ Bytes \subseteq Words /\ "" \in Words
       /\ Loadable \subseteq ClassNames /\ ClassNames \subseteq DOMAIN KindOf
  /\ Members \subseteq DOMAIN KindOf
  /\ ClassFiles \subseteq Loadable /\ AnonymousName \in ClassNames /\ AnonymousName \notin Loadable
  /\ Bytes \cap DOMAIN KindOf = {} /\ "" \notin DOMAIN KindOf /\ ClassNames \cap Members = {}
  /\ "" \notin Loadable
  BY LoaderAssumption, PoolAssumption, MirrorsAssumption DEF ClassNames, Members, Loadable, Words

\* Entities and calls have the fields they are made with.
LEMMA StepTypes ==
  /\ NoEntity \in Entities
  /\ \A n \in Words : Entity(n) \in Entities /\ Entity(n) # NoEntity /\ Entity(n).name = n
  <1>1. NoEntity \in Entities /\ NoEntity.copy = 0
    BY Names DEF NoEntity, Entities
  <1>2. \A n \in Words : Entity(n) \in Entities /\ Entity(n).copy = 1 /\ Entity(n).name = n
    BY DEF Entities, Entity
  <1>3. QED
    BY <1>1, <1>2

\* A call has what it is made with.
LEMMA StepFields ==
  ASSUME NEW do \in Operations, NEW e \in Entities, NEW into \in Entities
  PROVE  /\ Step(do, e, into) \in Steps
         /\ Step(do, e, into).do = do
         /\ Step(do, e, into).of = e
         /\ Step(do, e, into).into = into
  BY DEF Step, Steps

\* A call for a name.
LEMMA CallTypes ==
  ASSUME NEW do \in Operations, NEW n \in Words
  PROVE  /\ Step(do, Entity(n), NoEntity) \in Steps
         /\ Step(do, Entity(n), NoEntity).do = do
         /\ Step(do, Entity(n), NoEntity).of = Entity(n)
         /\ Step(do, Entity(n), NoEntity).of.name = n
         /\ Step(do, Entity(n), NoEntity).of # NoEntity
         /\ Step(do, Entity(n), NoEntity).into = NoEntity
  BY StepTypes, StepFields

\* The call for a class is one of them.
LEMMA FindIsCalm ==
  ASSUME NEW n \in Words
  PROVE  Find(n) \in Calm /\ Find(n).of # NoEntity
  <1>1. "find" \in Operations
    BY DEF Operations
  <1>2. QED
    BY <1>1, CallTypes DEF Find, Calm, StepOK, Making, Giving

\* For a mirror by its name, and for that of the class found.
LEMMA MirrorIsCalm ==
  ASSUME NEW n \in DOMAIN KindOf
  PROVE  Mirror(n, NoEntity) \in Calm /\ Mirror(n, NoEntity).of # NoEntity
  <1>1. "mirror" \in Operations /\ n \in Words
    BY Names DEF Operations
  <1>2. QED
    BY <1>1, CallTypes DEF Mirror, Calm, StepOK, Making, Giving

\* The class found has none when the native is called.
LEMMA MirrorFoundIsCalm == MirrorFound(NoEntity) \in Calm
  <1>1. "mirror" \in Operations
    BY DEF Operations
  <1>2. QED
    BY <1>1, StepTypes, StepFields DEF MirrorFound, Calm, StepOK, Making, Giving

\* For a string.
LEMMA InternIsCalm ==
  ASSUME NEW b \in Bytes
  PROVE  Intern(b, NoEntity) \in Calm /\ Intern(b, NoEntity).do # "mirror"
  <1>1. "intern" \in Operations /\ b \in Words
    BY Names DEF Operations
  <1>2. QED
    BY <1>1, CallTypes DEF Intern, Calm, StepOK, Making, Giving

\* For a class from bytes, which is the class found then.
LEMMA DefineIsCalm ==
  ASSUME NEW n \in ClassFiles
  PROVE  /\ Define(n) \in Calm /\ Settles(Define(n)) /\ Define(n).do # "mirror"
         /\ DefineAnonymous(n) \in Calm /\ Settles(DefineAnonymous(n))
         /\ DefineAnonymous(n).do # "mirror"
  <1>1. "define" \in Operations /\ "anonymous" \in Operations /\ n \in Words
    BY Names DEF Operations
  <1>2. QED
    BY <1>1, CallTypes
       DEF Define, DefineAnonymous, Calm, StepOK, Making, Giving, Settles

\* Running Java code, and the test after it, are not among them.
LEMMA RunIsJava ==
  /\ Run \in InJavaToo /\ Run.do = "java"
  /\ Tested \in InJavaToo /\ Tested.do = "tested"
  BY DEF Run, Tested, InJavaToo, Step

\* Natives that run no Java code are natives that may.
LEMMA CalmIsPlain == Calm \subseteq InJavaToo /\ InJavaToo \subseteq Steps /\ Calm \subseteq Steps
  BY StepTypes, StepFields, "java" \in Operations, "tested" \in Operations
     DEF Calm, InJavaToo, Run, Tested, Operations

\* Finding classes, which asks for no mirror.
LEMMA FindsAreChunks ==
  ASSUME NEW names \in Seq(Words)
  PROVE  FindAll(names) \in Chunks(Calm)
         /\ \A i \in DOMAIN FindAll(names) : FindAll(names)[i].do = "find"
  <1>1. FindAll(names) \in Seq(Calm)
    <2>1. \A i \in DOMAIN names : Find(names[i]) \in Calm
      BY FindIsCalm
    <2>2. QED
      BY <2>1, DOMAIN names = 1 .. Len(names), Len(names) \in Nat DEF FindAll
  <1>2. \A i \in DOMAIN FindAll(names) : FindAll(names)[i].do = "find"
    BY DEF FindAll, Find, Step
  <1>3. QED
    BY <1>1, <1>2 DEF Chunks, Found, IsFoundMirror

\* Finding a class.
LEMMA OneFind ==
  ASSUME NEW n \in Words
  PROVE  <<Find(n)>> \in Chunks(Calm)
  BY FindIsCalm, OneCallChunk

\* Asking for a mirror.
LEMMA OneMirror ==
  ASSUME NEW n \in DOMAIN KindOf
  PROVE  <<Mirror(n, NoEntity)>> \in Chunks(Calm)
  BY MirrorIsCalm, OneCallChunk

\* Interning a string.
LEMMA OneString ==
  ASSUME NEW b \in Bytes
  PROVE  <<Intern(b, NoEntity)>> \in Chunks(Calm)
  BY InternIsCalm, OneCallChunk

\* Finding a class and asking for its mirror.
LEMMA FoundMirrorChunk ==
  ASSUME NEW n \in Loadable
  PROVE  FoundMirror(n) \in Chunks(Calm)
  <1>1. n \in Words
    BY Names
  <1>2. Find(n) \in Calm /\ Find(n).do = "find" /\ Find(n).of.name = n
    BY <1>1, FindIsCalm DEF Find, Step, Entity
  <1>3. Settles(Find(n)) /\ Find(n).do # "mirror"
    BY <1>2 DEF Settles
  <1>4. QED
    BY <1>2, <1>3, MirrorChunk, MirrorFoundIsCalm DEF FoundMirror

\* The same for several classes.
LEMMA FoundMirrorsChunk ==
  ASSUME NEW names \in Seq(Loadable)
  PROVE  FoundMirrors(names) \in Chunks(Calm)
  <1>1. \A i \in DOMAIN names : FoundMirror(names[i]) \in Chunks(Calm)
    BY FoundMirrorChunk
  <1>2. [i \in DOMAIN names |-> FoundMirror(names[i])] \in Seq(Chunks(Calm))
    BY <1>1, DOMAIN names = 1 .. Len(names), Len(names) \in Nat
  <1>3. QED
    BY <1>2, ChunksFlattened DEF FoundMirrors

\* Asking for several mirrors.
LEMMA MirrorsChunk ==
  ASSUME NEW names \in Seq(DOMAIN KindOf)
  PROVE  Mirrorsof(names) \in Chunks(Calm)
  <1>1. \A i \in DOMAIN names : Mirror(names[i], NoEntity) \in Calm
                                /\ Mirror(names[i], NoEntity).of # NoEntity
    BY MirrorIsCalm
  <1>2. Mirrorsof(names) \in Seq(Calm)
    BY <1>1, DOMAIN names = 1 .. Len(names), Len(names) \in Nat DEF Mirrorsof
  <1>3. QED
    BY <1>1, <1>2 DEF Chunks, Found, IsFoundMirror, Mirrorsof

\* Interning several strings.
LEMMA StringsChunk ==
  ASSUME NEW bytes \in Seq(Bytes)
  PROVE  Strings(bytes) \in Chunks(Calm)
  <1>1. \A i \in DOMAIN bytes : Intern(bytes[i], NoEntity) \in Calm
                                /\ Intern(bytes[i], NoEntity).do # "mirror"
    BY InternIsCalm
  <1>2. Strings(bytes) \in Seq(Calm)
    BY <1>1, DOMAIN bytes = 1 .. Len(bytes), Len(bytes) \in Nat DEF Strings
  <1>3. QED
    BY <1>1, <1>2 DEF Chunks, Found, IsFoundMirror, Strings

\* What the attributes of a class name.
LEMMA InfoTypes ==
  ASSUME NEW c \in DOMAIN ClassInfo
  PROVE  /\ ClassInfo[c].javaName \in Bytes
         /\ ClassInfo[c].super \in Seq(DOMAIN KindOf)
         /\ ClassInfo[c].interfaces \in Seq(DOMAIN KindOf)
         /\ ClassInfo[c].members \in Seq(Members)
         /\ ClassInfo[c].component \in Seq(Loadable)
         /\ ClassInfo[c].pool \in Seq(DOMAIN KindOf)
         /\ ClassInfo[c].outer \in Seq(Loadable)
         /\ ClassInfo[c].inner \in Seq(Loadable)
         /\ ClassInfo[c].enclosing \in Seq(Bytes)
         /\ ClassInfo[c].signature \in Seq(Bytes)
  <1>1. ClassInfo[c] \in Infos
    BY NativesAssumption
  <1>2. Seq(ClassNames) \subseteq Seq(DOMAIN KindOf)
    BY Names, SeqMonotonic
  <1>3. /\ ClassInfo[c].super \in Seq(ClassNames)
        /\ ClassInfo[c].interfaces \in Seq(ClassNames)
        /\ ClassInfo[c].pool \in Seq(DOMAIN KindOf)
        /\ ClassInfo[c].members \in Seq(Members)
        /\ ClassInfo[c].component \in Seq(Loadable)
        /\ ClassInfo[c].outer \in Seq(Loadable)
        /\ ClassInfo[c].inner \in Seq(Loadable)
    BY <1>1 DEF Infos
  <1>4. /\ ClassInfo[c].javaName \in Bytes
        /\ ClassInfo[c].enclosing \in Seq(Bytes)
        /\ ClassInfo[c].signature \in Seq(Bytes)
    BY <1>1 DEF Infos
  <1>5. QED
    BY <1>2, <1>3, <1>4

\* getDeclaredCommons0 asks for the mirrors of the members that fit.
LEMMA DeclaredChunk ==
  ASSUME NEW c \in DOMAIN ClassInfo, NEW kind, NEW publicOnly
  PROVE  Declared(c, kind, publicOnly) \in Chunks(Calm)
  <1> DEFINE members == ClassInfo[c].members
             Fits(m) == KindOf[m] = kind /\ (publicOnly => MemberInfo[m].public)
             f == [i \in DOMAIN members |->
                      IF Fits(members[i]) THEN <<Mirror(members[i], NoEntity)>> ELSE <<>>]
  <1>1. members \in Seq(Members)
    BY InfoTypes
  <1>2. \A i \in DOMAIN members : members[i] \in DOMAIN KindOf
    <2> HIDE DEF members
    <2>1. \A i \in DOMAIN members : members[i] \in Members
      BY <1>1
    <2>2. QED
      BY <2>1, Names
  <1>3. \A i \in DOMAIN members : <<Mirror(members[i], NoEntity)>> \in Chunks(Calm)
    BY <1>2, OneMirror
  <1> HIDE DEF Fits, members
  <1>4. \A i \in DOMAIN members : f[i] \in Chunks(Calm)
    BY <1>3, EmptyChunk
  <1>5. f \in Seq(Chunks(Calm))
    BY <1>1, <1>4, DOMAIN members = 1 .. Len(members), Len(members) \in Nat
  <1>6. FlattenSeq(f) \in Chunks(Calm)
    BY <1>5, ChunksFlattened
  <1>7. QED
    BY <1>6 DEF Declared, f, Fits, members

\* The classes the natives know by name.
LEMMA GivenNames ==
  /\ FieldArray \in Words /\ MethodArray \in Words /\ ClassArray \in Words
  /\ ObjectArray \in Words /\ Parameter \in Words /\ ParameterArray \in Words
  /\ MethodType \in Words /\ MethodHandleNatives \in Words /\ Arg0 \in Bytes
  BY NativesAssumption, Names

\* What a member names.
LEMMA MemberTypes ==
  ASSUME NEW m \in Members
  PROVE  /\ MemberInfo[m].klass \in ClassNames
         /\ MemberInfo[m].klass \in DOMAIN KindOf
         /\ MemberInfo[m].params \in Seq(Loadable)
         /\ MemberInfo[m].params \in Seq(Words)
         /\ MemberInfo[m].throws \in Seq(Loadable)
         /\ MemberInfo[m].type \in Words
         /\ KindOf[m] # "constructor" => /\ MemberInfo[m].type \in Loadable
                                         /\ MemberInfo[m].label \in Bytes
  <1>1. /\ MemberInfo[m].klass \in ClassNames
        /\ MemberInfo[m].params \in Seq(Loadable) /\ MemberInfo[m].throws \in Seq(Loadable)
        /\ MemberInfo[m].type \in Loadable \cup {""}
        /\ KindOf[m] # "constructor" => /\ MemberInfo[m].type \in Loadable
                                        /\ MemberInfo[m].label \in Bytes
    BY MirrorsAssumption
  <1>2. Seq(Loadable) \subseteq Seq(Words)
    BY Names, SeqMonotonic
  <1>3. QED
    BY <1>1, <1>2, Names

\* The natives that call no Java code.
Silent == {"getName0", "getSuperclass", "getComponentType", "getEnclosingMethod0",
           "getDeclaredFields0", "getDeclaredMethods0", "getDeclaredConstructors0",
           "getDeclaringClass0", "getInterfaces0", "getGenericSignature0", "getConstantPool",
           "getDeclaredClasses0", "getParameters0", "getClassAt0", "getUTF8At0", "getCallerClass",
           "intern", "findBootstrapClass", "findLoadedClass0", "defineClass",
           "defineAnonymousClass", "setMemberName"}

\* They are calls of Calm: those on a class,
LEMMA ClassBodies ==
  ASSUME NEW call \in Calls, call.native \in OfClass
  PROVE  Body(call) \in Chunks(Calm)
  <1> DEFINE c == call.of
  <1>1. c \in DOMAIN ClassInfo
    BY ReflectionAssumption DEF TakesWhatExists, OfClass, OfMember
  <1> HIDE DEF c
  <1> USE InfoTypes, GivenNames, OneFind, FoundConcat
  <1>2. GetName0(c) \in Chunks(Calm) /\ GetSuperclass(c) \in Chunks(Calm)
        /\ GetComponentType(c) \in Chunks(Calm) /\ GetDeclaringClass0(c) \in Chunks(Calm)
        /\ GetGenericSignature0(c) \in Chunks(Calm) /\ GetConstantPool(c) \in Chunks(Calm)
    BY <1>1, OneString, MirrorsChunk, FoundMirrorsChunk, StringsChunk
       DEF GetName0, GetSuperclass, GetComponentType, GetDeclaringClass0,
           GetGenericSignature0, GetConstantPool
  <1>3. GetEnclosingMethod0(c) \in Chunks(Calm)
    <2>1. FoundMirrors(ClassInfo[c].outer) \in Chunks(Calm)
      BY <1>1, FoundMirrorsChunk
    <2>2. <<Find(ObjectArray)>> \o Strings(ClassInfo[c].enclosing) \in Chunks(Calm)
      BY <1>1, StringsChunk
    <2>3. QED
      BY <2>1, <2>2, EmptyChunk DEF GetEnclosingMethod0
  <1>4. \A publicOnly : GetDeclaredFields0(c, publicOnly) \in Chunks(Calm)
    BY <1>1, DeclaredChunk DEF GetDeclaredFields0
  <1>5. \A kind, publicOnly : GetDeclaredCommons0(c, kind, publicOnly) \in Chunks(Calm)
    BY <1>1, DeclaredChunk DEF GetDeclaredCommons0
  <1>6. GetInterfaces0(c) \in Chunks(Calm)
    BY <1>1, MirrorsChunk DEF GetInterfaces0
  <1>7. GetDeclaredClasses0(c) \in Chunks(Calm)
    BY <1>1, FoundMirrorsChunk DEF GetDeclaredClasses0
  <1>8. QED
    BY <1>2, <1>3, <1>4, <1>5, <1>6, <1>7 DEF Body, OfClass, c

\* those on a member,
LEMMA MemberBodies ==
  ASSUME NEW call \in Calls, call.native \in {"getParameters0", "setMemberName"}
  PROVE  Body(call) \in Chunks(Calm)
  <1> DEFINE m == call.of
             params == MemberInfo[m].params
             f == [i \in DOMAIN params |-> Intern(Arg0, NoEntity)]
  <1>1. m \in Members
    BY ReflectionAssumption DEF TakesWhatExists, OfClass, OfMember
  <1> HIDE DEF m
  <1>2. SetMemberName(m) \in Chunks(Calm)
    BY <1>1, MemberTypes, OneMirror DEF SetMemberName
  <1>3. GetParameters0(m) \in Chunks(Calm)
    <2>1. params \in Seq(Loadable) /\ Intern(Arg0, NoEntity) \in Calm
          /\ Intern(Arg0, NoEntity).do # "mirror"
      BY <1>1, MemberTypes, InternIsCalm, GivenNames
    <2> HIDE DEF params
    <2>2. f \in Seq(Calm)
      BY <2>1, DOMAIN params = 1 .. Len(params), Len(params) \in Nat
    <2>3. f \in Chunks(Calm)
      BY <2>1, <2>2 DEF Chunks, Found, IsFoundMirror
    <2>4. <<Find(Parameter), Find(ParameterArray)>> \in Chunks(Calm)
      <3>1. Find(Parameter) \in Calm /\ Find(ParameterArray) \in Calm
        BY FindIsCalm, GivenNames
      <3>2. Find(Parameter).do = "find" /\ Find(ParameterArray).do = "find"
        BY DEF Find, Step
      <3>3. QED
        BY <3>1, <3>2 DEF Chunks, Found, IsFoundMirror
    <2>5. QED
      BY <2>3, <2>4, FoundConcat DEF GetParameters0, f, params
  <1>4. QED
    BY <1>2, <1>3 DEF Body, m

\* and those on a name, on bytes or on a caller.
LEMMA OtherBodies ==
  ASSUME NEW call \in Calls,
         call.native \in {"getClassAt0", "getUTF8At0", "getCallerClass", "intern",
           "findBootstrapClass",
                          "findLoadedClass0", "defineClass", "defineAnonymousClass"}
  PROVE  Body(call) \in Chunks(Calm)
  <1> DEFINE c == call.of
             arg == call.arg
  <1>1. /\ call.native \in {"findBootstrapClass", "findLoadedClass0"} => c \in Loadable
        /\ call.native \in {"defineClass", "defineAnonymousClass"} => c \in ClassFiles
        /\ call.native = "getCallerClass" => c \in DOMAIN KindOf
        /\ call.native = "getClassAt0" => arg \in Loadable
        /\ call.native \in {"getUTF8At0", "intern"} => arg \in Bytes
    BY ReflectionAssumption, Names DEF TakesWhatExists, OfClass, OfMember
  <1> HIDE DEF c, arg
  <1>2. \A n \in Loadable : GetClassAt0(n) \in Chunks(Calm)
          /\ FindBootstrapClass(n) \in Chunks(Calm)
                            /\ FindLoadedClass0(n) \in Chunks(Calm)
    BY FoundMirrorChunk DEF GetClassAt0, FindBootstrapClass, FindLoadedClass0
  <1>3. \A b \in Bytes : GetUTF8At0(b) \in Chunks(Calm) /\ InternNative(b) \in Chunks(Calm)
    BY OneString DEF GetUTF8At0, InternNative
  <1>4. \A n \in DOMAIN KindOf : GetCallerClass(n) \in Chunks(Calm)
    BY OneMirror DEF GetCallerClass
  <1>5. \A n \in ClassFiles : DefineClassCommon(n) \in Chunks(Calm)
                              /\ UnsafeDefineAnonymousClass(n) \in Chunks(Calm)
    BY DefineIsCalm, MirrorFoundIsCalm, MirrorChunk
       DEF DefineClassCommon, UnsafeDefineAnonymousClass
  <1>6. QED
    BY <1>1, <1>2, <1>3, <1>4, <1>5 DEF Body, c, arg

\* All natives without Java code.
LEMMA SilentBodies ==
  ASSUME NEW call \in Calls, call.native \in Silent
  PROVE  Body(call) \in Chunks(Calm)
  BY ClassBodies, MemberBodies, OtherBodies DEF Silent, OfClass

\* The calls natives are made of.
Plain == {x \in Steps : /\ x.do \in {"find", "mirror", "intern", "define", "anonymous", "java",
                                     "notFound", "tested", "leave"}
                        /\ x.into = NoEntity
                        /\ StepOK(x, {})}

\* All of them are Plain.
LEMMA PlainCalls ==
  /\ Calm \subseteq Plain /\ InJavaToo \subseteq Plain /\ Plain \subseteq Steps
  /\ Run \in Plain /\ Throws \in Plain /\ Tested \in Plain /\ Leave \in Plain
  /\ ReturnRef \in Steps
  /\ Tested.do = "tested" /\ Run.do = "java"
  /\ Throws.do = "notFound" /\ Leave.do = "leave" /\ ReturnRef.do = "return"
  /\ ReturnRef.into = NoEntity /\ StepOK(ReturnRef, {})
  <1>1. /\ "java" \in Operations /\ "notFound" \in Operations /\ "leave" \in Operations
        /\ "return" \in Operations /\ "tested" \in Operations
    BY DEF Operations
  <1>2. /\ Tested \in Steps /\ Tested.do = "tested" /\ Tested.into = NoEntity
        /\ Run \in Steps /\ Throws \in Steps /\ Leave \in Steps /\ ReturnRef \in Steps
        /\ Run.do = "java" /\ Throws.do = "notFound" /\ Leave.do = "leave"
        /\ ReturnRef.do = "return" /\ Run.into = NoEntity /\ Throws.into = NoEntity
        /\ Leave.into = NoEntity /\ ReturnRef.into = NoEntity
    BY <1>1, StepTypes, StepFields DEF Run, Throws, Tested, Leave, ReturnRef
  <1>3. /\ StepOK(Run, {}) /\ StepOK(Throws, {}) /\ StepOK(Tested, {}) /\ StepOK(Leave, {})
        /\ StepOK(ReturnRef, {})
    BY <1>2 DEF StepOK, Making, Giving
  <1>4. QED
    BY <1>2, <1>3 DEF Plain, Calm, InJavaToo

\* A native: what it runs outside a guard, it runs before any object is made.
GoodBody(b) ==
    /\ b \in Chunks(Plain)
    /\ \A j \in DOMAIN b : Unguarded(b, j) => \A i \in 1 .. j - 1 : b[i].do \notin Giving

\* A native in the state in which it is called.
LEMMA BodyIsTodo ==
  ASSUME NEW b, GoodBody(b), NEW names, NEW f
  PROVE  /\ GoodTodo(Append(b, ReturnRef), names, f, {})
         /\ \A i \in DOMAIN Append(b, ReturnRef) :
                /\ Append(b, ReturnRef)[i].do \notin {"look", "unlock", "emplace", "insert",
                     "unlockMirror"}
                /\ Append(b, ReturnRef)[i].into = NoEntity
  <1> DEFINE s == Append(b, ReturnRef)
             n == Len(b)
  <1>1. b \in Seq(Plain) /\ b \in Seq(Steps) /\ Found(b, NoEntity)
    BY PlainCalls, SeqMonotonic DEF GoodBody, Chunks
  <1>2. /\ s \in Seq(Steps) /\ Len(s) = n + 1 /\ DOMAIN s = 1 .. n + 1 /\ DOMAIN b = 1 .. n
        /\ n \in Nat /\ \A i \in 1 .. n : s[i] = b[i] /\ s[n + 1] = ReturnRef /\ s # <<>>
    BY <1>1, PlainCalls, AppendProperties
  <1>3. s[n + 1] = ReturnRef /\ s # <<>>
    BY <1>1, PlainCalls, AppendProperties
  <1> HIDE DEF s, n
  <1>4. \A i \in 1 .. n : s[i] \in Plain
    BY <1>1, <1>2 DEF n
  <1>5. \A i \in DOMAIN s : i \in 1 .. n \/ i = n + 1
    BY <1>2
  <1>6. \A i \in DOMAIN s :
          /\ s[i].do \in {"find", "mirror", "intern", "define", "anonymous", "java",
                                             "notFound", "tested", "leave", "return"}
                            /\ s[i].into = NoEntity
                            /\ StepOK(s[i], {})
    BY <1>3, <1>4, <1>5, PlainCalls DEF Plain
  <1>7. Ordered(s, names)
    <2>1. \A i \in DOMAIN s : StepOK(s[i], names)
      BY <1>6, StepStays, {} \subseteq names
    <2>2. ASSUME NEW i \in DOMAIN s, NEW j \in DOMAIN s, i < j PROVE Before(s[i], s[j], names)
      <3>1. i \in 1 .. n
        BY <1>2, <2>2
      <3>2. s[i].do # "return"
        BY <1>4, <3>1 DEF Plain
      <3>3. /\ s[j].do \notin {"make", "insert", "unlock", "emplace", "unlockMirror"}
            /\ s[j].into = NoEntity
        BY <1>6
      <3>4. QED
        BY <3>2, <3>3 DEF Before, Closed, Locked
    <2>3. QED
      BY <2>1, <2>2 DEF Ordered
  <1>8. Locking(s, names)
    BY <1>6 DEF Locking, NeedsLock, Locked
  <1>9. EndsWithReturn(s)
    BY <1>2, <1>3, PlainCalls DEF EndsWithReturn
  <1>10. Found(s, f)
    <2> SUFFICES ASSUME NEW k \in DOMAIN s, IsFoundMirror(s[k]) PROVE Settled(s, f, k - 1)
      BY DEF Found
    <2>1. k \in 1 .. n
      BY <1>3, <1>5, PlainCalls DEF IsFoundMirror
    <2>2. Settled(b, NoEntity, k - 1)
      BY <1>1, <1>2, <2>1 DEF Found
    <2>3. PICK h \in 0 .. k - 1 : /\ IF h = 0 THEN NoEntity # NoEntity ELSE Settles(b[h])
                                  /\ \A m \in h + 1 .. k - 1 : Keeps(b[m])
      BY <2>2 DEF Settled
    <2>4. h \in 1 .. n /\ h # 0 /\ \A m \in h + 1 .. k - 1 : m \in 1 .. n
      BY <1>2, <2>1, <2>3
    <2>5. Settles(s[h]) /\ \A m \in h + 1 .. k - 1 : Keeps(s[m])
      BY <1>2, <2>3, <2>4
    <2>6. QED
      BY <2>3, <2>4, <2>5 DEF Settled
  <1>11. Careful(s, {})
    <2> SUFFICES ASSUME NEW j \in DOMAIN s, Unguarded(s, j), NEW i \in 1 .. j - 1
                 PROVE  s[i].do \notin Giving
      BY DEF Careful
    <2>1. j \in 1 .. n
      BY <1>3, <1>5, PlainCalls DEF Unguarded
    <2>2. Unguarded(b, j)
      BY <1>2, <2>1 DEF Unguarded
    <2>3. i \in 1 .. n
      BY <1>2, <2>1
    <2>4. QED
      BY <1>2, <2>1, <2>2, <2>3 DEF GoodBody
  <1>12. GoodTodo(s, names, f, {})
    BY <1>2, <1>7, <1>8, <1>9, <1>10, <1>11 DEF GoodTodo
  <1>13. QED
    BY <1>6, <1>12 DEF s

\* Without Java code nothing need be guarded.
LEMMA CalmBody ==
  ASSUME NEW b \in Chunks(Calm)
  PROVE  GoodBody(b)
  <1>1. b \in Chunks(Plain)
    BY PlainCalls, ChunkMonotone
  <1>2. \A j \in DOMAIN b : b[j].do # "java"
    <2>1. b \in Seq(Calm)
      BY DEF Chunks
    <2>2. QED
      BY <2>1 DEF Calm
  <1>3. QED
    BY <1>1, <1>2 DEF GoodBody, Unguarded

\* With a guard to the end nothing else need be.
LEMMA GuardedBody ==
  ASSUME NEW b \in Chunks(InJavaToo)
  PROVE  GoodBody(b \o <<Leave>>)
  <1> DEFINE s == b \o <<Leave>>
  <1>1. b \in Chunks(Plain) /\ b \in Seq(Plain)
    BY PlainCalls, ChunkMonotone DEF Chunks
  <1>2. <<Leave>> \in Chunks(Plain)
    BY PlainCalls, OneCallChunk
  <1>3. s \in Chunks(Plain)
    BY <1>1, <1>2, FoundConcat
  <1>4. /\ Len(b) \in Nat /\ DOMAIN s = 1 .. Len(b) + 1 /\ s[Len(b) + 1] = Leave
    BY <1>1, <1>2, ConcatProperties, PlainCalls
  <1> HIDE DEF s
  <1>5. ASSUME NEW j \in DOMAIN s, Unguarded(s, j) PROVE FALSE
    <2>1. j # Len(b) + 1
      BY <1>4, <1>5, PlainCalls DEF Unguarded
    <2>2. Len(b) + 1 \in DOMAIN s /\ Len(b) + 1 > j
      BY <1>4, <2>1
    <2>3. QED
      BY <1>4, <1>5, <2>2, PlainCalls DEF Unguarded
  <1>6. QED
    BY <1>3, <1>5 DEF GoodBody, s

\* r is s with x at its end.
IsOneMore(r, S, s, x) == /\ r \in Seq(S)
                         /\ Len(r) = Len(s) + 1
                         /\ \A i \in 1 .. Len(s) : r[i] = s[i]
                         /\ r[Len(s) + 1] = x

\* What s \o <<x>> is.
LEMMA OneMore ==
  ASSUME NEW S, NEW s \in Seq(S), NEW x \in S
  PROVE  IsOneMore(s \o <<x>>, S, s, x)
  <1>1. Append(s, x) = s \o <<x>>
    BY AppendIsConcat
  <1>2. QED
    BY <1>1, AppendProperties DEF IsOneMore

\* forName0 runs clinit before it asks for the mirror.
LEMMA ForNameBody ==
  ASSUME NEW name \in Words, NEW initialize \in BOOLEAN
  PROVE  GoodBody(ForName0(name, initialize))
  <1> DEFINE x == Find(name)
             y == MirrorFound(NoEntity)
  <1>1. /\ x \in Plain /\ x.do = "find" /\ y \in Plain /\ y.do = "mirror"
        /\ Run \in Plain /\ Throws \in Plain /\ Run.do = "java" /\ Throws.do = "notFound"
    <2>1. x.do = "find" /\ y.do = "mirror"
      BY DEF Find, MirrorFound, Step
    <2>2. QED
      BY <2>1, PlainCalls, FindIsCalm, MirrorFoundIsCalm
  <1> HIDE DEF x, y
  <1>2. Settles(Throws) /\ Keeps(Run)
    BY <1>1 DEF Settles, Keeps
  <1>3. CASE initialize
    <2> DEFINE r == <<x, Throws>>
               q == r \o <<Run>>
               s == q \o <<y>>
    <2>0. r \in Seq(Plain) /\ Len(r) = 2 /\ r[1] = x /\ r[2] = Throws
      BY <1>1
    <2> HIDE DEF r
    <2>7. q \in Seq(Plain) /\ Len(q) = 3 /\ q[1] = x /\ q[2] = Throws /\ q[3] = Run
      <3>1. IsOneMore(r \o <<Run>>, Plain, r, Run)
        BY <1>1, <2>0, OneMore, Zenon
      <3>2. QED
        BY <2>0, <3>1 DEF IsOneMore
    <2> HIDE DEF q
    <2>8. s \in Seq(Plain) /\ Len(s) = 4 /\ s[1] = x /\ s[2] = Throws /\ s[3] = Run /\ s[4] = y
      <3>1. IsOneMore(q \o <<y>>, Plain, q, y)
        BY <1>1, <2>7, OneMore, Zenon
      <3>2. QED
        BY <2>7, <3>1 DEF IsOneMore
    <2>1. s \in Seq(Plain) /\ s = ForName0(name, initialize) /\ DOMAIN s = 1 .. 4
      <3>2. QED
        BY <1>3, <2>8 DEF ForName0, q, r, x, y
    <2>2. s[1].do = "find" /\ s[2] = Throws /\ s[3] = Run /\ s[4].do = "mirror"
      BY <1>1, <2>8
    <2> HIDE DEF s
    <2>3. Settled(s, NoEntity, 3)
      <3>1. 2 \in 0 .. 3 /\ \A k \in 2 + 1 .. 3 : k = 3
        OBVIOUS
      <3>2. QED
        BY <1>2, <2>2, <3>1 DEF Settled
    <2>4. Found(s, NoEntity)
      <3>1. ASSUME NEW j \in DOMAIN s, IsFoundMirror(s[j]) PROVE j = 4
        BY <1>1, <2>1, <2>2, <3>1 DEF IsFoundMirror
      <3>2. QED
        BY <2>3, <3>1 DEF Found
    <2>5. ASSUME NEW j \in DOMAIN s, Unguarded(s, j), NEW i \in 1 .. j - 1
          PROVE  s[i].do \notin Giving
      <3>1. j = 3
        BY <1>1, <2>1, <2>2, <2>5 DEF Unguarded
      <3>2. i \in {1, 2}
        BY <3>1
      <3>3. QED
        BY <1>1, <2>2, <3>2 DEF Giving
    <2>6. QED
      BY <2>1, <2>4, <2>5 DEF GoodBody, Chunks
  <1>4. CASE ~ initialize
    <2> DEFINE r == <<x, Throws>>
               s == r \o <<y>>
    <2>0. r \in Seq(Plain) /\ Len(r) = 2 /\ r[1] = x /\ r[2] = Throws
      BY <1>1
    <2> HIDE DEF r
    <2>8. s \in Seq(Plain) /\ Len(s) = 3 /\ s[1] = x /\ s[2] = Throws /\ s[3] = y
      <3>1. IsOneMore(r \o <<y>>, Plain, r, y)
        BY <1>1, <2>0, OneMore, Zenon
      <3>2. QED
        BY <2>0, <3>1 DEF IsOneMore
    <2>1. s \in Seq(Plain) /\ s = ForName0(name, initialize) /\ DOMAIN s = 1 .. 3
      <3>2. r \o <<>> = r
        BY <2>0, ConcatEmptySeq
      <3>3. QED
        BY <1>4, <2>8, <3>2 DEF ForName0, r, x, y
    <2>2. s[1].do = "find" /\ s[2] = Throws /\ s[3].do = "mirror"
      BY <1>1, <2>8
    <2> HIDE DEF s
    <2>3. Settled(s, NoEntity, 2)
      <3>1. 2 \in 0 .. 2 /\ \A k \in 2 + 1 .. 2 : FALSE
        OBVIOUS
      <3>2. QED
        BY <1>2, <2>2, <3>1 DEF Settled
    <2>4. Found(s, NoEntity)
      <3>1. ASSUME NEW j \in DOMAIN s, IsFoundMirror(s[j]) PROVE j = 3
        BY <1>1, <2>1, <2>2, <3>1 DEF IsFoundMirror
      <3>2. QED
        BY <2>3, <3>1 DEF Found
    <2>5. ASSUME NEW j \in DOMAIN s PROVE ~ Unguarded(s, j)
      BY <1>1, <2>1, <2>2 DEF Unguarded
    <2>6. QED
      BY <2>1, <2>4, <2>5 DEF GoodBody, Chunks
  <1>5. QED
    BY <1>3, <1>4

\* Calls that give no object.
LEMMA GivesNothing ==
  ASSUME NEW b \in Seq(Plain), \A i \in DOMAIN b : b[i].do \notin Giving
  PROVE  GoodBody(b)
  <1>1. b \in Chunks(Plain)
    BY DEF Chunks, Found, IsFoundMirror, Giving
  <1>2. ASSUME NEW j \in DOMAIN b, NEW i \in 1 .. j - 1 PROVE i \in DOMAIN b
    BY DOMAIN b = 1 .. Len(b), Len(b) \in Nat
  <1>3. QED
    BY <1>1, <1>2 DEF GoodBody

\* invoke0 asks for no mirror: only for classes.
LEMMA InvokeBody ==
  ASSUME NEW m \in Members
  PROVE  GoodBody(Invoke0(m))
  <1> DEFINE a == FindAll(MemberInfo[m].params)
             y == Find(MemberInfo[m].type)
             b == <<Run, y>>
             s == a \o b
  <1>1. a \in Seq(Plain) /\ \A i \in DOMAIN a : a[i].do = "find"
    <2>1. a \in Chunks(Calm) /\ \A i \in DOMAIN a : a[i].do = "find"
      BY MemberTypes, FindsAreChunks
    <2>2. QED
      BY <2>1, PlainCalls, ChunkMonotone DEF Chunks
  <1>2. y \in Plain /\ y.do = "find" /\ Run \in Plain /\ Run.do = "java"
    <2>1. y.do = "find"
      BY DEF Find, Step
    <2>2. QED
      BY <2>1, MemberTypes, FindIsCalm, PlainCalls
  <1> HIDE DEF a, y
  <1>3. b \in Seq(Plain) /\ Len(b) = 2 /\ b[1] = Run /\ b[2] = y
    BY <1>2
  <1> HIDE DEF b
  <1>4. /\ s \in Seq(Plain) /\ Len(s) = Len(a) + 2
        /\ \A i \in 1 .. Len(a) + 2 : s[i] = IF i <= Len(a) THEN a[i] ELSE b[i - Len(a)]
    <2>1. /\ s \in Seq(Plain) /\ Len(s) = Len(a) + Len(b)
          /\ \A i \in 1 .. Len(a) + Len(b) : s[i] = IF i <= Len(a) THEN a[i] ELSE b[i - Len(a)]
      BY <1>1, <1>3, ConcatProperties
    <2> HIDE DEF s
    <2>2. QED
      BY <1>3, <2>1
  <1> HIDE DEF s
  <1>5. ASSUME NEW i \in DOMAIN s PROVE s[i].do \in {"find", "java"}
    <2>1. i \in 1 .. Len(a) + 2 /\ Len(a) \in Nat
      BY <1>1, <1>4
    <2>2. CASE i <= Len(a)
      BY <1>1, <1>4, <2>1, <2>2
    <2>3. CASE ~(i <= Len(a))
      <3>1. i - Len(a) \in {1, 2}
        BY <2>1, <2>3
      <3>2. QED
        BY <1>2, <1>3, <1>4, <2>1, <2>3, <3>1
    <2>4. QED
      BY <2>2, <2>3
  <1>6. GoodBody(s)
    BY <1>4, <1>5, GivesNothing DEF Giving
  <1>7. QED
    BY <1>6 DEF Invoke0, s, a, b, y

\* resolveClass0 only runs Java code.
LEMMA ResolveBody == GoodBody(ResolveClass0)
  <1>1. <<Run>> \in Seq(Plain) /\ \A i \in DOMAIN <<Run>> : <<Run>>[i].do \notin Giving
    BY PlainCalls DEF Giving
  <1>2. QED
    BY <1>1, GivesNothing DEF ResolveClass0

\* What invokeDynamic makes: the type of a method.
LEMMA MethodTypeChunk ==
  ASSUME NEW params \in Seq(Loadable), NEW type \in Loadable
  PROVE  CreateMethodType(params, type) \in Chunks(InJavaToo)
  <1>1. \A s \in Chunks(Calm) : s \in Chunks(InJavaToo)
    BY CalmIsPlain, ChunkMonotone
  <1>2. FoundMirror(type) \in Chunks(InJavaToo) /\ FoundMirrors(params) \in Chunks(InJavaToo)
        /\ <<Find(ClassArray)>> \in Chunks(InJavaToo)
    BY <1>1, FoundMirrorChunk, FoundMirrorsChunk, OneFind, GivenNames
  <1>3. <<Find(MethodType), Run>> \in Chunks(InJavaToo)
    <2>1. <<Find(MethodType)>> \in Chunks(InJavaToo) /\ <<Run>> \in Chunks(InJavaToo)
      BY <1>1, OneFind, GivenNames, OneCallChunk, RunIsJava
    <2>2. <<Find(MethodType), Run>> = <<Find(MethodType)>> \o <<Run>>
      OBVIOUS
    <2>3. QED
      BY <2>1, <2>2, FoundConcat
  <1>4. QED
    BY <1>2, <1>3, FoundConcat DEF CreateMethodType

\* A method handle.
LEMMA MethodHandleChunk ==
  ASSUME NEW h \in Handles, NEW caller \in ClassNames
  PROVE  CreateMethodHandle(h, caller) \in Chunks(InJavaToo)
  <1>1. \A s \in Chunks(Calm) : s \in Chunks(InJavaToo)
    BY CalmIsPlain, ChunkMonotone
  <1>2. h.klass \in Loadable /\ h.type \in Loadable /\ h.params \in Seq(Loadable)
          /\ h.name \in Bytes
        /\ caller \in DOMAIN KindOf
    BY Names DEF Handles
  <1>3. <<Find(MethodHandleNatives)>> \in Chunks(InJavaToo)
    BY <1>1, OneFind, GivenNames
  <1>4. FoundMirror(h.type) \in Chunks(InJavaToo) /\ FoundMirror(h.klass) \in Chunks(InJavaToo)
        /\ CreateMethodType(h.params, h.type) \in Chunks(InJavaToo)
    BY <1>1, <1>2, FoundMirrorChunk, MethodTypeChunk
  <1>5. <<Intern(h.name, NoEntity), Mirror(caller, NoEntity), Run, Tested>> \in Chunks(InJavaToo)
    <2>1. <<Intern(h.name, NoEntity)>> \in Chunks(InJavaToo)
          /\ <<Mirror(caller, NoEntity)>> \in Chunks(InJavaToo) /\ <<Run>> \in Chunks(InJavaToo)
          /\ <<Tested>> \in Chunks(InJavaToo)
      BY <1>1, <1>2, OneString, OneMirror, OneCallChunk, RunIsJava
    <2>2. <<Intern(h.name, NoEntity), Mirror(caller, NoEntity), Run, Tested>>
             = ((<<Intern(h.name, NoEntity)>> \o <<Mirror(caller, NoEntity)>>) \o <<Run>>)
                 \o <<Tested>>
      OBVIOUS
    <2>3. QED
      BY <2>1, <2>2, FoundConcat
  <1>6. QED
    BY <1>3, <1>4, <1>5, FoundConcat DEF CreateMethodHandle

\* An argument of the bootstrap method.
LEMMA ArgumentChunk ==
  ASSUME NEW a \in Arguments, NEW caller \in ClassNames
  PROVE  CreateArgument(a, caller) \in Chunks(InJavaToo)
  <1>0. \A s \in Chunks(Calm) : s \in Chunks(InJavaToo)
    BY CalmIsPlain, ChunkMonotone
  <1>1. CASE a \in Handles
    <2>1. a.kind = "MethodHandle"
      BY <1>1 DEF Handles
    <2>2. CreateMethodHandle(a, caller) \in Chunks(InJavaToo)
      BY <1>1, MethodHandleChunk
    <2>3. QED
      BY <2>1, <2>2 DEF CreateArgument
  <1>2. CASE a \in [kind : {"MethodType"}, params : Seq(Loadable), type : Loadable]
    <2>1. a.kind = "MethodType" /\ a.params \in Seq(Loadable) /\ a.type \in Loadable
      BY <1>2
    <2>2. CreateMethodType(a.params, a.type) \in Chunks(InJavaToo)
      BY <2>1, MethodTypeChunk
    <2>3. <<Tested>> \in Chunks(InJavaToo)
      BY RunIsJava, OneCallChunk
    <2>4. CreateMethodType(a.params, a.type) \o <<Tested>> \in Chunks(InJavaToo)
      BY <2>2, <2>3, FoundConcat
    <2>5. QED
      BY <2>1, <2>4 DEF CreateArgument
  <1>3. CASE a \in [kind : {"String"}, name : Bytes]
    <2>1. a.kind = "String" /\ a.name \in Bytes
      BY <1>3
    <2>2. <<Intern(a.name, NoEntity)>> \in Chunks(InJavaToo)
      BY <1>0, <2>1, OneString
    <2>3. QED
      BY <2>1, <2>2 DEF CreateArgument
  <1>4. CASE a \in [kind : {"Class"}, klass : Loadable]
    <2>1. a.kind = "Class" /\ a.klass \in Loadable
      BY <1>4
    <2>2. FoundMirror(a.klass) \in Chunks(InJavaToo)
      BY <1>0, <2>1, FoundMirrorChunk
    <2>3. QED
      BY <2>1, <2>2 DEF CreateArgument
  <1>5. QED
    BY <1>1, <1>2, <1>3, <1>4 DEF Arguments

\* The call site.
LEMMA CallSiteChunk ==
  ASSUME NEW site \in Sites
  PROVE  CreateCallSite(site) \in Chunks(InJavaToo)
  <1>1. \A s \in Chunks(Calm) : s \in Chunks(InJavaToo)
    BY CalmIsPlain, ChunkMonotone
  <1>2. /\ site.caller \in ClassNames /\ site.caller \in DOMAIN KindOf /\ site.name \in Bytes
        /\ site.params \in Seq(Loadable) /\ site.type \in Loadable
        /\ site.arguments \in Seq(Arguments)
    BY Names DEF Sites
  <1> DEFINE f == [i \in DOMAIN site.arguments |-> CreateArgument(site.arguments[i], site.caller)]
             a == <<Find(MethodHandleNatives)>>
             b == <<Find(ObjectArray), Find(ObjectArray), Mirror(site.caller, NoEntity),
                    Intern(site.name, NoEntity)>>
  <1>3. FlattenSeq(f) \in Chunks(InJavaToo)
    <2>1. \A i \in DOMAIN site.arguments :
             CreateArgument(site.arguments[i], site.caller) \in Chunks(InJavaToo)
      BY <1>2, ArgumentChunk
    <2>2. f \in Seq(Chunks(InJavaToo))
      BY <1>2, <2>1, DOMAIN site.arguments = 1 .. Len(site.arguments), Len(site.arguments) \in Nat
    <2>3. QED
      BY <2>2, ChunksFlattened
  <1>4. a \in Chunks(InJavaToo)
    BY <1>1, OneFind, GivenNames
  <1>5. b \in Chunks(InJavaToo)
    <2>1. /\ Find(ObjectArray) \in Calm /\ Find(ObjectArray).of # NoEntity
          /\ Mirror(site.caller, NoEntity) \in Calm /\ Mirror(site.caller, NoEntity).of # NoEntity
          /\ Intern(site.name, NoEntity) \in Calm /\ Intern(site.name, NoEntity).do # "mirror"
      BY <1>2, FindIsCalm, MirrorIsCalm, InternIsCalm, GivenNames
    <2>2. b \in Chunks(Calm)
      BY <2>1 DEF Chunks, Found, IsFoundMirror
    <2>3. QED
      BY <1>1, <2>2
  <1>6. CreateMethodType(site.params, site.type) \in Chunks(InJavaToo)
    BY <1>2, MethodTypeChunk
  <1>7. <<Run, Tested, Run>> \in Chunks(InJavaToo)
    BY RunIsJava DEF Chunks, Found, IsFoundMirror
  <1> HIDE DEF f, a, b
  <1>8. (((a \o FlattenSeq(f)) \o b) \o CreateMethodType(site.params, site.type))
          \o <<Run, Tested, Run>> \in Chunks(InJavaToo)
    BY <1>3, <1>4, <1>5, <1>6, <1>7, FoundConcat
  <1>9. QED
    BY <1>8 DEF CreateCallSite, a, b, f

\* invokeDynamic runs Java code with objects in its variables, in its guard.
LEMMA DynamicBody ==
  ASSUME NEW site \in Sites
  PROVE  GoodBody(InvokeDynamic(site))
  <1>1. site.bootstrap \in Handles /\ site.caller \in ClassNames
    BY DEF Sites
  <1>2. CreateMethodHandle(site.bootstrap, site.caller) \in Chunks(InJavaToo)
    BY <1>1, MethodHandleChunk
  <1>3. CreateCallSite(site) \in Chunks(InJavaToo)
    BY CallSiteChunk
  <1>4. GoodBody((CreateMethodHandle(site.bootstrap, site.caller) \o CreateCallSite(site))
                 \o <<Leave>>)
    BY <1>2, <1>3, FoundConcat, GuardedBody
  <1>5. QED
    BY <1>4 DEF InvokeDynamic

\* Every native called has a good body, whatever the class files say: where
\* the collector may run, no C++ variable of it keeps an object.
LEMMA BodiesAreGood ==
  ASSUME NEW call \in Calls
  PROVE  GoodBody(Body(call))
  <1>1. TakesWhatExists(call)
    BY ReflectionAssumption
  <1>2. CASE call.native \in Silent
    BY <1>2, SilentBodies, CalmBody
  <1>3. CASE call.native = "forName0"
    <2>1. call.of \in Words
      BY DEF Words
    <2>2. GoodBody(ForName0(call.of, call.arg = "initialize"))
      BY <2>1, ForNameBody
    <2>3. QED
      BY <1>3, <2>2 DEF Body
  <1>4. CASE call.native = "resolveClass0"
    BY <1>4, ResolveBody DEF Body
  <1>5. CASE call.native = "invoke0"
    <2>1. call.of \in Members
      BY <1>1, <1>5 DEF TakesWhatExists, OfClass, OfMember
    <2>2. QED
      BY <1>5, <2>1, InvokeBody DEF Body
  <1>6. CASE call.native = "invokedynamic"
    <2>1. SiteInfo[call.of] \in Sites
      BY <1>1, <1>6, NativesAssumption DEF TakesWhatExists, OfClass, OfMember
    <2>2. QED
      BY <1>6, <2>1, DynamicBody DEF Body
  <1>7. QED
    BY <1>1, <1>2, <1>3, <1>4, <1>5, <1>6 DEF TakesWhatExists, OfClass, OfMember, Silent

-----------------------------------------------------------------------------
(* What the threads share *)

Todo(t) == GoodTodo(todo[t], defined, found[t], got[t])

\* Types, as far as the proofs need them.
TypeOK == /\ DOMAIN todo = Levels
          /\ DOMAIN got = Levels /\ DOMAIN held = Levels
          /\ DOMAIN found = Levels
          /\ \A t \in Levels : found[t] = NoEntity \/ IsClass(found[t])
          /\ heap \subseteq Objects
          /\ IsFiniteSet(classMap) /\ \A c \in classMap : IsClass(c)
          /\ clDepth \in Nat
          /\ anonymous \in Nat
          /\ DOMAIN table = Buckets

\* The lock of the class loader, as often as its holder will unlock it.
LockIsCounted ==
    /\ clOwner = None => clDepth = 0
    /\ clOwner # None => clDepth > 0
    /\ \A t \in Levels :
           Cardinality(Unlocks(todo[t])) = IF clOwner = t THEN clDepth ELSE 0

\* What is to be emplaced is not there yet.
EmplacedOnce ==
    /\ \A t \in Levels : \A i \in DOMAIN todo[t] :
           Locked(todo[t][i], defined) => Named(todo[t][i].of.name) = {}
    /\ \A t \in emplacing : t \in Levels /\ Next1(t, "emplace")

\* What is to be inserted is not there yet, and its thread has the lock.
InsertedOnce ==
    \A t \in Levels : \A i \in DOMAIN todo[t] :
        todo[t][i].do = "insert" =>
            poolOwner = t /\ \A o \in table[BucketOf[todo[t][i].of.name]] :
                                 TextOf[o.of.name] # TextOf[todo[t][i].of.name]

\* The mirror a thread fills in, or is to return, is there.
MirrorIsThere ==
    \A t \in Levels : \A i \in DOMAIN todo[t] :
        /\ todo[t][i].into # NoEntity => todo[t][i].into \in DOMAIN mirOop
        /\ todo[t][i].do = "unlockMirror" =>
               \/ todo[t][i].of \in DOMAIN mirOop
               \/ todo[t][1].do = "make" /\ todo[t][1].of = todo[t][i].of

\* Each live object is that of its entity, or in its bucket.
HeapIsIndexed ==
    /\ \A o \in heap : IF o.of.name \in Bytes THEN o \in table[BucketOf[o.of.name]]
                       ELSE o.of \in DOMAIN mirOop /\ mirOop[o.of] = o
    /\ \A e \in DOMAIN mirOop : /\ e \in Entities /\ e.name \in DOMAIN KindOf
                                /\ mirOop[e] \in heap /\ mirOop[e].of = e
    /\ \A b \in Buckets : \A o \in table[b] :
           o \in heap /\ o.of.name \in Bytes /\ BucketOf[o.of.name] = b
    /\ \A b \in Buckets : \A o, p \in table[b] :
           TextOf[o.of.name] = TextOf[p.of.name] => o = p

\* Only mirrors of members refer to objects, and to none that does.
ReferencesAreFlat ==
    \A o \in DOMAIN refs :
        /\ o \in heap /\ o.of.name \notin Bytes
        /\ refs[o] \subseteq heap
        /\ refs[o] # {} => IsMember(o.of)
        /\ \A p \in refs[o] : p.of.name \in Bytes \/ IsClass(p.of)

\* What natives keep, in Java or in C++, is alive.
HeldIsAlive == \A t \in Levels : got[t] \subseteq heap /\ held[t] \subseteq heap

\* The inductive invariant.
IInv == /\ TypeOK
        /\ \A t \in Levels : Todo(t)
        /\ LockIsCounted
        /\ EmplacedOnce
        /\ InsertedOnce
        /\ MirrorIsThere
        /\ HeapIsIndexed
        /\ ReferencesAreFlat
        /\ HeldIsAlive
        /\ OneClassPerName

\* A native whose thread may be stopped in its guard has seen another end.
GuardsHold == /\ DOMAIN gcSafe = Threads
              /\ \A t \in Levels : Guarded(t) /\ gcSafe[t[1]] => t \in lapsed

\* IInv holds where no variable of a native is dangling, which is where there
\* is a next step; the rest of it holds anywhere.
Shared == /\ TypeOK
          /\ \A t \in Levels : Todo(t)
          /\ LockIsCounted
          /\ EmplacedOnce
          /\ InsertedOnce
          /\ MirrorIsThere
          /\ HeapIsIndexed
          /\ ReferencesAreFlat
          /\ \A t \in Levels : held[t] \subseteq heap
          /\ OneClassPerName

Inv == /\ Shared
       /\ GuardsHold
       /\ \A t \in Levels : t \notin lapsed => got[t] \subseteq heap

-----------------------------------------------------------------------------
(* What one step of a thread leaves alone *)

\* The first of a sequence of calls.
LEMMA HeadOf ==
  ASSUME NEW s \in Seq(Steps), s # <<>>
  PROVE  Head(s) = s[1] /\ s[1] \in Steps /\ 1 \in DOMAIN s /\ DOMAIN s = 1 .. Len(s)
         /\ Len(s) \in Nat
  BY EmptySeq

\* Thread t goes on with the calls of more in place of its next one.
Moved(t, more) == /\ DOMAIN todo' = Levels
                  /\ Splice(todo'[t], todo[t], more)
                  /\ \A u \in Levels \ {t} : todo'[u] = todo[u]

\* What the others have in their variables stays.
Alone(t) == \A u \in Levels \ {t} : found'[u] = found[u] /\ got'[u] = got[u]

\* The call a thread is at, and what comes after it.
LEMMA TodoFacts ==
  ASSUME IInv, NEW t \in Levels, todo[t] # <<>>
  PROVE  /\ GoodTodo(todo[t], defined, found[t], got[t])
         /\ todo[t] \in Seq(Steps)
         /\ Here(t) = todo[t][1] /\ Here(t) \in Steps /\ 1 \in DOMAIN todo[t]
         /\ DOMAIN todo[t] = 1 .. Len(todo[t]) /\ Len(todo[t]) \in Nat
         /\ StepOK(Here(t), defined)

              /\ \A j \in DOMAIN todo[t] : j > 1 => Before(Here(t), todo[t][j], defined)
  <1>1. GoodTodo(todo[t], defined, found[t], got[t])
    BY DEF IInv, Todo, GoodTodo
  <1>2. todo[t] \in Seq(Steps) /\ Ordered(todo[t], defined)
    BY <1>1 DEF GoodTodo
  <1>3. Here(t) = todo[t][1] /\ Here(t) \in Steps /\ 1 \in DOMAIN todo[t]
        /\ DOMAIN todo[t] = 1 .. Len(todo[t]) /\ Len(todo[t]) \in Nat
    BY <1>2, HeadOf DEF Here
  <1>4. QED
    BY <1>1, <1>2, <1>3 DEF Ordered

\* When one thread goes on, what all of them still have to do is in order.
LEMMA TodoStep ==
  ASSUME IInv, NEW t \in Levels, todo[t] # <<>>, Here(t).do # "return",
         NEW more, Continue(t, more), defined \subseteq defined',
         Replaces(more, Here(t), defined'), Finds(more, Here(t), found[t], found'[t]),
         Alone(t), got'[t] # {} => got[t] # {} \/ Here(t).do \in Giving
  PROVE  Moved(t, more) /\ (\A u \in Levels : Todo(u))'
  <1>1. DOMAIN todo = Levels
    BY DEF IInv, TypeOK
  <1>2. /\ DOMAIN todo' = Levels /\ todo'[t] = more \o Tail(todo[t])
        /\ \A u \in Levels \ {t} : todo'[u] = todo[u]
    BY <1>1 DEF Continue
  <1>3. GoodTodo(todo[t], defined', found[t], got[t])
    BY TodoFacts, GoodStays
  <1>4. Here(t) = todo[t][1] /\ todo[t] \in Seq(Steps)
    BY TodoFacts
  <1>5. Splice(todo'[t], todo[t], more)
    BY <1>2, <1>4, SpliceOfTail DEF Replaces
  <1>6. GoodTodo(todo'[t], defined', found'[t], got'[t])
    <2>1. /\ Replaces(more, todo[t][1], defined') /\ Finds(more, todo[t][1], found[t], found'[t])
          /\ todo[t][1].do # "return"
          /\ got'[t] # {} => got[t] # {} \/ todo[t][1].do \in Giving
      BY <1>4
    <2>2. GoodTodo(more \o Tail(todo[t]), defined', found'[t], got'[t])
      BY <1>3, <2>1, Continues, Zenon
    <2>3. QED
      BY <1>2, <2>2
  <1>7. ASSUME NEW u \in Levels \ {t} PROVE GoodTodo(todo'[u], defined', found'[u], got'[u])
    <2>1. GoodTodo(todo[u], defined, found[u], got[u])
      BY DEF IInv, Todo, GoodTodo
    <2>2. GoodTodo(todo[u], defined', found[u], got[u])
      BY <2>1, GoodStays
    <2>3. QED
      BY <1>2, <2>2 DEF Alone
  <1>8. \A u \in Levels : GoodTodo(todo'[u], defined', found'[u], got'[u])
    BY <1>6, <1>7
  <1>9. QED
    BY <1>2, <1>5, <1>8 DEF Moved, Todo, GoodTodo

\* Where a call comes from.
LEMMA MovedSteps ==
  ASSUME NEW t \in Levels, NEW more, Moved(t, more), NEW u \in Levels, NEW i \in DOMAIN todo'[u]
  PROVE  \/ u = t /\ i \in DOMAIN more /\ todo'[u][i] = more[i]
         \/ \E j \in DOMAIN todo[u] : todo'[u][i] = todo[u][j] /\ (u = t => j > 1)
  BY SpliceOrigin DEF Moved

\* Neither the call nor those it makes unlock clMutex.
LEMMA LockKept ==
  ASSUME IInv, NEW t \in Levels, todo[t] # <<>>, NEW more, Moved(t, more), Here(t).do # "unlock",
         \A i \in DOMAIN more : more[i].do # "unlock",
         clOwner' = clOwner, clDepth' = clDepth
  PROVE  LockIsCounted'
  <1>1. Here(t) = todo[t][1]
    BY TodoFacts
  <1>2. Unlocks(more) = {}
    BY DEF Unlocks
  <1>3. Cardinality(Unlocks(more)) = 0
    BY <1>2, FS_EmptySet
  <1>4. Cardinality(Unlocks(todo[t])) \in Nat
    BY TodoFacts, UnlocksAreFinite
  <1>5. Cardinality(Unlocks(todo'[t])) = Cardinality(Unlocks(todo[t]))
    <2>1. Cardinality(Unlocks(todo'[t])) = Cardinality(Unlocks(more))
            + Cardinality(Unlocks(todo[t]))
                                           - (IF todo[t][1].do = "unlock" THEN 1 ELSE 0)
      BY CountSplice DEF Moved
    <2>2. QED
      BY <1>1, <1>3, <1>4, <2>1
  <1>6. \A u \in Levels : Cardinality(Unlocks(todo'[u])) = Cardinality(Unlocks(todo[u]))
    BY <1>5 DEF Moved
  <1>7. QED
    BY <1>6 DEF IInv, LockIsCounted

\* No class is added to the map.
LEMMA MapKept ==
  ASSUME IInv, NEW t \in Levels, todo[t] # <<>>, NEW more, Moved(t, more), Here(t).do # "emplace",
         classMap' = classMap, defined \subseteq defined', emplacing' = emplacing,
         \A i \in DOMAIN more : Locked(more[i], defined') => Named(more[i].of.name) = {}
  PROVE  EmplacedOnce'
  <1>1. ASSUME NEW u \in Levels, NEW i \in DOMAIN todo'[u], Locked(todo'[u][i], defined')
        PROVE  {c \in classMap' : c.name = todo'[u][i].of.name} = {}
    <2>1. CASE u = t /\ i \in DOMAIN more /\ todo'[u][i] = more[i]
      BY <1>1, <2>1 DEF Named
    <2>2. ASSUME NEW j \in DOMAIN todo[u], todo'[u][i] = todo[u][j]
          PROVE  {c \in classMap' : c.name = todo'[u][i].of.name} = {}
      <3>1. Locked(todo[u][j], defined)
        BY <1>1, <2>2 DEF Locked
      <3>2. Named(todo[u][j].of.name) = {}
        BY <3>1 DEF IInv, EmplacedOnce
      <3>3. QED
        BY <2>2, <3>2 DEF Named
    <2>3. QED
      BY <2>1, <2>2, MovedSteps
  <1>2. ASSUME NEW u \in emplacing' PROVE u \in Levels /\ Next1(u, "emplace")'
    <2>1. u \in Levels /\ Next1(u, "emplace")
      BY <1>2 DEF IInv, EmplacedOnce
    <2>2. u # t
      BY <2>1 DEF Next1, Here
    <2>3. todo'[u] = todo[u]
      BY <2>1, <2>2 DEF Moved
    <2>4. QED
      BY <2>1, <2>3 DEF Next1
  <1>3. QED
    BY <1>1, <1>2 DEF EmplacedOnce, Named

\* No string is added to the table.
LEMMA PoolKept ==
  ASSUME IInv, NEW t \in Levels, todo[t] # <<>>, NEW more, Moved(t, more),
         \A i \in DOMAIN more : more[i].do # "insert",
         table' = table, poolOwner' = poolOwner
  PROVE  InsertedOnce'
  <1>1. ASSUME NEW u \in Levels, NEW i \in DOMAIN todo'[u], todo'[u][i].do = "insert"
        PROVE  poolOwner' = u /\ \A o \in table'[BucketOf[todo'[u][i].of.name]] :
                                     TextOf[o.of.name] # TextOf[todo'[u][i].of.name]
    <2>1. PICK j \in DOMAIN todo[u] : todo'[u][i] = todo[u][j]
      BY <1>1, MovedSteps
    <2>2. poolOwner = u /\ \A o \in table[BucketOf[todo[u][j].of.name]] :
                               TextOf[o.of.name] # TextOf[todo[u][j].of.name]
      BY <1>1, <2>1 DEF IInv, InsertedOnce
    <2>3. QED
      BY <2>1, <2>2
  <1>2. QED
    BY <1>1 DEF InsertedOnce

\* No mirror is lost.
LEMMA MirrorsKept ==
  ASSUME IInv, NEW t \in Levels, todo[t] # <<>>, NEW more, Moved(t, more), Here(t).do # "make",
         DOMAIN mirOop \subseteq DOMAIN mirOop',
         \A i \in DOMAIN more : /\ more[i].do # "unlockMirror"
                                /\ more[i].into # NoEntity => more[i].into \in DOMAIN mirOop'
  PROVE  MirrorIsThere'
  <1>1. Here(t) = todo[t][1]
    BY TodoFacts
  <1>2. ASSUME NEW u \in Levels, NEW i \in DOMAIN todo'[u]
        PROVE  /\ todo'[u][i].into # NoEntity => todo'[u][i].into \in DOMAIN mirOop'
               /\ todo'[u][i].do = "unlockMirror" =>
                      \/ todo'[u][i].of \in DOMAIN mirOop'
                      \/ todo'[u][1].do = "make" /\ todo'[u][1].of = todo'[u][i].of
    <2>1. CASE u = t /\ i \in DOMAIN more /\ todo'[u][i] = more[i]
      BY <2>1
    <2>2. ASSUME NEW j \in DOMAIN todo[u], todo'[u][i] = todo[u][j]
          PROVE  /\ todo'[u][i].into # NoEntity => todo'[u][i].into \in DOMAIN mirOop'
                 /\ todo'[u][i].do = "unlockMirror" =>
                        \/ todo'[u][i].of \in DOMAIN mirOop'
                        \/ todo'[u][1].do = "make" /\ todo'[u][1].of = todo'[u][i].of
      <3>1. /\ todo[u][j].into # NoEntity => todo[u][j].into \in DOMAIN mirOop
            /\ todo[u][j].do = "unlockMirror" =>
                   \/ todo[u][j].of \in DOMAIN mirOop
                   \/ todo[u][1].do = "make" /\ todo[u][1].of = todo[u][j].of
        BY DEF IInv, MirrorIsThere
      <3>2. CASE u = t
        BY <1>1, <2>2, <3>1, <3>2
      <3>3. CASE u # t
        <4>1. todo'[u] = todo[u]
          BY <3>3 DEF Moved
        <4>2. QED
          BY <2>2, <3>1, <4>1
      <3>4. QED
        BY <3>2, <3>3
    <2>3. QED
      BY <2>1, <2>2, MovedSteps
  <1>3. QED
    BY <1>2 DEF MirrorIsThere

\* Who needs clMutex has it.
LEMMA OwnerOf ==
  ASSUME IInv, NEW t \in Levels, NEW i \in DOMAIN todo[t], NeedsLock(todo[t][i], defined)
  PROVE  clOwner = t
  <1>1. Locking(todo[t], defined) /\ todo[t] \in Seq(Steps)
    BY DEF IInv, Todo, GoodTodo
  <1>2. PICK j \in DOMAIN todo[t] : todo[t][j].do = "unlock"
    BY <1>1 DEF Locking
  <1>3. Unlocks(todo[t]) # {} /\ IsFiniteSet(Unlocks(todo[t]))
    BY <1>1, <1>2, UnlocksAreFinite DEF Unlocks
  <1>4. Cardinality(Unlocks(todo[t])) # 0
    BY <1>3, FS_EmptySet
  <1>5. QED
    BY <1>4 DEF IInv, LockIsCounted

\* A thread that uses the map while another changes it: without classes
\* defined from bytes both would hold clMutex.
LEMMA TornIsSafe ==
  ASSUME IInv, NEW t \in Levels, todo[t] # <<>>, Here(t).do \in {"look", "rename", "emplace"},
         Touches(t)
  PROVE  torn' => defined # {}
  <1>1. CASE torn
    BY <1>1 DEF IInv, OneClassPerName
  <1>2. CASE emplacing \ {t} # {}
    <2>1. PICK u \in emplacing : u # t
      BY <1>2
    <2>2. u \in Levels /\ todo[u] # <<>> /\ Here(u).do = "emplace"
      BY <2>1 DEF IInv, EmplacedOnce, Next1, Here
    <2>3. StepOK(Here(t), defined) /\ StepOK(Here(u), defined)
          /\ Here(t) = todo[t][1] /\ Here(u) = todo[u][1] /\ 1 \in DOMAIN todo[t]
               /\ 1 \in DOMAIN todo[u]
      BY <2>2, TodoFacts
    <2>4. \/ NeedsLock(Here(t), defined) \/ defined # {}
      BY <2>3 DEF StepOK, NeedsLock, Locked
    <2>5. \/ NeedsLock(Here(u), defined) \/ defined # {}
      BY <2>2, <2>3 DEF StepOK, NeedsLock, Locked
    <2>6. QED
      BY <2>1, <2>2, <2>3, <2>4, <2>5, OwnerOf
  <1>3. QED
    BY <1>1, <1>2 DEF Touches

\* The map is as it was.
LEMMA ClassesKept ==
  ASSUME IInv, classMap' = classMap, defined \subseteq defined', torn' => torn \/ defined' # {}
  PROVE  OneClassPerName'
  BY DEF IInv, OneClassPerName

\* A step that makes no object, adds nothing to the tables and takes no lock.
LEMMA QuietStep ==
  ASSUME IInv, NEW t \in Levels, todo[t] # <<>>,
         Here(t).do \notin {"return", "unlock", "emplace", "make"},
         NEW more, Continue(t, more), defined \subseteq defined',
         Replaces(more, Here(t), defined'), Finds(more, Here(t), found[t], found'[t]),
         \A u \in Levels \ {t} : found'[u] = found[u],
         DOMAIN found' = Levels, found'[t] = NoEntity \/ IsClass(found'[t]),
         UNCHANGED <<got, held, heap, refs, classMap, clOwner, clDepth, emplacing, table, poolOwner,
           mirOop>>,
         anonymous' \in Nat, torn' => torn \/ defined' # {},
         \A i \in DOMAIN more :
             /\ more[i].do \notin {"unlock", "insert", "unlockMirror"}
             /\ Locked(more[i], defined') => Named(more[i].of.name) = {}
             /\ more[i].into # NoEntity => more[i].into \in DOMAIN mirOop
  PROVE  IInv'
  <1>1. Alone(t) /\ got' = got
    BY DEF Alone
  <1>2. Moved(t, more) /\ (\A u \in Levels : Todo(u))'
    BY <1>1, TodoStep
  <1>3. TypeOK'
    BY <1>2 DEF IInv, TypeOK, Moved
  <1>4. LockIsCounted'
    BY <1>2, LockKept
  <1>5. EmplacedOnce'
    BY <1>2, MapKept
  <1>6. InsertedOnce'
    BY <1>2, PoolKept
  <1>7. MirrorIsThere'
    BY <1>2, MirrorsKept
  <1>8. HeapIsIndexed' /\ ReferencesAreFlat' /\ HeldIsAlive'
    BY DEF IInv, HeapIsIndexed, ReferencesAreFlat, HeldIsAlive
  <1>9. OneClassPerName'
    BY ClassesKept
  <1>10. QED
    BY <1>2, <1>3, <1>4, <1>5, <1>6, <1>7, <1>8, <1>9 DEF IInv

\* A call returns the object o.
LEMMA ReturnsStep ==
  ASSUME IInv, NEW t \in Levels, todo[t] # <<>>, NEW o, Returns(t, mirOop, o),
         heap \subseteq heap', o \in heap', held' = held,
         Here(t).into # NoEntity => o.of.name \in Bytes \/ IsClass(o.of)
  PROVE  /\ ReferencesAreFlat' /\ HeldIsAlive'
         /\ DOMAIN got' = Levels /\ \A u \in Levels \ {t} : got'[u] = got[u]
  <1> DEFINE into == Here(t).into
  <1>1. /\ DOMAIN got = Levels
        /\ \A u \in Levels : got[u] \subseteq heap /\ held[u] \subseteq heap
    BY DEF IInv, TypeOK, HeldIsAlive
  <1>2. CASE into = NoEntity
    <2>1. got' = [got EXCEPT ![t] = @ \cup {o}] /\ refs' = refs
      BY <1>2 DEF Returns
    <2>2. ReferencesAreFlat'
      BY <2>1 DEF IInv, ReferencesAreFlat
    <2>3. QED
      BY <1>1, <2>1, <2>2 DEF HeldIsAlive
  <1>3. CASE into # NoEntity
    <2>1. refs' = [refs EXCEPT ![mirOop[into]] = @ \cup {o}] /\ got' = got
      BY <1>3 DEF Returns
    <2>2. into \in DOMAIN mirOop /\ IsMember(into)
      <3>1. Here(t) = todo[t][1] /\ 1 \in DOMAIN todo[t] /\ StepOK(Here(t), defined)
        BY TodoFacts
      <3>2. QED
        BY <1>3, <3>1 DEF IInv, MirrorIsThere, StepOK
    <2>3. mirOop[into].of = into
      BY <2>2 DEF IInv, HeapIsIndexed
    <2> HIDE DEF into
    <2>4. DOMAIN refs' = DOMAIN refs
          /\ \A p \in DOMAIN refs :
                 refs'[p] = IF p = mirOop[into] THEN refs[p] \cup {o} ELSE refs[p]
      BY <2>1
    <2>5. o.of.name \in Bytes \/ IsClass(o.of)
      BY <1>3 DEF into
    <2>6. ASSUME NEW p \in DOMAIN refs
          PROVE  /\ p \in heap' /\ p.of.name \notin Bytes
                 /\ refs'[p] \subseteq heap'
                 /\ refs'[p] # {} => IsMember(p.of)
                 /\ \A q \in refs'[p] : q.of.name \in Bytes \/ IsClass(q.of)
      <3>1. /\ p \in heap /\ p.of.name \notin Bytes
            /\ refs[p] \subseteq heap
            /\ refs[p] # {} => IsMember(p.of)
            /\ \A q \in refs[p] : q.of.name \in Bytes \/ IsClass(q.of)
        BY DEF IInv, ReferencesAreFlat
      <3>2. QED
        BY <2>2, <2>3, <2>4, <2>5, <3>1
    <2>7. ReferencesAreFlat'
      BY <2>4, <2>6 DEF ReferencesAreFlat
    <2>8. QED
      BY <1>1, <2>1, <2>7 DEF HeldIsAlive
  <1>4. QED
    BY <1>2, <1>3

-----------------------------------------------------------------------------
(* The calls that calls make *)

\* No class file is above itself.
LEMMA DepthType ==
  /\ Depth \in [ClassFiles -> 0 .. Cardinality(ClassFiles)]
  /\ \A n \in ClassFiles : \A i \in DOMAIN Above[n] : Depth[Above[n][i]] < Depth[n]
  /\ Cardinality(ClassFiles) \in Nat
  <1>1. \E depth \in [ClassFiles -> 0 .. Cardinality(ClassFiles)] :
           \A n \in ClassFiles : \A i \in DOMAIN Above[n] : depth[Above[n][i]] < depth[n]
    BY LoaderAssumption
  <1>2. Cardinality(ClassFiles) \in Nat
    BY LoaderAssumption, FS_CardinalityType
  <1>3. QED
    BY <1>1, <1>2 DEF Depth

\* Above is an order.
LEMMA AboveIsTransitive ==
  ASSUME NEW c, NEW d, NEW e, IsAbove(c, d), IsAbove(d, e)
  PROVE  IsAbove(c, e)
  <1>1. c \in ClassFiles /\ d \in ClassFiles /\ e \in ClassFiles
        /\ Depth[c] < Depth[d] /\ Depth[d] < Depth[e]
    BY DEF IsAbove
  <1>2. Depth[c] \in Int /\ Depth[d] \in Int /\ Depth[e] \in Int
    BY <1>1, DepthType
  <1>3. QED
    BY <1>1, <1>2 DEF IsAbove

\* y may stand wherever x did.
StandsIn(y, x) ==
    /\ y.do \notin {"return", "java"}
    /\ x.do \in Loading => y.do \in Loading
    /\ x.do \in Loading /\ y.do \in Loading \ {"unlock"} =>
           x.do # "unlock" /\ (y.of.name = x.of.name \/ IsAbove(y.of.name, x.of.name))

\* What came after x may come after y.
LEMMA InPlaceOf ==
  ASSUME NEW x, NEW y, StandsIn(y, x), NEW z, NEW names, Before(x, z, names)
  PROVE  Before(y, z, names)
  <1>1. Closed(z, names) => y.do \in Loading
    BY DEF StandsIn, Before
  <1>2. ASSUME Locked(z, names), y.do \in Loading \ {"unlock"} PROVE IsAbove(y.of.name, z.of.name)
    <2>1. x.do \in Loading
      BY <1>2 DEF Before, Closed
    <2>2. IsAbove(x.of.name, z.of.name)
      BY <1>2, <2>1 DEF Before, StandsIn
    <2>3. QED
      BY <1>2, <2>1, <2>2, AboveIsTransitive DEF StandsIn
  <1>3. QED
    BY <1>1, <1>2 DEF Before, StandsIn

\* A call may make no other,
LEMMA ReplacesNone ==
  ASSUME NEW x, NEW names
  PROVE  Replaces(<<>>, x, names)
  BY EmptySeq DEF Replaces, Ordered, StandsFor, Releases

\* one that may stand in its place,
LEMMA ReplacesOne ==
  ASSUME NEW x, NEW names, NEW y \in Steps, StepOK(y, names), StandsIn(y, x),
         NeedsLock(y, names) => NeedsLock(x, names), y.do \in Giving => x.do \in Giving
  PROVE  Replaces(<<y>>, x, names)
  <1> DEFINE s == <<y>>
  <1>1. s \in Seq(Steps) /\ \A i \in DOMAIN s : i = 1 /\ s[i] = y
    OBVIOUS
  <1> HIDE DEF s
  <1>2. Ordered(s, names)
    BY <1>1 DEF Ordered
  <1>3. StandsFor(s, x, names)
    BY <1>1, InPlaceOf DEF StandsFor
  <1>4. Releases(s, x, names)
    BY <1>1 DEF Releases
  <1>5. QED
    BY <1>1, <1>2, <1>3, <1>4 DEF Replaces, StandsIn, s

\* or two.
LEMMA ReplacesTwo ==
  ASSUME NEW x, NEW names, NEW y \in Steps, NEW z \in Steps, StepOK(y, names), StepOK(z, names),
         Before(y, z, names), StandsIn(y, x), StandsIn(z, x),
         NeedsLock(y, names) => NeedsLock(x, names) \/ z.do = "unlock",
         NeedsLock(z, names) => NeedsLock(x, names),
         y.do \in Giving \/ z.do \in Giving => x.do \in Giving
  PROVE  Replaces(<<y, z>>, x, names)
  <1> DEFINE s == <<y, z>>
  <1>1. s \in Seq(Steps) /\ DOMAIN s = 1 .. 2 /\ s[1] = y /\ s[2] = z
    OBVIOUS
  <1> HIDE DEF s
  <1>2. \A i \in DOMAIN s : (i = 1 /\ s[i] = y) \/ (i = 2 /\ s[i] = z)
    BY <1>1
  <1>3. Ordered(s, names)
    BY <1>1, <1>2 DEF Ordered
  <1>4. StandsFor(s, x, names)
    BY <1>2, InPlaceOf DEF StandsFor
  <1>5. Releases(s, x, names)
    BY <1>1, <1>2 DEF Releases
  <1>6. QED
    BY <1>1, <1>2, <1>3, <1>4, <1>5 DEF Replaces, StandsIn, s

\* A call that is over keeps the class found, or has found one.
LEMMA FindsNone ==
  ASSUME NEW x, NEW f, NEW f2, Settles(x) => f2 # NoEntity, Keeps(x) => f2 = f
  PROVE  Finds(<<>>, x, f, f2)
  <1>1. Found(<<>>, f2)
    BY DEF Found
  <1>2. f2 # NoEntity => Settled(<<>>, f2, 0)
    <2>1. 0 \in 0 .. 0 /\ \A k \in 0 + 1 .. 0 : FALSE
      OBVIOUS
    <2>2. QED
      BY <2>1 DEF Settled
  <1>3. Len(<<>>) = 0
    OBVIOUS
  <1>4. QED
    BY <1>1, <1>2, <1>3 DEF Finds

\* No mirror of the class found is asked for.
LEMMA FindsOther ==
  ASSUME NEW x, NEW f, NEW f2, NEW more, ~ Settles(x), ~ Keeps(x),
         \A i \in DOMAIN more : ~ IsFoundMirror(more[i])
  PROVE  Finds(more, x, f, f2)
  BY DEF Finds, Found

\* The last of more is the one that finds the class.
LEMMA FindsLast ==
  ASSUME NEW x, NEW f, NEW f2, NEW more \in Seq(Steps), more # <<>>, Settles(more[Len(more)]),
         \A i \in DOMAIN more : ~ IsFoundMirror(more[i])
  PROVE  Finds(more, x, f, f2)
  <1>1. Len(more) \in 0 .. Len(more) /\ Len(more) # 0 /\ \A k \in Len(more) + 1 .. Len(more) : FALSE
    BY EmptySeq
  <1>2. Settled(more, f2, Len(more))
    BY <1>1 DEF Settled
  <1>3. QED
    BY <1>2 DEF Finds, Found

\* x makes y, and before it loads classes.
MakesFirst(more, x, y, names, f, f2) ==
    /\ Replaces(more, x, names) /\ Finds(more, x, f, f2)
    /\ \A i \in DOMAIN more : \/ more[i] = y
                              \/ more[i].do = "find" /\ more[i].into = NoEntity

\* A class is loaded after what is above it.
LEMMA LoadsAbove ==
  ASSUME NEW x, NEW names, NEW n \in ClassFiles, NEW y \in Steps, x.of.name = n, x.do # "unlock",
         y.do \in {"emplace", "rename"}, y.of.name = n, y.into = NoEntity, StepOK(y, names),
         NeedsLock(y, names) => NeedsLock(x, names), StandsIn(y, x), NEW f, NEW f2
  PROVE  MakesFirst(Append(FindAll(Above[n]), y), x, y, names, f, f2)
  <1> DEFINE more == Append(FindAll(Above[n]), y)
             a == FindAll(Above[n])
             k == Len(a)
  <1>1. Above[n] \in Seq(ClassFiles) /\ Above[n] \in Seq(Words)
    <2>1. ClassFiles \subseteq Words
      BY Names
    <2>2. Above[n] \in Seq(ClassFiles)
      BY LoaderAssumption
    <2>3. QED
      BY <2>1, <2>2, SeqMonotonic
  <1>2. /\ a \in Seq(Calm) /\ a \in Seq(Steps)
        /\ \A i \in DOMAIN a : a[i].do = "find" /\ a[i].into = NoEntity
    <2>1. a \in Seq(Calm) /\ \A i \in DOMAIN a : a[i].do = "find"
      BY <1>1, FindsAreChunks DEF Chunks
    <2> HIDE DEF a
    <2>2. \A i \in DOMAIN a : a[i].into = NoEntity
      BY <2>1 DEF Calm
    <2>3. a \in Seq(Steps)
      BY <2>1, CalmIsPlain, SeqMonotonic
    <2>4. QED
      BY <2>1, <2>2, <2>3
  <1>3. \A i \in DOMAIN a : IsAbove(a[i].of.name, n)
    <2>1. ASSUME NEW i \in DOMAIN a PROVE IsAbove(a[i].of.name, n)
      <3>1. i \in DOMAIN Above[n] /\ a[i].of.name = Above[n][i]
        BY <2>1 DEF FindAll, Find, Step, Entity
      <3>2. Above[n][i] \in ClassFiles /\ Depth[Above[n][i]] < Depth[n]
        BY <1>1, <3>1, DepthType
      <3>3. QED
        BY <3>1, <3>2 DEF IsAbove
    <2>2. QED
      BY <2>1
  <1>4. /\ more \in Seq(Steps) /\ k \in Nat /\ DOMAIN more = 1 .. k + 1 /\ Len(more) = k + 1
        /\ DOMAIN a = 1 .. k
        /\ \A i \in 1 .. k : more[i] = a[i] /\ more[k + 1] = y
    BY <1>2, AppendProperties
  <1>5. more[k + 1] = y /\ more # <<>>
    BY <1>2, AppendProperties
  <1> HIDE DEF a, k, more
  <1>6. \A i \in DOMAIN more : (i \in 1 .. k /\ i \in DOMAIN a /\ more[i] = a[i])
                               \/ (i = k + 1 /\ more[i] = y)
    BY <1>4, <1>5
  <1>7. Ordered(more, names)
    <2>1. \A i \in DOMAIN more : StepOK(more[i], names)
      <3>1. \A i \in DOMAIN a : StepOK(a[i], names)
        BY <1>2 DEF StepOK, Making, Giving
      <3>2. QED
        BY <1>6, <3>1
    <2>2. ASSUME NEW i \in DOMAIN more, NEW j \in DOMAIN more, i < j
          PROVE  Before(more[i], more[j], names)
      <3>1. i \in DOMAIN a /\ more[i] = a[i]
        BY <1>4, <1>6, <2>2
      <3>2. more[i].do = "find" /\ IsAbove(more[i].of.name, n)
        BY <1>2, <1>3, <3>1
      <3>3. \/ more[j].do = "find" /\ more[j].into = NoEntity
            \/ more[j] = y
        BY <1>2, <1>6
      <3>4. QED
        BY <3>2, <3>3 DEF Before, Closed, Locked, Loading
    <2>3. QED
      BY <2>1, <2>2 DEF Ordered
  <1>8. StandsFor(more, x, names)
    <2>1. ASSUME NEW i \in DOMAIN more PROVE StandsIn(more[i], x)
      <3>1. CASE i \in DOMAIN a /\ more[i] = a[i]
        <4>1. more[i].do = "find" /\ IsAbove(more[i].of.name, n)
          BY <1>2, <1>3, <3>1
        <4>2. QED
          BY <4>1 DEF StandsIn, Loading
      <3>2. QED
        BY <1>6, <3>1
    <2>2. QED
      BY <2>1, InPlaceOf DEF StandsFor
  <1>9. Releases(more, x, names)
    BY <1>2, <1>6 DEF Releases, NeedsLock, Locked
  <1>10. Replaces(more, x, names)
    <2>1. \A i \in DOMAIN more : more[i].do \in {"find", "emplace", "rename"}
      BY <1>2, <1>6
    <2>2. QED
      BY <1>4, <1>7, <1>8, <1>9, <2>1 DEF Replaces, Giving
  <1>11. Finds(more, x, f, f2)
    <2>1. Settles(more[Len(more)])
      BY <1>4, <1>5 DEF Settles
    <2>2. \A i \in DOMAIN more : ~ IsFoundMirror(more[i])
      BY <1>2, <1>6 DEF IsFoundMirror
    <2>3. QED
      BY <1>4, <1>5, <2>1, <2>2, FindsLast
  <1>12. QED
    BY <1>2, <1>6, <1>10, <1>11 DEF MakesFirst, more

-----------------------------------------------------------------------------
(* The steps *)

\* A class is neither a member nor a string.
LEMMA ClassIsEntity ==
  ASSUME NEW c, IsClass(c)
  PROVE  c # NoEntity /\ c \in Entities /\ c.name \in ClassNames /\ c.name \in DOMAIN KindOf
         /\ c.name \notin Bytes /\ ~ IsMember(c)
  <1>1. NoEntity.name = ""
    BY DEF NoEntity
  <1>2. c.name \in ClassNames /\ c \in Entities
    BY DEF IsClass
  <1>3. QED
    BY <1>1, <1>2, Names DEF IsMember

\* A thread at a call has one.
LEMMA HereIs ==
  ASSUME NEW t, NEW do, Next1(t, do)
  PROVE  todo[t] # <<>> /\ Here(t).do = do
  BY DEF Next1, Here

\* Java frames that are popped held nothing else.
LEMMA HeldLess ==
  ASSUME IInv, DOMAIN held' = Levels, \A u \in Levels : held'[u] \subseteq held[u],
         UNCHANGED <<todo, found, got, heap, refs, classMap, clOwner, clDepth, emplacing, anonymous,
                     torn, defined, table, poolOwner, mirOop>>
  PROVE  IInv'
  <1>1. TypeOK' /\ HeldIsAlive'
    BY DEF IInv, TypeOK, HeldIsAlive
  <1>2. (\A u \in Levels : Todo(u))' /\ LockIsCounted' /\ EmplacedOnce' /\ InsertedOnce'
    BY DEF IInv, Todo, LockIsCounted, EmplacedOnce, InsertedOnce, Named, Next1
  <1>3. MirrorIsThere' /\ HeapIsIndexed' /\ ReferencesAreFlat' /\ OneClassPerName'
    BY DEF IInv, MirrorIsThere, HeapIsIndexed, ReferencesAreFlat, OneClassPerName
  <1>4. QED
    BY <1>1, <1>2, <1>3 DEF IInv

\* Steps that only go on.
LEMMA GoOnStep ==
  ASSUME IInv, NEW t \in Levels, todo[t] # <<>>, Here(t).do \in {"java", "leave", "tested"},
         Continue(t, <<>>), DOMAIN held' = Levels, \A u \in Levels : held'[u] \subseteq held[u],
         UNCHANGED <<found, got, heap, refs, loaderVars, poolVars, mirrorVars>>
  PROVE  IInv'
  <1>1. UNCHANGED <<classMap, clOwner, clDepth, emplacing, anonymous, torn, defined, table,
                    poolOwner, mirOop>>
    BY DEF loaderVars, poolVars, mirrorVars
  <1>2. Moved(t, <<>>) /\ (\A u \in Levels : Todo(u))'
    <2>1. Replaces(<<>>, Here(t), defined')
      BY ReplacesNone
    <2>2. Finds(<<>>, Here(t), found[t], found'[t])
      BY FindsNone DEF Settles
    <2>3. Alone(t) /\ defined \subseteq defined' /\ (got'[t] # {} => got[t] # {})
      BY <1>1 DEF Alone
    <2>4. QED
      BY <2>1, <2>2, <2>3, TodoStep
  <1>3. \A i \in DOMAIN <<>> : FALSE
    OBVIOUS
  <1>4. TypeOK'
    BY <1>1, <1>2 DEF IInv, TypeOK, Moved
  <1>5. LockIsCounted'
    BY <1>1, <1>2, <1>3, LockKept
  <1>6. EmplacedOnce'
    BY <1>1, <1>2, <1>3, MapKept
  <1>7. InsertedOnce'
    BY <1>1, <1>2, <1>3, PoolKept
  <1>8. MirrorIsThere'
    BY <1>1, <1>2, <1>3, MirrorsKept
  <1>9. HeldIsAlive'
    BY DEF IInv, HeldIsAlive
  <1>10. HeapIsIndexed' /\ ReferencesAreFlat' /\ OneClassPerName'
    BY <1>1 DEF IInv, HeapIsIndexed, ReferencesAreFlat, OneClassPerName
  <1>11. QED
    BY <1>2, <1>4, <1>5, <1>6, <1>7, <1>8, <1>9, <1>10 DEF IInv

\* Java code that a native has run returns or throws.
LEMMA RunJavaStep ==
  ASSUME IInv, NEW t \in Levels, RunJava(t), UNCHANGED <<loaderVars, poolVars, mirrorVars>>
  PROVE  IInv'
  <1>1. todo[t] # <<>> /\ Here(t).do = "java"
    BY HereIs DEF RunJava
  <1>2. /\ Continue(t, <<>>) /\ UNCHANGED <<found, got, heap, refs>>
        /\ held' = [u \in Levels |-> IF Inside(u, t) THEN {} ELSE held[u]]
    BY DEF RunJava
  <1>3. DOMAIN held' = Levels /\ \A u \in Levels : held'[u] \subseteq held[u]
    BY <1>2
  <1>4. QED
    BY <1>1, <1>2, <1>3, GoOnStep

\* A guard ends.
LEMMA LeaveGuardStep ==
  ASSUME IInv, NEW t \in Levels, LeaveGuard(t)
  PROVE  IInv'
  <1>1. todo[t] # <<>> /\ Here(t).do = "leave"
    BY HereIs DEF LeaveGuard
  <1>2. /\ Continue(t, <<>>)
        /\ UNCHANGED <<found, got, held, heap, refs, loaderVars, poolVars, mirrorVars>>
    BY DEF LeaveGuard
  <1>3. DOMAIN held = Levels
    BY DEF IInv, TypeOK
  <1>4. QED
    BY <1>1, <1>2, <1>3, GoOnStep

\* getClass finds the name in the map.
LEMMA LookFindsStep ==
  ASSUME IInv, NEW t \in Levels, LookFinds(t), UNCHANGED <<poolVars, mirrorVars>>
  PROVE  IInv'
  <1>1. todo[t] # <<>> /\ Here(t).do = "look"
    BY HereIs DEF LookFinds
  <1>2. PICK c \in Named(Here(t).of.name) : found' = [found EXCEPT ![t] = c]
    BY DEF LookFinds
  <1>3. DOMAIN found = Levels /\ IsClass(c) /\ anonymous \in Nat
    BY DEF IInv, TypeOK, Named
  <1>4. found'[t] = c /\ c # NoEntity /\ DOMAIN found' = Levels
        /\ \A u \in Levels \ {t} : found'[u] = found[u]
    <2>1. c # NoEntity
      BY <1>3, ClassIsEntity
    <2>2. QED
      BY <1>2, <1>3, <2>1
  <1>5. Replaces(<<>>, Here(t), defined')
    BY ReplacesNone
  <1>6. Finds(<<>>, Here(t), found[t], found'[t])
    BY <1>1, <1>4, FindsNone DEF Keeps
  <1>7. \A i \in DOMAIN <<>> : FALSE
    OBVIOUS
  <1>8. torn' => defined # {}
    BY <1>1, TornIsSafe DEF LookFinds
  <1>9. Continue(t, <<>>)
          /\ UNCHANGED <<got, held, heap, refs, classMap, clOwner, clDepth, emplacing,
                                         anonymous, defined, table, poolOwner, mirOop>>
    BY DEF LookFinds, poolVars, mirrorVars
  <1>10. QED
    BY <1>1, <1>3, <1>4, <1>5, <1>6, <1>7, <1>8, <1>9, QuietStep

\* getClass does not find it: the class, and those above it, are to be loaded.
LEMMA LookMissesStep ==
  ASSUME IInv, NEW t \in Levels, LookMisses(t), UNCHANGED <<poolVars, mirrorVars>>
  PROVE  IInv'
  <1> DEFINE e == Here(t).of
             y == Step("emplace", e, NoEntity)
             more == IF e.name \in ArrayNames THEN <<y>>
                     ELSE IF e.name \in ClassFiles THEN Append(FindAll(Above[e.name]), y)
                     ELSE <<>>
  <1>1. todo[t] # <<>> /\ Here(t).do = "look" /\ Here(t) \in Steps /\ e \in Entities
    BY HereIs, TodoFacts DEF LookMisses, Steps
  <1>2. DOMAIN found = Levels /\ anonymous \in Nat
    BY DEF IInv, TypeOK
  <1>3. /\ Continue(t, more) /\ Named(e.name) = {} /\ found' = [found EXCEPT ![t] = NoEntity]
        /\ UNCHANGED <<got, held, heap, refs, classMap, clOwner, clDepth, emplacing,
                       anonymous, defined, table, poolOwner, mirOop>>
    BY DEF LookMisses, poolVars, mirrorVars
  <1>4. torn' => defined # {}
    BY <1>1, TornIsSafe DEF LookMisses
  <1>5. y \in Steps /\ y.do = "emplace" /\ y.of = e /\ y.into = NoEntity
    <2>1. "emplace" \in Operations
      BY DEF Operations
    <2>2. QED
      BY <1>1, <2>1, StepTypes, StepFields
  <1> HIDE DEF e, y
  <1>6. e.name \in Loadable => IsClass(e) /\ e.name # AnonymousName
    BY <1>1, Names DEF IsClass
  <1>7. e.name \in Loadable => StepOK(y, defined') /\ StandsIn(y, Here(t))
                               /\ NeedsLock(Here(t), defined')
    BY <1>1, <1>5, <1>6 DEF StepOK, StandsIn, NeedsLock, Loading, Giving, Making, e
  <1>8. /\ Replaces(more, Here(t), defined') /\ Finds(more, Here(t), found[t], found'[t])
        /\ \A i \in DOMAIN more : more[i] = y \/ (more[i].do = "find" /\ more[i].into = NoEntity)
    <2>1. CASE e.name \in ArrayNames
      <3>1. more = <<y>> /\ e.name \in Loadable
        BY <2>1 DEF Loadable
      <3>2. Replaces(<<y>>, Here(t), defined')
        BY <1>5, <1>7, <3>1, ReplacesOne DEF Giving
      <3>3. /\ <<y>> \in Seq(Steps) /\ <<y>> # <<>> /\ <<y>>[Len(<<y>>)] = y
            /\ \A i \in DOMAIN <<y>> : <<y>>[i] = y
        BY <1>5
      <3>4. Finds(<<y>>, Here(t), found[t], found'[t])
        BY <1>5, <3>3, FindsLast DEF Settles, IsFoundMirror
      <3>5. QED
        BY <3>1, <3>2, <3>3, <3>4
    <2>2. CASE e.name \notin ArrayNames /\ e.name \in ClassFiles
      <3>1. more = Append(FindAll(Above[e.name]), y) /\ e.name \in Loadable
        BY <2>2 DEF Loadable
      <3>2. Here(t).of.name = e.name /\ Here(t).do # "unlock"
        BY <1>1 DEF e
      <3> HIDE DEF more
      <3>3. QED
        <4>1. /\ e.name \in ClassFiles /\ y \in Steps /\ Here(t).of.name = e.name
                   /\ Here(t).do # "unlock"
              /\ y.do \in {"emplace", "rename"} /\ y.of.name = e.name /\ y.into = NoEntity
              /\ StepOK(y, defined') /\ (NeedsLock(y, defined') => NeedsLock(Here(t), defined'))
              /\ StandsIn(y, Here(t))
          BY <1>5, <1>7, <2>2, <3>1, <3>2
        <4>2. MakesFirst(Append(FindAll(Above[e.name]), y), Here(t), y, defined', found[t],
                found'[t])
          BY <4>1, LoadsAbove
        <4>3. QED
          BY <3>1, <4>2 DEF MakesFirst
    <2>3. CASE e.name \notin ArrayNames /\ e.name \notin ClassFiles
      <3>1. more = <<>> /\ ~ Settles(Here(t)) /\ ~ Keeps(Here(t))
        BY <1>1, <2>3 DEF Settles, Keeps, Loadable, e
      <3>2. \A i \in DOMAIN <<>> : FALSE
        OBVIOUS
      <3>3. Finds(<<>>, Here(t), found[t], found'[t])
        BY <3>1, FindsNone
      <3>4. QED
        BY <3>1, <3>2, <3>3, ReplacesNone
    <2>4. QED
      BY <2>1, <2>2, <2>3
  <1> HIDE DEF more
  <1>9. /\ DOMAIN found' = Levels /\ found'[t] = NoEntity
        /\ \A u \in Levels \ {t} : found'[u] = found[u]
    BY <1>2, <1>3
  <1>10. \A i \in DOMAIN more :
             /\ more[i].do \notin {"unlock", "insert", "unlockMirror"}
             /\ Locked(more[i], defined') => Named(more[i].of.name) = {}
             /\ more[i].into # NoEntity => more[i].into \in DOMAIN mirOop
    BY <1>3, <1>5, <1>8 DEF Locked
  <1>11. QED
    BY <1>1, <1>2, <1>3, <1>4, <1>8, <1>9, <1>10, QuietStep

\* A class is defined from bytes, after those above it.
LEMMA DefineClassStep ==
  ASSUME IInv, NEW t \in Levels, DefineClass(t) \/ DefineAnonymousClass(t),
         UNCHANGED <<poolVars, mirrorVars>>
  PROVE  IInv'
  <1> DEFINE e == Here(t).of
             do == IF DefineClass(t) THEN "emplace" ELSE "rename"
             y == Step(do, e, NoEntity)
             more == Append(FindAll(Above[e.name]), y)
  <1>1. todo[t] # <<>> /\ Here(t).do \in {"define", "anonymous"} /\ Here(t) \in Steps
          /\ e \in Entities
        /\ StepOK(Here(t), defined)
    BY HereIs, TodoFacts DEF DefineClass, DefineAnonymousClass, Steps
  <1>2. DOMAIN found = Levels /\ (found[t] = NoEntity \/ IsClass(found[t])) /\ anonymous \in Nat
    BY DEF IInv, TypeOK
  <1>3. /\ Continue(t, more) /\ defined' = defined \cup {e.name}
        /\ UNCHANGED <<found, got, held, heap, refs, classMap, clOwner, clDepth, emplacing,
                       anonymous, torn, table, poolOwner, mirOop>>
    BY DEF DefineClass, DefineAnonymousClass, poolVars, mirrorVars
  <1>4. y \in Steps /\ y.do \in {"emplace", "rename"} /\ y.of = e /\ y.into = NoEntity
    <2>1. do \in Operations /\ do \in {"emplace", "rename"}
      BY DEF Operations
    <2> HIDE DEF do
    <2>2. QED
      BY <1>1, <2>1, StepTypes, StepFields
  <1> HIDE DEF y
  <1>5. e.name \in ClassFiles /\ IsClass(e)
    <2>1. e.name \in ClassFiles
      BY <1>1 DEF StepOK
    <2>2. QED
      BY <1>1, <2>1, Names DEF IsClass
  <1>6. StepOK(y, defined') /\ StandsIn(y, Here(t)) /\ ~ NeedsLock(y, defined')
    <2>1. e.name \in defined' /\ Here(t).do \notin Loading
      BY <1>1, <1>3 DEF Loading
    <2> HIDE DEF e
    <2>2. QED
      BY <1>4, <1>5, <2>1 DEF StepOK, StandsIn, NeedsLock, Locked, Giving, Making
  <1>7. MakesFirst(more, Here(t), y, defined', found[t], found'[t])
    <2>1. /\ e.name \in ClassFiles /\ y \in Steps /\ Here(t).of.name = e.name
               /\ Here(t).do # "unlock"
          /\ y.do \in {"emplace", "rename"} /\ y.of.name = e.name /\ y.into = NoEntity
          /\ StepOK(y, defined') /\ (NeedsLock(y, defined') => NeedsLock(Here(t), defined'))
          /\ StandsIn(y, Here(t))
      BY <1>1, <1>4, <1>5, <1>6
    <2> HIDE DEF e
    <2>2. QED
      BY <2>1, LoadsAbove
  <1> HIDE DEF more, e
  <1>8. \A i \in DOMAIN more :
             /\ more[i].do \notin {"unlock", "insert", "unlockMirror"}
             /\ ~ Locked(more[i], defined')
             /\ more[i].into = NoEntity
    BY <1>4, <1>6, <1>7 DEF MakesFirst, Locked, NeedsLock
  <1>9. Replaces(more, Here(t), defined') /\ Finds(more, Here(t), found[t], found'[t])
    BY <1>7 DEF MakesFirst
  <1>10. /\ DOMAIN found' = Levels /\ (found'[t] = NoEntity \/ IsClass(found'[t]))
         /\ \A u \in Levels \ {t} : found'[u] = found[u]
         /\ anonymous' \in Nat /\ (torn' => torn \/ defined' # {}) /\ defined \subseteq defined'
    BY <1>2, <1>3
  <1>11. QED
    BY <1>1, <1>3, <1>8, <1>9, <1>10, QuietStep

\* An anonymous class whose name is taken gets another.
LEMMA RenameStep ==
  ASSUME IInv, NEW t \in Levels, Rename(t), UNCHANGED <<poolVars, mirrorVars>>
  PROVE  IInv'
  <1> DEFINE e == Here(t).of
             d == IF Named(e.name) = {} THEN e ELSE [name |-> AnonymousName, copy |-> anonymous + 1]
             y == Step("emplace", d, NoEntity)
  <1>1. todo[t] # <<>> /\ Here(t).do = "rename" /\ Here(t) \in Steps /\ e \in Entities
        /\ StepOK(Here(t), defined)
    BY HereIs, TodoFacts DEF Rename, Steps
  <1>2. DOMAIN found = Levels /\ (found[t] = NoEntity \/ IsClass(found[t])) /\ anonymous \in Nat
    BY DEF IInv, TypeOK
  <1>3. /\ Continue(t, <<y>>) /\ anonymous' \in Nat
        /\ UNCHANGED <<found, got, held, heap, refs, classMap, clOwner, clDepth, emplacing,
                       defined, table, poolOwner, mirOop>>
    BY <1>2 DEF Rename, poolVars, mirrorVars
  <1>4. torn' => defined # {}
    BY <1>1, TornIsSafe DEF Rename
  <1>5. e.name \in ClassFiles /\ e.name \in defined
    BY <1>1 DEF StepOK
  <1>6. IsClass(d) /\ d.name \in defined \cup {AnonymousName} /\ defined # {}
    <2>1. CASE d = e
      BY <1>1, <1>5, <2>1, Names DEF IsClass
    <2>2. CASE d = [name |-> AnonymousName, copy |-> anonymous + 1]
      <3>1. AnonymousName \in Words /\ AnonymousName \in ClassNames
        BY Names
      <3>2. d \in Entities /\ d.name = AnonymousName
        BY <1>2, <2>2, <3>1 DEF Entities
      <3>3. QED
        BY <1>5, <3>1, <3>2 DEF IsClass
    <2>3. QED
      BY <2>1, <2>2
  <1> HIDE DEF d
  <1>7. y \in Steps /\ y.do = "emplace" /\ y.of = d /\ y.into = NoEntity
    <2>1. "emplace" \in Operations /\ d \in Entities
      BY <1>6 DEF Operations, IsClass
    <2>2. QED
      BY <2>1, StepTypes, StepFields
  <1> HIDE DEF y
  <1>8. StepOK(y, defined') /\ StandsIn(y, Here(t)) /\ ~ NeedsLock(y, defined')
    <2>1. Here(t).do \notin Loading
      BY <1>1 DEF Loading
    <2>2. QED
      BY <1>3, <1>6, <1>7, <2>1 DEF StepOK, StandsIn, NeedsLock, Locked, Giving, Making
  <1>9. Replaces(<<y>>, Here(t), defined')
    BY <1>7, <1>8, ReplacesOne DEF Giving
  <1>10. /\ <<y>> \in Seq(Steps) /\ <<y>> # <<>> /\ <<y>>[Len(<<y>>)] = y
         /\ \A i \in DOMAIN <<y>> : <<y>>[i] = y
    BY <1>7
  <1>11. Finds(<<y>>, Here(t), found[t], found'[t])
    BY <1>7, <1>10, FindsLast DEF Settles, IsFoundMirror
  <1>12. \A i \in DOMAIN <<y>> :
             /\ <<y>>[i].do \notin {"unlock", "insert", "unlockMirror"}
             /\ ~ Locked(<<y>>[i], defined')
             /\ <<y>>[i].into = NoEntity
    BY <1>7, <1>8, <1>10 DEF NeedsLock
  <1>13. /\ DOMAIN found' = Levels /\ (found'[t] = NoEntity \/ IsClass(found'[t]))
         /\ \A u \in Levels \ {t} : found'[u] = found[u]
         /\ (torn' => torn \/ defined' # {}) /\ defined \subseteq defined'
    BY <1>2, <1>3, <1>4
  <1>14. QED
    BY <1>1, <1>3, <1>9, <1>11, <1>12, <1>13, QuietStep

\* A thread begins a native, or leaves the one it is in.
LEMMA BeginStep ==
  ASSUME IInv, NEW t \in Levels, NEW b, GoodBody(b), got'[t] = {} \/ b = <<>>,
         DOMAIN got' = Levels, got'[t] \subseteq got[t], \A u \in Levels \ {t} : got'[u] = got[u],
         \A i \in DOMAIN todo[t] : todo[t][i].do # "unlock",
         ~ Next1(t, "emplace"),
         todo' = [todo EXCEPT ![t] = Append(b, ReturnRef)],
         UNCHANGED <<found, held, heap, refs, loaderVars, poolVars, mirrorVars>>
  PROVE  IInv'
  <1> DEFINE s == Append(b, ReturnRef)
  <1>1. /\ GoodTodo(s, defined, found[t], {})
        /\ \A i \in DOMAIN s :
                /\ s[i].do \notin {"look", "unlock", "emplace", "insert", "unlockMirror"}
                /\ s[i].into = NoEntity
    BY BodyIsTodo
  <1>2. b = <<>> => s = <<ReturnRef>>
    OBVIOUS
  <1> HIDE DEF s
  <1>3. GoodTodo(s, defined, found[t], got'[t])
    <2>1. CASE got'[t] = {}
      BY <1>1, <2>1
    <2>2. CASE b = <<>>
      <3>1. s # <<>> /\ \A i \in DOMAIN s : s[i].do = "return"
        <4>1. ReturnRef.do = "return"
          BY PlainCalls
        <4>2. s = <<ReturnRef>>
          BY <1>2, <2>2
        <4>3. QED
          BY <4>1, <4>2
      <3>2. Careful(s, got'[t])
        BY <3>1 DEF Careful, Unguarded
      <3>3. QED
        BY <1>1, <3>2 DEF GoodTodo
    <2>3. QED
      BY <2>1, <2>2
  <1>4. /\ DOMAIN todo' = Levels /\ todo'[t] = s /\ \A u \in Levels \ {t} : todo'[u] = todo[u]
    BY DEF IInv, TypeOK, s
  <1>5. UNCHANGED <<found, held, heap, refs, classMap, clOwner, clDepth, emplacing, anonymous,
                    torn, defined, table, poolOwner, mirOop, spinOwner>>
    BY DEF loaderVars, poolVars, mirrorVars
  <1>6. TypeOK'
    BY <1>4, <1>5 DEF IInv, TypeOK
  <1>7. (\A u \in Levels : Todo(u))'
    <2>1. \A u \in Levels : GoodTodo(todo'[u], defined', found'[u], got'[u])
      BY <1>3, <1>4, <1>5 DEF IInv, Todo, GoodTodo
    <2>2. QED
      BY <2>1 DEF Todo, GoodTodo
  <1>8. LockIsCounted'
    <2>1. Unlocks(todo[t]) = {} /\ Unlocks(s) = {}
      BY <1>1 DEF Unlocks
    <2>2. \A u \in Levels : Cardinality(Unlocks(todo'[u])) = Cardinality(Unlocks(todo[u]))
      BY <1>4, <2>1
    <2>3. QED
      BY <1>5, <2>2 DEF IInv, LockIsCounted
  <1>9. EmplacedOnce'
    <2>1. ASSUME NEW u \in Levels, NEW i \in DOMAIN todo'[u], Locked(todo'[u][i], defined)
          PROVE  Named(todo'[u][i].of.name) = {}
      BY <1>1, <1>4, <2>1 DEF IInv, EmplacedOnce, Locked
    <2>2. ASSUME NEW u \in emplacing
          PROVE u \in Levels /\ todo'[u] = todo[u] /\ Next1(u, "emplace")
      BY <1>4, <2>2 DEF IInv, EmplacedOnce
    <2>3. QED
      BY <1>5, <2>1, <2>2 DEF EmplacedOnce, Next1, Named
  <1>10. InsertedOnce'
    <2>1. ASSUME NEW u \in Levels, NEW i \in DOMAIN todo'[u], todo'[u][i].do = "insert"
          PROVE  u # t
      BY <1>1, <1>4, <2>1
    <2>2. QED
      BY <1>4, <1>5, <2>1 DEF IInv, InsertedOnce
  <1>11. MirrorIsThere'
    BY <1>1, <1>4, <1>5 DEF IInv, MirrorIsThere
  <1>12. HeapIsIndexed' /\ ReferencesAreFlat' /\ HeldIsAlive' /\ OneClassPerName'
    BY <1>5 DEF IInv, HeapIsIndexed, ReferencesAreFlat, HeldIsAlive, OneClassPerName
  <1>13. QED
    BY <1>6, <1>7, <1>8, <1>9, <1>10, <1>11, <1>12 DEF IInv

\* The interpreter calls a native.
LEMMA CallNativeStep ==
  ASSUME IInv, NEW t \in Levels, CallNative(t)
  PROVE  IInv'
  <1>1. PICK call \in Calls : todo[t] = <<>>
          /\ todo' = [todo EXCEPT ![t] = Append(Body(call), ReturnRef)]
                              /\ UNCHANGED <<found, got, held, heap, refs>>
    BY DEF CallNative, Call
  <1>2. got'[t] = {} /\ DOMAIN got' = Levels
    BY <1>1 DEF IInv, TypeOK, Todo, GoodTodo, Careful
  <1>3. GoodBody(Body(call))
    BY BodiesAreGood
  <1>4. ~ Next1(t, "emplace")
    BY <1>1 DEF Next1
  <1>5. UNCHANGED <<loaderVars, poolVars, mirrorVars>>
    BY DEF CallNative
  <1>6. \A i \in DOMAIN todo[t] : FALSE
    BY <1>1
  <1>7. QED
    BY <1>1, <1>2, <1>3, <1>4, <1>5, <1>6, BeginStep

\* Where a native may end early it has locked nothing.
LEMMA HoldsNoLock ==
  ASSUME IInv, NEW t \in Levels, todo[t] # <<>>, Here(t).do \in {"notFound", "tested"}
  PROVE  \A i \in DOMAIN todo[t] : todo[t][i].do # "unlock"
  <1> SUFFICES ASSUME NEW i \in DOMAIN todo[t] PROVE todo[t][i].do # "unlock"
    OBVIOUS
  <1>1. /\ Here(t) = todo[t][1] /\ DOMAIN todo[t] = 1 .. Len(todo[t]) /\ Len(todo[t]) \in Nat
        /\ \A j \in DOMAIN todo[t] : j > 1 => Before(Here(t), todo[t][j], defined)
    BY TodoFacts
  <1>2. CASE i = 1
    BY <1>1, <1>2
  <1>3. CASE i # 1
    <2>1. i > 1
      BY <1>1, <1>3
    <2>2. Before(Here(t), todo[t][i], defined)
      BY <1>1, <2>1
    <2>3. QED
      BY <2>2 DEF Before, Closed, Loading
  <1>4. QED
    BY <1>2, <1>3

\* forName0 goes on with the class found, or throws.
LEMMA NotFoundStep ==
  ASSUME IInv, NEW t \in Levels, NotFound(t)
  PROVE  IInv'
  <1>1. todo[t] # <<>> /\ Here(t).do = "notFound" /\ todo[t] \in Seq(Steps)
    BY HereIs, TodoFacts DEF NotFound
  <1>2. UNCHANGED <<found, got, held, heap, refs, loaderVars, poolVars, mirrorVars>>
    BY DEF NotFound
  <1>3. CASE found[t] = NoEntity
    <2>1. GoodBody(<<>>)
      BY EmptyChunk DEF GoodBody
    <2>2. todo' = [todo EXCEPT ![t] = Append(<<>>, ReturnRef)]
      BY <1>3 DEF NotFound
    <2>3. \A i \in DOMAIN todo[t] : todo[t][i].do # "unlock"
      BY <1>1, HoldsNoLock
    <2>4. ~ Next1(t, "emplace") /\ DOMAIN got = Levels
      BY <1>1 DEF Next1, Here, IInv, TypeOK
    <2>5. QED
      BY <1>2, <2>1, <2>2, <2>3, <2>4, BeginStep
  <1>4. CASE found[t] # NoEntity
    <2>1. Continue(t, <<>>)
      <3>1. Tail(todo[t]) \in Seq(Steps)
        BY <1>1
      <3>2. Tail(todo[t]) = <<>> \o Tail(todo[t])
        BY <3>1, EmptySeq, ConcatEmptySeq
      <3>3. QED
        BY <1>4, <3>2 DEF NotFound, Continue
    <2>2. Replaces(<<>>, Here(t), defined')
      BY ReplacesNone
    <2>3. Finds(<<>>, Here(t), found[t], found'[t])
      BY <1>1, <1>2, <1>4, FindsNone DEF Keeps
    <2>4. DOMAIN found = Levels /\ (found[t] = NoEntity \/ IsClass(found[t])) /\ anonymous \in Nat
      BY DEF IInv, TypeOK
    <2>5. \A i \in DOMAIN <<>> : FALSE
      OBVIOUS
    <2>6. QED
      BY <1>1, <1>2, <2>1, <2>2, <2>3, <2>4, <2>5, QuietStep DEF loaderVars, poolVars, mirrorVars
  <1>5. QED
    BY <1>3, <1>4

\* What Append makes of one call.
LEMMA TwoCalls ==
  ASSUME NEW x \in Steps, NEW y \in Steps
  PROVE  Append(<<x>>, y) = <<x, y>>
  <1> DEFINE s == Append(<<x>>, y)
  <1>1. <<x>> \in Seq(Steps) /\ Len(<<x>>) = 1 /\ <<x>>[1] = x
    OBVIOUS
  <1>2. s \in Seq(Steps) /\ Len(s) = 2 /\ s[1] = x /\ s[2] = y
    BY <1>1, AppendProperties
  <1> HIDE DEF s
  <1>3. s = <<x, y>>
    BY <1>2
  <1>4. QED
    BY <1>3 DEF s

\* A native that tests for an exception ends, or goes on.
LEMMA EndIfThrownStep ==
  ASSUME IInv, NEW t \in Levels, EndIfThrown(t)
  PROVE  IInv'
  <1>1. todo[t] # <<>> /\ Here(t).do = "tested" /\ todo[t] \in Seq(Steps)
    BY HereIs, TodoFacts DEF EndIfThrown
  <1>2. UNCHANGED <<found, held, heap, refs, loaderVars, poolVars, mirrorVars>>
    BY DEF EndIfThrown
  <1>3. DOMAIN got = Levels /\ DOMAIN held = Levels
    BY DEF IInv, TypeOK
  <1>4. CASE Continue(t, <<>>) /\ got' = got
    BY <1>1, <1>2, <1>3, <1>4, GoOnStep
  <1>5. CASE /\ todo' = [todo EXCEPT ![t] = IF Guarded(t) THEN <<Leave, ReturnRef>>
                                            ELSE <<ReturnRef>>]
             /\ got' = [got EXCEPT ![t] = {}]
    <2>1. /\ \A i \in DOMAIN todo[t] : todo[t][i].do # "unlock"
          /\ ~ Next1(t, "emplace")
      BY <1>1, HoldsNoLock DEF Next1, Here
    <2>2. /\ got'[t] = {} /\ DOMAIN got' = Levels
          /\ \A u \in Levels \ {t} : got'[u] = got[u]
      BY <1>3, <1>5
    <2>3. CASE Guarded(t)
      <3>1. <<Leave>> \in Chunks(Plain) /\ DOMAIN <<Leave>> = {1} /\ <<Leave>>[1] = Leave
        BY PlainCalls, OneCallChunk
      <3>2. GoodBody(<<Leave>>)
        BY <3>1, PlainCalls DEF GoodBody, Unguarded
      <3>3. todo' = [todo EXCEPT ![t] = Append(<<Leave>>, ReturnRef)]
        BY <1>5, <2>3, PlainCalls, TwoCalls
      <3>4. QED
        BY <1>2, <2>1, <2>2, <3>2, <3>3, BeginStep
    <2>4. CASE ~ Guarded(t)
      <3>1. GoodBody(<<>>)
        BY EmptyChunk DEF GoodBody
      <3>2. todo' = [todo EXCEPT ![t] = Append(<<>>, ReturnRef)]
        BY <1>5, <2>4
      <3>3. QED
        BY <1>2, <2>1, <2>2, <3>1, <3>2, BeginStep
    <2>5. QED
      BY <2>3, <2>4
  <1>6. QED
    BY <1>4, <1>5 DEF EndIfThrown

\* getClass locks clMutex: the thread has one unlock more to do.
LEMMA GetClassStep ==
  ASSUME IInv, NEW t \in Levels, GetClass(t), UNCHANGED <<poolVars, mirrorVars>>
  PROVE  IInv'
  <1> DEFINE x == Here(t)
             y == Step("look", x.of, NoEntity)
             z == Step("unlock", NoEntity, NoEntity)
             more == <<y, z>>
  <1>1. todo[t] # <<>> /\ x.do = "find" /\ x \in Steps /\ x.of \in Entities
    BY HereIs, TodoFacts DEF GetClass, Steps
  <1>2. /\ Continue(t, more) /\ clOwner \in {None, t} /\ clOwner' = t /\ clDepth' = clDepth + 1
        /\ UNCHANGED <<found, got, held, heap, refs, classMap, emplacing, anonymous, torn, defined,
                       table, poolOwner, mirOop>>
    BY DEF GetClass, poolVars, mirrorVars
  <1>3. /\ y \in Steps /\ y.do = "look" /\ y.of = x.of /\ y.into = NoEntity
        /\ z \in Steps /\ z.do = "unlock" /\ z.of = NoEntity /\ z.into = NoEntity
    <2>1. "look" \in Operations /\ "unlock" \in Operations
      BY DEF Operations
    <2>2. QED
      BY <1>1, <2>1, StepTypes, StepFields
  <1> HIDE DEF y, z, x
  <1>4. /\ StepOK(y, defined') /\ StepOK(z, defined') /\ Before(y, z, defined')
        /\ StandsIn(y, x) /\ StandsIn(z, x) /\ ~ NeedsLock(z, defined')
    BY <1>1, <1>3 DEF StepOK, StandsIn, NeedsLock, Locked, Giving, Making, Before, Closed, Loading
  <1>5. Replaces(more, x, defined')
    BY <1>3, <1>4, ReplacesTwo DEF Giving
  <1>6. more \in Seq(Steps) /\ Len(more) = 2 /\ DOMAIN more = 1 .. 2 /\ more[1] = y /\ more[2] = z
    BY <1>3
  <1> HIDE DEF more
  <1>7. Finds(more, x, found[t], found'[t])
    <2>1. \A i \in DOMAIN more : ~ IsFoundMirror(more[i])
      BY <1>3, <1>6 DEF IsFoundMirror
    <2>2. ASSUME Settles(x) PROVE Settled(more, found'[t], Len(more))
      <3>1. Settles(y)
        BY <1>1, <1>3, <2>2 DEF Settles
      <3>2. Keeps(z)
        BY <1>3 DEF Keeps
      <3>3. \A k \in 1 + 1 .. 2 : k = 2
        OBVIOUS
      <3>4. 1 \in 0 .. 2 /\ 1 # 0
        OBVIOUS
      <3>5. QED
        BY <1>6, <3>1, <3>2, <3>3, <3>4 DEF Settled
    <2>3. ~ Keeps(x)
      BY <1>1 DEF Keeps
    <2>4. QED
      BY <2>1, <2>2, <2>3 DEF Finds, Found
  <1>8. Alone(t) /\ defined \subseteq defined' /\ (got'[t] # {} => got[t] # {} \/ x.do \in Giving)
    BY <1>2 DEF Alone
  <1>9. Moved(t, more) /\ (\A u \in Levels : Todo(u))'
    BY <1>1, <1>2, <1>5, <1>7, <1>8, TodoStep DEF x
  <1>10. TypeOK'
    <2>1. clDepth' \in Nat
      BY <1>2 DEF IInv, TypeOK
    <2>2. QED
      BY <1>2, <1>9, <2>1 DEF IInv, TypeOK, Moved
  <1>11. LockIsCounted'
    <2>1. Unlocks(more) = {2}
      BY <1>3, <1>6 DEF Unlocks
    <2>2. Cardinality(Unlocks(more)) = 1
      BY <2>1, FS_Singleton
    <2>3. Cardinality(Unlocks(todo[t])) \in Nat /\ x = todo[t][1]
      BY <1>1, TodoFacts, UnlocksAreFinite DEF x
    <2>4. Cardinality(Unlocks(todo'[t])) = Cardinality(Unlocks(more))
            + Cardinality(Unlocks(todo[t]))
                                           - (IF todo[t][1].do = "unlock" THEN 1 ELSE 0)
      BY <1>9, CountSplice DEF Moved
    <2>5. Cardinality(Unlocks(todo'[t])) = Cardinality(Unlocks(todo[t])) + 1
      BY <1>1, <2>2, <2>3, <2>4
    <2>6. /\ clDepth \in Nat /\ (clOwner = None => clDepth = 0)
          /\ Cardinality(Unlocks(todo[t])) = IF clOwner = t THEN clDepth ELSE 0
      BY DEF IInv, TypeOK, LockIsCounted
    <2>7. \A u \in Levels \ {t} : clOwner # u
      BY <1>2, CallsAssumption
    <2>8. \A u \in Levels \ {t} : Cardinality(Unlocks(todo'[u])) = 0
      BY <1>9, <2>7 DEF IInv, LockIsCounted, Moved
    <2>9. Cardinality(Unlocks(todo'[t])) = clDepth + 1
      BY <1>2, <2>5, <2>6
    <2>10. clDepth + 1 > 0 /\ t # None
      BY <2>6, CallsAssumption
    <2>11. QED
      BY <1>2, <2>8, <2>9, <2>10 DEF LockIsCounted
  <1>12. \A i \in DOMAIN more : /\ more[i].do \notin {"insert", "unlockMirror"}
                                /\ ~ Locked(more[i], defined')
                                /\ more[i].into = NoEntity
    <2>1. \A i \in DOMAIN more : more[i].do \in {"look", "unlock"} /\ more[i].into = NoEntity
      BY <1>3, <1>6
    <2>2. QED
      BY <2>1 DEF Locked
  <1>13. x = Here(t)
    BY DEF x
  <1>14. EmplacedOnce'
    BY <1>1, <1>2, <1>9, <1>12, <1>13, MapKept
  <1>15. InsertedOnce'
    BY <1>1, <1>2, <1>9, <1>12, <1>13, PoolKept
  <1>16. MirrorIsThere'
    BY <1>1, <1>2, <1>9, <1>12, <1>13, MirrorsKept
  <1>17. HeapIsIndexed' /\ ReferencesAreFlat' /\ HeldIsAlive' /\ OneClassPerName'
    BY <1>2 DEF IInv, HeapIsIndexed, ReferencesAreFlat, HeldIsAlive, OneClassPerName
  <1>18. QED
    BY <1>9, <1>10, <1>11, <1>14, <1>15, <1>16, <1>17 DEF IInv

\* What a step with more = <<>> has to show.
LEMMA OverStep ==
  ASSUME IInv, NEW t \in Levels, todo[t] # <<>>, Here(t).do # "return", Continue(t, <<>>),
         defined' = defined, Settles(Here(t)) => found'[t] # NoEntity,
         Keeps(Here(t)) => found'[t] = found[t],
         Alone(t), got'[t] # {} => got[t] # {} \/ Here(t).do \in Giving
  PROVE  Moved(t, <<>>) /\ (\A u \in Levels : Todo(u))'
  <1>1. Replaces(<<>>, Here(t), defined')
    BY ReplacesNone
  <1>2. Finds(<<>>, Here(t), found[t], found'[t])
    BY FindsNone
  <1>3. defined \subseteq defined'
    OBVIOUS
  <1>4. QED
    BY <1>1, <1>2, <1>3, TodoStep

\* The lock_guard of getClass unlocks clMutex.
LEMMA UnlockStep ==
  ASSUME IInv, NEW t \in Levels, Unlock(t), UNCHANGED <<poolVars, mirrorVars>>
  PROVE  IInv'
  <1>1. todo[t] # <<>> /\ Here(t).do = "unlock" /\ Here(t) = todo[t][1] /\ 1 \in DOMAIN todo[t]
        /\ todo[t] \in Seq(Steps)
    BY HereIs, TodoFacts DEF Unlock
  <1>2. /\ Continue(t, <<>>) /\ clDepth' = clDepth - 1
        /\ clOwner' = IF clDepth = 1 THEN None ELSE clOwner
        /\ UNCHANGED <<found, got, held, heap, refs, classMap, emplacing, anonymous, torn, defined,
                       table, poolOwner, mirOop>>
    BY DEF Unlock, poolVars, mirrorVars
  <1>3. Moved(t, <<>>) /\ (\A u \in Levels : Todo(u))'
    <2>1. Alone(t) /\ (got'[t] # {} => got[t] # {})
      BY <1>2 DEF Alone
    <2>2. ~ Settles(Here(t)) /\ found'[t] = found[t]
      BY <1>1, <1>2 DEF Settles
    <2>3. QED
      BY <1>1, <1>2, <2>1, <2>2, OverStep
  <1>4. clOwner = t /\ Cardinality(Unlocks(todo[t])) = clDepth /\ clDepth \in Nat /\ clDepth > 0
    <2>1. 1 \in Unlocks(todo[t]) /\ IsFiniteSet(Unlocks(todo[t]))
      BY <1>1, UnlocksAreFinite DEF Unlocks
    <2>2. Cardinality(Unlocks(todo[t])) # 0
      BY <2>1, FS_EmptySet
    <2>3. QED
      BY <2>2, CallsAssumption DEF IInv, LockIsCounted, TypeOK
  <1>5. TypeOK'
    <2>1. clDepth' \in Nat
      BY <1>2, <1>4
    <2>2. QED
      BY <1>2, <1>3, <2>1 DEF IInv, TypeOK, Moved
  <1>6. LockIsCounted'
    <2>1. Cardinality(Unlocks(<<>>)) = 0
      <3>1. Unlocks(<<>>) = {}
        BY DEF Unlocks
      <3>2. QED
        BY <3>1, FS_EmptySet
    <2>2. Cardinality(Unlocks(todo'[t])) = Cardinality(Unlocks(<<>>))
            + Cardinality(Unlocks(todo[t]))
                                           - (IF todo[t][1].do = "unlock" THEN 1 ELSE 0)
      BY <1>3, CountSplice DEF Moved
    <2>3. Cardinality(Unlocks(todo'[t])) = clDepth - 1
      BY <1>1, <1>4, <2>1, <2>2
    <2>4. \A u \in Levels \ {t} : Cardinality(Unlocks(todo'[u])) = 0
      BY <1>3, <1>4 DEF IInv, LockIsCounted, Moved
    <2>5. CASE clDepth = 1
      <3>1. clOwner' = None /\ clDepth' = 0 /\ Cardinality(Unlocks(todo'[t])) = 0
        BY <1>2, <2>3, <2>5
      <3>2. QED
        BY <2>4, <3>1, CallsAssumption DEF LockIsCounted
    <2>6. CASE clDepth # 1
      <3>1. clOwner' = t /\ clDepth' > 0 /\ Cardinality(Unlocks(todo'[t])) = clDepth'
        BY <1>2, <1>4, <2>3, <2>6
      <3>2. QED
        BY <2>4, <3>1, CallsAssumption DEF LockIsCounted
    <2>7. QED
      BY <2>5, <2>6
  <1>7. \A i \in DOMAIN <<>> : FALSE
    OBVIOUS
  <1>8. EmplacedOnce'
    BY <1>1, <1>2, <1>3, <1>7, MapKept
  <1>9. InsertedOnce'
    BY <1>1, <1>2, <1>3, <1>7, PoolKept
  <1>10. MirrorIsThere'
    BY <1>1, <1>2, <1>3, <1>7, MirrorsKept
  <1>11. HeapIsIndexed' /\ ReferencesAreFlat' /\ HeldIsAlive' /\ OneClassPerName'
    BY <1>2 DEF IInv, HeapIsIndexed, ReferencesAreFlat, HeldIsAlive, OneClassPerName
  <1>12. QED
    BY <1>3, <1>5, <1>6, <1>8, <1>9, <1>10, <1>11 DEF IInv

\* A thread begins to change the map: with clMutex, but for a class defined
\* from bytes.
LEMMA BeginEmplaceStep ==
  ASSUME IInv, NEW t \in Levels, BeginEmplace(t), UNCHANGED <<poolVars, mirrorVars>>
  PROVE  IInv'
  <1>1. todo[t] # <<>> /\ Here(t).do = "emplace" /\ Next1(t, "emplace")
    BY HereIs DEF BeginEmplace
  <1>2. /\ emplacing' = emplacing \cup {t}
        /\ UNCHANGED <<todo, found, got, held, heap, refs, calls, classMap, clOwner, clDepth,
                       anonymous, defined, table, poolOwner, mirOop, spinOwner>>
    BY DEF BeginEmplace, callVars, poolVars, mirrorVars
  <1>3. torn' => defined # {}
    BY <1>1, TornIsSafe DEF BeginEmplace
  <1>4. TypeOK' /\ (\A u \in Levels : Todo(u))'
    BY <1>2 DEF IInv, TypeOK, Todo
  <1>5. LockIsCounted' /\ InsertedOnce' /\ MirrorIsThere'
    BY <1>2 DEF IInv, LockIsCounted, InsertedOnce, MirrorIsThere
  <1>6. EmplacedOnce'
    <2>1. \A u \in emplacing' : u \in Levels /\ Next1(u, "emplace")
      BY <1>1, <1>2 DEF IInv, EmplacedOnce
    <2>2. QED
      BY <1>2, <2>1 DEF IInv, EmplacedOnce, Named, Next1
  <1>7. HeapIsIndexed' /\ ReferencesAreFlat' /\ HeldIsAlive'
    BY <1>2 DEF IInv, HeapIsIndexed, ReferencesAreFlat, HeldIsAlive
  <1>8. OneClassPerName'
    BY <1>2, <1>3 DEF IInv, OneClassPerName
  <1>9. QED
    BY <1>4, <1>5, <1>6, <1>7, <1>8 DEF IInv

\* The class is in the map.  When it was not defined from bytes nobody else
\* is about to add one of its name.
LEMMA EndEmplaceStep ==
  ASSUME IInv, NEW t \in Levels, EndEmplace(t), UNCHANGED <<poolVars, mirrorVars>>
  PROVE  IInv'
  <1> DEFINE e == Here(t).of
             c == IF e.name = AnonymousName THEN e
                  ELSE [e EXCEPT !.copy = Cardinality(Named(e.name)) + 1]
  <1>1. todo[t] # <<>> /\ Here(t).do = "emplace" /\ Here(t) = todo[t][1] /\ 1 \in DOMAIN todo[t]
        /\ StepOK(Here(t), defined)

              /\ \A j \in DOMAIN todo[t] : j > 1 => Before(Here(t), todo[t][j], defined)
    <2>1. t \in emplacing
      BY DEF EndEmplace
    <2>2. Next1(t, "emplace")
      BY <2>1 DEF IInv, EmplacedOnce
    <2>3. QED
      BY <2>2, HereIs, TodoFacts
  <1>2. /\ Continue(t, <<>>) /\ emplacing' = emplacing \ {t} /\ classMap' = classMap \cup {c}
        /\ found' = [found EXCEPT ![t] = c]
        /\ UNCHANGED <<got, held, heap, refs, clOwner, clDepth, anonymous, torn, defined,
                       table, poolOwner, mirOop>>
    BY DEF EndEmplace, poolVars, mirrorVars
  <1>3. IsClass(e)
    BY <1>1 DEF StepOK
  <1>4. IsClass(c) /\ c.name = e.name
    <2>1. Cardinality(Named(e.name)) + 1 \in Nat
      <3>1. IsFiniteSet(classMap) /\ Named(e.name) \subseteq classMap
        BY DEF IInv, TypeOK, Named
      <3>2. IsFiniteSet(Named(e.name))
        BY <3>1, FS_Subset
      <3>3. QED
        BY <3>2, FS_CardinalityType
    <2> HIDE DEF e
    <2>2. QED
      BY <1>3, <2>1 DEF IsClass, Entities
  <1>5. ASSUME c.name \notin defined \cup {AnonymousName}
        PROVE  Locked(Here(t), defined) /\ Named(c.name) = {} /\ clOwner = t
    <2>1. Locked(Here(t), defined)
      BY <1>1, <1>4, <1>5 DEF Locked
    <2>2. Named(e.name) = {}
      BY <1>1, <2>1 DEF IInv, EmplacedOnce
    <2>3. QED
      BY <1>1, <1>4, <2>1, <2>2, OwnerOf DEF NeedsLock
  <1> HIDE DEF c
  <1>6. /\ DOMAIN found' = Levels /\ found'[t] = c /\ c # NoEntity
        /\ \A u \in Levels \ {t} : found'[u] = found[u]
    BY <1>2, <1>4, ClassIsEntity DEF IInv, TypeOK
  <1>7. Moved(t, <<>>) /\ (\A u \in Levels : Todo(u))'
    <2>1. Alone(t) /\ (got'[t] # {} => got[t] # {})
      BY <1>2, <1>6 DEF Alone
    <2>2. ~ Keeps(Here(t)) /\ found'[t] # NoEntity
      BY <1>1, <1>6 DEF Keeps
    <2>3. QED
      BY <1>1, <1>2, <2>1, <2>2, OverStep
  <1>8. TypeOK'
    <2>1. IsFiniteSet(classMap') /\ \A d \in classMap' : IsClass(d)
      BY <1>2, <1>4, FS_AddElement DEF IInv, TypeOK
    <2>2. \A u \in Levels : found'[u] = NoEntity \/ IsClass(found'[u])
      BY <1>4, <1>6 DEF IInv, TypeOK
    <2>3. QED
      BY <1>2, <1>6, <1>7, <2>1, <2>2 DEF IInv, TypeOK, Moved
  <1>9. \A i \in DOMAIN <<>> : FALSE
    OBVIOUS
  <1>10. LockIsCounted'
    BY <1>1, <1>2, <1>7, <1>9, LockKept
  <1>11. EmplacedOnce'
    <2>1. ASSUME NEW u \in Levels, NEW i \in DOMAIN todo'[u], Locked(todo'[u][i], defined)
          PROVE  {d \in classMap' : d.name = todo'[u][i].of.name} = {}
      <3>1. PICK j \in DOMAIN todo[u] : todo'[u][i] = todo[u][j] /\ (u = t => j > 1)
        BY <1>7, <1>9, MovedSteps
      <3>2. Named(todo[u][j].of.name) = {}
        BY <2>1, <3>1 DEF IInv, EmplacedOnce
      <3>3. c.name # todo[u][j].of.name
        <4>1. SUFFICES ASSUME c.name = todo[u][j].of.name PROVE FALSE
          OBVIOUS
        <4>2. c.name \notin defined \cup {AnonymousName} /\ clOwner = u
          BY <2>1, <3>1, <4>1, OwnerOf DEF Locked, NeedsLock
        <4>3. u = t
          BY <1>5, <4>2
        <4>4. Before(Here(t), todo[t][j], defined) /\ Locked(todo[t][j], defined)
          BY <1>1, <2>1, <3>1, <4>3
        <4>5. IsAbove(Here(t).of.name, todo[t][j].of.name)
          BY <1>1, <4>4 DEF Before, Loading
        <4>6. IsAbove(c.name, c.name)
          BY <1>4, <4>1, <4>3, <4>5
        <4>7. c.name \in ClassFiles /\ Depth[c.name] < Depth[c.name]
          BY <4>6 DEF IsAbove
        <4>8. Depth[c.name] \in Int
          BY <4>7, DepthType
        <4>9. QED
          BY <4>7, <4>8
      <3>4. QED
        BY <1>2, <3>1, <3>2, <3>3 DEF Named
    <2>2. ASSUME NEW u \in emplacing'
          PROVE u \in Levels /\ todo'[u] = todo[u] /\ Next1(u, "emplace")
      BY <1>2, <1>7 DEF IInv, EmplacedOnce, Moved
    <2>3. QED
      BY <1>2, <2>1, <2>2 DEF EmplacedOnce, Named, Next1
  <1>12. InsertedOnce'
    BY <1>1, <1>2, <1>7, <1>9, PoolKept
  <1>13. MirrorIsThere'
    BY <1>1, <1>2, <1>7, <1>9, MirrorsKept
  <1>14. HeapIsIndexed' /\ ReferencesAreFlat' /\ HeldIsAlive'
    BY <1>2 DEF IInv, HeapIsIndexed, ReferencesAreFlat, HeldIsAlive
  <1>15. OneClassPerName'
    <2>1. ASSUME NEW a \in classMap', NEW b \in classMap', a.name = b.name
          PROVE  a = b \/ a.name \in defined \cup {AnonymousName}
      <3>1. CASE a \in classMap /\ b \in classMap
        BY <2>1, <3>1 DEF IInv, OneClassPerName
      <3>2. CASE a = c \/ b = c
        BY <1>2, <1>5, <2>1, <3>2 DEF Named
      <3>3. QED
        BY <1>2, <3>1, <3>2
    <2>2. torn' => defined' # {}
      BY <1>2 DEF IInv, OneClassPerName
    <2>3. QED
      BY <1>2, <2>1, <2>2 DEF OneClassPerName
  <1>16. QED
    BY <1>7, <1>8, <1>10, <1>11, <1>12, <1>13, <1>14, <1>15 DEF IInv

\* An object for an entity that has none.
LEMMA FreshObject ==
  ASSUME NEW e \in Entities, \A p \in heap : p.of # e
  PROVE  FreshOop(e) \in Objects /\ FreshOop(e).of = e /\ FreshOop(e) \notin heap
  <1>1. \A n : Oop(e, n).of = e
    BY DEF Oop
  <1>2. 1 \in 1 .. 3 /\ Oop(e, 1) \notin heap
    BY <1>1
  <1> DEFINE n == CHOOSE n \in 1 .. 3 : Oop(e, n) \notin heap
  <1>3. n \in 1 .. 3 /\ Oop(e, n) \notin heap
    BY <1>2
  <1>4. FreshOop(e) = Oop(e, n)
    BY DEF FreshOop
  <1> HIDE DEF n
  <1>5. n \in Nat
    BY <1>3
  <1>6. QED
    BY <1>1, <1>3, <1>4, <1>5 DEF Objects, Oop

\* getInternString finds the string, or keeps the lock to make it.
LEMMA FindStringStep ==
  ASSUME IInv, NEW t \in Levels, FindString(t, mirOop), UNCHANGED <<loaderVars, mirrorVars>>
  PROVE  IInv'
  <1> DEFINE x == Here(t)
             bytes == x.of.name
             y == Find(CharArray)
             z == Step("insert", x.of, x.into)
             more == <<y, z>>
  <1>1. /\ todo[t] # <<>> /\ x.do = "intern" /\ x \in Steps /\ x.of \in Entities
             /\ x.into \in Entities
        /\ StepOK(x, defined) /\ x = todo[t][1] /\ 1 \in DOMAIN todo[t]
    BY HereIs, TodoFacts DEF FindString, Steps
  <1>2. /\ poolOwner = None
        /\ UNCHANGED <<found, held, heap, table, classMap, clOwner, clDepth, emplacing, anonymous,
                       torn, defined, mirOop>>
    BY DEF FindString, loaderVars, mirrorVars
  <1>3. bytes \in Bytes /\ BucketOf[bytes] \in Buckets
    BY <1>1 DEF StepOK, Buckets
  <1>4. ~ Settles(x) /\ ~ Keeps(x) /\ x.do \in Giving
    BY <1>1 DEF Settles, Keeps, Giving
  <1>5. CASE Matches(bytes) # {}
    <2>1. PICK o \in Matches(bytes) : Returns(t, mirOop, o)
      BY <1>5 DEF FindString
    <2>2. Continue(t, <<>>) /\ poolOwner' = poolOwner
      BY <1>2, <1>5 DEF FindString
    <2>3. o \in heap /\ o.of.name \in Bytes
      BY <1>3 DEF Matches, IInv, HeapIsIndexed
    <2>4. /\ ReferencesAreFlat' /\ HeldIsAlive'
          /\ DOMAIN got' = Levels /\ \A u \in Levels \ {t} : got'[u] = got[u]
      BY <1>1, <1>2, <2>1, <2>3, ReturnsStep
    <2>5. Moved(t, <<>>) /\ (\A u \in Levels : Todo(u))'
      <3>1. Alone(t)
        BY <1>2, <2>4 DEF Alone
      <3>2. QED
        BY <1>1, <1>2, <1>4, <2>2, <3>1, OverStep
    <2>6. TypeOK'
      BY <1>2, <2>4, <2>5 DEF IInv, TypeOK, Moved
    <2>7. \A i \in DOMAIN <<>> : FALSE
      OBVIOUS
    <2>8. LockIsCounted'
      BY <1>1, <1>2, <2>5, <2>7, LockKept
    <2>9. EmplacedOnce'
      BY <1>1, <1>2, <2>5, <2>7, MapKept
    <2>10. InsertedOnce'
      BY <1>1, <1>2, <2>2, <2>5, <2>7, PoolKept
    <2>11. MirrorIsThere'
      BY <1>1, <1>2, <2>5, <2>7, MirrorsKept
    <2>12. HeapIsIndexed' /\ OneClassPerName'
      BY <1>2 DEF IInv, HeapIsIndexed, OneClassPerName
    <2>13. QED
      BY <2>4, <2>5, <2>6, <2>8, <2>9, <2>10, <2>11, <2>12 DEF IInv
  <1>6. CASE Matches(bytes) = {}
    <2>1. Continue(t, more) /\ poolOwner' = t /\ UNCHANGED <<got, refs>>
      BY <1>6 DEF FindString
    <2>2. y \in Steps /\ y.do = "find" /\ y.into = NoEntity /\ StepOK(y, defined')
      <3>1. CharArray \in Words
        BY PoolAssumption, Names DEF Loadable
      <3>2. y.do = "find" /\ y \in Calm
        BY <3>1, FindIsCalm DEF Find, Step
      <3> HIDE DEF y
      <3>3. QED
        BY <3>2, StepStays, {} \subseteq defined' DEF Calm
    <2>3. z \in Steps /\ z.do = "insert" /\ z.of = x.of /\ z.into = x.into
      <3>1. "insert" \in Operations
        BY DEF Operations
      <3>2. QED
        BY <1>1, <3>1, StepFields
    <2>4. z.of.name = bytes
      BY <2>3
    <2> HIDE DEF x, y, z, bytes
    <2>5. StepOK(z, defined')
      BY <1>1, <1>3, <2>3, <2>4 DEF StepOK, Giving, Making
    <2>6. Before(y, z, defined') /\ StandsIn(y, x) /\ StandsIn(z, x) /\ ~ NeedsLock(y, defined')
          /\ ~ NeedsLock(z, defined')
      BY <1>1, <2>2, <2>3 DEF Before, StandsIn, NeedsLock, Locked, Closed, Loading
    <2>7. Replaces(more, x, defined')
      BY <1>4, <2>2, <2>3, <2>5, <2>6, ReplacesTwo
    <2>8. more \in Seq(Steps) /\ DOMAIN more = 1 .. 2 /\ more[1] = y /\ more[2] = z
      BY <2>2, <2>3
    <2> HIDE DEF more
    <2>9. \A i \in DOMAIN more : more[i] = y \/ more[i] = z
      BY <2>8
    <2>10. Finds(more, x, found[t], found'[t])
      BY <1>4, <2>2, <2>3, <2>9, FindsOther DEF IsFoundMirror
    <2>11. Moved(t, more) /\ (\A u \in Levels : Todo(u))'
      <3>1. Alone(t) /\ defined \subseteq defined' /\ x = Here(t)
        BY <1>2, <2>1 DEF Alone, x
      <3>2. QED
        BY <1>1, <1>4, <2>1, <2>7, <2>10, <3>1, TodoStep
    <2>12. TypeOK'
      BY <1>2, <2>1, <2>11 DEF IInv, TypeOK, Moved
    <2>13. x = Here(t)
      BY DEF x
    <2>14. LockIsCounted'
      BY <1>1, <1>2, <2>2, <2>3, <2>9, <2>11, <2>13, LockKept
    <2>15. EmplacedOnce'
      <3>1. \A i \in DOMAIN more : ~ Locked(more[i], defined')
        BY <2>2, <2>3, <2>9 DEF Locked
      <3>2. QED
        BY <1>1, <1>2, <2>11, <2>13, <3>1, MapKept
    <2>16. InsertedOnce'
      <3>1. \A u \in Levels : \A j \in DOMAIN todo[u] : todo[u][j].do # "insert"
        BY <1>2, CallsAssumption DEF IInv, InsertedOnce
      <3>2. ASSUME NEW u \in Levels, NEW i \in DOMAIN todo'[u], todo'[u][i].do = "insert"
            PROVE  u = t /\ todo'[u][i] = z
        BY <2>2, <2>9, <2>11, <3>1, <3>2, MovedSteps
      <3>3. \A o \in table[BucketOf[bytes]] : TextOf[o.of.name] # TextOf[bytes]
        BY <1>6 DEF Matches, EqualJavaString
      <3>4. QED
        BY <1>2, <2>1, <2>4, <3>2, <3>3 DEF InsertedOnce
    <2>17. MirrorIsThere'
      <3>1. x.into # NoEntity => x.into \in DOMAIN mirOop
        BY <1>1 DEF IInv, MirrorIsThere
      <3>2. \A i \in DOMAIN more : /\ more[i].do # "unlockMirror"
                                   /\ more[i].into # NoEntity => more[i].into \in DOMAIN mirOop'
        BY <1>2, <2>2, <2>3, <2>9, <3>1
      <3>3. QED
        BY <1>1, <1>2, <2>11, <2>13, <3>2, MirrorsKept
    <2>18. HeapIsIndexed' /\ ReferencesAreFlat' /\ HeldIsAlive' /\ OneClassPerName'
      BY <1>2, <2>1 DEF IInv, HeapIsIndexed, ReferencesAreFlat, HeldIsAlive, OneClassPerName
    <2>19. QED
      BY <2>11, <2>12, <2>14, <2>15, <2>16, <2>17, <2>18 DEF IInv
  <1>7. QED
    BY <1>5, <1>6

\* The new string is in the table; nobody had one of its text in the bucket.
LEMMA InsertStringStep ==
  ASSUME IInv, NEW t \in Levels, InsertString(t, mirOop), UNCHANGED <<loaderVars, mirrorVars>>
  PROVE  IInv'
  <1> DEFINE x == Here(t)
             o == FreshOop(x.of)
             b == BucketOf[x.of.name]
  <1>1. /\ todo[t] # <<>> /\ x.do = "insert" /\ x \in Steps /\ x.of \in Entities
        /\ StepOK(x, defined) /\ x = todo[t][1] /\ 1 \in DOMAIN todo[t]
        /\ \A j \in DOMAIN todo[t] : j > 1 => Before(x, todo[t][j], defined)
    BY HereIs, TodoFacts DEF InsertString, Steps
  <1>2. /\ Continue(t, <<>>) /\ heap' = heap \cup {o} /\ table' = [table EXCEPT ![b] = @ \cup {o}]
        /\ poolOwner' = None /\ Returns(t, mirOop, o)
        /\ UNCHANGED <<found, held, classMap, clOwner, clDepth, emplacing, anonymous, torn,
                       defined, mirOop>>
    BY DEF InsertString, loaderVars, mirrorVars
  <1>3. x.of.name \in Bytes /\ b \in Buckets
    BY <1>1 DEF StepOK, Buckets
  <1>4. poolOwner = t /\ \A p \in table[b] : TextOf[p.of.name] # TextOf[x.of.name]
    BY <1>1 DEF IInv, InsertedOnce
  <1>5. \A p \in heap : p.of # x.of
    BY <1>3, <1>4 DEF IInv, HeapIsIndexed
  <1>6. o \in Objects /\ o.of = x.of /\ o \notin heap
    BY <1>1, <1>5, FreshObject
  <1> HIDE DEF o
  <1>7. /\ ReferencesAreFlat' /\ HeldIsAlive'
        /\ DOMAIN got' = Levels /\ \A u \in Levels \ {t} : got'[u] = got[u]
    <2>1. o \in heap' /\ heap \subseteq heap' /\ o.of.name \in Bytes
      BY <1>2, <1>3, <1>6
    <2>2. QED
      BY <1>1, <1>2, <2>1, ReturnsStep
  <1>8. Moved(t, <<>>) /\ (\A u \in Levels : Todo(u))'
    <2>1. Alone(t) /\ ~ Settles(x) /\ ~ Keeps(x) /\ x.do \in Giving
      BY <1>1, <1>2, <1>7 DEF Alone, Settles, Keeps, Giving
    <2>2. QED
      BY <1>1, <1>2, <2>1, OverStep
  <1>9. DOMAIN table = Buckets
    BY DEF IInv, TypeOK
  <1>10. TypeOK'
    BY <1>2, <1>6, <1>7, <1>8, <1>9 DEF IInv, TypeOK, Moved
  <1>11. \A i \in DOMAIN <<>> : FALSE
    OBVIOUS
  <1>12. LockIsCounted'
    BY <1>1, <1>2, <1>8, <1>11, LockKept
  <1>13. EmplacedOnce'
    BY <1>1, <1>2, <1>8, <1>11, MapKept
  <1>14. InsertedOnce'
    <2>1. ASSUME NEW u \in Levels, NEW i \in DOMAIN todo'[u] PROVE todo'[u][i].do # "insert"
      <3>1. PICK j \in DOMAIN todo[u] : todo'[u][i] = todo[u][j] /\ (u = t => j > 1)
        BY <1>8, <1>11, MovedSteps
      <3>2. CASE u = t
        <4>1. Before(x, todo[t][j], defined)
          BY <1>1, <3>1, <3>2
        <4>2. QED
          BY <1>1, <3>1, <3>2, <4>1 DEF Before, Closed, Loading
      <3>3. CASE u # t
        BY <1>4, <3>1, <3>3 DEF IInv, InsertedOnce
      <3>4. QED
        BY <3>2, <3>3
    <2>2. QED
      BY <2>1 DEF InsertedOnce
  <1>15. MirrorIsThere'
    BY <1>1, <1>2, <1>8, <1>11, MirrorsKept
  <1>16. HeapIsIndexed'
    <2>1. \A d \in Buckets : table'[d] = IF d = b THEN table[b] \cup {o} ELSE table[d]
      BY <1>2, <1>9
    <2>2. \A p \in heap' : IF p.of.name \in Bytes THEN p \in table'[BucketOf[p.of.name]]
                           ELSE p.of \in DOMAIN mirOop /\ mirOop[p.of] = p
      <3>1. ASSUME NEW p \in heap, p.of.name \in Bytes PROVE p \in table'[BucketOf[p.of.name]]
        <4>1. BucketOf[p.of.name] \in Buckets /\ p \in table[BucketOf[p.of.name]]
          BY <3>1 DEF Buckets, IInv, HeapIsIndexed
        <4>2. QED
          BY <2>1, <4>1
      <3>2. \A p \in heap : p.of.name \notin Bytes => p.of \in DOMAIN mirOop /\ mirOop[p.of] = p
        BY DEF IInv, HeapIsIndexed
      <3>3. o \in table'[BucketOf[o.of.name]] /\ o.of.name \in Bytes
        BY <1>3, <1>6, <2>1
      <3>4. QED
        BY <1>2, <3>1, <3>2, <3>3
    <2>3. \A d \in Buckets : \A p \in table'[d] : p \in heap' /\ p.of.name \in Bytes
            /\ BucketOf[p.of.name] = d
      <3>1. \A d \in Buckets : \A p \in table[d] : p \in heap /\ p.of.name \in Bytes
              /\ BucketOf[p.of.name] = d
        BY DEF IInv, HeapIsIndexed
      <3>2. QED
        BY <1>2, <1>3, <1>6, <2>1, <3>1
    <2>4. \A d \in Buckets : \A p, q \in table'[d] : TextOf[p.of.name] = TextOf[q.of.name] => p = q
      <3>1. \A d \in Buckets : \A p, q \in table[d] : TextOf[p.of.name] = TextOf[q.of.name] => p = q
        BY DEF IInv, HeapIsIndexed
      <3>2. QED
        BY <1>4, <1>6, <2>1, <3>1
    <2>5. \A e \in DOMAIN mirOop : /\ e \in Entities /\ e.name \in DOMAIN KindOf
                                   /\ mirOop[e] \in heap' /\ mirOop[e].of = e
      BY <1>2 DEF IInv, HeapIsIndexed
    <2>6. QED
      BY <1>2, <2>2, <2>3, <2>4, <2>5 DEF HeapIsIndexed
  <1>17. OneClassPerName'
    BY <1>2 DEF IInv, OneClassPerName
  <1>18. QED
    BY <1>7, <1>8, <1>10, <1>12, <1>13, <1>14, <1>15, <1>16, <1>17 DEF IInv

\* What has a mirror.
LEMMA EntityIsThere ==
  ASSUME IInv, NEW e \in DOMAIN mirOop
  PROVE  /\ e \in Entities /\ e.name \in DOMAIN KindOf /\ e # NoEntity /\ e.name \notin Bytes
         /\ mirOop[e] \in heap /\ mirOop[e].of = e
  <1>1. e \in Entities /\ e.name \in DOMAIN KindOf /\ mirOop[e] \in heap /\ mirOop[e].of = e
    BY DEF IInv, HeapIsIndexed
  <1>2. NoEntity.name = ""
    BY DEF NoEntity
  <1>3. QED
    BY <1>1, <1>2, Names

\* A mirror is returned: the thread has asked for it.
LEMMA MirrorReturned ==
  ASSUME IInv, NEW t \in Levels, todo[t] # <<>>, NEW e \in DOMAIN mirOop,
         Here(t).do \in {"mirror", "unlockMirror"},
         Here(t).into # NoEntity => IsClass(e),
         Returns(t, mirOop, mirOop[e]), Continue(t, <<>>),
         UNCHANGED <<found, held, heap, classMap, clOwner, clDepth, emplacing, anonymous, torn,
                     defined, table, poolOwner, mirOop>>
  PROVE  IInv'
  <1>1. ~ Settles(Here(t)) /\ ~ Keeps(Here(t)) /\ Here(t).do \in Giving
    BY DEF Settles, Keeps, Giving
  <1>2. /\ ReferencesAreFlat' /\ HeldIsAlive'
        /\ DOMAIN got' = Levels /\ \A u \in Levels \ {t} : got'[u] = got[u]
    <2>1. mirOop[e] \in heap' /\ heap \subseteq heap'
          /\ (Here(t).into # NoEntity => mirOop[e].of.name \in Bytes \/ IsClass(mirOop[e].of))
      BY EntityIsThere
    <2>2. QED
      BY <2>1, ReturnsStep
  <1>3. Moved(t, <<>>) /\ (\A u \in Levels : Todo(u))'
    <2>1. Alone(t)
      BY <1>2 DEF Alone
    <2>2. QED
      BY <1>1, <2>1, OverStep
  <1>4. TypeOK'
    BY <1>2, <1>3 DEF IInv, TypeOK, Moved
  <1>5. \A i \in DOMAIN <<>> : FALSE
    OBVIOUS
  <1>6. LockIsCounted'
    BY <1>3, <1>5, LockKept
  <1>7. EmplacedOnce'
    BY <1>3, <1>5, MapKept
  <1>8. InsertedOnce'
    BY <1>3, <1>5, PoolKept
  <1>9. MirrorIsThere'
    BY <1>3, <1>5, MirrorsKept
  <1>10. HeapIsIndexed' /\ OneClassPerName'
    BY DEF IInv, HeapIsIndexed, OneClassPerName
  <1>11. QED
    BY <1>2, <1>3, <1>4, <1>6, <1>7, <1>8, <1>9, <1>10 DEF IInv

\* getBaseMirror reads the pointer, or goes for the lock.
LEMMA ReadMirrorStep ==
  ASSUME IInv, NEW t \in Levels, ReadMirror(t), UNCHANGED <<loaderVars, poolVars>>
  PROVE  IInv'
  <1> DEFINE x == Here(t)
             e == IF x.of = NoEntity THEN found[t] ELSE x.of
             y == Step("lockMirror", e, x.into)
  <1>1. /\ todo[t] # <<>> /\ x.do = "mirror" /\ x \in Steps /\ x.of \in Entities
             /\ x.into \in Entities
        /\ StepOK(x, defined) /\ x = todo[t][1] /\ 1 \in DOMAIN todo[t]
        /\ GoodTodo(todo[t], defined, found[t], got[t])
    BY HereIs, TodoFacts DEF ReadMirror, Steps
  <1>2. UNCHANGED <<found, held, heap, classMap, clOwner, clDepth, emplacing, anonymous, torn,
                    defined, table, poolOwner, mirOop>>
    BY DEF ReadMirror, loaderVars, poolVars, mirrorVars
  <1>3. e \in Entities /\ e.name \in DOMAIN KindOf
          /\ (x.into # NoEntity => IsClass(e) /\ IsMember(x.into))
    <2>1. CASE x.of = NoEntity
      <3>1. Settled(todo[t], found[t], 1 - 1)
        BY <1>1, <2>1 DEF GoodTodo, Found, IsFoundMirror
      <3>2. \A h \in 0 .. 1 - 1 : h = 0
        OBVIOUS
      <3>3. found[t] # NoEntity
        BY <3>1, <3>2 DEF Settled
      <3>4. IsClass(e)
        BY <2>1, <3>3 DEF IInv, TypeOK
      <3> HIDE DEF e
      <3>5. QED
        BY <1>1, <3>4, ClassIsEntity DEF StepOK
    <2>2. CASE x.of # NoEntity
      BY <1>1, <2>2 DEF StepOK, Making
    <2>3. QED
      BY <2>1, <2>2
  <1>4. CASE e \in DOMAIN mirOop
    <2>1. Returns(t, mirOop, mirOop[e]) /\ Continue(t, <<>>)
      BY <1>4 DEF ReadMirror
    <2> HIDE DEF e
    <2>2. QED
      BY <1>1, <1>2, <1>3, <1>4, <2>1, MirrorReturned
  <1>5. CASE e \notin DOMAIN mirOop
    <2>1. Continue(t, <<y>>) /\ UNCHANGED <<got, refs>>
      BY <1>5 DEF ReadMirror
    <2> HIDE DEF e
    <2>2. y \in Steps /\ y.do = "lockMirror" /\ y.of = e /\ y.into = x.into
      <3>1. "lockMirror" \in Operations
        BY DEF Operations
      <3>2. QED
        BY <1>1, <1>3, <3>1, StepFields
    <2> HIDE DEF y
    <2>3. StepOK(y, defined') /\ StandsIn(y, x) /\ ~ NeedsLock(y, defined')
      BY <1>1, <1>3, <2>2 DEF StepOK, StandsIn, NeedsLock, Locked, Giving, Making, Loading
    <2>4. Replaces(<<y>>, x, defined')
      BY <1>1, <2>2, <2>3, ReplacesOne DEF Giving
    <2>5. \A i \in DOMAIN <<y>> : <<y>>[i] = y
      OBVIOUS
    <2>6. Finds(<<y>>, x, found[t], found'[t])
      BY <1>1, <2>2, <2>5, FindsOther DEF IsFoundMirror, Settles, Keeps
    <2>7. x.into # NoEntity => x.into \in DOMAIN mirOop
      BY <1>1 DEF IInv, MirrorIsThere
    <2>8. \A i \in DOMAIN <<y>> :
             /\ <<y>>[i].do \notin {"unlock", "insert", "unlockMirror"}
             /\ ~ Locked(<<y>>[i], defined')
             /\ <<y>>[i].into # NoEntity => <<y>>[i].into \in DOMAIN mirOop
      BY <2>2, <2>3, <2>5, <2>7 DEF NeedsLock
    <2>9. DOMAIN found = Levels /\ (found[t] = NoEntity \/ IsClass(found[t])) /\ anonymous \in Nat
      BY DEF IInv, TypeOK
    <2>10. QED
      BY <1>1, <1>2, <2>1, <2>4, <2>6, <2>8, <2>9, QuietStep
  <1>6. QED
    BY <1>4, <1>5

\* A thread gets the spin lock.
LEMMA LockMirrorStep ==
  ASSUME IInv, NEW t \in Levels, LockMirror(t), UNCHANGED <<loaderVars, poolVars>>
  PROVE  IInv'
  <1> DEFINE x == Here(t)
             y == Step("make", x.of, NoEntity)
             z == Step("unlockMirror", x.of, x.into)
             more == <<y, z>>
  <1>1. /\ todo[t] # <<>> /\ x.do = "lockMirror" /\ x \in Steps /\ x.of \in Entities
             /\ x.into \in Entities
        /\ StepOK(x, defined) /\ x = todo[t][1] /\ 1 \in DOMAIN todo[t]
    BY HereIs, TodoFacts DEF LockMirror, Steps
  <1>2. /\ Continue(t, more)
        /\ UNCHANGED <<found, got, held, heap, refs, classMap, clOwner, clDepth, emplacing,
             anonymous, torn,
                       defined, table, poolOwner, mirOop>>
    BY DEF LockMirror, loaderVars, poolVars
  <1>3. /\ y \in Steps /\ y.do = "make" /\ y.of = x.of /\ y.into = NoEntity
        /\ z \in Steps /\ z.do = "unlockMirror" /\ z.of = x.of /\ z.into = x.into
    <2>1. "make" \in Operations /\ "unlockMirror" \in Operations
      BY DEF Operations
    <2>2. QED
      BY <1>1, <2>1, StepTypes, StepFields
  <1> HIDE DEF y, z, x
  <1>4. /\ StepOK(y, defined') /\ StepOK(z, defined') /\ Before(y, z, defined')
        /\ StandsIn(y, x) /\ StandsIn(z, x) /\ ~ NeedsLock(y, defined') /\ ~ NeedsLock(z, defined')
    BY <1>1, <1>3 DEF StepOK, StandsIn, NeedsLock, Locked, Giving, Making, Before, Closed, Loading
  <1>5. x.do \in Giving /\ ~ Settles(x) /\ ~ Keeps(x)
    BY <1>1 DEF Giving, Settles, Keeps
  <1>6. Replaces(more, x, defined')
    BY <1>3, <1>4, <1>5, ReplacesTwo
  <1>7. more \in Seq(Steps) /\ Len(more) = 2 /\ DOMAIN more = 1 .. 2 /\ more[1] = y /\ more[2] = z
    BY <1>3
  <1> HIDE DEF more
  <1>8. \A i \in DOMAIN more : more[i] = y \/ more[i] = z
    BY <1>7
  <1>9. Finds(more, x, found[t], found'[t])
    BY <1>3, <1>5, <1>8, FindsOther DEF IsFoundMirror
  <1>10. x = Here(t)
    BY DEF x
  <1>11. Moved(t, more) /\ (\A u \in Levels : Todo(u))'
    <2>1. Alone(t) /\ defined \subseteq defined'
      BY <1>2 DEF Alone
    <2>2. QED
      BY <1>1, <1>2, <1>5, <1>6, <1>9, <1>10, <2>1, TodoStep
  <1>12. TypeOK'
    BY <1>2, <1>11 DEF IInv, TypeOK, Moved
  <1>13. LockIsCounted'
    BY <1>1, <1>2, <1>3, <1>8, <1>10, <1>11, LockKept
  <1>14. EmplacedOnce'
    <2>1. \A i \in DOMAIN more : ~ Locked(more[i], defined')
      BY <1>4, <1>8 DEF NeedsLock
    <2>2. QED
      BY <1>1, <1>2, <1>10, <1>11, <2>1, MapKept
  <1>15. InsertedOnce'
    BY <1>1, <1>2, <1>3, <1>8, <1>10, <1>11, PoolKept
  <1>16. MirrorIsThere'
    <2>1. x.into # NoEntity => x.into \in DOMAIN mirOop
      BY <1>1 DEF IInv, MirrorIsThere
    <2>2. todo'[t][1] = y
      <3>1. \A i \in 1 .. Len(more) : todo'[t][i] = more[i]
        BY <1>11 DEF Moved, Splice
      <3>2. QED
        BY <1>7, <3>1
    <2>3. ASSUME NEW u \in Levels, NEW i \in DOMAIN todo'[u]
          PROVE  /\ todo'[u][i].into # NoEntity => todo'[u][i].into \in DOMAIN mirOop
                 /\ todo'[u][i].do = "unlockMirror" =>
                        \/ todo'[u][i].of \in DOMAIN mirOop
                        \/ todo'[u][1].do = "make" /\ todo'[u][1].of = todo'[u][i].of
      <3>1. CASE u = t /\ i \in DOMAIN more /\ todo'[u][i] = more[i]
        BY <1>3, <1>8, <2>1, <2>2, <3>1
      <3>2. ASSUME NEW j \in DOMAIN todo[u], todo'[u][i] = todo[u][j]
            PROVE  /\ todo'[u][i].into # NoEntity => todo'[u][i].into \in DOMAIN mirOop
                   /\ todo'[u][i].do = "unlockMirror" =>
                          \/ todo'[u][i].of \in DOMAIN mirOop
                          \/ todo'[u][1].do = "make" /\ todo'[u][1].of = todo'[u][i].of
        <4>1. /\ todo[u][j].into # NoEntity => todo[u][j].into \in DOMAIN mirOop
              /\ todo[u][j].do = "unlockMirror" =>
                     \/ todo[u][j].of \in DOMAIN mirOop
                     \/ todo[u][1].do = "make" /\ todo[u][1].of = todo[u][j].of
          BY DEF IInv, MirrorIsThere
        <4>2. CASE u = t
          BY <1>1, <3>2, <4>1, <4>2
        <4>3. CASE u # t
          <5>1. todo'[u] = todo[u]
            BY <1>11, <4>3 DEF Moved
          <5>2. QED
            BY <3>2, <4>1, <5>1
        <4>4. QED
          BY <4>2, <4>3
      <3>3. QED
        BY <1>11, <3>1, <3>2, MovedSteps
    <2>4. QED
      BY <1>2, <2>3 DEF MirrorIsThere
  <1>17. HeapIsIndexed' /\ ReferencesAreFlat' /\ HeldIsAlive' /\ OneClassPerName'
    BY <1>2 DEF IInv, HeapIsIndexed, ReferencesAreFlat, HeldIsAlive, OneClassPerName
  <1>18. QED
    BY <1>11, <1>12, <1>13, <1>14, <1>15, <1>16, <1>17 DEF IInv

\* It releases the lock and returns the mirror, which is there.
LEMMA UnlockMirrorStep ==
  ASSUME IInv, NEW t \in Levels, UnlockMirror(t), UNCHANGED <<loaderVars, poolVars>>
  PROVE  IInv'
  <1> DEFINE x == Here(t)
             e == x.of
  <1>1. /\ todo[t] # <<>> /\ x.do = "unlockMirror" /\ StepOK(x, defined) /\ x = todo[t][1]
             /\ 1 \in DOMAIN todo[t]
    BY HereIs, TodoFacts DEF UnlockMirror
  <1>2. /\ Returns(t, mirOop, mirOop[e]) /\ Continue(t, <<>>)
        /\ UNCHANGED <<found, held, heap, classMap, clOwner, clDepth, emplacing, anonymous, torn,
                       defined, table, poolOwner, mirOop>>
    BY DEF UnlockMirror, loaderVars, poolVars
  <1>3. e \in DOMAIN mirOop
    BY <1>1 DEF IInv, MirrorIsThere
  <1>4. x.into # NoEntity => IsClass(e)
    <2>1. e # NoEntity
      BY <1>3, EntityIsThere
    <2>2. QED
      BY <1>1, <2>1 DEF StepOK, Making
  <1> HIDE DEF e
  <1>5. QED
    BY <1>1, <1>2, <1>3, <1>4, MirrorReturned

\* The calls that fill the mirror of e in.
Fills(e) == {x \in Steps : /\ x.do \in {"find", "mirror", "intern"}
                           /\ x.into \in {NoEntity, e}
                           /\ StepOK(x, {})}

\* The calls of InitMirror are those.
LEMMA FillSteps ==
  ASSUME NEW e, IsMember(e)
  PROVE  /\ Calm \cap {x \in Steps : x.do = "find"} \subseteq Fills(e)
         /\ MirrorFound(e) \in Fills(e)
         /\ \A n \in ClassNames : Mirror(n, e) \in Fills(e) /\ Mirror(n, e).of # NoEntity
         /\ \A b \in Bytes : Intern(b, e) \in Fills(e) /\ Intern(b, e).do = "intern"
  <1>1. e \in Entities /\ "mirror" \in Operations /\ "intern" \in Operations
    BY DEF IsMember, Operations
  <1>2. Calm \cap {x \in Steps : x.do = "find"} \subseteq Fills(e)
    BY DEF Calm, Fills
  <1>3. MirrorFound(e) \in Fills(e)
    <2>1. /\ MirrorFound(e) \in Steps /\ MirrorFound(e).do = "mirror"
          /\ MirrorFound(e).of = NoEntity /\ MirrorFound(e).into = e
      BY <1>1, StepTypes, StepFields DEF MirrorFound
    <2> HIDE DEF MirrorFound
    <2>2. QED
      BY <2>1 DEF Fills, StepOK, Giving, Making
  <1>4. ASSUME NEW n \in ClassNames PROVE Mirror(n, e) \in Fills(e) /\ Mirror(n, e).of # NoEntity
    <2>1. n \in Words /\ n \in DOMAIN KindOf
      BY Names
    <2>2. Entity(n) \in Entities /\ Entity(n) # NoEntity /\ Entity(n).name = n
      BY <2>1, StepTypes
    <2>3. /\ Mirror(n, e) \in Steps /\ Mirror(n, e).do = "mirror"
          /\ Mirror(n, e).of = Entity(n) /\ Mirror(n, e).into = e
      BY <1>1, <2>2, StepFields DEF Mirror
    <2>4. IsClass(Entity(n))
      BY <2>2 DEF IsClass
    <2>5. QED
      BY <2>1, <2>2, <2>3, <2>4 DEF Fills, StepOK, Giving, Making
  <1>5. ASSUME NEW b \in Bytes PROVE Intern(b, e) \in Fills(e) /\ Intern(b, e).do = "intern"
    <2>1. b \in Words
      BY Names
    <2>2. Entity(b) \in Entities /\ Entity(b).name = b
      BY <2>1, StepTypes
    <2>3. /\ Intern(b, e) \in Steps /\ Intern(b, e).do = "intern"
          /\ Intern(b, e).of = Entity(b) /\ Intern(b, e).into = e
      BY <1>1, <2>2, StepFields DEF Intern
    <2>4. QED
      BY <2>2, <2>3 DEF Fills, StepOK, Giving, Making
  <1>6. QED
    BY <1>2, <1>3, <1>4, <1>5

\* So are those that find a class.
LEMMA FillFind ==
  ASSUME NEW e, IsMember(e), NEW n \in Loadable
  PROVE  Find(n) \in Fills(e) /\ Find(n).do = "find" /\ Settles(Find(n))
  <1>1. n \in Words
    BY Names
  <1>2. Find(n).do = "find" /\ Find(n).of.name = n
    BY DEF Find, Step, Entity
  <1>3. Find(n) \in Calm /\ Find(n) \in Steps
    BY <1>1, FindIsCalm, CalmIsPlain
  <1>4. QED
    BY <1>2, <1>3, FillSteps DEF Settles

\* The name and the type of a member: the class found is that of its type.
LEMMA LabelChunk ==
  ASSUME NEW A, NEW x \in A, NEW y \in A, NEW z \in A, x.do # "mirror", y.do # "mirror", Settles(y)
  PROVE  <<x, y, z>> \in Chunks(A)
  <1> DEFINE s == <<x, y, z>>
  <1>1. s \in Seq(A) /\ DOMAIN s = 1 .. 3 /\ s[1] = x /\ s[2] = y
    OBVIOUS
  <1> HIDE DEF s
  <1>2. Settled(s, NoEntity, 3 - 1)
    <2>1. 2 \in 0 .. 3 - 1 /\ 2 # 0 /\ \A k \in 2 + 1 .. 3 - 1 : FALSE
      OBVIOUS
    <2>2. QED
      BY <1>1, <2>1 DEF Settled
  <1>3. ASSUME NEW j \in DOMAIN s, IsFoundMirror(s[j]) PROVE Settled(s, NoEntity, j - 1)
    <2>1. j = 1 \/ j = 2 \/ j = 3
      BY <1>1
    <2>2. j # 1 /\ j # 2
      BY <1>1, <1>3 DEF IsFoundMirror
    <2>3. QED
      BY <1>2, <2>1, <2>2
  <1>4. QED
    BY <1>1, <1>3 DEF Chunks, Found, s

\* What a mirror is filled in with.
LEMMA InitMirrorChunk ==
  ASSUME NEW e \in Entities, e.name \in DOMAIN KindOf
  PROVE  InitMirror(e) \in Chunks(Fills(e))
  <1> DEFINE kind == KindOf[e.name]
             info == MemberInfo[e.name]
             label == <<Intern(info.label, e), Find(info.type), MirrorFound(e)>>
             types == [i \in DOMAIN info.params |-> Mirror(info.params[i], e)]
             throws == [i \in DOMAIN info.throws |-> <<Find(info.throws[i]), MirrorFound(e)>>]
             klass == <<Mirror(info.klass, e)>>
             F == Fills(e)
  <1>1. CASE kind \in {"class", "cp"}
    <2>1. InitMirror(e) = <<>>
      BY <1>1 DEF InitMirror
    <2>2. QED
      BY <2>1, EmptyChunk
  <1>2. CASE kind \notin {"class", "cp"}
    <2>1. e.name \in Members /\ IsMember(e)
      BY <1>2, MirrorsAssumption DEF Members, IsMember
    <2>2. /\ info.klass \in ClassNames
          /\ info.params \in Seq(Loadable) /\ info.throws \in Seq(Loadable)
          /\ kind # "constructor" => info.type \in Loadable /\ info.label \in Bytes
      BY <2>1, MirrorsAssumption
    <2> HIDE DEF info, kind
    <2>3. klass \in Chunks(F)
      <3>1. Mirror(info.klass, e) \in F /\ Mirror(info.klass, e).of # NoEntity
        BY <2>1, <2>2, FillSteps
      <3> HIDE DEF F
      <3>2. QED
        BY <3>1, OneCallChunk
    <2>4. kind # "constructor" => label \in Chunks(F)
      <3>1. SUFFICES ASSUME kind # "constructor" PROVE label \in Chunks(F)
        OBVIOUS
      <3>2. /\ Intern(info.label, e) \in F /\ Intern(info.label, e).do # "mirror"
            /\ Find(info.type) \in F /\ Find(info.type).do # "mirror" /\ Settles(Find(info.type))
            /\ MirrorFound(e) \in F
        BY <2>1, <2>2, <3>1, FillSteps, FillFind
      <3> HIDE DEF F
      <3>3. QED
        BY <3>2, LabelChunk
    <2>5. FindAll(info.params) \in Chunks(F)
      <3>1. \A i \in DOMAIN info.params : Find(info.params[i]) \in F
              /\ Find(info.params[i]).do # "mirror"
        BY <2>1, <2>2, FillFind
      <3> HIDE DEF F
      <3>2. FindAll(info.params) \in Seq(F)
        BY <2>2, <3>1, DOMAIN info.params = 1 .. Len(info.params), Len(info.params) \in Nat
           DEF FindAll
      <3>3. QED
        BY <3>1, <3>2 DEF Chunks, Found, IsFoundMirror, FindAll
    <2>6. types \in Chunks(F)
      <3>1. \A i \in DOMAIN info.params : /\ Mirror(info.params[i], e) \in F
                                          /\ Mirror(info.params[i], e).of # NoEntity
        <4>1. \A i \in DOMAIN info.params : info.params[i] \in ClassNames
          <5>1. Loadable \subseteq ClassNames
            BY Names
          <5>2. info.params \in Seq(ClassNames)
            BY <2>2, <5>1, SeqMonotonic
          <5>3. QED
            BY <5>2
        <4>2. QED
          BY <2>1, <4>1, FillSteps
      <3> HIDE DEF F
      <3>2. types \in Seq(F)
        BY <2>2, <3>1, DOMAIN info.params = 1 .. Len(info.params), Len(info.params) \in Nat
      <3>3. QED
        BY <3>1, <3>2 DEF Chunks, Found, IsFoundMirror
    <2>7. FlattenSeq(throws) \in Chunks(F)
      <3>1. \A i \in DOMAIN info.throws : /\ Find(info.throws[i]) \in F /\ MirrorFound(e) \in F
                                          /\ Settles(Find(info.throws[i]))
                                               /\ Find(info.throws[i]).do # "mirror"
        BY <2>1, <2>2, FillFind, FillSteps
      <3> HIDE DEF F
      <3>2. \A i \in DOMAIN info.throws : <<Find(info.throws[i]), MirrorFound(e)>> \in Chunks(F)
        BY <3>1, MirrorChunk
      <3>3. throws \in Seq(Chunks(F))
        BY <2>2, <3>2, DOMAIN info.throws = 1 .. Len(info.throws), Len(info.throws) \in Nat
      <3>4. QED
        BY <3>3, ChunksFlattened
    <2>8. CASE kind = "field"
      <3>1. InitMirror(e) = klass \o label
        BY <2>8 DEF InitMirror, kind, info
      <3> HIDE DEF F, klass, label
      <3>2. label \in Chunks(F)
        BY <2>4, <2>8
      <3>3. klass \o label \in Chunks(F)
        BY <2>3, <3>2, FoundConcat
      <3>4. QED
        BY <3>1, <3>3 DEF F
    <2>9. CASE kind # "field"
      <3> DEFINE rest == IF kind = "method" THEN label ELSE <<>>
      <3>1. InitMirror(e) = FindAll(info.params) \o types \o FlattenSeq(throws) \o klass \o rest
        BY <1>2, <2>9 DEF InitMirror, kind, info
      <3> HIDE DEF F, klass, label, types, throws
      <3>2. rest \in Chunks(F)
        BY <2>4, EmptyChunk
      <3> HIDE DEF rest
      <3>3. FindAll(info.params) \o types \in Chunks(F)
        BY <2>5, <2>6, FoundConcat
      <3>4. FindAll(info.params) \o types \o FlattenSeq(throws) \in Chunks(F)
        BY <2>7, <3>3, FoundConcat
      <3>5. FindAll(info.params) \o types \o FlattenSeq(throws) \o klass \in Chunks(F)
        BY <2>3, <3>4, FoundConcat
      <3>6. FindAll(info.params) \o types \o FlattenSeq(throws) \o klass \o rest \in Chunks(F)
        BY <3>2, <3>5, FoundConcat
      <3>7. QED
        BY <3>1, <3>6 DEF F
    <2>10. QED
      BY <2>8, <2>9
  <1>3. QED
    BY <1>1, <1>2

\* Who relies on no class found before does not mind if there is one.
LEMMA FoundAnyway ==
  ASSUME NEW s, NEW f, Found(s, NoEntity)
  PROVE  Found(s, f)
  <1>1. ASSUME NEW j \in DOMAIN s, Settled(s, NoEntity, j - 1) PROVE Settled(s, f, j - 1)
    BY <1>1 DEF Settled
  <1>2. QED
    BY <1>1 DEF Found

\* The calls that fill a mirror in, in place of the one that makes it.
LEMMA FillReplaces ==
  ASSUME NEW e \in Entities, e.name \in DOMAIN KindOf, NEW x, x.do = "make", NEW names, NEW f,
         NEW f2
  PROVE  /\ Replaces(InitMirror(e), x, names) /\ Finds(InitMirror(e), x, f, f2)
         /\ \A i \in DOMAIN InitMirror(e) : /\ InitMirror(e)[i].do \in {"find", "mirror", "intern"}
                                            /\ InitMirror(e)[i].into \in {NoEntity, e}
  <1> DEFINE more == InitMirror(e)
  <1>1. more \in Seq(Fills(e)) /\ Found(more, NoEntity)
    BY InitMirrorChunk DEF Chunks
  <1> HIDE DEF more
  <1>2. /\ more \in Seq(Steps)
        /\ \A i \in DOMAIN more : /\ more[i].do \in {"find", "mirror", "intern"}
                                  /\ more[i].into \in {NoEntity, e}
                                  /\ StepOK(more[i], {})
    <2>1. Fills(e) \subseteq Steps
      BY DEF Fills
    <2>2. more \in Seq(Steps)
      BY <1>1, <2>1, SeqMonotonic
    <2>3. \A i \in DOMAIN more : more[i] \in Fills(e)
      BY <1>1
    <2>4. QED
      BY <2>2, <2>3 DEF Fills
  <1>3. Ordered(more, names)
    <2>1. \A i \in DOMAIN more : StepOK(more[i], names)
      BY <1>2, StepStays, {} \subseteq names
    <2>2. \A i, j \in DOMAIN more : Before(more[i], more[j], names)
      BY <1>2 DEF Before, Closed, Locked
    <2>3. QED
      BY <2>1, <2>2 DEF Ordered
  <1>4. StandsFor(more, x, names)
    <2>1. \A i \in DOMAIN more : StandsIn(more[i], x)
      BY <1>2 DEF StandsIn, Loading
    <2>2. QED
      BY <2>1, InPlaceOf DEF StandsFor
  <1>5. Releases(more, x, names)
    BY <1>2 DEF Releases, NeedsLock, Locked
  <1>6. Replaces(more, x, names)
    BY <1>2, <1>3, <1>4, <1>5 DEF Replaces, Giving
  <1>7. Finds(more, x, f, f2)
    BY <1>1, FoundAnyway DEF Finds, Settles, Keeps
  <1>8. QED
    BY <1>2, <1>6, <1>7 DEF more

\* The mirror a thread is about to return is there once it is made.
LEMMA MirrorsAfterMake ==
  ASSUME IInv, NEW t \in Levels, todo[t] # <<>>, NEW more, Moved(t, more), Here(t).do = "make",
         Here(t).of \in DOMAIN mirOop', DOMAIN mirOop \subseteq DOMAIN mirOop',
         \A i \in DOMAIN more : /\ more[i].do # "unlockMirror"
                                /\ more[i].into # NoEntity => more[i].into \in DOMAIN mirOop'
  PROVE  MirrorIsThere'
  <1>1. Here(t) = todo[t][1]
    BY TodoFacts
  <1>2. ASSUME NEW u \in Levels, NEW i \in DOMAIN todo'[u]
        PROVE  /\ todo'[u][i].into # NoEntity => todo'[u][i].into \in DOMAIN mirOop'
               /\ todo'[u][i].do = "unlockMirror" =>
                      \/ todo'[u][i].of \in DOMAIN mirOop'
                      \/ todo'[u][1].do = "make" /\ todo'[u][1].of = todo'[u][i].of
    <2>1. CASE u = t /\ i \in DOMAIN more /\ todo'[u][i] = more[i]
      BY <2>1
    <2>2. ASSUME NEW j \in DOMAIN todo[u], todo'[u][i] = todo[u][j]
          PROVE  /\ todo'[u][i].into # NoEntity => todo'[u][i].into \in DOMAIN mirOop'
                 /\ todo'[u][i].do = "unlockMirror" =>
                        \/ todo'[u][i].of \in DOMAIN mirOop'
                        \/ todo'[u][1].do = "make" /\ todo'[u][1].of = todo'[u][i].of
      <3>1. /\ todo[u][j].into # NoEntity => todo[u][j].into \in DOMAIN mirOop
            /\ todo[u][j].do = "unlockMirror" =>
                   \/ todo[u][j].of \in DOMAIN mirOop
                   \/ todo[u][1].do = "make" /\ todo[u][1].of = todo[u][j].of
        BY DEF IInv, MirrorIsThere
      <3>2. CASE u = t
        BY <1>1, <2>2, <3>1, <3>2
      <3>3. CASE u # t
        <4>1. todo'[u] = todo[u]
          BY <3>3 DEF Moved
        <4>2. QED
          BY <2>2, <3>1, <4>1
      <3>4. QED
        BY <3>2, <3>3
    <2>3. QED
      BY <2>1, <2>2, MovedSteps
  <1>3. QED
    BY <1>2 DEF MirrorIsThere

\* The mirror is made, unless it is there; nobody else makes it meanwhile,
\* because the step asks again.
LEMMA MakeMirrorStep ==
  ASSUME IInv, NEW t \in Levels, MakeMirror(t), UNCHANGED <<loaderVars, poolVars>>
  PROVE  IInv'
  <1> DEFINE x == Here(t)
             e == x.of
             o == FreshOop(e)
  <1>1. /\ todo[t] # <<>> /\ x.do = "make" /\ x \in Steps /\ e \in Entities
        /\ StepOK(x, defined) /\ x = todo[t][1] /\ 1 \in DOMAIN todo[t]
    BY HereIs, TodoFacts DEF MakeMirror, Steps
  <1>2. UNCHANGED <<found, got, held, classMap, clOwner, clDepth, emplacing, anonymous, torn,
                    defined, table, poolOwner>>
    BY DEF MakeMirror, loaderVars, poolVars
  <1>3. e.name \in DOMAIN KindOf /\ e.name \notin Bytes
    <2>1. e.name \in DOMAIN KindOf
      BY <1>1 DEF StepOK, Making
    <2>2. QED
      BY <2>1, Names
  <1>4. ~ Settles(x) /\ ~ Keeps(x) /\ Alone(t) /\ defined \subseteq defined'
          /\ (got'[t] # {} => got[t] # {})
    BY <1>1, <1>2 DEF Settles, Keeps, Alone
  <1>5. CASE e \in DOMAIN mirOop
    <2>1. Continue(t, <<>>) /\ UNCHANGED <<heap, refs, mirOop>>
      BY <1>5 DEF MakeMirror
    <2>2. Moved(t, <<>>) /\ (\A u \in Levels : Todo(u))'
      BY <1>1, <1>2, <1>4, <2>1, OverStep
    <2>3. TypeOK'
      BY <1>2, <2>1, <2>2 DEF IInv, TypeOK, Moved
    <2>4. \A i \in DOMAIN <<>> : FALSE
      OBVIOUS
    <2>5. LockIsCounted'
      BY <1>1, <1>2, <2>2, <2>4, LockKept
    <2>6. EmplacedOnce'
      BY <1>1, <1>2, <2>2, <2>4, MapKept
    <2>7. InsertedOnce'
      BY <1>1, <1>2, <2>2, <2>4, PoolKept
    <2>8. MirrorIsThere'
      BY <1>1, <1>5, <2>1, <2>2, <2>4, MirrorsAfterMake
    <2>9. HeapIsIndexed' /\ ReferencesAreFlat' /\ HeldIsAlive' /\ OneClassPerName'
      BY <1>2, <2>1 DEF IInv, HeapIsIndexed, ReferencesAreFlat, HeldIsAlive, OneClassPerName
    <2>10. QED
      BY <2>2, <2>3, <2>5, <2>6, <2>7, <2>8, <2>9 DEF IInv
  <1>6. CASE e \notin DOMAIN mirOop
    <2>1. /\ mirOop' = Extend(mirOop, e, o) /\ heap' = heap \cup {o} /\ refs' = Extend(refs, o, {})
          /\ Continue(t, InitMirror(e))
      BY <1>6 DEF MakeMirror
    <2>2. \A p \in heap : p.of # e
      BY <1>3, <1>6 DEF IInv, HeapIsIndexed
    <2>3. o \in Objects /\ o.of = e /\ o \notin heap
      BY <1>1, <2>2, FreshObject
    <2> HIDE DEF o
    <2>4. /\ Replaces(InitMirror(e), x, defined') /\ Finds(InitMirror(e), x, found[t], found'[t])
          /\ \A i \in DOMAIN InitMirror(e) : /\ InitMirror(e)[i].do \in {"find", "mirror", "intern"}
                                             /\ InitMirror(e)[i].into \in {NoEntity, e}
      BY <1>1, <1>3, FillReplaces
    <2> DEFINE more == InitMirror(e)
    <2> HIDE DEF e
    <2>5. e = Here(t).of /\ x = Here(t)
      BY DEF e
    <2> HIDE DEF more, x
    <2>6. /\ Replaces(more, x, defined') /\ Finds(more, x, found[t], found'[t]) /\ Continue(t, more)
          /\ \A i \in DOMAIN more : more[i].do \in {"find", "mirror", "intern"}
               /\ more[i].into \in {NoEntity, e}
      BY <2>1, <2>4 DEF more
    <2>7. Moved(t, more) /\ (\A u \in Levels : Todo(u))'
      BY <1>1, <1>4, <2>5, <2>6, TodoStep
    <2>8. TypeOK'
      BY <1>2, <2>1, <2>3, <2>7 DEF IInv, TypeOK, Moved
    <2>9. LockIsCounted'
      BY <1>1, <1>2, <2>5, <2>6, <2>7, LockKept
    <2>10. EmplacedOnce'
      <3>1. \A i \in DOMAIN more : ~ Locked(more[i], defined')
        BY <2>6 DEF Locked
      <3>2. QED
        BY <1>1, <1>2, <2>5, <2>7, <3>1, MapKept
    <2>11. InsertedOnce'
      BY <1>1, <1>2, <2>5, <2>6, <2>7, PoolKept
    <2>12. /\ DOMAIN mirOop' = DOMAIN mirOop \cup {e} /\ mirOop'[e] = o
           /\ \A d \in DOMAIN mirOop : mirOop'[d] = mirOop[d]
      <3>1. /\ DOMAIN Extend(mirOop, e, o) = DOMAIN mirOop \cup {e} /\ Extend(mirOop, e, o)[e] = o
            /\ \A y \in DOMAIN mirOop : y # e => Extend(mirOop, e, o)[y] = mirOop[y]
        BY DEF Extend
      <3>2. mirOop' = Extend(mirOop, e, o)
        BY <2>1
      <3>3. \A d \in DOMAIN mirOop : d # e
        BY <1>6
      <3>4. QED
        BY <3>1, <3>2, <3>3
    <2>13. MirrorIsThere'
      <3>1. e \in DOMAIN mirOop' /\ DOMAIN mirOop \subseteq DOMAIN mirOop'
        BY <2>12
      <3>2. \A i \in DOMAIN more : /\ more[i].do # "unlockMirror"
                                   /\ more[i].into # NoEntity => more[i].into \in DOMAIN mirOop'
        BY <2>6, <3>1
      <3>3. QED
        BY <1>1, <2>5, <2>7, <3>1, <3>2, MirrorsAfterMake
    <2>14. HeapIsIndexed'
      <3>1. \A p \in heap' : IF p.of.name \in Bytes THEN p \in table'[BucketOf[p.of.name]]
                             ELSE p.of \in DOMAIN mirOop' /\ mirOop'[p.of] = p
        BY <1>2, <1>3, <2>1, <2>3, <2>12 DEF IInv, HeapIsIndexed
      <3>2. \A d \in DOMAIN mirOop' : /\ d \in Entities /\ d.name \in DOMAIN KindOf
                                      /\ mirOop'[d] \in heap' /\ mirOop'[d].of = d
        BY <1>1, <1>3, <2>1, <2>3, <2>12 DEF IInv, HeapIsIndexed
      <3>3. \A b \in Buckets : \A p \in table'[b] :
                p \in heap' /\ p.of.name \in Bytes /\ BucketOf[p.of.name] = b
        BY <1>2, <2>1 DEF IInv, HeapIsIndexed
      <3>4. \A b \in Buckets : \A p, q \in table'[b] :
                TextOf[p.of.name] = TextOf[q.of.name] => p = q
        BY <1>2 DEF IInv, HeapIsIndexed
      <3>5. QED
        BY <3>1, <3>2, <3>3, <3>4 DEF HeapIsIndexed
    <2>15. ReferencesAreFlat'
      <3>1. /\ DOMAIN refs' = DOMAIN refs \cup {o} /\ refs'[o] = {}
            /\ \A p \in DOMAIN refs : p # o => refs'[p] = refs[p]
        <4>1. /\ DOMAIN Extend(refs, o, {}) = DOMAIN refs \cup {o} /\ Extend(refs, o, {})[o] = {}
              /\ \A y \in DOMAIN refs : y # o => Extend(refs, o, {})[y] = refs[y]
          BY DEF Extend
        <4>2. refs' = Extend(refs, o, {})
          BY <2>1
        <4>3. QED
          BY <4>1, <4>2
      <3>2. ASSUME NEW p \in DOMAIN refs'
            PROVE  /\ p \in heap' /\ p.of.name \notin Bytes
                   /\ refs'[p] \subseteq heap'
                   /\ refs'[p] # {} => IsMember(p.of)
                   /\ \A q \in refs'[p] : q.of.name \in Bytes \/ IsClass(q.of)
        <4>1. CASE p = o
          BY <1>3, <2>1, <2>3, <3>1, <4>1
        <4>2. CASE p # o
          <5>1. p \in DOMAIN refs /\ refs'[p] = refs[p]
            BY <3>1, <4>2
          <5>2. /\ p \in heap /\ p.of.name \notin Bytes
                /\ refs[p] \subseteq heap
                /\ refs[p] # {} => IsMember(p.of)
                /\ \A q \in refs[p] : q.of.name \in Bytes \/ IsClass(q.of)
            BY <5>1 DEF IInv, ReferencesAreFlat
          <5>3. QED
            BY <2>1, <5>1, <5>2
        <4>3. QED
          BY <4>1, <4>2
      <3>3. QED
        BY <3>2 DEF ReferencesAreFlat
    <2>16. HeldIsAlive' /\ OneClassPerName'
      BY <1>2, <2>1 DEF IInv, HeldIsAlive, OneClassPerName
    <2>17. QED
      BY <2>7, <2>8, <2>9, <2>10, <2>11, <2>13, <2>14, <2>15, <2>16 DEF IInv
  <1>7. QED
    BY <1>5, <1>6

\* The native returns: it was the last call.
LEMMA ReturnStep ==
  ASSUME IInv, NEW t \in Levels, Return(t), UNCHANGED <<loaderVars, poolVars, mirrorVars>>
  PROVE  IInv'
  <1>1. /\ todo[t] # <<>> /\ Here(t).do = "return" /\ Here(t) = todo[t][1]
        /\ todo[t] \in Seq(Steps) /\ DOMAIN todo[t] = 1 .. Len(todo[t]) /\ Len(todo[t]) \in Nat

              /\ \A j \in DOMAIN todo[t] : j > 1 => Before(Here(t), todo[t][j], defined)
    BY HereIs, TodoFacts DEF Return
  <1>2. /\ held' = [held EXCEPT ![t] = @ \cup got[t]] /\ got' = [got EXCEPT ![t] = {}]
        /\ found' = [found EXCEPT ![t] = NoEntity] /\ Continue(t, <<>>)
        /\ UNCHANGED <<heap, refs, classMap, clOwner, clDepth, emplacing, anonymous, torn, defined,
                       table, poolOwner, mirOop>>
    BY DEF Return, loaderVars, poolVars, mirrorVars
  <1>3. DOMAIN todo = Levels /\ DOMAIN got = Levels /\ DOMAIN held = Levels
          /\ DOMAIN found = Levels
    BY DEF IInv, TypeOK
  <1>4. Len(todo[t]) = 1 /\ DOMAIN todo[t] = {1}
    <2>1. \A j \in 1 .. Len(todo[t]) : ~ (j > 1)
      BY <1>1 DEF Before
    <2>2. Len(todo[t]) > 0
      BY <1>1, EmptySeq
    <2>3. Len(todo[t]) \in 1 .. Len(todo[t])
      BY <1>1, <2>2
    <2>4. Len(todo[t]) = 1
      <3>1. ~ (Len(todo[t]) > 1)
        BY <2>1, <2>3
      <3>2. Len(todo[t]) \in Nat
        BY <1>1
      <3>3. \A n \in Nat : n > 0 /\ ~ (n > 1) => n = 1
        OBVIOUS
      <3>4. QED
        BY <2>2, <3>1, <3>2, <3>3, Zenon
    <2>5. QED
      BY <1>1, <2>4
  <1>5. DOMAIN todo' = Levels /\ todo'[t] = <<>> /\ \A u \in Levels \ {t} : todo'[u] = todo[u]
    <2>1. Tail(todo[t]) \in Seq(Steps) /\ Len(Tail(todo[t])) = 0
      BY <1>1, <1>4, HeadTailProperties
    <2>2. <<>> \o Tail(todo[t]) = <<>>
      BY <2>1, EmptySeq, ConcatEmptySeq
    <2>3. QED
      BY <1>2, <1>3, <2>2 DEF Continue
  <1>6. /\ DOMAIN held' = Levels /\ DOMAIN got' = Levels /\ DOMAIN found' = Levels
        /\ held'[t] = held[t] \cup got[t] /\ got'[t] = {} /\ found'[t] = NoEntity
        /\ \A u \in Levels \ {t} : held'[u] = held[u] /\ got'[u] = got[u] /\ found'[u] = found[u]
    BY <1>2, <1>3
  <1>7. TypeOK'
    BY <1>2, <1>5, <1>6 DEF IInv, TypeOK
  <1>8. (\A u \in Levels : Todo(u))'
    <2>1. GoodTodo(<<>>, defined', NoEntity, {})
      BY EmptySeq DEF GoodTodo, Ordered, Locking, EndsWithReturn, Found, Careful
    <2>2. \A u \in Levels : GoodTodo(todo'[u], defined', found'[u], got'[u])
      <3>1. GoodTodo(todo'[t], defined', found'[t], got'[t])
        BY <1>5, <1>6, <2>1
      <3>2. \A u \in Levels : GoodTodo(todo[u], defined, found[u], got[u])
        BY DEF IInv, Todo, GoodTodo
      <3>3. \A u \in Levels \ {t} : GoodTodo(todo'[u], defined', found'[u], got'[u])
        BY <1>2, <1>5, <1>6, <3>2
      <3>4. QED
        BY <3>1, <3>3
    <2>3. QED
      BY <2>2 DEF Todo, GoodTodo
  <1>9. LockIsCounted'
    <2>1. Unlocks(todo[t]) = {} /\ Unlocks(<<>>) = {}
      BY <1>1, <1>4 DEF Unlocks
    <2>2. \A u \in Levels : Cardinality(Unlocks(todo'[u])) = Cardinality(Unlocks(todo[u]))
      BY <1>5, <2>1
    <2>3. QED
      BY <1>2, <2>2 DEF IInv, LockIsCounted
  <1>10. \A i \in DOMAIN <<>> : FALSE
    OBVIOUS
  <1>11. EmplacedOnce'
    <2>1. \A u \in emplacing : u \in Levels /\ todo'[u] = todo[u] /\ Next1(u, "emplace")
      BY <1>1, <1>5 DEF IInv, EmplacedOnce, Next1, Here
    <2>2. \A u \in Levels : \A i \in DOMAIN todo'[u] :
              Locked(todo'[u][i], defined) => Named(todo'[u][i].of.name) = {}
      BY <1>5, <1>10 DEF IInv, EmplacedOnce
    <2>3. QED
      BY <1>2, <2>1, <2>2 DEF EmplacedOnce, Named, Next1
  <1>12. InsertedOnce'
    BY <1>2, <1>5, <1>10 DEF IInv, InsertedOnce
  <1>13. MirrorIsThere'
    BY <1>2, <1>5, <1>10 DEF IInv, MirrorIsThere
  <1>14. HeldIsAlive'
    BY <1>2, <1>6 DEF IInv, HeldIsAlive
  <1>15. HeapIsIndexed' /\ ReferencesAreFlat' /\ OneClassPerName'
    BY <1>2 DEF IInv, HeapIsIndexed, ReferencesAreFlat, OneClassPerName
  <1>16. QED
    BY <1>7, <1>8, <1>9, <1>11, <1>12, <1>13, <1>14, <1>15 DEF IInv

\* Java code forgets an object.
LEMMA ForgetStep ==
  ASSUME IInv, NEW t \in Levels, Forget(t), UNCHANGED <<loaderVars, poolVars, mirrorVars>>
  PROVE  IInv'
  <1>1. PICK o \in held[t] : held' = [held EXCEPT ![t] = @ \ {o}]
    BY DEF Forget
  <1>2. UNCHANGED <<todo, found, got, heap, refs, classMap, clOwner, clDepth, emplacing, anonymous,
                    torn, defined, table, poolOwner, mirOop>>
    BY DEF Forget, loaderVars, poolVars, mirrorVars
  <1>3. DOMAIN held' = Levels /\ \A u \in Levels : held'[u] \subseteq held[u]
    BY <1>1 DEF IInv, TypeOK
  <1>4. QED
    BY <1>2, <1>3, HeldLess

\* A native the collector finds in Java code waits for no mirror, and keeps no
\* object in a C++ variable unless it has a guard.
LEMMA NothingInVariables ==
  ASSUME IInv, NEW t \in Levels, InJava(t)
  PROVE  /\ ~ Guarded(t) => got[t] = {}
         /\ \A i \in DOMAIN todo[t] : todo[t][i].into = NoEntity /\ todo[t][i].do # "unlockMirror"
  <1>1. Careful(todo[t], got[t])
    BY DEF IInv, Todo, GoodTodo
  <1>2. CASE todo[t] = <<>>
    BY <1>1, <1>2 DEF Careful
  <1>3. CASE todo[t] # <<>>
    <2>1. Here(t).do = "java"
      BY <1>3, HereIs DEF InJava
    <2>2. /\ Here(t) = todo[t][1] /\ 1 \in DOMAIN todo[t] /\ StepOK(Here(t), defined)
          /\ DOMAIN todo[t] = 1 .. Len(todo[t]) /\ Len(todo[t]) \in Nat
          /\ \A j \in DOMAIN todo[t] : j > 1 => Before(Here(t), todo[t][j], defined)
      BY <1>3, TodoFacts
    <2>3. ASSUME ~ Guarded(t) PROVE got[t] = {}
      <3>1. Unguarded(todo[t], 1)
        BY <2>1, <2>2, <2>3 DEF Unguarded, Guarded, HasGuard
      <3>2. QED
        BY <1>1, <2>2, <3>1 DEF Careful
    <2>5. Here(t).into = NoEntity
      BY <2>1, <2>2 DEF StepOK, Giving
    <2>6. ASSUME NEW i \in DOMAIN todo[t]
          PROVE  todo[t][i].into = NoEntity /\ todo[t][i].do # "unlockMirror"
      <3>1. CASE i = 1
        BY <2>1, <2>2, <2>5, <3>1
      <3>2. CASE i # 1
        <4>1. i > 1
          BY <2>2, <3>2
        <4>2. Before(Here(t), todo[t][i], defined)
          BY <2>2, <4>1
        <4>3. QED
          BY <2>1, <4>2 DEF Before
      <3>3. QED
        BY <3>1, <3>2
    <2>7. QED
      BY <2>3, <2>6
  <1>4. QED
    BY <1>2, <1>3

\* What the roots refer to refers to nothing, so that the collector need not
\* go further.
LEMMA ReachedIsClosed ==
  ASSUME IInv, NEW o \in Reached, o \in DOMAIN refs
  PROVE  refs[o] \subseteq Reached
  <1>1. CASE o \in Roots
    BY <1>1 DEF Reached
  <1>2. CASE o \notin Roots
    <2>1. PICK r \in Roots \cap DOMAIN refs : o \in refs[r]
      BY <1>2 DEF Reached
    <2>2. o.of.name \in Bytes \/ IsClass(o.of)
      BY <2>1 DEF IInv, ReferencesAreFlat
    <2>3. o.of.name \notin Bytes /\ (refs[o] # {} => IsMember(o.of))
      BY DEF IInv, ReferencesAreFlat
    <2>4. refs[o] = {}
      BY <2>2, <2>3, ClassIsEntity
    <2>5. QED
      BY <2>4
  <1>3. QED
    BY <1>1, <1>2

\* The collector deletes what the roots do not reach: no thread is within a
\* call, and the table and the mirrors lose exactly what is deleted.
LEMMA CollectStep ==
  ASSUME IInv, GuardsHold, Collect
  PROVE  Inv'
  <1>1. /\ \A t \in Levels : InJava(t)
        /\ \A p \in Threads : gcSafe[p]
        /\ UNCHANGED <<gcSafe, lapsed>>
        /\ heap' = heap \ Garbage /\ refs' = [o \in DOMAIN refs \ Garbage |-> refs[o]]
        /\ table' = [b \in Buckets |->
                        {o \in table[b] : ~ (o \in Garbage /\ BucketOf[o.of.name] = b)}]
        /\ mirOop' = [e \in {m \in DOMAIN mirOop : mirOop[m] \notin Garbage} |-> mirOop[e]]
        /\ UNCHANGED <<todo, found, got, held, classMap, clOwner, clDepth, emplacing, anonymous,
                       torn, defined, poolOwner>>
    BY DEF Collect, GcStringOops, ClearHolders, loaderVars, guardVars
  <1>2. \A o \in heap : o \in heap' <=> o \in Reached
    BY <1>1 DEF Garbage
  <1>3. /\ DOMAIN table' = Buckets
        /\ \A b \in Buckets : table'[b] = {o \in table[b] : o \in heap'}
    <2>1. ASSUME NEW b \in Buckets
          PROVE  table'[b] = {o \in table[b] : o \in heap'}
      <3>1. \A o \in table[b] : o \in heap /\ BucketOf[o.of.name] = b
        BY DEF IInv, HeapIsIndexed
      <3>2. table'[b] = {o \in table[b] : ~ (o \in Garbage /\ BucketOf[o.of.name] = b)}
        BY <1>1
      <3>3. QED
        BY <1>1, <3>1, <3>2
    <2>2. QED
      BY <1>1, <2>1
  <1>4. /\ DOMAIN mirOop' = {e \in DOMAIN mirOop : mirOop[e] \in heap'}
        /\ \A e \in DOMAIN mirOop' : mirOop'[e] = mirOop[e]
    <2>1. \A e \in DOMAIN mirOop : mirOop[e] \in heap
      BY DEF IInv, HeapIsIndexed
    <2>2. QED
      BY <1>1, <2>1
  <1>5. /\ DOMAIN refs' = DOMAIN refs \cap heap'
        /\ \A o \in DOMAIN refs' : refs'[o] = refs[o]
    <2>1. DOMAIN refs \subseteq heap
      BY DEF IInv, ReferencesAreFlat
    <2>2. QED
      BY <1>1, <2>1
  <1>6. TypeOK'
    BY <1>1, <1>3 DEF IInv, TypeOK
  <1>7. (\A t \in Levels : Todo(t))' /\ LockIsCounted' /\ EmplacedOnce' /\ OneClassPerName'
    BY <1>1 DEF IInv, Todo, LockIsCounted, EmplacedOnce, OneClassPerName, Named, Next1
  <1>8. InsertedOnce'
    <2>1. ASSUME NEW t \in Levels, NEW i \in DOMAIN todo[t], todo[t][i].do = "insert"
          PROVE  poolOwner = t /\ \A o \in table'[BucketOf[todo[t][i].of.name]] :
                                     TextOf[o.of.name] # TextOf[todo[t][i].of.name]
      <3>1. StepOK(todo[t][i], defined)
        BY DEF IInv, Todo, GoodTodo, Ordered
      <3>2. BucketOf[todo[t][i].of.name] \in Buckets
        BY <2>1, <3>1 DEF StepOK, Buckets
      <3>3. QED
        BY <1>3, <2>1, <3>2 DEF IInv, InsertedOnce
    <2>2. QED
      BY <1>1, <2>1 DEF InsertedOnce
  <1>9. MirrorIsThere'
    <2>1. \A t \in Levels : \A i \in DOMAIN todo[t] :
              todo[t][i].into = NoEntity /\ todo[t][i].do # "unlockMirror"
      BY <1>1, NothingInVariables
    <2>2. QED
      BY <1>1, <2>1 DEF MirrorIsThere
  <1>10. HeapIsIndexed'
    <2>1. \A o \in heap' : o \in heap
      BY <1>1
    <2>2. \A o \in heap' : IF o.of.name \in Bytes THEN o \in table'[BucketOf[o.of.name]]
                           ELSE o.of \in DOMAIN mirOop' /\ mirOop'[o.of] = o
      <3>1. ASSUME NEW o \in heap', o.of.name \in Bytes PROVE o \in table'[BucketOf[o.of.name]]
        <4>1. BucketOf[o.of.name] \in Buckets /\ o \in table[BucketOf[o.of.name]]
          BY <2>1, <3>1 DEF Buckets, IInv, HeapIsIndexed
        <4>2. QED
          BY <1>3, <4>1
      <3>2. ASSUME NEW o \in heap', o.of.name \notin Bytes
            PROVE  o.of \in DOMAIN mirOop' /\ mirOop'[o.of] = o
        <4>1. o.of \in DOMAIN mirOop /\ mirOop[o.of] = o
          BY <2>1, <3>2 DEF IInv, HeapIsIndexed
        <4>2. QED
          BY <1>4, <4>1
      <3>3. QED
        BY <3>1, <3>2
    <2>3. \A e \in DOMAIN mirOop' : /\ e \in Entities /\ e.name \in DOMAIN KindOf
                                    /\ mirOop'[e] \in heap' /\ mirOop'[e].of = e
      BY <1>4 DEF IInv, HeapIsIndexed
    <2>4. \A b \in Buckets : \A o \in table'[b] :
              o \in heap' /\ o.of.name \in Bytes /\ BucketOf[o.of.name] = b
      BY <1>3 DEF IInv, HeapIsIndexed
    <2>5. \A b \in Buckets : \A o, p \in table'[b] :
              TextOf[o.of.name] = TextOf[p.of.name] => o = p
      BY <1>3 DEF IInv, HeapIsIndexed
    <2>6. QED
      BY <2>2, <2>3, <2>4, <2>5 DEF HeapIsIndexed
  <1>11. ReferencesAreFlat'
    <2>1. ASSUME NEW o \in DOMAIN refs'
          PROVE  /\ o \in heap' /\ o.of.name \notin Bytes
                 /\ refs'[o] \subseteq heap'
                 /\ refs'[o] # {} => IsMember(o.of)
                 /\ \A p \in refs'[o] : p.of.name \in Bytes \/ IsClass(p.of)
      <3>1. o \in DOMAIN refs /\ o \in heap' /\ refs'[o] = refs[o]
        BY <1>5
      <3>2. /\ o \in heap /\ o.of.name \notin Bytes
            /\ refs[o] \subseteq heap
            /\ refs[o] # {} => IsMember(o.of)
            /\ \A p \in refs[o] : p.of.name \in Bytes \/ IsClass(p.of)
        BY <3>1 DEF IInv, ReferencesAreFlat
      <3>3. refs[o] \subseteq Reached
        <4>1. o \in Reached
          BY <1>2, <3>1, <3>2
        <4>2. QED
          BY <3>1, <4>1, ReachedIsClosed
      <3>4. QED
        BY <1>2, <3>1, <3>2, <3>3
    <2>2. QED
      BY <2>1 DEF ReferencesAreFlat
  <1>12. \A t \in Levels : held'[t] \subseteq heap'
    <2>1. ASSUME NEW t \in Levels PROVE held[t] \subseteq heap'
      <3>1. held[t] \subseteq heap /\ held[t] \subseteq Reached
        BY DEF IInv, HeldIsAlive, Reached, Roots
      <3>2. QED
        BY <1>2, <3>1
    <2>2. QED
      BY <1>1, <2>1
  <1>13. \A t \in Levels : t \notin lapsed' => got'[t] \subseteq heap'
    <2>1. ASSUME NEW t \in Levels, t \notin lapsed PROVE got[t] = {}
      <3>1. t[1] \in Threads
        BY DEF Levels
      <3>2. gcSafe[t[1]]
        BY <1>1, <3>1, Zenon
      <3>3. ~ Guarded(t)
        BY <2>1, <3>2, Zenon DEF GuardsHold
      <3>4. QED
        BY <1>1, <3>3, NothingInVariables
    <2>2. QED
      BY <1>1, <2>1
  <1>14. GuardsHold'
    BY <1>1 DEF GuardsHold, Guarded
  <1>15. QED
    BY <1>6, <1>7, <1>8, <1>9, <1>10, <1>11, <1>12, <1>13, <1>14 DEF Inv, Shared

-----------------------------------------------------------------------------
(* The guards *)

\* Calls that another makes, none of them the end of a guard.
Harmless(more) == more \in Seq(Steps) /\ \A i \in DOMAIN more : more[i].do # "leave"

\* Such are no call, one or two, and the classes above a class with one more.
LEMMA HarmlessCalls ==
  /\ Harmless(<<>>)
  /\ \A x \in Steps : x.do # "leave" => Harmless(<<x>>)
  /\ \A x, y \in Steps : x.do # "leave" /\ y.do # "leave" => Harmless(<<x, y>>)
  /\ \A n \in ClassFiles : \A x \in Steps :
         x.do # "leave" => Harmless(Append(FindAll(Above[n]), x))
  <1>1. Harmless(<<>>)
    BY EmptySeq DEF Harmless
  <1>2. ASSUME NEW x \in Steps, x.do # "leave" PROVE Harmless(<<x>>)
    BY <1>2 DEF Harmless
  <1>3. ASSUME NEW x \in Steps, NEW y \in Steps, x.do # "leave", y.do # "leave"
        PROVE  Harmless(<<x, y>>)
    <2> DEFINE s == <<x, y>>
    <2>1. s \in Seq(Steps) /\ DOMAIN s = 1 .. 2 /\ s[1] = x /\ s[2] = y
      OBVIOUS
    <2> HIDE DEF s
    <2>2. \A i \in DOMAIN s : i = 1 \/ i = 2
      BY <2>1
    <2>3. Harmless(s)
      BY <1>3, <2>1, <2>2 DEF Harmless
    <2>4. QED
      BY <2>3 DEF s
  <1>4. ASSUME NEW n \in ClassFiles, NEW x \in Steps, x.do # "leave"
        PROVE  Harmless(Append(FindAll(Above[n]), x))
    <2> DEFINE a == FindAll(Above[n])
               s == Append(a, x)
    <2>1. Above[n] \in Seq(Words)
      <3>1. ClassFiles \subseteq Words /\ Above[n] \in Seq(ClassFiles)
        BY Names, LoaderAssumption
      <3>2. QED
        BY <3>1, SeqMonotonic
    <2>2. a \in Seq(Calm) /\ \A i \in DOMAIN a : a[i].do = "find"
      BY <2>1, FindsAreChunks DEF Chunks
    <2>3. a \in Seq(Steps)
      BY <2>2, CalmIsPlain, SeqMonotonic
    <2> HIDE DEF a
    <2>4. /\ s \in Seq(Steps) /\ Len(a) \in Nat /\ DOMAIN a = 1 .. Len(a)
          /\ DOMAIN s = 1 .. Len(a) + 1 /\ \A i \in 1 .. Len(a) : s[i] = a[i]
      BY <2>3, AppendProperties
    <2>5. s[Len(a) + 1] = x
      BY <2>3, AppendProperties
    <2> HIDE DEF s
    <2>6. \A i \in DOMAIN s : i \in DOMAIN a \/ i = Len(a) + 1
      BY <2>4
    <2>7. Harmless(s)
      BY <1>4, <2>2, <2>4, <2>5, <2>6 DEF Harmless
    <2>8. QED
      BY <2>7 DEF s, a
  <1>5. QED
    BY <1>1, <1>2, <1>3, <1>4

\* No native gets a guard on the way.
NoneAdded == \A u \in Levels : HasGuard(todo'[u]) => HasGuard(todo[u])

\* Not when a call makes such calls,
LEMMA NoGuardAdded ==
  ASSUME IInv, NEW t \in Levels, todo[t] # <<>>, NEW more, Harmless(more), Continue(t, more)
  PROVE  NoneAdded
  <1>1. DOMAIN todo = Levels /\ todo[t] \in Seq(Steps)
    BY TodoFacts DEF IInv, TypeOK
  <1>2. /\ todo'[t] = more \o Tail(todo[t])
        /\ \A u \in Levels \ {t} : todo'[u] = todo[u]
    BY <1>1 DEF Continue
  <1>3. Splice(todo'[t], todo[t], more)
    BY <1>1, <1>2, SpliceOfTail DEF Harmless
  <1>4. ASSUME NEW i \in DOMAIN todo'[t], todo'[t][i].do = "leave" PROVE HasGuard(todo[t])
    <2>1. \/ i \in DOMAIN more /\ todo'[t][i] = more[i]
          \/ \E k \in DOMAIN todo[t] : todo'[t][i] = todo[t][k]
      BY <1>3, SpliceOrigin
    <2>2. QED
      BY <1>4, <2>1 DEF Harmless, HasGuard
  <1>5. QED
    BY <1>2, <1>4 DEF NoneAdded, HasGuard

\* as those of the class loader are,
LEMMA LoaderAddsNone ==
  ASSUME IInv, NEW t \in Levels, LoaderStep(t)
  PROVE  NoneAdded
  <1> DEFINE e == Here(t).of
  <1>1. ASSUME todo[t] # <<>>
        PROVE  /\ e \in Entities
               /\ Step("emplace", e, NoEntity) \in Steps
               /\ Step("emplace", e, NoEntity).do = "emplace"
               /\ Step("rename", e, NoEntity) \in Steps /\ Step("rename", e, NoEntity).do = "rename"
               /\ Step("look", e, NoEntity) \in Steps /\ Step("look", e, NoEntity).do = "look"
    <2>1. e \in Entities
      BY <1>1, TodoFacts DEF Steps
    <2>2. "emplace" \in Operations /\ "rename" \in Operations /\ "look" \in Operations
      BY DEF Operations
    <2> HIDE DEF e
    <2>3. QED
      BY <2>1, <2>2, StepTypes, StepFields
  <1>2. CASE GetClass(t)
    <2>1. todo[t] # <<>>
      BY <1>2, HereIs DEF GetClass
    <2>2. "unlock" \in Operations
      BY DEF Operations
    <2>3. /\ Step("unlock", NoEntity, NoEntity) \in Steps
          /\ Step("unlock", NoEntity, NoEntity).do = "unlock"
      BY <2>2, StepTypes, StepFields
    <2>4. Harmless(<<Step("look", e, NoEntity), Step("unlock", NoEntity, NoEntity)>>)
      BY <1>1, <2>1, <2>3, HarmlessCalls
    <2>5. QED
      BY <1>2, <2>1, <2>4, NoGuardAdded DEF GetClass
  <1>3. CASE LookFinds(t) \/ Unlock(t)
    <2>1. todo[t] # <<>> /\ Continue(t, <<>>)
      BY <1>3, HereIs DEF LookFinds, Unlock
    <2>2. QED
      BY <2>1, HarmlessCalls, NoGuardAdded
  <1>4. CASE LookMisses(t)
    <2>1. todo[t] # <<>>
      BY <1>4, HereIs DEF LookMisses
    <2> DEFINE more == IF e.name \in ArrayNames THEN <<Step("emplace", e, NoEntity)>>
                       ELSE IF e.name \in ClassFiles
                       THEN Append(FindAll(Above[e.name]), Step("emplace", e, NoEntity))
                       ELSE <<>>
    <2>2. Harmless(more)
      BY <1>1, <2>1, HarmlessCalls
    <2>3. Continue(t, more)
      BY <1>4 DEF LookMisses
    <2> HIDE DEF more
    <2>4. QED
      BY <2>1, <2>2, <2>3, NoGuardAdded
  <1>5. CASE DefineClass(t) \/ DefineAnonymousClass(t)
    <2>1. todo[t] # <<>> /\ Here(t).do \in {"define", "anonymous"}
      BY <1>5, HereIs DEF DefineClass, DefineAnonymousClass
    <2>2. e.name \in ClassFiles
      <3>1. StepOK(Here(t), defined)
        BY <2>1, TodoFacts
      <3>2. QED
        BY <2>1, <3>1 DEF StepOK
    <2>3. /\ Harmless(Append(FindAll(Above[e.name]), Step("emplace", e, NoEntity)))
          /\ Harmless(Append(FindAll(Above[e.name]), Step("rename", e, NoEntity)))
      BY <1>1, <2>1, <2>2, HarmlessCalls
    <2>4. QED
      BY <1>5, <2>1, <2>3, NoGuardAdded DEF DefineClass, DefineAnonymousClass
  <1>6. CASE Rename(t)
    <2>1. todo[t] # <<>>
      BY <1>6, HereIs DEF Rename
    <2> DEFINE c == [name |-> AnonymousName, copy |-> anonymous + 1]
    <2>2. Step("emplace", c, NoEntity) \in Steps /\ Step("emplace", c, NoEntity).do = "emplace"
      <3>0. anonymous \in Nat /\ AnonymousName \in Words
        <4>1. anonymous \in Nat
          BY DEF IInv, TypeOK
        <4>2. AnonymousName \in Words
          BY Names, Zenon
        <4>3. QED
          BY <4>1, <4>2
      <3>1. AnonymousName \in Words /\ anonymous + 1 \in Nat
        BY <3>0
      <3>2. c \in Entities /\ "emplace" \in Operations
        BY <3>1 DEF Entities, Operations
      <3> HIDE DEF c
      <3>3. QED
        BY <3>2, StepTypes, StepFields
    <2>3. Harmless(<<Step("emplace", e, NoEntity)>>) /\ Harmless(<<Step("emplace", c, NoEntity)>>)
      BY <1>1, <2>1, <2>2, HarmlessCalls
    <2>4. \/ Continue(t, <<Step("emplace", e, NoEntity)>>)
          \/ Continue(t, <<Step("emplace", c, NoEntity)>>)
      BY <1>6 DEF Rename
    <2> HIDE DEF c
    <2>5. QED
      BY <2>1, <2>3, <2>4, NoGuardAdded
  <1>7. CASE BeginEmplace(t)
    BY <1>7 DEF BeginEmplace, callVars, NoneAdded
  <1>8. CASE EndEmplace(t)
    <2>1. Next1(t, "emplace") /\ Continue(t, <<>>)
      BY <1>8 DEF EndEmplace, IInv, EmplacedOnce
    <2>2. todo[t] # <<>>
      BY <2>1, HereIs
    <2>3. QED
      BY <2>1, <2>2, HarmlessCalls, NoGuardAdded
  <1>9. QED
    BY <1>2, <1>3, <1>4, <1>5, <1>6, <1>7, <1>8 DEF LoaderStep

\* those of the mirrors,
LEMMA MirrorAddsNone ==
  ASSUME IInv, NEW t \in Levels, MirrorStep(t)
  PROVE  NoneAdded
  <1> DEFINE x == Here(t)
  <1>1. ASSUME todo[t] # <<>>
        PROVE  x.of \in Entities /\ x.into \in Entities /\ StepOK(x, defined)
    BY <1>1, TodoFacts DEF Steps
  <1>2. CASE ReadMirror(t)
    <2>1. todo[t] # <<>>
      BY <1>2, HereIs DEF ReadMirror
    <2> DEFINE e == IF x.of = NoEntity THEN found[t] ELSE x.of
    <2>2. e \in Entities
      BY <1>1, <2>1, StepTypes DEF IInv, TypeOK, IsClass
    <2>3. Continue(t, <<>>) \/ Continue(t, <<Step("lockMirror", e, x.into)>>)
      BY <1>2 DEF ReadMirror
    <2> HIDE DEF e, x
    <2>4. Harmless(<<Step("lockMirror", e, x.into)>>)
      <3>1. "lockMirror" \in Operations
        BY DEF Operations
      <3>2. /\ Step("lockMirror", e, x.into) \in Steps
            /\ Step("lockMirror", e, x.into).do = "lockMirror"
        BY <1>1, <2>1, <2>2, <3>1, StepFields
      <3>3. QED
        BY <3>2, HarmlessCalls
    <2>5. QED
      BY <2>1, <2>3, <2>4, HarmlessCalls, NoGuardAdded
  <1>3. CASE LockMirror(t)
    <2>1. todo[t] # <<>>
      BY <1>3, HereIs DEF LockMirror
    <2>2. Continue(t, <<Step("make", x.of, NoEntity), Step("unlockMirror", x.of, x.into)>>)
      BY <1>3 DEF LockMirror
    <2> HIDE DEF x
    <2>3. Harmless(<<Step("make", x.of, NoEntity), Step("unlockMirror", x.of, x.into)>>)
      <3>1. "make" \in Operations /\ "unlockMirror" \in Operations
        BY DEF Operations
      <3>2. /\ Step("make", x.of, NoEntity) \in Steps /\ Step("make", x.of, NoEntity).do = "make"
            /\ Step("unlockMirror", x.of, x.into) \in Steps
            /\ Step("unlockMirror", x.of, x.into).do = "unlockMirror"
        BY <1>1, <2>1, <3>1, StepTypes, StepFields
      <3>3. QED
        BY <3>2, HarmlessCalls
    <2>4. QED
      BY <2>1, <2>2, <2>3, NoGuardAdded
  <1>4. CASE MakeMirror(t)
    <2>1. todo[t] # <<>> /\ x.do = "make"
      BY <1>4, HereIs DEF MakeMirror
    <2>2. Continue(t, <<>>) \/ Continue(t, InitMirror(x.of))
      BY <1>4 DEF MakeMirror
    <2>3. x.of.name \in DOMAIN KindOf
      BY <1>1, <2>1 DEF StepOK, Making
    <2>4. Harmless(InitMirror(x.of))
      <3>1. /\ Replaces(InitMirror(x.of), x, {})
            /\ \A i \in DOMAIN InitMirror(x.of) :
                   InitMirror(x.of)[i].do \in {"find", "mirror", "intern"}
        BY <1>1, <2>1, <2>3, FillReplaces
      <3>2. QED
        BY <3>1 DEF Replaces, Harmless
    <2> HIDE DEF x
    <2>5. QED
      BY <2>1, <2>2, <2>4, HarmlessCalls, NoGuardAdded
  <1>5. CASE UnlockMirror(t)
    <2>1. todo[t] # <<>> /\ Continue(t, <<>>)
      BY <1>5, HereIs DEF UnlockMirror
    <2>2. QED
      BY <2>1, HarmlessCalls, NoGuardAdded
  <1>6. QED
    BY <1>2, <1>3, <1>4, <1>5 DEF MirrorStep

\* and those of the string pool.
LEMMA PoolAddsNone ==
  ASSUME IInv, NEW t \in Levels, PoolStep(t)
  PROVE  NoneAdded
  <1>1. CASE FindString(t, mirOop)
    <2>1. todo[t] # <<>>
      BY <1>1, HereIs DEF FindString
    <2> DEFINE y == Step("insert", Here(t).of, Here(t).into)
    <2>2. Continue(t, <<>>) \/ Continue(t, <<Find(CharArray), y>>)
      BY <1>1 DEF FindString
    <2>3. y \in Steps /\ y.do = "insert"
      <3>1. "insert" \in Operations /\ Here(t).of \in Entities /\ Here(t).into \in Entities
        BY <2>1, TodoFacts DEF Operations, Steps
      <3>2. QED
        BY <3>1, StepFields
    <2> HIDE DEF y
    <2>4. Find(CharArray) \in Steps /\ Find(CharArray).do = "find"
      <3>1. "find" \in Operations /\ CharArray \in Words
        BY Names, PoolAssumption DEF Operations, Loadable
      <3>2. QED
        BY <3>1, CallTypes DEF Find
    <2>5. Harmless(<<Find(CharArray), y>>)
      BY <2>3, <2>4, HarmlessCalls
    <2>6. QED
      BY <2>1, <2>2, <2>5, HarmlessCalls, NoGuardAdded
  <1>2. CASE InsertString(t, mirOop)
    <2>1. todo[t] # <<>> /\ Continue(t, <<>>)
      BY <1>2, HereIs DEF InsertString
    <2>2. QED
      BY <2>1, HarmlessCalls, NoGuardAdded
  <1>3. QED
    BY <1>1, <1>2 DEF PoolStep

\* Nor when a native returns, or ends early.
LEMMA OthersAddNone ==
  ASSUME IInv, NEW t \in Levels, CallStep(t) \/ NotFound(t) \/ EndIfThrown(t)
  PROVE  NoneAdded
  <1>1. CASE CallStep(t)
    <2>1. CASE Forget(t)
      BY <2>1 DEF Forget, NoneAdded
    <2>2. CASE Return(t) \/ RunJava(t)
      <3>1. todo[t] # <<>> /\ Continue(t, <<>>)
        BY <2>2, HereIs DEF Return, RunJava
      <3>2. QED
        BY <3>1, HarmlessCalls, NoGuardAdded
    <2>3. QED
      BY <1>1, <2>1, <2>2 DEF CallStep
  <1>2. DOMAIN todo = Levels
    BY DEF IInv, TypeOK
  <1>3. ~ HasGuard(<<ReturnRef>>)
    <2>1. DOMAIN <<ReturnRef>> = {1} /\ <<ReturnRef>>[1] = ReturnRef
      OBVIOUS
    <2>2. QED
      BY <2>1, PlainCalls DEF HasGuard
  <1>4. CASE NotFound(t)
    <2>1. todo[t] # <<>> /\ todo[t] \in Seq(Steps)
      BY <1>4, HereIs, TodoFacts DEF NotFound
    <2>2. CASE found[t] = NoEntity
      <3>1. todo' = [todo EXCEPT ![t] = <<ReturnRef>>]
        BY <1>4, <2>2 DEF NotFound
      <3>2. QED
        BY <1>2, <1>3, <3>1 DEF NoneAdded
    <2>3. CASE found[t] # NoEntity
      <3>1. todo' = [todo EXCEPT ![t] = Tail(@)]
        BY <1>4, <2>3 DEF NotFound
      <3>2. Tail(todo[t]) = <<>> \o Tail(todo[t])
        BY <2>1, EmptySeq, ConcatEmptySeq
      <3>3. Continue(t, <<>>)
        BY <3>1, <3>2 DEF Continue
      <3>4. QED
        BY <2>1, <3>3, HarmlessCalls, NoGuardAdded
    <2>4. QED
      BY <2>2, <2>3
  <1>5. CASE EndIfThrown(t)
    <2>1. todo[t] # <<>>
      BY <1>5, HereIs DEF EndIfThrown
    <2>2. CASE Continue(t, <<>>)
      BY <2>1, <2>2, HarmlessCalls, NoGuardAdded
    <2>3. CASE todo' = [todo EXCEPT ![t] = IF Guarded(t) THEN <<Leave, ReturnRef>>
                                           ELSE <<ReturnRef>>]
      <3>1. \A u \in Levels \ {t} : todo'[u] = todo[u]
        BY <1>2, <2>3
      <3>2. ~ HasGuard(todo[t]) => todo'[t] = <<ReturnRef>>
        BY <1>2, <2>3 DEF Guarded
      <3>3. QED
        BY <1>3, <3>1, <3>2 DEF NoneAdded
    <2>4. QED
      BY <1>5, <2>2, <2>3 DEF EndIfThrown
  <1>6. QED
    BY <1>1, <1>4, <1>5

\* A thread whose guard has ended may be stopped, but every native of it that
\* is still in one has lapsed.
LEMMA GuardsKept ==
  ASSUME IInv, GuardsHold, NEW t \in Levels, CallNative(t) \/ CallStep(t) \/ ThreadStep(t)
  PROVE  GuardsHold'
  <1>1. ASSUME NoneAdded, UNCHANGED <<gcSafe, lapsed>> PROVE GuardsHold'
    BY <1>1, Zenon DEF GuardsHold, NoneAdded, Guarded
  <1>2. CASE CallNative(t)
    <2>1. PICK call \in Calls :
             /\ Call(t, Append(Body(call), ReturnRef))
             /\ gcSafe' = [gcSafe EXCEPT ![t[1]] = @ /\ ~ HasGuard(Body(call))]
             /\ lapsed' = lapsed \ {t}
      BY <1>2 DEF CallNative
    <2> DEFINE b == Append(Body(call), ReturnRef)
    <2>2. todo' = [todo EXCEPT ![t] = b] /\ DOMAIN todo = Levels
      BY <2>1 DEF Call, IInv, TypeOK
    <2>3. HasGuard(b) => HasGuard(Body(call))
      <3>1. Body(call) \in Seq(Steps)
        BY BodiesAreGood, PlainCalls, SeqMonotonic DEF GoodBody, Chunks
      <3>2. /\ Len(Body(call)) \in Nat /\ DOMAIN Body(call) = 1 .. Len(Body(call))
            /\ DOMAIN b = 1 .. Len(Body(call)) + 1
            /\ \A i \in 1 .. Len(Body(call)) : b[i] = Body(call)[i]
        BY <3>1, PlainCalls, AppendProperties
      <3>3. b[Len(Body(call)) + 1] = ReturnRef
        BY <3>1, PlainCalls, AppendProperties
      <3> HIDE DEF b
      <3>4. \A i \in DOMAIN b : i \in DOMAIN Body(call) \/ i = Len(Body(call)) + 1
        BY <3>2
      <3>5. QED
        BY <3>2, <3>3, <3>4, PlainCalls DEF HasGuard
    <2> HIDE DEF b
    <2>4. todo'[t] = b /\ \A u \in Levels \ {t} : todo'[u] = todo[u]
      BY <2>2
    <2>5. DOMAIN gcSafe = Threads /\ t[1] \in Threads
      BY DEF GuardsHold, Levels
    <2>6. /\ DOMAIN gcSafe' = Threads
          /\ gcSafe'[t[1]] <=> (gcSafe[t[1]] /\ ~ HasGuard(Body(call)))
          /\ \A p \in Threads : p # t[1] => gcSafe'[p] = gcSafe[p]
      BY <2>1, <2>5, Zenon
    <2>7. ASSUME NEW u \in Levels, HasGuard(todo'[u]), gcSafe'[u[1]] PROVE u \in lapsed'
      <3>1. u # t
        BY <2>3, <2>4, <2>6, <2>7, Zenon
      <3>2. u[1] \in Threads /\ HasGuard(todo[u])
        BY <2>4, <2>7, <3>1 DEF Levels
      <3>3. gcSafe[u[1]]
        <4>1. CASE u[1] = t[1]
          BY <2>6, <2>7, <4>1, Zenon
        <4>2. CASE u[1] # t[1]
          BY <2>6, <2>7, <3>2, <4>2, Zenon
        <4>3. QED
          BY <4>1, <4>2, Zenon
      <3>4. u \in lapsed
        BY <3>2, <3>3, Zenon DEF GuardsHold, Guarded
      <3>5. QED
        BY <2>1, <3>1, <3>4
    <2>8. QED
      BY <2>6, <2>7, Zenon DEF GuardsHold, Guarded
  <1>3. CASE LeaveGuard(t)
    <2>1. /\ gcSafe' = [gcSafe EXCEPT ![t[1]] = TRUE]
          /\ lapsed' = lapsed \cup {o \in Levels : o[1] = t[1] /\ HasGuard(todo'[o])}
          /\ Continue(t, <<>>) /\ todo[t] # <<>>
      BY <1>3, HereIs DEF LeaveGuard
    <2>2. NoneAdded
      BY <2>1, HarmlessCalls, NoGuardAdded
    <2>3. DOMAIN gcSafe' = Threads /\ \A p \in Threads : p # t[1] => gcSafe'[p] = gcSafe[p]
      BY <2>1, Zenon DEF GuardsHold
    <2>4. ASSUME NEW u \in Levels, HasGuard(todo'[u]), gcSafe'[u[1]] PROVE u \in lapsed'
      <3>1. CASE u[1] = t[1]
        BY <2>1, <2>4, <3>1
      <3>2. CASE u[1] # t[1]
        <4>1. u[1] \in Threads
          BY DEF Levels
        <4>2. gcSafe[u[1]]
          BY <2>3, <2>4, <3>2, <4>1, Zenon
        <4>3. u \in lapsed
          BY <2>2, <2>4, <4>2, Zenon DEF GuardsHold, Guarded, NoneAdded
        <4>4. QED
          BY <2>1, <4>3
      <3>3. QED
        BY <3>1, <3>2
    <2>5. QED
      BY <2>3, <2>4, Zenon DEF GuardsHold, Guarded
  <1>4. CASE CallStep(t)
    BY <1>1, <1>4, OthersAddNone DEF CallStep, guardVars
  <1>5. CASE ThreadStep(t) /\ ~ LeaveGuard(t)
    <2>1. UNCHANGED <<gcSafe, lapsed>>
      BY <1>5 DEF ThreadStep, guardVars
    <2>2. LoaderStep(t) \/ MirrorStep(t) \/ PoolStep(t) \/ NotFound(t) \/ EndIfThrown(t)
      BY <1>5 DEF ThreadStep
    <2>3. NoneAdded
      BY <2>2, LoaderAddsNone, MirrorAddsNone, PoolAddsNone, OthersAddNone
    <2>4. QED
      BY <1>1, <2>1, <2>3
  <1>6. QED
    BY <1>2, <1>3, <1>4, <1>5

-----------------------------------------------------------------------------
(* The theorems *)

\* The invariant holds before any native is called,
LEMMA InitInv == Init => Inv
  <1> SUFFICES ASSUME Init PROVE Inv
    OBVIOUS
  <1>1. /\ todo = [t \in Levels |-> <<>>] /\ found = [t \in Levels |-> NoEntity]
        /\ got = [t \in Levels |-> {}] /\ held = [t \in Levels |-> {}]
        /\ heap = {} /\ refs = <<>> /\ mirOop = <<>> /\ table = [b \in Buckets |-> {}]
        /\ clOwner = None /\ clDepth = 0 /\ emplacing = {} /\ anonymous = 0 /\ torn = FALSE
             /\ defined = {}
    BY DEF Init, CallInit, LoaderInit, PoolInit, MirrorInit
  <1>2. DOMAIN refs = {} /\ DOMAIN mirOop = {} /\ DOMAIN <<>> = {}
    BY <1>1
  <1>3. PICK names \in Booted : classMap = {Entity(n) : n \in names}
    BY DEF Init, LoaderInit
  <1>4. names \subseteq Loadable /\ IsFiniteSet(names)
    BY LoaderAssumption
  <1>5. IsFiniteSet(classMap) /\ \A c \in classMap : IsClass(c)
    <2> DEFINE f == [n \in names |-> Entity(n)]
    <2>1. f \in Surjection(names, classMap)
      BY <1>3 DEF Surjection
    <2>2. IsFiniteSet(classMap)
      BY <1>4, <2>1, FS_Surjection
    <2>3. ASSUME NEW n \in names PROVE IsClass(Entity(n))
      <3>1. n \in Words /\ n \in ClassNames
        BY <1>4, Names
      <3>2. QED
        BY <3>1, StepTypes DEF IsClass
    <2>4. QED
      BY <1>3, <2>2, <2>3
  <1>6. TypeOK
    BY <1>1, <1>5 DEF TypeOK
  <1>7. \A t \in Levels : Todo(t)
    <2>1. GoodTodo(<<>>, {}, NoEntity, {})
      BY EmptySeq DEF GoodTodo, Ordered, Locking, EndsWithReturn, Found, Careful
    <2>2. QED
      BY <1>1, <2>1 DEF Todo, GoodTodo
  <1>8. LockIsCounted
    <2>1. Unlocks(<<>>) = {}
      BY DEF Unlocks
    <2>2. Cardinality(Unlocks(<<>>)) = 0
      BY <2>1, FS_EmptySet
    <2>3. QED
      BY <1>1, <2>2, CallsAssumption DEF LockIsCounted
  <1>9. EmplacedOnce /\ InsertedOnce /\ MirrorIsThere
    BY <1>1, <1>2 DEF EmplacedOnce, InsertedOnce, MirrorIsThere
  <1>10. HeapIsIndexed /\ ReferencesAreFlat /\ HeldIsAlive
    BY <1>1, <1>2 DEF HeapIsIndexed, ReferencesAreFlat, HeldIsAlive
  <1>11. OneClassPerName
    <2>1. \A n \in names : Entity(n).name = n
      BY DEF Entity
    <2>2. QED
      BY <1>1, <1>3, <2>1 DEF OneClassPerName
  <1>12. GuardsHold
    <2>1. gcSafe = [p \in Threads |-> TRUE]
      BY DEF Init
    <2>2. \A t \in Levels : ~ Guarded(t)
      BY <1>1, <1>2 DEF Guarded, HasGuard
    <2>3. QED
      BY <2>1, <2>2 DEF GuardsHold
  <1>13. QED
    BY <1>6, <1>7, <1>8, <1>9, <1>10, <1>11, <1>12 DEF Inv, Shared, HeldIsAlive

\* and every step keeps it.
LEMMA NextInv ==
  ASSUME Inv, [Next]_vars
  PROVE  Inv'
  <1>1. CASE Next
    <2>1. IInv
      BY <1>1 DEF Next, Dangling, Inv, Shared, IInv, HeldIsAlive
    <2>2. ASSUME NEW t \in Levels, CallNative(t) \/ CallStep(t) \/ ThreadStep(t) PROVE Inv'
      <3>1. IInv'
        <4>1. CASE CallNative(t)
          BY <2>1, <4>1, CallNativeStep
        <4>2. CASE CallStep(t)
          BY <2>1, <4>2, ReturnStep, RunJavaStep, ForgetStep DEF CallStep
        <4>3. CASE LoaderStep(t) /\ UNCHANGED <<poolVars, mirrorVars>>
          BY <2>1, <4>3, GetClassStep, LookFindsStep, LookMissesStep, UnlockStep, DefineClassStep,
             RenameStep, BeginEmplaceStep, EndEmplaceStep DEF LoaderStep
        <4>4. CASE MirrorStep(t) /\ UNCHANGED <<loaderVars, poolVars>>
          BY <2>1, <4>4, ReadMirrorStep, LockMirrorStep, MakeMirrorStep, UnlockMirrorStep
             DEF MirrorStep
        <4>5. CASE PoolStep(t)
          BY <2>1, <4>5, FindStringStep, InsertStringStep DEF PoolStep
        <4>6. CASE NotFound(t) \/ EndIfThrown(t) \/ LeaveGuard(t)
          BY <2>1, <4>6, NotFoundStep, EndIfThrownStep, LeaveGuardStep
        <4>7. QED
          BY <2>2, <4>1, <4>2, <4>3, <4>4, <4>5, <4>6 DEF ThreadStep
      <3>2. GuardsHold'
        BY <2>1, <2>2, GuardsKept DEF Inv
      <3>3. QED
        BY <3>1, <3>2 DEF IInv, HeldIsAlive, Inv, Shared
    <2>3. ASSUME Collect PROVE Inv'
      BY <2>1, <2>3, CollectStep DEF Inv
    <2>4. QED
      BY <1>1, <2>2, <2>3 DEF Next
  <1>2. CASE UNCHANGED vars
    <2>1. UNCHANGED <<todo, found, got, held, heap, refs, classMap, clOwner, clDepth, emplacing,
                      anonymous, torn, defined, table, poolOwner, mirOop, gcSafe, lapsed>>
      BY <1>2 DEF vars, callVars, loaderVars, poolVars, mirrorVars, guardVars
    <2>2. TypeOK' /\ (\A u \in Levels : Todo(u))' /\ LockIsCounted'
      BY <2>1 DEF Inv, Shared, TypeOK, Todo, LockIsCounted
    <2>3. EmplacedOnce' /\ InsertedOnce' /\ MirrorIsThere'
      BY <2>1 DEF Inv, Shared, EmplacedOnce, InsertedOnce, Named, Next1, MirrorIsThere
    <2>4. HeapIsIndexed' /\ ReferencesAreFlat' /\ OneClassPerName'
      BY <2>1 DEF Inv, Shared, HeapIsIndexed, ReferencesAreFlat, OneClassPerName
    <2>5. GuardsHold'
      BY <2>1 DEF Inv, GuardsHold, Guarded
    <2>6. \A t \in Levels : /\ held'[t] \subseteq heap'
                            /\ (t \notin lapsed' => got'[t] \subseteq heap')
      BY <2>1 DEF Inv, Shared
    <2>7. QED
      BY <2>2, <2>3, <2>4, <2>5, <2>6 DEF Inv, Shared
  <1>3. QED
    BY <1>1, <1>2

\* In every reachable state the natives are where their locks, their variables
\* and the tables they share allow (getClass, getInternString, getBaseMirror,
\* collectOopHolder), for any threads, class files, members and strings.
THEOREM Inductive == Spec => []Inv
  <1>1. QED
    BY InitInv, NextInv, PTL DEF Spec

\* No class, member, constant pool or pooled string ever has two live objects:
\* getBaseMirror and getInternString give all threads the same one, also after
\* the collector has deleted it and it is made again.
THEOREM OneObjectHolds == Spec => []OneObject
  <1>1. ASSUME Inv PROVE OneObject
    <2>1. ASSUME NEW a \in heap, NEW b \in heap, a.of = b.of PROVE a = b
      <3>1. CASE a.of.name \in Bytes
        <4>1. BucketOf[a.of.name] \in Buckets
          BY <3>1 DEF Buckets
        <4>2. QED
          BY <1>1, <2>1, <3>1, <4>1 DEF Inv, Shared, HeapIsIndexed
      <3>2. CASE a.of.name \notin Bytes
        BY <1>1, <2>1, <3>2 DEF Inv, Shared, HeapIsIndexed
      <3>3. QED
        BY <3>1, <3>2
    <2>2. ASSUME NEW a \in heap, NEW b \in heap, a.of.name \in Bytes, b.of.name \in Bytes,
                 TextOf[a.of.name] = TextOf[b.of.name], BucketOf[a.of.name] = BucketOf[b.of.name]
          PROVE  a = b
      <3>1. BucketOf[a.of.name] \in Buckets
        BY <2>2 DEF Buckets
      <3>2. QED
        BY <1>1, <2>2, <3>1 DEF Inv, Shared, HeapIsIndexed
    <2>3. QED
      BY <2>1, <2>2 DEF OneObject
  <1>2. QED
    BY <1>1, Inductive, PTL

\* Neither a mirror, nor the string table, nor a class or member, nor a thread
\* in Java ever points to an object the collector has deleted (clearHolder,
\* gcStringOop), however deep natives nest; nor do the C++ variables of a
\* native, but those of an invokedynamic in which another guard has ended.
THEOREM PointsToLivingHolds == Spec => []PointsToLiving
  <1>1. ASSUME Inv PROVE PointsToLiving
    BY <1>1 DEF Inv, Shared, HeapIsIndexed, ReferencesAreFlat, PointsToLiving
  <1>2. QED
    BY <1>1, Inductive, PTL

\* No name is in the class map twice, and the map is not used while it changes,
\* as long as no class is defined from bytes: every other path to
\* classMap.emplace_unique holds clMutex (getClass against loadInstanceClass).
THEOREM OneClassPerNameHolds == Spec => []OneClassPerName
  <1>1. Inv => OneClassPerName
    BY DEF Inv, Shared
  <1>2. QED
    BY <1>1, Inductive, PTL
==============================================================================
