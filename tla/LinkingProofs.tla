---------------------------- MODULE LinkingProofs ----------------------------
(***************************************************************************)
(* TLAPS proofs about Linking.tla, for any programs of well-formed class   *)
(* files whose classes are consistent, and for any instructions: a type    *)
(* test agrees with the supertypes, invokevirtual runs the most derived    *)
(* method, and the cache of a frame never changes what a use finds.        *)
(*                                                                         *)
(* Reached is a recursive function without a natural number to count down  *)
(* on.  It is well defined because a class is loaded after its supertypes: *)
(* the rank of a class is its place in the order of loading, and every     *)
(* argument about supertypes goes by induction over ranks.                 *)
(***************************************************************************)
EXTENDS Linking, ClassFileProofs

\* What one step leads to, and what those lead to in turn.
Beyond(direct, f, n) ==
    direct[n] \cup UNION {f[d] : d \in direct[n] \cap DOMAIN direct}

\* Every step goes down, from below a bound.
GoesDown(direct, rank, bound) ==
    /\ bound \in Nat
    /\ \A n \in DOMAIN direct : rank[n] \in Nat /\ rank[n] < bound
    /\ \A n \in DOMAIN direct : \A d \in direct[n] \cap DOMAIN direct : rank[d] < rank[n]

\* Beyond depends on what is below only.
LEMMA BeyondBelow ==
  ASSUME NEW direct, NEW rank, NEW bound, GoesDown(direct, rank, bound),
         NEW f, NEW g, NEW n \in DOMAIN direct,
         \A d \in DOMAIN direct : rank[d] < rank[n] => f[d] = g[d]
  PROVE  Beyond(direct, f, n) = Beyond(direct, g, n)
  <1>1. \A d \in direct[n] \cap DOMAIN direct : f[d] = g[d]
    BY DEF GoesDown
  <1>2. {f[d] : d \in direct[n] \cap DOMAIN direct} = {g[d] : d \in direct[n] \cap DOMAIN direct}
    BY <1>1
  <1>3. QED
    BY <1>2, Zenon DEF Beyond

\* The recursive function exists, and solves its equation.
LEMMA ReachedIs ==
  ASSUME NEW direct, NEW rank, NEW bound, GoesDown(direct, rank, bound)
  PROVE  \A n \in DOMAIN direct : Reached(direct)[n] = Beyond(direct, Reached(direct), n)
  <1> DEFINE D == DOMAIN direct
             Solves(f, m) == \A n \in D : rank[n] < m => f[n] = Beyond(direct, f, n)
             S == {m \in Nat : \E f : Solves(f, m)}
  <1>1. bound \in Nat /\ \A n \in D : rank[n] \in Nat /\ rank[n] < bound
    BY DEF GoesDown
  <1>2. 0 \in S
    <2>1. \A n \in D : ~(rank[n] < 0)
      BY <1>1
    <2>2. QED
      BY <2>1
  <1>3. ASSUME NEW m \in Nat, m \in S PROVE m + 1 \in S
    <2>1. PICK f : Solves(f, m)
      BY <1>3
    <2> DEFINE g == [n \in D |-> IF rank[n] < m THEN f[n] ELSE Beyond(direct, f, n)]
    <2>2. \A n \in D : g[n] = IF rank[n] < m THEN f[n] ELSE Beyond(direct, f, n)
      BY Zenon
    <2> HIDE DEF g
    <2>3. ASSUME NEW n \in D, rank[n] < m + 1 PROVE g[n] = Beyond(direct, g, n)
      <3>1. \A d \in D : rank[d] < rank[n] => g[d] = f[d]
        BY <1>1, <2>2, <2>3
      <3>2. Beyond(direct, g, n) = Beyond(direct, f, n)
        BY <3>1, BeyondBelow
      <3>3. g[n] = Beyond(direct, f, n)
        BY <2>1, <2>2
      <3>4. QED
        BY <3>2, <3>3
    <2>4. Solves(g, m + 1)
      BY <2>3
    <2>5. QED
      BY <2>4
  <1> HIDE DEF S
  <1>4. bound \in S
    BY <1>1, <1>2, <1>3, Induction
  <1>5. PICK f : Solves(f, bound)
    BY <1>4 DEF S
  <1> DEFINE h == [n \in D |-> f[n]]
  <1>6. \A n \in D : h[n] = f[n]
    BY Zenon
  <1> HIDE DEF h
  <1>7. \A n \in D : f[n] = Beyond(direct, h, n)
    <2> SUFFICES ASSUME NEW n \in D PROVE f[n] = Beyond(direct, h, n)
      OBVIOUS
    <2>1. Beyond(direct, h, n) = Beyond(direct, f, n)
      BY <1>6, BeyondBelow
    <2>2. QED
      BY <1>1, <1>5, <2>1
  <1>8. h = [n \in DOMAIN direct |-> Beyond(direct, h, n)]
    BY <1>6, <1>7 DEF h
  <1> DEFINE r == CHOOSE k : k = [n \in DOMAIN direct |->
                     direct[n] \cup UNION {k[d] : d \in direct[n] \cap DOMAIN direct}]
  <1>9. r = [n \in DOMAIN direct |->
                     direct[n] \cup UNION {r[d] : d \in direct[n] \cap DOMAIN direct}]
    BY <1>8, Zenon DEF Beyond
  <1>10. Reached(direct) = r
    BY Zenon DEF Reached
  <1> HIDE DEF r
  <1>11. QED
    BY <1>9, <1>10, Zenon DEF Beyond

-----------------------------------------------------------------------------
(* Supertypes *)

\* What holds of every member, as it does of each whose lesser ones have it.
LEMMA RankInduction ==
  ASSUME NEW D, NEW rank, \A n \in D : rank[n] \in Nat, NEW T,
         \A n \in D : (\A d \in D : rank[d] < rank[n] => d \in T) => n \in T
  PROVE  D \subseteq T
  <1> DEFINE S == {m \in Nat : \A n \in D : rank[n] < m => n \in T}
  <1>1. 0 \in S
    <2>1. \A n \in D : ~(rank[n] < 0)
      OBVIOUS
    <2>2. QED
      BY <2>1
  <1>2. ASSUME NEW m \in Nat, m \in S PROVE m + 1 \in S
    <2>1. ASSUME NEW n \in D, rank[n] < m + 1 PROVE n \in T
      <3>1. \A d \in D : rank[d] < rank[n] => rank[d] < m
        BY <2>1
      <3>2. QED
        BY <1>2, <3>1
    <2>2. QED
      BY <2>1
  <1> HIDE DEF S
  <1>3. ASSUME NEW n \in D PROVE n \in T
    <2>1. rank[n] + 1 \in S
      BY <1>1, <1>2, Induction
    <2>2. QED
      BY <2>1 DEF S
  <1>4. QED
    BY <1>3

Special == {JAVA_LANG_OBJECT_NAME, JAVA_LANG_CLONEABLE_NAME, JAVA_IO_SERIALIZABLE_NAME}

\* The classes are ranked, and all supertypes of a class rank below it.
Hierarchy(rank, bound) ==
    /\ bound \in Nat
    /\ \A n \in DOMAIN library :
           /\ rank[n] \in Nat /\ rank[n] < bound
           /\ n # <<>> /\ ~IsArray(n)
           /\ n # JAVA_LANG_OBJECT_NAME => rank[JAVA_LANG_OBJECT_NAME] < rank[n]
           /\ library[n].interfaces \in Seq(DOMAIN library)
           /\ \A t \in Interfaces(n) : IsInterface(t) /\ rank[t] < rank[n]
           /\ (IsInterface(n) \/ n = JAVA_LANG_OBJECT_NAME) => library[n].superClass = <<>>
           /\ ~(IsInterface(n) \/ n = JAVA_LANG_OBJECT_NAME) =>
                  /\ library[n].superClass \in DOMAIN library
                  /\ ~IsInterface(library[n].superClass)
                  /\ rank[library[n].superClass] < rank[n]
    /\ JAVA_LANG_OBJECT_NAME \in DOMAIN library /\ ~IsInterface(JAVA_LANG_OBJECT_NAME)
    /\ \A n \in Special \cap DOMAIN library : Interfaces(n) = {}
    /\ \A n \in {JAVA_LANG_CLONEABLE_NAME, JAVA_IO_SERIALIZABLE_NAME} \cap DOMAIN library :
           IsInterface(n)

InterfaceSteps == [n \in DOMAIN library |-> Interfaces(n)]
SuperSteps == [n \in DOMAIN library |-> DirectSupers(n)]
SuperInterfaces(n) == Reached(InterfaceSteps)[n]
Ancestors(n) == Reached(SuperSteps)[n]

\* The interfaces of an interface or a class, and those that they have.
LEMMA SuperInterfacesAre ==
  ASSUME NEW rank, NEW bound, Hierarchy(rank, bound), NEW n \in DOMAIN library
  PROVE  /\ Interfaces(n) \subseteq DOMAIN library
         /\ SuperInterfaces(n) =
                Interfaces(n) \cup UNION {SuperInterfaces(d) : d \in Interfaces(n)}
  <1>1. ASSUME NEW m \in DOMAIN library
        PROVE  /\ Interfaces(m) \subseteq DOMAIN library
               /\ rank[m] \in Nat /\ rank[m] < bound /\ bound \in Nat
               /\ \A t \in Interfaces(m) : rank[t] < rank[m]
    BY DEF Hierarchy, IsInterface, IsInstanceClass
  <1>2. /\ DOMAIN InterfaceSteps = DOMAIN library
        /\ \A m \in DOMAIN library : InterfaceSteps[m] = Interfaces(m)
    BY DEF InterfaceSteps
  <1>3. bound \in Nat
    BY DEF Hierarchy
  <1>4. GoesDown(InterfaceSteps, rank, bound)
    BY <1>1, <1>2, <1>3 DEF GoesDown
  <1>5. SuperInterfaces(n) = Beyond(InterfaceSteps, Reached(InterfaceSteps), n)
    BY <1>2, <1>4, ReachedIs DEF SuperInterfaces
  <1>6. InterfaceSteps[n] \cap DOMAIN InterfaceSteps = Interfaces(n) /\ InterfaceSteps[n] = Interfaces(n)
    BY <1>1, <1>2
  <1>7. QED
    BY <1>1, <1>5, <1>6, Zenon DEF Beyond, SuperInterfaces

\* The supertypes one step up.
LEMMA DirectSupersAre ==
  ASSUME NEW rank, NEW bound, Hierarchy(rank, bound), NEW n \in DOMAIN library
  PROVE  /\ DirectSupers(JAVA_LANG_OBJECT_NAME) = {}
         /\ IsInterface(n) => DirectSupers(n) = Interfaces(n) \cup {JAVA_LANG_OBJECT_NAME}
         /\ ~IsInterface(n) /\ n # JAVA_LANG_OBJECT_NAME =>
                DirectSupers(n) = Interfaces(n) \cup {library[n].superClass}
         /\ \A d \in DirectSupers(n) : d \in DOMAIN library /\ rank[d] < rank[n]
  <1>1. /\ ~IsArray(n) /\ ~IsArray(JAVA_LANG_OBJECT_NAME) /\ IsInstanceClass(n)
        /\ JAVA_LANG_OBJECT_NAME \in DOMAIN library /\ ~IsInterface(JAVA_LANG_OBJECT_NAME)
    BY DEF Hierarchy, IsInstanceClass
  <1>2. DirectSupers(JAVA_LANG_OBJECT_NAME) = {}
    BY <1>1 DEF DirectSupers
  <1>3. \A t \in Interfaces(n) : t \in DOMAIN library /\ rank[t] < rank[n]
    BY DEF Hierarchy, IsInterface, IsInstanceClass
  <1>4. CASE IsInterface(n)
    <2>1. n # JAVA_LANG_OBJECT_NAME
      BY <1>1, <1>4
    <2>2. DirectSupers(n) = Interfaces(n) \cup {JAVA_LANG_OBJECT_NAME}
      BY <1>1, <1>4, <2>1 DEF DirectSupers
    <2>3. rank[JAVA_LANG_OBJECT_NAME] < rank[n]
      BY <2>1 DEF Hierarchy
    <2>4. QED
      BY <1>1, <1>2, <1>3, <1>4, <2>2, <2>3
  <1>5. CASE ~IsInterface(n) /\ n # JAVA_LANG_OBJECT_NAME
    <2>1. DirectSupers(n) = Interfaces(n) \cup {library[n].superClass}
      BY <1>1, <1>5 DEF DirectSupers
    <2>2. library[n].superClass \in DOMAIN library /\ rank[library[n].superClass] < rank[n]
      BY <1>5 DEF Hierarchy
    <2>3. QED
      BY <1>2, <1>3, <1>5, <2>1, <2>2
  <1>6. QED
    BY <1>1, <1>2, <1>4, <1>5

\* The supertypes of a class, and those that they have.
LEMMA SupersAre ==
  ASSUME NEW rank, NEW bound, Hierarchy(rank, bound), NEW n \in DOMAIN library
  PROVE  /\ Ancestors(n) = DirectSupers(n) \cup UNION {Ancestors(d) : d \in DirectSupers(n)}
         /\ Supertypes(n) = {n} \cup Ancestors(n)
  <1>1. ASSUME NEW m \in DOMAIN library
        PROVE  /\ DirectSupers(m) \subseteq DOMAIN library
               /\ rank[m] \in Nat /\ rank[m] < bound
               /\ \A t \in DirectSupers(m) : rank[t] < rank[m]
    <2>1. rank[m] \in Nat /\ rank[m] < bound
      BY DEF Hierarchy
    <2>2. QED
      BY <2>1, DirectSupersAre
  <1>2. /\ DOMAIN SuperSteps = DOMAIN library
        /\ \A m \in DOMAIN library : SuperSteps[m] = DirectSupers(m)
    BY DEF SuperSteps
  <1>3. bound \in Nat
    BY DEF Hierarchy
  <1>4. GoesDown(SuperSteps, rank, bound)
    BY <1>1, <1>2, <1>3 DEF GoesDown
  <1>5. Ancestors(n) = Beyond(SuperSteps, Reached(SuperSteps), n)
    BY <1>2, <1>4, ReachedIs DEF Ancestors
  <1>6. SuperSteps[n] \cap DOMAIN SuperSteps = DirectSupers(n) /\ SuperSteps[n] = DirectSupers(n)
    BY <1>1, <1>2
  <1>7. DOMAIN library \cup {n} = DOMAIN library
    OBVIOUS
  <1>8. Supertypes(n) = {n} \cup Ancestors(n)
    BY <1>7, Zenon DEF Supertypes, Ancestors, SuperSteps
  <1>9. QED
    BY <1>5, <1>6, <1>8, Zenon DEF Beyond, Ancestors

\* An array has three supertypes.
LEMMA ArraySupertypes ==
  ASSUME NEW rank, NEW bound, Hierarchy(rank, bound), NEW s, IsArray(s)
  PROVE  s \notin DOMAIN library /\ Supertypes(s) = {s} \cup Special
  <1> DEFINE O == JAVA_LANG_OBJECT_NAME
             E == [c \in DOMAIN library \cup {s} |-> DirectSupers(c)]
             above == [c \in DOMAIN library \cup {s} |-> IF c = s THEN bound ELSE rank[c]]
  <1>1. s \notin DOMAIN library /\ bound \in Nat /\ O \in DOMAIN library
    BY DEF Hierarchy
  <1>2. DirectSupers(s) = Special
    BY Zenon DEF DirectSupers, Special
  <1>3. ASSUME NEW n \in DOMAIN library
        PROVE  /\ rank[n] \in Nat /\ rank[n] < bound
               /\ \A d \in DirectSupers(n) : d \in DOMAIN library /\ rank[d] < rank[n]
    <2>1. rank[n] \in Nat /\ rank[n] < bound
      BY DEF Hierarchy
    <2>2. QED
      BY <2>1, DirectSupersAre
  <1>4. /\ DOMAIN E = DOMAIN library \cup {s}
        /\ E[s] = Special /\ \A n \in DOMAIN library : E[n] = DirectSupers(n)
    BY <1>2
  <1>5. above[s] = bound /\ \A n \in DOMAIN library : above[n] = rank[n]
    BY <1>1
  <1> HIDE DEF above
  <1>6. GoesDown(E, above, bound + 1)
    <2>1. \A n \in DOMAIN E : above[n] \in Nat /\ above[n] < bound + 1
      BY <1>1, <1>3, <1>4, <1>5
    <2>2. ASSUME NEW n \in DOMAIN E, NEW d \in E[n] \cap DOMAIN E PROVE above[d] < above[n]
      <3>1. CASE n = s
        <4>1. s \notin Special
          <5>1. O # s
            BY <1>1
          <5>2. ~IsArray(JAVA_LANG_CLONEABLE_NAME) /\ ~IsArray(JAVA_IO_SERIALIZABLE_NAME)
            BY DEF IsArray, JAVA_LANG_CLONEABLE_NAME, JAVA_IO_SERIALIZABLE_NAME
          <5>3. QED
            BY <5>1, <5>2 DEF Special
        <4>2. d \in DOMAIN library
          BY <1>4, <2>2, <3>1, <4>1
        <4>3. QED
          BY <1>3, <1>5, <3>1, <4>2
      <3>2. CASE n # s
        BY <1>1, <1>3, <1>4, <1>5, <2>2, <3>2
      <3>3. QED
        BY <3>1, <3>2
    <2> HIDE DEF E
    <2>3. bound + 1 \in Nat
      BY <1>1
    <2>4. QED
      BY <2>1, <2>2, <2>3 DEF GoesDown
  <1> DEFINE R(n) == Reached(E)[n]
  <1>7. \A n \in DOMAIN E : R(n) = Beyond(E, Reached(E), n)
    BY <1>6, ReachedIs
  <1>8. R(O) = {}
    <2>1. O \in DOMAIN library /\ DirectSupers(O) = {}
      BY <1>1, DirectSupersAre
    <2>2. E[O] = {} /\ O \in DOMAIN E
      BY <1>4, <2>1
    <2> HIDE DEF E
    <2>3. R(O) = Beyond(E, Reached(E), O)
      BY <1>7, <2>2
    <2>4. QED
      BY <2>2, <2>3 DEF Beyond
  <1>9. ASSUME NEW n \in Special, n # O, n \in DOMAIN library PROVE R(n) = {O}
    <2>1. IsInterface(n) /\ Interfaces(n) = {}
      BY <1>9 DEF Special, Hierarchy
    <2>2. DirectSupers(n) = {O}
      BY <2>1, <1>9, DirectSupersAre
    <2>3. E[n] = {O} /\ n \in DOMAIN E /\ O \in DOMAIN E
      BY <1>1, <1>4, <1>9, <2>2
    <2> HIDE DEF E, O
    <2>4. R(n) = Beyond(E, Reached(E), n)
      BY <1>7, <2>3
    <2>5. QED
      BY <1>8, <2>3, <2>4 DEF Beyond
  <1>10. R(s) = Special
    <2> HIDE DEF E, O
    <2>1. R(s) = Special \cup UNION {R(d) : d \in Special \cap DOMAIN E}
      BY <1>4, <1>7, Zenon DEF Beyond
    <2>2. ASSUME NEW d \in Special \cap DOMAIN E PROVE R(d) \subseteq Special
      <3>1. s \notin Special
        <5>1. O # s
          BY <1>1
        <5>2. ~IsArray(JAVA_LANG_CLONEABLE_NAME) /\ ~IsArray(JAVA_IO_SERIALIZABLE_NAME)
          BY DEF IsArray, JAVA_LANG_CLONEABLE_NAME, JAVA_IO_SERIALIZABLE_NAME
        <5>3. QED
          BY <5>1, <5>2 DEF Special, O
      <3>2. d \in DOMAIN library
        BY <1>4, <2>2, <3>1
      <3>3. O \in Special
        BY DEF Special, O
      <3>4. QED
        BY <1>8, <1>9, <2>2, <3>2, <3>3
    <2>3. QED
      BY <2>1, <2>2
  <1>11. Supertypes(s) = {s} \cup R(s)
    BY Zenon DEF Supertypes
  <1>12. QED
    BY <1>1, <1>10, <1>11

\* The supertypes of an interface are its interfaces, and Object.
LEMMA InterfaceSupertypes ==
  ASSUME NEW rank, NEW bound, Hierarchy(rank, bound)
  PROVE  \A n \in DOMAIN library :
             /\ \A t \in SuperInterfaces(n) : IsInterface(t)
             /\ IsInterface(n) => Ancestors(n) = SuperInterfaces(n) \cup {JAVA_LANG_OBJECT_NAME}
  <1> DEFINE O == JAVA_LANG_OBJECT_NAME
             T == {n \in DOMAIN library :
                      /\ \A t \in SuperInterfaces(n) : IsInterface(t)
                      /\ IsInterface(n) => Ancestors(n) = SuperInterfaces(n) \cup {O}}
  <1>1. \A n \in DOMAIN library : rank[n] \in Nat
    BY DEF Hierarchy
  <1>2. Ancestors(O) = {}
    <2>1. O \in DOMAIN library /\ DirectSupers(O) = {}
      BY DirectSupersAre DEF Hierarchy
    <2>2. QED
      BY <2>1, SupersAre
  <1>3. ASSUME NEW n \in DOMAIN library,
               \A d \in DOMAIN library : rank[d] < rank[n] => d \in T
        PROVE  n \in T
    <2>1. \A t \in Interfaces(n) : IsInterface(t) /\ t \in T
      <3>1. \A t \in Interfaces(n) : IsInterface(t) /\ rank[t] < rank[n]
        BY DEF Hierarchy
      <3>2. QED
        BY <1>3, <3>1, SuperInterfacesAre
    <2>2. SuperInterfaces(n) = Interfaces(n) \cup UNION {SuperInterfaces(d) : d \in Interfaces(n)}
      BY SuperInterfacesAre
    <2>3. \A t \in SuperInterfaces(n) : IsInterface(t)
      BY <2>1, <2>2
    <2>4. ASSUME IsInterface(n) PROVE Ancestors(n) = SuperInterfaces(n) \cup {O}
      <3>1. Ancestors(n) = DirectSupers(n) \cup UNION {Ancestors(d) : d \in DirectSupers(n)}
        BY SupersAre
      <3>2. DirectSupers(n) = Interfaces(n) \cup {O}
        BY <2>4, DirectSupersAre
      <3>3. \A d \in Interfaces(n) : Ancestors(d) = SuperInterfaces(d) \cup {O}
        BY <2>1
      <3> HIDE DEF O
      <3>4. UNION {Ancestors(d) : d \in DirectSupers(n)}
            = Ancestors(O) \cup UNION {Ancestors(d) : d \in Interfaces(n)}
        BY <3>2
      <3>5. ASSUME NEW x
            PROVE  x \in Ancestors(n) <=> x \in SuperInterfaces(n) \cup {O}
        <4>1. x \in Ancestors(n) <=> \/ x \in Interfaces(n) \/ x = O
                                 \/ \E d \in Interfaces(n) : x \in Ancestors(d)
          BY <1>2, <3>1, <3>2, <3>4
        <4>2. x \in SuperInterfaces(n) <=> \/ x \in Interfaces(n)
                                          \/ \E d \in Interfaces(n) : x \in SuperInterfaces(d)
          BY <2>2
        <4>3. \A d \in Interfaces(n) : x \in Ancestors(d) <=> x \in SuperInterfaces(d) \/ x = O
          BY <3>3
        <4>4. QED
          BY <4>1, <4>2, <4>3, Zenon
      <3>6. QED
        BY <3>5
    <2>5. QED
      BY <2>3, <2>4
  <1> HIDE DEF T
  <1>4. DOMAIN library \subseteq T
    BY <1>1, <1>3, RankInduction
  <1>5. QED
    BY <1>4 DEF T
-----------------------------------------------------------------------------
(* The superclasses of a class *)

\* A sequence with one more in front.
LEMMA Pushed ==
  ASSUME NEW U, NEW s \in Seq(U), NEW x \in U
  PROVE  LET t == <<x>> \o s
             n == Len(s)
         IN /\ n \in Nat /\ t \in Seq(U) /\ Len(t) = n + 1 /\ DOMAIN t = 1 .. n + 1
            /\ t[1] = x /\ \A i \in 1 .. n : t[i + 1] = s[i]
            /\ \A i \in 1 .. n + 1 : i = 1 \/ (i - 1 \in 1 .. n /\ t[i] = s[i - 1])
            /\ Range(t) = {x} \cup Range(s)
  <1> DEFINE t == <<x>> \o s
             n == Len(s)
  <1>1. n \in Nat /\ DOMAIN s = 1 .. n
    BY SeqHas
  <1>2. <<x>> \in Seq(U) /\ Len(<<x>>) = 1 /\ <<x>>[1] = x
    OBVIOUS
  <1>3. t \in Seq(U) /\ Len(t) = n + 1
    BY <1>1, <1>2, ConcatProperties
  <1>4. t[1] = x /\ \A i \in 1 .. n : t[i + 1] = s[i]
    BY <1>1
  <1>5. DOMAIN t = 1 .. n + 1
    BY <1>3, SeqHas
  <1> HIDE DEF t, n
  <1>6. \A i \in 1 .. n + 1 : i = 1 \/ (i - 1 \in 1 .. n /\ (i - 1) + 1 = i)
    BY <1>1
  <1>7. \A i \in 1 .. n + 1 : i = 1 \/ (i - 1 \in 1 .. n /\ t[i] = s[i - 1])
    BY <1>4, <1>6
  <1>8. Range(t) = {x} \cup Range(s)
    <2>1. \A i \in 1 .. n : i + 1 \in 1 .. n + 1
      BY <1>1
    <2>2. 1 \in 1 .. n + 1
      BY <1>1
    <2>3. \A y \in Range(t) : y \in {x} \cup Range(s)
      <3> SUFFICES ASSUME NEW i \in 1 .. n + 1 PROVE t[i] \in {x} \cup Range(s)
        BY <1>5 DEF Range
      <3>1. CASE i = 1
        BY <1>4, <3>1
      <3>2. CASE i - 1 \in 1 .. n /\ t[i] = s[i - 1]
        BY <1>1, <3>2 DEF Range
      <3>3. QED
        BY <1>7, <3>1, <3>2
    <2>4. \A y \in {x} \cup Range(s) : y \in Range(t)
      BY <1>1, <1>4, <1>5, <2>1, <2>2 DEF Range
    <2>5. QED
      BY <2>3, <2>4
  <1>9. QED
    BY <1>1, <1>3, <1>4, <1>5, <1>7, <1>8 DEF t, n

\* The chain of a class is the class, and the chain of its superclass.
LEMMA ChainFrom ==
  ASSUME NEW rank, NEW bound, Hierarchy(rank, bound), NEW f, ShelvedBy(library, f),
         NEW n \in DOMAIN library
  PROVE  LET p == library[n].superClass
         IN /\ SuperChain(n) \in Seq(DOMAIN library)
            /\ p \notin DOMAIN library => SuperChain(n) = <<>>
            /\ p \in DOMAIN library => SuperChain(n) = Chain(p)
  <1> DEFINE K == {library[m] : m \in DOMAIN library}
             names(ks) == [i \in DOMAIN ks |-> ks[i].name]
  <1>1. ASSUME NEW m \in DOMAIN library
        PROVE  SuperChain(m) = names(f[m]) /\ f[m] = ChainIn(library, f, library[m]) /\ f[m] \in Seq(K)
    <2>1. SuperClasses(library[m]) = AboveIn(library, library[m])
      BY Zenon DEF SuperClasses, AboveIn, Super, SuperIn
    <2>2. AboveIn(library, library[m]) = ChainIn(library, f, library[m])
      BY AboveIs
    <2>3. f[m] = ChainIn(library, f, library[m])
      BY DEF ShelvedBy, IsAbove
    <2>4. ~IsArray(m)
      BY DEF Hierarchy
    <2>5. SuperChain(m) = names(SuperClasses(library[m]))
      BY <2>4, Zenon DEF SuperChain
    <2>6. f[m] \in Seq(K)
      BY DEF ShelvedBy
    <2>7. QED
      BY <2>1, <2>2, <2>3, <2>5, <2>6
  <1>2. ASSUME NEW m \in DOMAIN library
        PROVE  names(f[m]) \in Seq(DOMAIN library) /\ Len(names(f[m])) = Len(f[m])
    <2>1. \A k \in K : k.name \in DOMAIN library
      BY DEF ShelvedBy
    <2>2. f[m] \in Seq(K)
      BY <1>1
    <2> HIDE DEF K
    <2>3. Len(f[m]) \in Nat /\ DOMAIN f[m] = 1 .. Len(f[m]) /\ \A i \in 1 .. Len(f[m]) : f[m][i] \in K
      BY <2>2, SeqHas
    <2> DEFINE s == names(f[m])
    <2>4. s = [i \in 1 .. Len(f[m]) |-> s[i]] /\ \A i \in 1 .. Len(f[m]) : s[i] \in DOMAIN library
      BY <2>1, <2>3
    <2> HIDE DEF s
    <2>5. s \in Seq(DOMAIN library) /\ Len(s) = Len(f[m])
      BY <2>3, <2>4, SeqIs
    <2>6. QED
      BY <2>5 DEF s
  <1> DEFINE p == library[n].superClass
  <1>3. CASE p \notin DOMAIN library
    <2>1. f[n] = <<>>
      <3>1. ChainIn(library, f, library[n]) = <<>>
        BY <1>3, ChainIs, Zenon
      <3>2. QED
        BY <1>1, <3>1
    <2>2. names(f[n]) = <<>>
      BY <2>1
    <2>3. QED
      BY <1>1, <1>2, <1>3, <2>2
  <1>4. CASE p \in DOMAIN library
    <2>1. f[n] = <<library[p]>> \o f[p]
      <3>1. ChainIn(library, f, library[n]) = <<library[p]>> \o f[p]
        BY <1>4, ChainIs, Zenon
      <3>2. QED
        BY <1>1, <3>1
    <2>2. library[p].name = p /\ library[p] \in K /\ f[p] \in Seq(K)
      BY <1>1, <1>4 DEF ShelvedBy
    <2>3. SuperChain(p) = names(f[p])
      BY <1>1, <1>4
    <2>4. Chain(p) = <<p>> \o names(f[p])
      BY <2>3 DEF Chain
    <2> HIDE DEF K
    <2> DEFINE l == Len(f[p])
    <2>5. /\ l \in Nat /\ DOMAIN f[n] = 1 .. l + 1 /\ f[n][1] = library[p]
          /\ \A i \in 1 .. l + 1 : i = 1 \/ (i - 1 \in 1 .. l /\ f[n][i] = f[p][i - 1])
      BY <2>1, <2>2, Pushed
    <2>6. names(f[p]) \in Seq(DOMAIN library) /\ Len(names(f[p])) = l
      BY <1>2, <1>4
    <2> DEFINE u == names(f[p])
               t == <<p>> \o u
               s == names(f[n])
    <2>7. u = [i \in 1 .. l |-> f[p][i].name]
      <3>1. DOMAIN f[p] = 1 .. l
        BY <2>2, SeqHas
      <3>2. QED
        BY <3>1
    <2>8. s = [i \in 1 .. l + 1 |-> f[n][i].name]
      BY <2>5
    <2> HIDE DEF u, s
    <2>9. /\ t \in Seq(DOMAIN library) /\ Len(t) = l + 1 /\ t[1] = p
          /\ \A i \in 1 .. l + 1 : i = 1 \/ (i - 1 \in 1 .. l /\ t[i] = u[i - 1])
      <3>1. u \in Seq(DOMAIN library) /\ Len(u) = l /\ p \in DOMAIN library
        BY <1>4, <2>6 DEF u
      <3> HIDE DEF l, p
      <3>2. QED
        BY <3>1, Pushed
    <2>10. \A i \in 1 .. l + 1 : s[i] = t[i]
      <3> SUFFICES ASSUME NEW i \in 1 .. l + 1 PROVE s[i] = t[i]
        OBVIOUS
      <3>1. CASE i = 1
        BY <2>2, <2>5, <2>8, <2>9, <3>1
      <3>2. CASE i - 1 \in 1 .. l /\ f[n][i] = f[p][i - 1] /\ t[i] = u[i - 1]
        BY <2>7, <2>8, <3>2
      <3>3. QED
        BY <2>5, <2>9, <3>1, <3>2
    <2>11. s \in Seq(DOMAIN library) /\ Len(s) = l + 1
      <3>1. s = names(f[n]) /\ Len(f[n]) = l + 1
        <4>1. Len(f[n]) = l + 1
          BY <2>1, <2>2, Pushed
        <4>2. QED
          BY <4>1 DEF s
      <3>2. QED
        BY <1>2, <3>1
    <2> HIDE DEF t
    <2>12. s = t
      <3>1. Len(s) = Len(t) /\ \A i \in 1 .. Len(s) : s[i] = t[i]
        BY <2>9, <2>10, <2>11
      <3>2. QED
        BY <2>9, <2>11, <3>1, SeqEqual
    <2>13. SuperChain(n) = s /\ Chain(p) = t
      BY <1>1, <2>4 DEF s, t, u
    <2>14. QED
      BY <1>4, <2>11, <2>12, <2>13
  <1>5. QED
    BY <1>3, <1>4

\* A class's supertypes: its superclasses, up to Object, and the interfaces of
\* each of them.
FromChain(n) ==
    /\ \A c \in Range(Chain(n)) : c \in DOMAIN library /\ ~IsInterface(c)
    /\ JAVA_LANG_OBJECT_NAME \in Range(Chain(n))
    /\ \A x : x \in {n} \cup Ancestors(n) <=> \/ x \in Range(Chain(n))
                                          \/ \E c \in Range(Chain(n)) : x \in SuperInterfaces(c)

\* The supertypes of a loaded class are those of its chain.
LEMMA ClassSupertypes ==
  ASSUME NEW rank, NEW bound, Hierarchy(rank, bound), NEW f, ShelvedBy(library, f)
  PROVE  \A n \in DOMAIN library : ~IsInterface(n) => FromChain(n)
  <1> DEFINE O == JAVA_LANG_OBJECT_NAME
             T == {n \in DOMAIN library : ~IsInterface(n) => FromChain(n)}
  <1>1. \A n \in DOMAIN library : rank[n] \in Nat
    BY DEF Hierarchy
  <1>2. ASSUME NEW n \in DOMAIN library
        PROVE  /\ Range(Chain(n)) = {n} \cup Range(SuperChain(n))
               /\ Range(<<>>) = {}
    <2>1. SuperChain(n) \in Seq(DOMAIN library)
      BY ChainFrom
    <2>2. Range(<<n>> \o SuperChain(n)) = {n} \cup Range(SuperChain(n))
      BY <2>1, Pushed
    <2>3. Range(<<>>) = {}
      BY DEF Range
    <2>4. QED
      BY <2>2, <2>3 DEF Chain
  <1>3. FromChain(O)
    <2>1. O \in DOMAIN library /\ ~IsInterface(O) /\ library[O].superClass = <<>> /\ Interfaces(O) = {}
          /\ <<>> \notin DOMAIN library
      BY DEF Hierarchy, Special
    <2>2. SuperChain(O) = <<>>
      BY <2>1, ChainFrom
    <2>3. Range(Chain(O)) = {O}
      BY <1>2, <2>1, <2>2
    <2>4. DirectSupers(O) = {}
      BY <2>1, DirectSupersAre
    <2>5. Ancestors(O) = {}
      BY <2>1, <2>4, SupersAre
    <2>6. SuperInterfaces(O) = {}
      BY <2>1, SuperInterfacesAre
    <2> HIDE DEF O
    <2>7. QED
      BY <2>1, <2>3, <2>5, <2>6 DEF FromChain, O
  <1>4. ASSUME NEW n \in DOMAIN library, ~IsInterface(n), n # O,
               \A d \in DOMAIN library : rank[d] < rank[n] => d \in T
        PROVE  FromChain(n)
    <2> DEFINE p == library[n].superClass
    <2>1. p \in DOMAIN library /\ ~IsInterface(p) /\ rank[p] < rank[n]
      BY <1>4 DEF Hierarchy
    <2>2. FromChain(p)
      BY <1>4, <2>1
    <2>3. SuperChain(n) = Chain(p)
      BY <2>1, ChainFrom
    <2>4. DirectSupers(n) = Interfaces(n) \cup {p}
      BY <1>4, DirectSupersAre
    <2> HIDE DEF p, O, T
    <2>5. Range(Chain(n)) = {n} \cup Range(Chain(p))
      BY <1>2, <2>3
    <2>6. \A x : x \in Ancestors(n) <=> \/ x \in Interfaces(n) \/ x = p \/ x \in Ancestors(p)
                                    \/ \E i \in Interfaces(n) : x \in Ancestors(i)
      <3>1. Ancestors(n) = DirectSupers(n) \cup UNION {Ancestors(d) : d \in DirectSupers(n)}
        BY SupersAre
      <3>2. QED
        BY <2>4, <3>1
    <2>7. \A x : x \in SuperInterfaces(n) <=> \/ x \in Interfaces(n)
                                             \/ \E i \in Interfaces(n) : x \in SuperInterfaces(i)
      <3>1. SuperInterfaces(n) = Interfaces(n) \cup UNION {SuperInterfaces(d) : d \in Interfaces(n)}
        BY SuperInterfacesAre
      <3>2. QED
        BY <3>1
    <2>8. \A i \in Interfaces(n) : Ancestors(i) = SuperInterfaces(i) \cup {O}
      <3>1. \A i \in Interfaces(n) : i \in DOMAIN library /\ IsInterface(i)
        BY SuperInterfacesAre DEF Hierarchy
      <3>2. QED
        BY <3>1, InterfaceSupertypes DEF O
    <2>9. ASSUME NEW x
          PROVE  x \in {n} \cup Ancestors(n) <=> \/ x \in Range(Chain(n))
                                             \/ \E c \in Range(Chain(n)) : x \in SuperInterfaces(c)
      <3>1. x \in {p} \cup Ancestors(p) <=> \/ x \in Range(Chain(p))
                                        \/ \E c \in Range(Chain(p)) : x \in SuperInterfaces(c)
        BY <2>2 DEF FromChain
      <3>2. O \in Range(Chain(p))
        BY <2>2 DEF FromChain, O
      <3>3. \A i \in Interfaces(n) : x \in Ancestors(i) <=> x \in SuperInterfaces(i) \/ x = O
        BY <2>8
      <3>4. x \in {n} \cup Ancestors(n)
            <=> \/ x = n \/ x \in {p} \cup Ancestors(p) \/ x \in SuperInterfaces(n)
        <4>1. x = O => x \in {p} \cup Ancestors(p)
          BY <3>1, <3>2
        <4>2. QED
          BY <2>6, <2>7, <3>3, <4>1
      <3>5. QED
        BY <2>5, <3>1, <3>4
    <2>10. \A c \in Range(Chain(n)) : c \in DOMAIN library /\ ~IsInterface(c)
      BY <1>4, <2>2, <2>5 DEF FromChain
    <2>11. O \in Range(Chain(n))
      BY <2>2, <2>5 DEF FromChain, O
    <2>12. QED
      BY <2>9, <2>10, <2>11 DEF FromChain, O
  <1>5. \A n \in DOMAIN library : (\A d \in DOMAIN library : rank[d] < rank[n] => d \in T) => n \in T
    BY <1>3, <1>4
  <1> HIDE DEF T
  <1>6. DOMAIN library \subseteq T
    BY <1>1, <1>5, RankInduction
  <1>7. QED
    BY <1>6 DEF T

-----------------------------------------------------------------------------
(* Type tests *)

\* An object that has a class is taken for what its class is a subtype of.
LEMMA AssignableIs ==
  ASSUME NEW rank, NEW bound, Hierarchy(rank, bound), NEW f, ShelvedBy(library, f),
         NEW s, Concrete(s), NEW t, ~(IsArray(s) /\ IsArray(t))
  PROVE  IsAssignableFrom(t, s) = (t \in Supertypes(s))
  <1>1. CASE IsArray(s)
    <2>1. Supertypes(s) = {s} \cup Special
      BY <1>1, ArraySupertypes
    <2>2. s # t /\ ~IsArray(t)
      BY <1>1
    <2>3. IsAssignableFrom(t, s) = (t \in Special)
      <3>1. IsAssignableFrom(t, s) = (IsArray(t) \/ t \in Special)
        BY <1>1, <2>2, Zenon DEF IsAssignableFrom, Special
      <3>2. QED
        BY <2>2, <3>1
    <2>4. QED
      BY <2>1, <2>2, <2>3
  <1>2. CASE ~IsArray(s)
    <2>1. s \in DOMAIN library /\ ~IsInterface(s)
      BY <1>2 DEF Concrete, IsInstanceClass, IsInterface
    <2>2. FromChain(s) /\ Supertypes(s) = {s} \cup Ancestors(s)
      BY <2>1, ClassSupertypes, SupersAre
    <2>3. Range(Chain(s)) = {s} \cup Range(SuperChain(s))
      <3>1. SuperChain(s) \in Seq(DOMAIN library)
        BY <2>1, ChainFrom
      <3>2. QED
        BY <2>1, <3>1, Pushed DEF Chain
    <2>4. ASSUME s # t, IsInterface(t)
          PROVE  IsAssignableFrom(t, s) <=> t \in Supertypes(s)
      <3>1. IsAssignableFrom(t, s) <=> \E c \in Range(Chain(s)) : IsSubInterfaceOf(c, t)
        BY <1>2, <2>1, <2>4 DEF IsAssignableFrom, IsImplements, IsInstanceClass
      <3>2. t \notin Range(Chain(s))
        BY <2>2, <2>4 DEF FromChain
      <3>3. \A c \in Range(Chain(s)) : IsSubInterfaceOf(c, t) <=> t \in SuperInterfaces(c)
        BY <2>2, <2>4, Zenon DEF IsSubInterfaceOf, FromChain, IsInterface, IsInstanceClass,
                                 SuperInterfaces, InterfaceSteps
      <3>4. QED
        BY <2>2, <3>1, <3>2, <3>3 DEF FromChain
    <2>5. ASSUME s # t, ~IsInterface(t)
          PROVE  IsAssignableFrom(t, s) <=> t \in Supertypes(s)
      <3>1. IsAssignableFrom(t, s) <=> t \in Range(SuperChain(s))
        BY <1>2, <2>1, <2>5 DEF IsAssignableFrom, IsSubClassOf
      <3>2. \A c \in Range(Chain(s)) : t \notin SuperInterfaces(c)
        BY <2>2, <2>5, InterfaceSupertypes DEF FromChain
      <3>3. QED
        BY <2>2, <2>3, <2>5, <3>1, <3>2 DEF FromChain
    <2>6. IsAssignableFrom(s, s) = TRUE
      BY DEF IsAssignableFrom
    <2>7. IsAssignableFrom(t, s) \in BOOLEAN
      <3>1. IsSubClassOf(s, t) \in BOOLEAN /\ IsImplements(s, t) \in BOOLEAN
        BY DEF IsSubClassOf, IsImplements
      <3>2. QED
        BY <1>2, <2>1, <3>1 DEF IsAssignableFrom
    <2>8. QED
      BY <2>2, <2>4, <2>5, <2>6, <2>7
  <1>3. QED
    BY <1>1, <1>2
-----------------------------------------------------------------------------
(* The search for members *)

\* Every set of numbers has a least member.
LEMMA MinIs ==
  ASSUME NEW A, A \subseteq Nat, A # {}
  PROVE  Min(A) \in A /\ \A y \in A : Min(A) <= y
  <1> DEFINE HasLeast == \E x \in A : \A y \in A : x <= y
             S == {m \in Nat : (\E x \in A : x <= m) => HasLeast}
  <1>1. 0 \in S
    <2>1. ASSUME NEW x \in A, x <= 0 PROVE \A y \in A : x <= y
      BY <2>1
    <2>2. (\E x \in A : x <= 0) => HasLeast
      BY <2>1
    <2>3. QED
      BY <2>2
  <1>2. ASSUME NEW m \in Nat, m \in S PROVE m + 1 \in S
    <2>1. ASSUME NEW x \in A, x <= m + 1, ~\E y \in A : y <= m PROVE \A y \in A : x <= y
      BY <2>1
    <2>2. (\E x \in A : x <= m + 1) => HasLeast
      BY <1>2, <2>1
    <2> HIDE DEF HasLeast
    <2>3. QED
      BY <2>2
  <1> HIDE DEF S
  <1>3. PICK a \in A : TRUE
    OBVIOUS
  <1>4. a \in S
    BY <1>1, <1>2, Induction
  <1>5. a <= a
    BY <1>3
  <1>6. HasLeast
    BY <1>4, <1>5 DEF S
  <1>7. QED
    BY <1>6, Zenon DEF Min

\* And if it has a bound, a greatest one.
LEMMA MaxIs ==
  ASSUME NEW n \in Nat, NEW A, A \subseteq 1 .. n, A # {}
  PROVE  Max(A) \in A /\ \A y \in A : y <= Max(A)
  <1> DEFINE HasGreatest == \E x \in A : \A y \in A : x >= y
             S == {m \in Nat : (\A x \in A : x <= m) => HasGreatest}
  <1>1. 0 \in S
    <2>1. ~\A x \in A : x <= 0
      <3>1. PICK a \in A : TRUE
        OBVIOUS
      <3>2. ~(a <= 0)
        OBVIOUS
      <3>3. QED
        BY <3>2
    <2> HIDE DEF HasGreatest
    <2>2. QED
      BY <2>1
  <1>2. ASSUME NEW m \in Nat, m \in S PROVE m + 1 \in S
    <2>1. ASSUME \A x \in A : x <= m + 1, m + 1 \in A PROVE HasGreatest
      BY <2>1
    <2>2. ASSUME \A x \in A : x <= m + 1, m + 1 \notin A PROVE \A x \in A : x <= m
      BY <2>2
    <2> HIDE DEF HasGreatest
    <2>3. QED
      BY <1>2, <2>1, <2>2
  <1> HIDE DEF S
  <1>3. n \in S
    BY <1>1, <1>2, Induction
  <1>4. \A x \in A : x <= n
    OBVIOUS
  <1>5. HasGreatest
    BY <1>3, <1>4 DEF S
  <1>6. PICK x \in A : \A y \in A : x >= y
    BY <1>5
  <1>7. Max(A) \in A /\ \A y \in A : Max(A) >= y
    BY <1>6, Zenon DEF Max
  <1>8. QED
    BY <1>7

\* FirstFound gives one that is there, and before which there is none.
LEMMA FirstFoundIs ==
  ASSUME NEW found, DOMAIN found \subseteq Nat
  PROVE  \/ FirstFound(found) = NoMember /\ \A i \in DOMAIN found : ~Exists(found[i])
         \/ \E i \in DOMAIN found : /\ FirstFound(found) = found[i] /\ Exists(found[i])
                                    /\ \A j \in DOMAIN found : j < i => ~Exists(found[j])
  <1> DEFINE there == {i \in DOMAIN found : Exists(found[i])}
  <1>1. CASE there = {}
    BY <1>1, Zenon DEF FirstFound
  <1>2. CASE there # {}
    <2> DEFINE i == Min(there)
    <2>1. there \subseteq Nat
      OBVIOUS
    <2>2. i \in there /\ \A y \in there : i <= y
      BY <1>2, <2>1, MinIs
    <2>3. FirstFound(found) = found[i]
      BY <1>2, Zenon DEF FirstFound
    <2> HIDE DEF i
    <2>4. \A j \in DOMAIN found : j < i => ~Exists(found[j])
      BY <2>1, <2>2
    <2>5. QED
      BY <2>2, <2>3, <2>4
  <1>3. QED
    BY <1>1, <1>2

\* What a class finds, of what the classes below it in rank find.
FirstOf(self, g, n) ==
    LET k == library[n]
    IN IF Exists(self[n]) THEN self[n]
       ELSE IF k.superClass # <<>> /\ Exists(g[k.superClass]) THEN g[k.superClass]
       ELSE FirstFound([i \in DOMAIN k.interfaces |-> g[k.interfaces[i]]])

\* FirstOf asks only about classes lower in rank.
LEMMA FirstOfBelow ==
  ASSUME NEW rank, NEW bound, Hierarchy(rank, bound), NEW self, NEW g, NEW h,
         NEW n \in DOMAIN library, \A d \in DOMAIN library : rank[d] < rank[n] => g[d] = h[d]
  PROVE  FirstOf(self, g, n) = FirstOf(self, h, n)
  <1> DEFINE k == library[n]
  <1>1. \A i \in DOMAIN k.interfaces : g[k.interfaces[i]] = h[k.interfaces[i]]
    <2>1. \A t \in Interfaces(n) : t \in DOMAIN library /\ rank[t] < rank[n]
      BY SuperInterfacesAre DEF Hierarchy
    <2>2. \A i \in DOMAIN k.interfaces : k.interfaces[i] \in Interfaces(n)
      BY DEF Interfaces, Range
    <2>3. QED
      BY <2>1, <2>2
  <1>2. k.superClass # <<>> => g[k.superClass] = h[k.superClass]
    BY DEF Hierarchy
  <1> HIDE DEF k
  <1>3. [i \in DOMAIN k.interfaces |-> g[k.interfaces[i]]] = [i \in DOMAIN k.interfaces |-> h[k.interfaces[i]]]
    BY <1>1
  <1> DEFINE G == FirstFound([i \in DOMAIN k.interfaces |-> g[k.interfaces[i]]])
             H == FirstFound([i \in DOMAIN k.interfaces |-> h[k.interfaces[i]]])
  <1>4. G = H
    BY <1>3
  <1>5. /\ FirstOf(self, g, n) = IF Exists(self[n]) THEN self[n]
                 ELSE IF k.superClass # <<>> /\ Exists(g[k.superClass]) THEN g[k.superClass] ELSE G
        /\ FirstOf(self, h, n) = IF Exists(self[n]) THEN self[n]
                 ELSE IF k.superClass # <<>> /\ Exists(h[k.superClass]) THEN h[k.superClass] ELSE H
    BY Zenon DEF FirstOf, k
  <1> HIDE DEF G, H
  <1>6. QED
    BY <1>2, <1>4, <1>5

\* The search exists, and solves its equation.
LEMMA SearchIs ==
  ASSUME NEW rank, NEW bound, Hierarchy(rank, bound), NEW self
  PROVE  \A n \in DOMAIN library : Search(self)[n] = FirstOf(self, Search(self), n)
  <1> DEFINE D == DOMAIN library
             Solves(f, m) == \A n \in D : rank[n] < m => f[n] = FirstOf(self, f, n)
             S == {m \in Nat : \E f : Solves(f, m)}
  <1>1. bound \in Nat /\ \A n \in D : rank[n] \in Nat /\ rank[n] < bound
    BY DEF Hierarchy
  <1>2. 0 \in S
    <2>1. \A n \in D : ~(rank[n] < 0)
      BY <1>1
    <2>2. QED
      BY <2>1
  <1>3. ASSUME NEW m \in Nat, m \in S PROVE m + 1 \in S
    <2>1. PICK f : Solves(f, m)
      BY <1>3
    <2> DEFINE g == [n \in D |-> IF rank[n] < m THEN f[n] ELSE FirstOf(self, f, n)]
    <2>2. \A n \in D : g[n] = IF rank[n] < m THEN f[n] ELSE FirstOf(self, f, n)
      BY Zenon
    <2> HIDE DEF g
    <2>3. ASSUME NEW n \in D, rank[n] < m + 1 PROVE g[n] = FirstOf(self, g, n)
      <3>1. \A d \in D : rank[d] < rank[n] => g[d] = f[d]
        BY <1>1, <2>2, <2>3
      <3>2. FirstOf(self, g, n) = FirstOf(self, f, n)
        BY <3>1, FirstOfBelow
      <3>3. g[n] = FirstOf(self, f, n)
        BY <2>1, <2>2
      <3>4. QED
        BY <3>2, <3>3
    <2>4. Solves(g, m + 1)
      BY <2>3
    <2>5. QED
      BY <2>4
  <1> HIDE DEF S
  <1>4. bound \in S
    BY <1>1, <1>2, <1>3, Induction
  <1>5. PICK f : Solves(f, bound)
    BY <1>4 DEF S
  <1> DEFINE h == [n \in D |-> f[n]]
  <1>6. \A n \in D : h[n] = f[n]
    BY Zenon
  <1> HIDE DEF h
  <1>7. \A n \in D : f[n] = FirstOf(self, h, n)
    <2> SUFFICES ASSUME NEW n \in D PROVE f[n] = FirstOf(self, h, n)
      OBVIOUS
    <2>1. FirstOf(self, h, n) = FirstOf(self, f, n)
      BY <1>6, FirstOfBelow
    <2>2. QED
      BY <1>1, <1>5, <2>1
  <1>8. h = [n \in DOMAIN library |-> FirstOf(self, h, n)]
    BY <1>6, <1>7 DEF h
  <1> DEFINE r == CHOOSE found : found = [n \in DOMAIN library |->
                     LET k == library[n]
                     IN IF Exists(self[n]) THEN self[n]
                        ELSE IF k.superClass # <<>> /\ Exists(found[k.superClass]) THEN found[k.superClass]
                        ELSE FirstFound([i \in DOMAIN k.interfaces |-> found[k.interfaces[i]]])]
  <1>9. r = [n \in DOMAIN library |-> FirstOf(self, r, n)]
    BY <1>8, Zenon DEF FirstOf
  <1>10. Search(self) = r
    BY Zenon DEF Search
  <1> HIDE DEF r
  <1>11. QED
    BY <1>9, <1>10, Zenon

\* What a class has itself, it has under its own name.
OfClasses(self) == \A c \in DOMAIN library : self[c] = NoMember \/ self[c].class = c

\* What was not found does not exist.
LEMMA NoneExists == ~Exists(NoMember)
  BY DEF Exists, NoMember, FoundMember

\* The three ways to find a member.
LEMMA WaysToFind ==
  ASSUME NEW rank, NEW bound, Hierarchy(rank, bound), NEW self, NEW g, NEW n \in DOMAIN library,
         Exists(FirstOf(self, g, n))
  PROVE  \/ Exists(self[n]) /\ FirstOf(self, g, n) = self[n]
         \/ LET p == library[n].superClass
            IN /\ p \in DOMAIN library /\ rank[p] < rank[n] /\ p \in DirectSupers(n)
               /\ ~IsInterface(n) /\ FirstOf(self, g, n) = g[p] /\ Exists(g[p])
         \/ \E t \in Interfaces(n) :
               /\ t \in DOMAIN library /\ rank[t] < rank[n] /\ t \in DirectSupers(n)
               /\ IsInterface(t) /\ FirstOf(self, g, n) = g[t] /\ Exists(g[t])
  <1> DEFINE k == library[n]
             p == k.superClass
             those == [i \in DOMAIN k.interfaces |-> g[k.interfaces[i]]]
  <1>1. FirstOf(self, g, n) = IF Exists(self[n]) THEN self[n]
                              ELSE IF p # <<>> /\ Exists(g[p]) THEN g[p]
                              ELSE FirstFound(those)
    BY Zenon DEF FirstOf
  <1>2. CASE Exists(self[n])
    BY <1>1, <1>2
  <1>3. CASE ~Exists(self[n]) /\ p # <<>> /\ Exists(g[p])
    <2>1. ~IsInterface(n) /\ n # JAVA_LANG_OBJECT_NAME
      BY <1>3 DEF Hierarchy
    <2>2. p \in DOMAIN library /\ rank[p] < rank[n]
      BY <2>1 DEF Hierarchy
    <2>3. p \in DirectSupers(n)
      BY <2>1, DirectSupersAre
    <2>4. FirstOf(self, g, n) = g[p]
      BY <1>1, <1>3
    <2>5. QED
      BY <1>3, <2>1, <2>2, <2>3, <2>4
  <1>4. CASE ~Exists(self[n]) /\ ~(p # <<>> /\ Exists(g[p]))
    <2>1. FirstOf(self, g, n) = FirstFound(those)
      BY <1>1, <1>4
    <2>2. DOMAIN those = DOMAIN k.interfaces /\ \A i \in DOMAIN those : those[i] = g[k.interfaces[i]]
      OBVIOUS
    <2>3. DOMAIN k.interfaces \subseteq Nat
      <3>1. k.interfaces \in Seq(DOMAIN library)
        BY DEF Hierarchy
      <3>2. QED
        BY <3>1, SeqHas
    <2> HIDE DEF those
    <2>4. PICK i \in DOMAIN those : FirstFound(those) = those[i]
      BY <2>1, <2>2, <2>3, FirstFoundIs, NoneExists
    <2> DEFINE t == k.interfaces[i]
    <2>5. t \in Interfaces(n)
      BY <2>2, <2>4 DEF Interfaces, Range
    <2>6. t \in DOMAIN library /\ rank[t] < rank[n] /\ IsInterface(t)
      BY <2>5, SuperInterfacesAre DEF Hierarchy
    <2>7. n # JAVA_LANG_OBJECT_NAME
      BY <2>5 DEF Hierarchy, Special
    <2>8. t \in DirectSupers(n)
      BY <2>5, <2>7, DirectSupersAre
    <2>9. FirstOf(self, g, n) = g[t]
      BY <2>1, <2>2, <2>4
    <2> HIDE DEF t, k
    <2>10. QED
      BY <2>5, <2>6, <2>8, <2>9
  <1>5. QED
    BY <1>2, <1>3, <1>4

\* What is found is what one of the supertypes has itself; an interface finds
\* what interfaces have.
LEMMA SearchFinds ==
  ASSUME NEW rank, NEW bound, Hierarchy(rank, bound), NEW self, OfClasses(self)
  PROVE  \A n \in DOMAIN library :
             LET m == Search(self)[n]
             IN Exists(m) => /\ m.class \in DOMAIN library /\ m = self[m.class]
                             /\ m.class \in {n} \cup Ancestors(n)
                             /\ IsInterface(n) => IsInterface(m.class)
  <1> DEFINE F == Search(self)
             Good(n) == /\ F[n].class \in DOMAIN library /\ F[n] = self[F[n].class]
                        /\ F[n].class \in {n} \cup Ancestors(n)
                        /\ IsInterface(n) => IsInterface(F[n].class)
             T == {n \in DOMAIN library : Exists(F[n]) => Good(n)}
  <1>1. \A n \in DOMAIN library : rank[n] \in Nat
    BY DEF Hierarchy
  <1>2. ASSUME NEW n \in DOMAIN library, Exists(F[n]),
               \A d \in DOMAIN library : rank[d] < rank[n] => d \in T
        PROVE  Good(n)
    <2>1. F[n] = FirstOf(self, F, n)
      BY SearchIs
    <2>2. Ancestors(n) = DirectSupers(n) \cup UNION {Ancestors(d) : d \in DirectSupers(n)}
      BY SupersAre
    <2> HIDE DEF F
    <2>3. CASE Exists(self[n]) /\ F[n] = self[n]
      <3>1. F[n].class = n
        BY <2>3, NoneExists DEF OfClasses
      <3>2. QED
        BY <2>3, <3>1
    <2>4. ASSUME NEW d \in DOMAIN library, rank[d] < rank[n], d \in DirectSupers(n),
                 F[n] = F[d], Exists(F[d]), ~IsInterface(n) \/ IsInterface(d)
          PROVE  Good(n)
      <3>1. Good(d)
        BY <1>2, <2>4
      <3>2. {d} \cup Ancestors(d) \subseteq Ancestors(n)
        BY <2>2, <2>4
      <3>3. QED
        BY <2>4, <3>1, <3>2
    <2>5. QED
      BY <1>2, <2>1, <2>3, <2>4, WaysToFind
  <1> HIDE DEF Good, F
  <1>3. \A n \in DOMAIN library : (\A d \in DOMAIN library : rank[d] < rank[n] => d \in T) => n \in T
    BY <1>2
  <1> HIDE DEF T
  <1>4. DOMAIN library \subseteq T
    BY <1>1, <1>3, RankInduction
  <1>5. QED
    BY <1>4 DEF T, Good, F

\* A class looks where its superclass looks, unless it has the member itself.
LEMMA SuperFinds ==
  ASSUME NEW rank, NEW bound, Hierarchy(rank, bound), NEW self, NEW n \in DOMAIN library
  PROVE  LET F == Search(self)
             p == library[n].superClass
         IN /\ Exists(self[n]) => F[n] = self[n]
            /\ (~Exists(self[n]) /\ p \in DOMAIN library /\ Exists(F[p])) => F[n] = F[p]
  <1>1. Search(self)[n] = FirstOf(self, Search(self), n)
    BY SearchIs
  <1>2. <<>> \notin DOMAIN library
    BY DEF Hierarchy
  <1>3. QED
    BY <1>1, <1>2, Zenon DEF FirstOf

\* One step along the chain of a class is a step to the superclass, and the
\* chain of every class in it is a part of it.
StepsUp(c) ==
    \A k \in 1 .. Len(c) - 1 : /\ c[k + 1] = library[c[k]].superClass
                               /\ k \in 1 .. Len(c) /\ k + 1 \in 1 .. Len(c)
GoodChain(n) ==
    /\ Chain(n) \in Seq(DOMAIN library) /\ Len(Chain(n)) \in Nat \ {0}
    /\ Chain(n)[1] = n /\ StepsUp(Chain(n))
    /\ \A c \in Range(Chain(n)) : Range(Chain(c)) \subseteq Range(Chain(n))

\* The chains of all loaded classes are so.
LEMMA ChainSteps ==
  ASSUME NEW rank, NEW bound, Hierarchy(rank, bound), NEW f, ShelvedBy(library, f)
  PROVE  \A n \in DOMAIN library : GoodChain(n)
  <1> DEFINE T == {n \in DOMAIN library : GoodChain(n)}
  <1>1. \A n \in DOMAIN library : rank[n] \in Nat
    BY DEF Hierarchy
  <1>2. ASSUME NEW n \in DOMAIN library,
               \A d \in DOMAIN library : rank[d] < rank[n] => d \in T
        PROVE  GoodChain(n)
    <2> DEFINE p == library[n].superClass
               C == Chain(n)
               s == SuperChain(n)
               l == Len(s)
    <2>1. s \in Seq(DOMAIN library)
      BY ChainFrom
    <2>2. C = <<n>> \o s
      BY DEF Chain
    <2> HIDE DEF C, s
    <2>3. /\ l \in Nat /\ C \in Seq(DOMAIN library) /\ Len(C) = l + 1 /\ C[1] = n
          /\ \A i \in 1 .. l : C[i + 1] = s[i]
          /\ \A i \in 1 .. l + 1 : i = 1 \/ (i - 1 \in 1 .. l /\ C[i] = s[i - 1])
          /\ Range(C) = {n} \cup Range(s)
      BY <2>1, <2>2, Pushed
    <2>4. CASE p \notin DOMAIN library
      <3>1. s = <<>>
        BY <2>4, ChainFrom DEF s
      <3>2. l = 0 /\ Range(s) = {}
        BY <3>1 DEF Range
      <3>3. StepsUp(C)
        <4>1. Len(C) = 1
          BY <2>3, <3>2
        <4>2. QED
          BY <4>1 DEF StepsUp
      <3>4. QED
        BY <2>3, <3>2, <3>3 DEF GoodChain, C
    <2>5. CASE p \in DOMAIN library
      <3>1. s = Chain(p)
        BY <2>5, ChainFrom DEF s
      <3>2. rank[p] < rank[n]
        <4>1. <<>> \notin DOMAIN library
          BY DEF Hierarchy
        <4>2. QED
          BY <2>5, <4>1 DEF Hierarchy
      <3>3. GoodChain(p)
        BY <1>2, <2>5, <3>2
      <3> HIDE DEF p, l
      <3>4. StepsUp(C)
        <4> SUFFICES ASSUME NEW k \in 1 .. l
                     PROVE  /\ C[k + 1] = library[C[k]].superClass
                            /\ k \in 1 .. l + 1 /\ k + 1 \in 1 .. l + 1
          <5>1. Len(C) = l + 1 /\ (l + 1) - 1 = l
            BY <2>3
          <5>2. QED
            BY <5>1 DEF StepsUp
        <4>1. k \in 1 .. l + 1 /\ k + 1 \in 1 .. l + 1 /\ C[k + 1] = s[k]
          BY <2>3
        <4>2. CASE k = 1
          <5>1. C[k] = n /\ s[1] = p
            BY <2>3, <3>1, <3>3, <4>2 DEF GoodChain
          <5>2. QED
            BY <4>1, <4>2, <5>1 DEF p
        <4>3. CASE k # 1
          <5>1. k - 1 \in 1 .. l - 1 /\ (k - 1) + 1 = k /\ C[k] = s[k - 1] /\ l = Len(s)
            BY <2>3, <4>3 DEF l
          <5>2. s[(k - 1) + 1] = library[s[k - 1]].superClass
            BY <3>1, <3>3, <5>1 DEF GoodChain, StepsUp
          <5>3. QED
            BY <4>1, <5>1, <5>2
        <4>4. QED
          BY <4>2, <4>3
      <3>5. \A c \in Range(C) : Range(Chain(c)) \subseteq Range(C)
        BY <2>3, <3>1, <3>3, Zenon DEF GoodChain, C
      <3>6. QED
        BY <2>3, <3>4, <3>5 DEF GoodChain, C
    <2>6. QED
      BY <2>4, <2>5
  <1>3. \A n \in DOMAIN library : (\A d \in DOMAIN library : rank[d] < rank[n] => d \in T) => n \in T
    BY <1>2
  <1> HIDE DEF T
  <1>4. DOMAIN library \subseteq T
    BY <1>1, <1>3, RankInduction
  <1>5. QED
    BY <1>4 DEF T

\* A class finds what its chain has, or what an interface has.
LEMMA ClassFinds ==
  ASSUME NEW rank, NEW bound, Hierarchy(rank, bound), NEW f, ShelvedBy(library, f),
         NEW self, OfClasses(self), NEW n \in DOMAIN library, ~IsInterface(n),
         Exists(Search(self)[n])
  PROVE  LET m == Search(self)[n]
         IN /\ m.class \in DOMAIN library /\ m = self[m.class]
            /\ m.class \in Range(Chain(n)) \/ IsInterface(m.class)
            /\ m.class \in Supertypes(n)
  <1> DEFINE m == Search(self)[n]
  <1>1. m.class \in DOMAIN library /\ m = self[m.class] /\ m.class \in {n} \cup Ancestors(n)
    BY SearchFinds
  <1>2. FromChain(n) /\ Supertypes(n) = {n} \cup Ancestors(n)
    BY ClassSupertypes, SupersAre
  <1> HIDE DEF m
  <1>3. m.class \in Range(Chain(n)) \/ \E c \in Range(Chain(n)) : m.class \in SuperInterfaces(c)
    BY <1>1, <1>2, Zenon DEF FromChain
  <1>4. \A c \in Range(Chain(n)) : c \in DOMAIN library
    BY <1>2 DEF FromChain
  <1>5. m.class \in Range(Chain(n)) \/ IsInterface(m.class)
    BY <1>3, <1>4, InterfaceSupertypes
  <1>6. QED
    BY <1>1, <1>2, <1>5 DEF m

\* What a class in the chain is a subtype of, the first is a subtype of, too.
LEMMA ChainSupertypes ==
  ASSUME NEW rank, NEW bound, Hierarchy(rank, bound), NEW f, ShelvedBy(library, f),
         NEW n \in DOMAIN library, ~IsInterface(n), NEW c \in Range(Chain(n))
  PROVE  /\ c \in DOMAIN library /\ ~IsInterface(c)
         /\ Supertypes(c) \subseteq Supertypes(n)
         /\ Range(Chain(c)) \subseteq Range(Chain(n))
  <1>1. FromChain(n) /\ Supertypes(n) = {n} \cup Ancestors(n)
    BY ClassSupertypes, SupersAre
  <1>2. c \in DOMAIN library /\ ~IsInterface(c)
    BY <1>1 DEF FromChain
  <1>3. FromChain(c) /\ Supertypes(c) = {c} \cup Ancestors(c)
    BY <1>2, ClassSupertypes, SupersAre
  <1>4. Range(Chain(c)) \subseteq Range(Chain(n))
    BY ChainSteps DEF GoodChain
  <1>5. ASSUME NEW x \in {c} \cup Ancestors(c) PROVE x \in {n} \cup Ancestors(n)
    <2>1. x \in Range(Chain(c)) \/ \E d \in Range(Chain(c)) : x \in SuperInterfaces(d)
      BY <1>3, <1>5 DEF FromChain
    <2>2. x \in Range(Chain(n)) \/ \E d \in Range(Chain(n)) : x \in SuperInterfaces(d)
      BY <1>4, <2>1
    <2>3. QED
      BY <1>1, <2>2 DEF FromChain
  <1>6. QED
    BY <1>1, <1>2, <1>3, <1>4, <1>5
-----------------------------------------------------------------------------
(* Virtual methods *)

MethodSelf(id) == [c \in DOMAIN library |-> GetMethodSelf(c, id, FALSE)]
Declared(n, id) == \E i \in DOMAIN library[n].methods :
                      LET m == library[n].methods[i]
                      IN Is(m, id, FALSE) /\ ~IsAbstract(m)
NoTwins(ms) == \A i, j \in DOMAIN ms :
                   (ms[i].name = ms[j].name /\ ms[i].descriptor = ms[j].descriptor) => i = j

\* Members that a list has are of its class.
IsMember(m, n, ms) ==
    m = NoMember \/ (m.class = n /\ \E i \in DOMAIN ms : m = FoundMember(n, ms[i]))

\* A class itself finds only what its list has.
LEMMA MemberSelfIs ==
  ASSUME NEW n, NEW ms, NEW id, NEW static
  PROVE  IsMember(MemberSelf(n, ms, id, static), n, ms)
  <1> DEFINE found == {i \in DOMAIN ms : Is(ms[i], id, IF Len(ms) > SortThreshold
                                                  THEN IsStatic(ms[i]) ELSE static)}
             k == CHOOSE i \in found : TRUE
  <1>1. MemberSelf(n, ms, id, static) = IF found = {} THEN NoMember ELSE FoundMember(n, ms[k])
    BY Zenon DEF MemberSelf
  <1>2. CASE found = {}
    BY <1>1, <1>2, Zenon DEF IsMember
  <1>3. CASE found # {}
    <2>1. k \in found
      BY <1>3, Zenon
    <2>2. k \in DOMAIN ms
      BY <2>1
    <2>3. MemberSelf(n, ms, id, static) = FoundMember(n, ms[k])
      BY <1>1, <1>3, Zenon
    <2> HIDE DEF k, found
    <2>4. FoundMember(n, ms[k]).class = n
      BY DEF FoundMember
    <2>5. QED
      BY <2>2, <2>3, <2>4 DEF IsMember
  <1>4. QED
    BY <1>2, <1>3, Zenon

\* The method a class has itself, of those that objects have.
LEMMA MethodSelfIs ==
  ASSUME NEW c \in DOMAIN library, c # <<>>, NEW id, NoTwins(library[c].methods),
         \A i \in DOMAIN library[c].methods : ~Is(library[c].methods[i], id, TRUE)
  PROVE  LET m == GetMethodSelf(c, id, FALSE)
         IN /\ Declared(c, id) <=> (Exists(m) /\ ~IsAbstract(m.member))
            /\ Exists(m) => Is(m.member, id, FALSE) /\ m.class = c
  <1> DEFINE ms == library[c].methods
             found == {i \in DOMAIN ms : Is(ms[i], id, IF Len(ms) > SortThreshold
                                                  THEN IsStatic(ms[i]) ELSE FALSE)}
             k == CHOOSE i \in found : TRUE
             m == GetMethodSelf(c, id, FALSE)
  <1>1. m = IF found = {} THEN NoMember ELSE FoundMember(c, ms[k])
    BY Zenon DEF GetMethodSelf, MemberSelf
  <1>2. ASSUME NEW i \in DOMAIN ms
        PROVE  /\ i \in found <=> Is(ms[i], id, FALSE)
               /\ i \in found <=> ms[i].name = id.name /\ ms[i].descriptor = id.descriptor
    <2>1. IsStatic(ms[i]) \in BOOLEAN
      BY DEF IsStatic, Has
    <2>2. QED
      BY <2>1 DEF Is
  <1> HIDE DEF m, ms
  <1>3. CASE found = {}
    <2>1. m = NoMember
      BY <1>1, <1>3, Zenon
    <2>2. ~Declared(c, id)
      BY <1>2, <1>3 DEF Declared, ms
    <2>3. QED
      BY <2>1, <2>2, NoneExists DEF m
  <1>4. CASE found # {}
    <2>1. k \in found
      BY <1>4, Zenon
    <2>2. m = FoundMember(c, ms[k])
      BY <1>1, <1>4, Zenon
    <2>3. k \in DOMAIN ms
      BY <2>1
    <2> HIDE DEF k
    <2>4. Exists(m) /\ m.member = ms[k] /\ m.class = c
      BY <2>2 DEF Exists, FoundMember
    <2>5. Is(m.member, id, FALSE)
      BY <1>2, <2>1, <2>3, <2>4
    <2>6. Declared(c, id) <=> ~IsAbstract(ms[k])
      <3>1. ASSUME NEW i \in DOMAIN ms, Is(ms[i], id, FALSE) PROVE i = k
        BY <1>2, <2>1, <2>3, <3>1 DEF NoTwins, ms
      <3>2. Is(ms[k], id, FALSE)
        BY <2>4, <2>5
      <3>3. Declared(c, id) <=> \E i \in DOMAIN ms : Is(ms[i], id, FALSE) /\ ~IsAbstract(ms[i])
        BY Zenon DEF Declared, ms
      <3>4. QED
        BY <2>3, <3>1, <3>2, <3>3
    <2>7. QED
      BY <2>4, <2>5, <2>6 DEF m
  <1>5. QED
    BY <1>3, <1>4

\* The search of linkVirtualMethod, from a place of the chain: up to the first
\* class that has the method concretely, all searches end at abstract methods
\* or there.
LEMMA SearchToFirst ==
  ASSUME NEW rank, NEW bound, Hierarchy(rank, bound), NEW f, ShelvedBy(library, f),
         NEW self, OfClasses(self), NEW n \in DOMAIN library, NEW d \in DOMAIN Chain(n),
         Exists(self[Chain(n)[d]]),
         \A j \in 1 .. d - 1 : Exists(self[Chain(n)[j]]) => IsAbstract(self[Chain(n)[j]].member)
  PROVE  LET F == Search(self)
         IN \A j \in 1 .. d : /\ Exists(F[Chain(n)[j]])
                              /\ \/ IsAbstract(F[Chain(n)[j]].member)
                                 \/ F[Chain(n)[j]] = self[Chain(n)[d]]
  <1> DEFINE F == Search(self)
             C == Chain(n)
             Good(j) == /\ Exists(F[C[j]])
                        /\ IsAbstract(F[C[j]].member) \/ F[C[j]] = self[C[d]]
             S == {m \in Nat : m < d => Good(d - m)}
  <1>1. /\ C \in Seq(DOMAIN library) /\ StepsUp(C)
        /\ Len(C) \in Nat /\ DOMAIN C = 1 .. Len(C) /\ \A i \in 1 .. Len(C) : C[i] \in DOMAIN library
    <2>1. GoodChain(n)
      BY ChainSteps
    <2>2. C \in Seq(DOMAIN library) /\ StepsUp(C)
      BY <2>1 DEF GoodChain
    <2> HIDE DEF C
    <2>3. QED
      BY <2>2, SeqHas
  <1> HIDE DEF F
  <1>2. \A c \in DOMAIN library :
           LET p == library[c].superClass
           IN /\ Exists(self[c]) => F[c] = self[c]
              /\ (~Exists(self[c]) /\ p \in DOMAIN library /\ Exists(F[p])) => F[c] = F[p]
    BY SuperFinds DEF F
  <1>3. \A j \in 1 .. d - 1 : Exists(self[C[j]]) => IsAbstract(self[C[j]].member)
    OBVIOUS
  <1> HIDE DEF C
  <1>4. d \in 1 .. Len(C) /\ Exists(self[C[d]])
    BY <1>1 DEF C
  <1>5. 0 \in S
    <2>1. d - 0 = d
      BY <1>1, <1>4
    <2>2. Good(d)
      BY <1>1, <1>2, <1>4
    <2>3. QED
      BY <2>1, <2>2
  <1>6. ASSUME NEW m \in Nat, m \in S PROVE m + 1 \in S
    <2> SUFFICES ASSUME m + 1 < d PROVE Good(d - (m + 1))
      OBVIOUS
    <2> DEFINE j == d - (m + 1)
    <2>1. /\ j \in 1 .. Len(C) /\ j \in 1 .. d - 1 /\ j + 1 = d - m /\ m < d
          /\ j \in 1 .. Len(C) - 1 /\ j + 1 \in 1 .. Len(C)
      BY <1>1, <1>4
    <2>2. Good(j + 1)
      BY <1>6, <2>1
    <2> HIDE DEF j
    <2>3. C[j + 1] = library[C[j]].superClass /\ C[j] \in DOMAIN library /\ C[j + 1] \in DOMAIN library
      BY <1>1, <2>1 DEF StepsUp
    <2>4. CASE Exists(self[C[j]])
      <3>1. F[C[j]] = self[C[j]]
        BY <1>2, <2>3, <2>4
      <3>2. IsAbstract(self[C[j]].member)
        BY <1>3, <2>1, <2>4
      <3>3. Good(j)
        BY <2>4, <3>1, <3>2
      <3>4. QED
        BY <3>3 DEF j
    <2>5. CASE ~Exists(self[C[j]])
      <3>1. F[C[j]] = F[C[j + 1]]
        BY <1>2, <2>2, <2>3, <2>5
      <3>2. Good(j)
        BY <2>2, <3>1
      <3>3. QED
        BY <3>2 DEF j
    <2>6. QED
      BY <2>4, <2>5
  <1> HIDE DEF S
  <1>7. ASSUME NEW j \in 1 .. d PROVE Good(j)
    <2>1. d - j \in Nat /\ d - j < d /\ d - (d - j) = j
      BY <1>1, <1>4
    <2>2. d - j \in S
      BY <1>5, <1>6, <2>1, Induction
    <2>3. QED
      BY <2>1, <2>2 DEF S
  <1>8. QED
    BY <1>7 DEF C, F

Tidy ==
    /\ \A n \in DOMAIN library :
           /\ NoTwins(library[n].methods)
           /\ IsInterface(n) => \A i \in DOMAIN library[n].fields : IsStatic(library[n].fields[i])
    /\ \A i \in DOMAIN library[JAVA_LANG_OBJECT_NAME].methods :
           ~IsAbstract(library[JAVA_LANG_OBJECT_NAME].methods[i])

\* What MostDerivedIsLinked says of a method that was found.
RunsMostDerived(id, s, found) ==
    LET classes == IF IsArray(s) THEN SuperChain(s) ELSE Chain(s)
        declaring == {k \in DOMAIN classes : Declared(classes[k], id)}
    IN /\ IF declaring = {} THEN IsInterface(found.class)
          ELSE found.class = classes[Min(declaring)]
       /\ found.class \in Supertypes(s)
       /\ Is(found.member, id, FALSE) /\ ~IsAbstract(found.member)

\* So it is of a class.
LEMMA ClassLinks ==
  ASSUME NEW rank, NEW bound, Hierarchy(rank, bound), NEW f, ShelvedBy(library, f), Tidy,
         NEW s \in DOMAIN library, ~IsInterface(s), NEW id, HasNoStatic(id, s),
         Exists(LinkVirtualMethod(id, s))
  PROVE  RunsMostDerived(id, s, LinkVirtualMethod(id, s))
  <1> DEFINE self == MethodSelf(id)
             F == Search(self)
             C == Chain(s)
             those == [k \in DOMAIN C |-> ConcreteOf(C[k], id)]
             found == LinkVirtualMethod(id, s)
             declaring == {k \in DOMAIN C : Declared(C[k], id)}
  <1>1. ~IsArray(s)
    BY DEF Hierarchy
  <1>2. found = FirstFound(those)
    BY <1>1, Zenon DEF LinkVirtualMethod, FirstConcrete
  <1>3. /\ \A k \in DOMAIN C : C[k] \in Range(C)
        /\ DOMAIN C = 1 .. Len(C) /\ Len(C) \in Nat
    <2>1. GoodChain(s)
      BY ChainSteps
    <2>2. C \in Seq(DOMAIN library)
      BY <2>1 DEF GoodChain
    <2> HIDE DEF C
    <2>3. QED
      BY <2>2, SeqHas DEF Range
  <1>4. ASSUME NEW k \in DOMAIN C
        PROVE  /\ C[k] \in DOMAIN library /\ ~IsInterface(C[k]) /\ C[k] \in Supertypes(s)
               /\ Supertypes(C[k]) \subseteq Supertypes(s)
               /\ Range(Chain(C[k])) \subseteq Range(C)
    <2>1. C[k] \in Range(C)
      BY <1>3
    <2>2. C[k] \in DOMAIN library /\ ~IsInterface(C[k]) /\ Supertypes(C[k]) \subseteq Supertypes(s)
          /\ Range(Chain(C[k])) \subseteq Range(C)
      BY <2>1, ChainSupertypes
    <2>3. C[k] \in Supertypes(C[k])
      BY DEF Supertypes
    <2>4. QED
      BY <2>2, <2>3
  <1>5. ASSUME NEW c \in DOMAIN library
        PROVE  /\ self[c] = GetMethodSelf(c, id, FALSE)
               /\ self[c] = NoMember \/ self[c].class = c
               /\ c \in Supertypes(s) =>
                      /\ Declared(c, id) <=> (Exists(self[c]) /\ ~IsAbstract(self[c].member))
                      /\ Exists(self[c]) => Is(self[c].member, id, FALSE)
    <2>1. self[c] = GetMethodSelf(c, id, FALSE)
      BY DEF MethodSelf
    <2>2. self[c] = NoMember \/ self[c].class = c
      <3>1. \/ GetMethodSelf(c, id, FALSE) = NoMember
            \/ GetMethodSelf(c, id, FALSE).class = c
        <4>1. IsMember(GetMethodSelf(c, id, FALSE), c, library[c].methods)
          BY MemberSelfIs, Zenon DEF GetMethodSelf
        <4> DEFINE m == GetMethodSelf(c, id, FALSE)
        <4> HIDE DEF m
        <4>2. m = NoMember \/ m.class = c
          BY <4>1 DEF IsMember, m
        <4>3. QED
          BY <4>2 DEF m
      <3> HIDE DEF self
      <3>2. QED
        BY <2>1, <3>1
    <2>3. ASSUME c \in Supertypes(s)
          PROVE  /\ Declared(c, id) <=> (Exists(self[c]) /\ ~IsAbstract(self[c].member))
                 /\ Exists(self[c]) => Is(self[c].member, id, FALSE)
      <3>1. NoTwins(library[c].methods) /\ c # <<>>
        BY DEF Tidy, Hierarchy
      <3>2. \A i \in DOMAIN library[c].methods : ~Is(library[c].methods[i], id, TRUE)
        BY <2>3 DEF HasNoStatic
      <3>3. QED
        BY <2>1, <3>1, <3>2, MethodSelfIs
    <2>4. QED
      BY <2>1, <2>2, <2>3
  <1>6. OfClasses(self)
    BY <1>5 DEF OfClasses
  <1>7. \A k \in DOMAIN C : those[k] = IF Exists(F[C[k]]) /\ ~IsAbstract(F[C[k]].member)
                                       THEN F[C[k]] ELSE NoMember
    BY Zenon DEF ConcreteOf, GetMethod, MethodSelf
  <1> HIDE DEF those, found, C, F, self
  <1>8. DOMAIN those = DOMAIN C
    BY DEF those
  <1>9. PICK i \in DOMAIN C : /\ found = those[i] /\ Exists(those[i])
                              /\ \A j \in DOMAIN C : j < i => ~Exists(those[j])
    <2>1. Exists(found)
      BY DEF found
    <2>2. DOMAIN those \subseteq Nat
      BY <1>3, <1>8
    <2>3. QED
      BY <1>2, <1>8, <2>1, <2>2, FirstFoundIs, NoneExists
  <1>10. found = F[C[i]] /\ Exists(F[C[i]]) /\ ~IsAbstract(F[C[i]].member)
    BY <1>7, <1>9, NoneExists
  <1>11. /\ found.class \in DOMAIN library /\ found = self[found.class]
         /\ found.class \in Range(Chain(C[i])) \/ IsInterface(found.class)
         /\ found.class \in Supertypes(s)
    <2>1. C[i] \in DOMAIN library /\ ~IsInterface(C[i]) /\ Exists(Search(self)[C[i]])
          /\ found = Search(self)[C[i]]
      BY <1>4, <1>10 DEF F
    <2>2. /\ found.class \in DOMAIN library /\ found = self[found.class]
          /\ found.class \in Range(Chain(C[i])) \/ IsInterface(found.class)
          /\ found.class \in Supertypes(C[i])
      BY <1>6, <2>1, ClassFinds
    <2>3. QED
      BY <1>4, <2>2
  <1>12. Is(found.member, id, FALSE) /\ ~IsAbstract(found.member)
    BY <1>5, <1>10, <1>11
  <1>13. CASE declaring = {}
    <2>1. found.class \notin Range(C)
      <3> SUFFICES ASSUME found.class \in Range(C) PROVE FALSE
        OBVIOUS
      <3>1. PICK k \in DOMAIN C : found.class = C[k]
        BY DEF Range
      <3>2. Declared(C[k], id)
        BY <1>4, <1>5, <1>10, <1>11, <3>1
      <3>3. QED
        BY <1>13, <3>2
    <2>2. IsInterface(found.class)
      BY <1>4, <1>11, <2>1
    <2> HIDE DEF declaring
    <2>3. QED
      BY <1>1, <1>11, <1>12, <1>13, <2>2, Zenon DEF RunsMostDerived, declaring, C, found
  <1>14. CASE declaring # {}
    <2> DEFINE d == Min(declaring)
    <2>1. d \in declaring /\ \A k \in declaring : d <= k
      <3>1. declaring \subseteq Nat
        BY <1>3
      <3> HIDE DEF declaring
      <3>2. QED
        BY <1>14, <3>1, MinIs
    <2>2. d \in 1 .. Len(C) /\ d \in DOMAIN C /\ Declared(C[d], id)
      BY <1>3, <2>1
    <2>3. \A j \in 1 .. d - 1 : j \in DOMAIN C /\ ~Declared(C[j], id)
      <3>1. \A j \in 1 .. d - 1 : j \in DOMAIN C /\ ~(d <= j)
        BY <1>3, <2>2
      <3>2. QED
        BY <2>1, <3>1
    <2> HIDE DEF d, declaring
    <2>4. Exists(self[C[d]]) /\ ~IsAbstract(self[C[d]].member) /\ self[C[d]].class = C[d]
      BY <1>4, <1>5, <2>2, NoneExists
    <2>5. \A j \in 1 .. d - 1 : Exists(self[C[j]]) => IsAbstract(self[C[j]].member)
      BY <1>4, <1>5, <2>3
    <2>6. \A j \in 1 .. d : /\ Exists(F[C[j]])
                            /\ IsAbstract(F[C[j]].member) \/ F[C[j]] = self[C[d]]
      BY <1>6, <2>2, <2>4, <2>5, SearchToFirst DEF C, F
    <2>7. Exists(those[d])
      <3>1. F[C[d]] = self[C[d]]
        <4>1. Search(self)[C[d]] = self[C[d]]
          BY <1>4, <2>2, <2>4, SuperFinds
        <4>2. QED
          BY <4>1 DEF F
      <3>2. QED
        BY <1>7, <2>2, <2>4, <3>1
    <2>8. i \in 1 .. d
      <3>1. ~(d < i)
        BY <1>9, <2>2, <2>7
      <3>2. QED
        BY <1>3, <2>2, <3>1
    <2>9. found = self[C[d]]
      BY <1>10, <2>6, <2>8
    <2>10. found.class = C[Min(declaring)]
      BY <2>4, <2>9 DEF d
    <2>11. QED
      BY <1>1, <1>11, <1>12, <1>14, <2>10, Zenon DEF RunsMostDerived, declaring, C, found
  <1>15. QED
    BY <1>13, <1>14 DEF found

\* And so it is of an array, which has the methods of Object.
LEMMA ArrayLinks ==
  ASSUME NEW rank, NEW bound, Hierarchy(rank, bound), Tidy,
         NEW s, IsArray(s), NEW id, HasNoStatic(id, s),
         Exists(LinkVirtualMethod(id, s))
  PROVE  RunsMostDerived(id, s, LinkVirtualMethod(id, s))
  <1> DEFINE O == JAVA_LANG_OBJECT_NAME
             self == MethodSelf(id)
             F == Search(self)
             found == LinkVirtualMethod(id, s)
             m == GetMethodSelf(O, id, FALSE)
             declaring == {k \in DOMAIN <<O>> : Declared(<<O>>[k], id)}
  <1>1. /\ O \in DOMAIN library /\ O # <<>> /\ library[O].superClass = <<>> /\ Interfaces(O) = {}
        /\ NoTwins(library[O].methods) /\ Supertypes(s) = {s} \cup Special
    BY ArraySupertypes DEF Hierarchy, Special, Tidy
  <1>2. found = F[O]
    BY Zenon DEF LinkVirtualMethod, GetMethod, MethodSelf
  <1>3. self[O] = m
    BY <1>1 DEF MethodSelf
  <1>4. O \in Supertypes(s)
    BY <1>1 DEF Special
  <1>5. \A i \in DOMAIN library[O].methods : ~Is(library[O].methods[i], id, TRUE)
    BY <1>1, <1>4 DEF HasNoStatic
  <1>6. /\ Declared(O, id) <=> (Exists(m) /\ ~IsAbstract(m.member))
        /\ Exists(m) => Is(m.member, id, FALSE) /\ m.class = O
    BY <1>1, <1>5, MethodSelfIs
  <1>7. F[O] = FirstOf(self, F, O)
    BY <1>1, SearchIs
  <1> HIDE DEF F, self, found
  <1>8. Exists(found)
    BY DEF found
  <1>9. Exists(self[O]) /\ found = self[O]
    <2>1. <<>> \notin DOMAIN library
      BY DEF Hierarchy
    <2> HIDE DEF O
    <2>2. QED
      BY <1>1, <1>2, <1>7, <1>8, <2>1, WaysToFind
  <1>10. Declared(O, id)
    <2>1. PICK i \in DOMAIN library[O].methods : m = FoundMember(O, library[O].methods[i])
      <3>1. IsMember(m, O, library[O].methods)
        BY MemberSelfIs, Zenon DEF GetMethodSelf
      <3> HIDE DEF m, O
      <3>2. m = NoMember \/ \E i \in DOMAIN library[O].methods : m = FoundMember(O, library[O].methods[i])
        BY <3>1 DEF IsMember
      <3>3. m # NoMember
        BY <1>3, <1>9, NoneExists
      <3>4. QED
        BY <3>2, <3>3
    <2> HIDE DEF m
    <2>2. m.member = library[O].methods[i]
      BY <2>1 DEF FoundMember
    <2>3. QED
      BY <1>3, <1>6, <1>9, <2>2 DEF Tidy
  <1>11. SuperChain(s) = <<O>>
    BY Zenon DEF SuperChain
  <1>12. declaring = {1} /\ Min({1}) = 1 /\ <<O>>[1] = O
    <2> HIDE DEF O
    <2>1. declaring = {1}
      BY <1>10
    <2>2. Min({1}) = 1
      <3>1. {1} \subseteq Nat /\ {1} # {}
        OBVIOUS
      <3>2. Min({1}) \in {1}
        BY <3>1, MinIs
      <3>3. QED
        BY <3>2
    <2>3. QED
      BY <2>1, <2>2
  <1> HIDE DEF O, m
  <1>13. found.class = O /\ Is(found.member, id, FALSE) /\ ~IsAbstract(found.member)
    BY <1>3, <1>6, <1>9, <1>10
  <1>14. declaring # {} /\ <<O>>[Min(declaring)] = O
    BY <1>12
  <1> HIDE DEF declaring
  <1>15. QED
    BY <1>4, <1>11, <1>13, <1>14, Zenon DEF RunsMostDerived, declaring, found
-----------------------------------------------------------------------------
(* Fields at their slots *)

AllFields(f, n) == library[n].fields \o FieldsOf(f[n])

\* The fields of a class are its own, and those of its superclass.
LEMMA AllFieldsAre ==
  ASSUME NEW rank, NEW bound, Hierarchy(rank, bound), NEW f, ShelvedBy(library, f),
         NEW n \in DOMAIN library
  PROVE  LET p == library[n].superClass
         IN /\ p \in DOMAIN library => AllFields(f, n) = library[n].fields \o AllFields(f, p)
            /\ IsSeq(library[n].fields) /\ IsSeq(FieldsOf(f[n]))
  <1> DEFINE K == {library[m] : m \in DOMAIN library}
             U == UNION {Range(k.fields) : k \in K}
             p == library[n].superClass
  <1>1. ASSUME NEW k \in K PROVE k.fields \in Seq(U)
    <2>1. IsSeq(k.fields)
      <3>1. PICK m \in DOMAIN library : k = library[m]
        OBVIOUS
      <3>2. Housed(library[m], f[m])
        BY DEF ShelvedBy
      <3>3. QED
        BY <3>1, <3>2 DEF Housed
    <2> DEFINE s == k.fields
    <2>2. Len(s) \in Nat /\ s = [i \in 1 .. Len(s) |-> s[i]]
      BY <2>1 DEF IsSeq
    <2>3. \A i \in 1 .. Len(s) : s[i] \in Range(s)
      BY <2>2 DEF Range
    <2>4. Range(s) \subseteq U
      OBVIOUS
    <2> HIDE DEF U, s
    <2>5. \A i \in 1 .. Len(s) : s[i] \in U
      BY <2>3, <2>4
    <2> DEFINE l == Len(s)
    <2>6. l \in Nat /\ s = [i \in 1 .. l |-> s[i]] /\ \A i \in 1 .. l : s[i] \in U
      BY <2>2, <2>5
    <2> HIDE DEF l
    <2>7. s \in Seq(U)
      BY <2>6, SeqIs
    <2>8. QED
      BY <2>7 DEF s
  <1>2. ASSUME NEW m \in DOMAIN library
        PROVE  library[m] \in K /\ f[m] \in Seq(K) /\ f[m] = ChainIn(library, f, library[m])
    BY DEF ShelvedBy, IsAbove
  <1> HIDE DEF K, U
  <1>3. ASSUME NEW s \in Seq(U) PROVE IsSeq(s)
    <2>1. Len(s) \in Nat /\ s \in [1 .. Len(s) -> U]
      BY LenProperties
    <2>2. QED
      BY <2>1 DEF IsSeq
  <1>4. IsSeq(library[n].fields) /\ IsSeq(FieldsOf(f[n]))
    <2>1. FieldsOf(f[n]) \in Seq(U)
      BY <1>1, <1>2, FieldsJoined
    <2>2. QED
      BY <1>1, <1>2, <1>3, <2>1
  <1>5. ASSUME p \in DOMAIN library PROVE AllFields(f, n) = library[n].fields \o AllFields(f, p)
    <2>1. f[n] = <<library[p]>> \o f[p]
      <3>1. ChainIn(library, f, library[n]) = <<library[p]>> \o f[p]
        BY <1>5, ChainIs, Zenon
      <3>2. QED
        BY <1>2, <3>1
    <2> HIDE DEF p
    <2>2. FieldsOf(<<library[p]>> \o f[p]) = library[p].fields \o FieldsOf(f[p])
      BY <1>1, <1>2, <1>5, FieldsJoined
    <2>3. QED
      BY <2>1, <2>2, Zenon DEF AllFields
  <1>6. QED
    BY <1>4, <1>5

\* Two sequences, one after the other.
Joins(u, s, t) ==
    /\ IsSeq(u)
    /\ \A x : (\E j \in DOMAIN u : u[j] = x) <=> \/ \E j \in DOMAIN s : s[j] = x
                                                 \/ \E j \in DOMAIN t : t[j] = x

\* Two sequences join to one with the members of both.
LEMMA SequencesJoin ==
  ASSUME NEW s, NEW t, IsSeq(s), IsSeq(t)
  PROVE  Joins(s \o t, s, t)
  <1> DEFINE U == Range(s) \cup Range(t)
             l == Len(s)
             m == Len(t)
             u == s \o t
  <1>1. l \in Nat /\ m \in Nat /\ s = [i \in 1 .. l |-> s[i]] /\ t = [i \in 1 .. m |-> t[i]]
    BY DEF IsSeq
  <1>2. (\A i \in 1 .. l : s[i] \in U) /\ (\A i \in 1 .. m : t[i] \in U)
    BY <1>1 DEF Range
  <1> HIDE DEF U
  <1>3. s \in Seq(U) /\ t \in Seq(U)
    <2> HIDE DEF l, m
    <2>1. QED
      BY <1>1, <1>2, SeqIs
  <1>4. DOMAIN s = 1 .. l /\ DOMAIN t = 1 .. m
    BY <1>3, SeqHas
  <1>5. u \in Seq(U) /\ Len(u) = l + m
    BY <1>3, ConcatProperties
  <1>6. DOMAIN u = 1 .. Len(u)
    BY <1>5, SeqHas
  <1>7. \A i \in 1 .. l : u[i] = s[i]
    BY <1>1, <1>3
  <1>8. \A i \in 1 .. m : u[l + i] = t[i]
    BY <1>1, <1>3
  <1>9. IsSeq(u)
    BY <1>5, LenProperties DEF IsSeq
  <1> HIDE DEF l, m, u
  <1>10. ASSUME NEW x
         PROVE  (\E j \in DOMAIN u : u[j] = x) <=> \/ \E j \in DOMAIN s : s[j] = x
                                                   \/ \E j \in DOMAIN t : t[j] = x
    <2>1. ASSUME NEW j \in DOMAIN u, u[j] = x
          PROVE  \/ \E i \in DOMAIN s : s[i] = x
                 \/ \E i \in DOMAIN t : t[i] = x
      <3>1. j \in 1 .. l + m
        BY <1>5, <1>6
      <3>2. CASE j \in 1 .. l
        BY <1>4, <1>7, <2>1, <3>2
      <3>3. CASE j \notin 1 .. l
        <4>1. j - l \in 1 .. m /\ l + (j - l) = j
          BY <1>1, <3>1, <3>3
        <4>2. QED
          BY <1>4, <1>8, <2>1, <4>1
      <3>4. QED
        BY <3>2, <3>3
    <2>2. ASSUME NEW j \in DOMAIN s, s[j] = x PROVE \E i \in DOMAIN u : u[i] = x
      <3>1. j \in 1 .. l /\ j \in 1 .. l + m
        BY <1>1, <1>4
      <3>2. QED
        BY <1>5, <1>6, <1>7, <2>2, <3>1
    <2>3. ASSUME NEW j \in DOMAIN t, t[j] = x PROVE \E i \in DOMAIN u : u[i] = x
      <3>1. j \in 1 .. m /\ l + j \in 1 .. l + m
        BY <1>1, <1>4
      <3>2. QED
        BY <1>5, <1>6, <1>8, <2>3, <3>1
    <2>4. QED
      BY <2>1, <2>2, <2>3
  <1>11. QED
    BY <1>9, <1>10 DEF Joins, u

\* Its own fields are among the fields of a class, and so are those of all of
\* the classes in its chain.
HasField(f, n, x) == \E j \in DOMAIN AllFields(f, n) : AllFields(f, n)[j] = x
HasFieldsOf(f, n, c) == \A i \in DOMAIN library[c].fields : HasField(f, n, library[c].fields[i])

\* A class inherits the fields of its superclass.
LEMMA FieldsFromChain ==
  ASSUME NEW rank, NEW bound, Hierarchy(rank, bound), NEW f, ShelvedBy(library, f),
         NEW n \in DOMAIN library
  PROVE  /\ HasFieldsOf(f, n, n) /\ IsSeq(AllFields(f, n))
         /\ library[n].superClass \in DOMAIN library =>
                \A x : HasField(f, library[n].superClass, x) => HasField(f, n, x)
  <1> DEFINE p == library[n].superClass
             s == library[n].fields
             t == FieldsOf(f[n])
             v == AllFields(f, p)
  <1>1. IsSeq(s) /\ IsSeq(t) /\ (p \in DOMAIN library => AllFields(f, n) = s \o v)
    BY AllFieldsAre
  <1>2. AllFields(f, n) = s \o t
    BY DEF AllFields
  <1> HIDE DEF s, t
  <1>3. Joins(s \o t, s, t)
    BY <1>1, SequencesJoin
  <1>4. IsSeq(AllFields(f, n)) /\ \A i \in DOMAIN s : HasField(f, n, s[i])
    BY <1>2, <1>3, Zenon DEF Joins, HasField
  <1>5. ASSUME p \in DOMAIN library, NEW x, HasField(f, p, x) PROVE HasField(f, n, x)
    <2>1. IsSeq(v)
      <3>1. IsSeq(library[p].fields) /\ IsSeq(FieldsOf(f[p]))
        BY <1>5, AllFieldsAre
      <3>2. QED
        BY <3>1, SequencesJoin, Zenon DEF AllFields, Joins
    <2>2. Joins(s \o v, s, v) /\ AllFields(f, n) = s \o v
      BY <1>1, <1>5, <2>1, SequencesJoin
    <2>3. \E j \in DOMAIN v : v[j] = x
      BY <1>5 DEF HasField
    <2> HIDE DEF v
    <2>4. QED
      BY <2>2, <2>3, Zenon DEF Joins, HasField
  <1>6. QED
    BY <1>4, <1>5 DEF HasFieldsOf, s

\* So it has the fields of all the classes in its chain.
LEMMA FieldsOfChain ==
  ASSUME NEW rank, NEW bound, Hierarchy(rank, bound), NEW f, ShelvedBy(library, f)
  PROVE  \A n \in DOMAIN library : \A c \in Range(Chain(n)) : HasFieldsOf(f, n, c)
  <1> DEFINE T == {n \in DOMAIN library : \A c \in Range(Chain(n)) : HasFieldsOf(f, n, c)}
  <1>1. \A n \in DOMAIN library : rank[n] \in Nat
    BY DEF Hierarchy
  <1>2. ASSUME NEW n \in DOMAIN library,
               \A d \in DOMAIN library : rank[d] < rank[n] => d \in T,
               NEW c \in Range(Chain(n))
        PROVE  HasFieldsOf(f, n, c)
    <2> DEFINE p == library[n].superClass
    <2>1. Chain(n) = <<n>> \o SuperChain(n) /\ SuperChain(n) \in Seq(DOMAIN library)
          /\ (p \notin DOMAIN library => SuperChain(n) = <<>>)
          /\ (p \in DOMAIN library => SuperChain(n) = Chain(p))
      BY ChainFrom DEF Chain
    <2>2. Range(Chain(n)) = {n} \cup Range(SuperChain(n))
      BY <2>1, Pushed
    <2>3. CASE c = n
      BY <2>3, FieldsFromChain
    <2>4. CASE c # n
      <3>1. c \in Range(SuperChain(n))
        BY <2>2, <2>4
      <3>2. p \in DOMAIN library
        BY <2>1, <3>1 DEF Range
      <3>3. rank[p] < rank[n]
        BY <3>2 DEF Hierarchy
      <3>4. HasFieldsOf(f, p, c)
        BY <1>2, <2>1, <3>1, <3>2, <3>3
      <3>5. \A x : HasField(f, p, x) => HasField(f, n, x)
        BY <3>2, FieldsFromChain
      <3>6. QED
        BY <3>4, <3>5, Zenon DEF HasFieldsOf
    <2>5. QED
      BY <2>3, <2>4
  <1>3. \A n \in DOMAIN library : (\A d \in DOMAIN library : rank[d] < rank[n] => d \in T) => n \in T
    BY <1>2
  <1> HIDE DEF T
  <1>4. DOMAIN library \subseteq T
    BY <1>1, <1>3, RankInduction
  <1>5. QED
    BY <1>4 DEF T

FieldSelf(id, static) == [c \in DOMAIN library |-> GetFieldSelf(c, id, static)]

\* A field that is found is at its slot in every object it is looked up in.
AtItsSlot(x, n) == library[n].instanceDataType[x.slot + 1] = x.slotType

\* The slot of a field of the class is right for an object of any subclass.
LEMMA FieldIsAtItsSlot ==
  ASSUME NEW rank, NEW bound, Hierarchy(rank, bound), NEW f, ShelvedBy(library, f), Tidy,
         NEW class \in DOMAIN library, NEW id, NEW static,
         Exists(GetField(class, id, static)), ~IsStatic(GetField(class, id, static).member),
         NEW n \in DOMAIN library, class \in Supertypes(n), ~IsInterface(n)
  PROVE  AtItsSlot(GetField(class, id, static).member, n)
  <1> DEFINE self == FieldSelf(id, static)
             m == GetField(class, id, static)
             d == m.class
             x == m.member
  <1>1. m = Search(self)[class]
    BY DEF GetField, FieldSelf
  <1>2. OfClasses(self)
    <2>1. \A c \in DOMAIN library : self[c] = GetFieldSelf(c, id, static)
      BY DEF FieldSelf
    <2>2. \A c : IsMember(GetFieldSelf(c, id, static), c, library[c].fields)
      BY MemberSelfIs DEF GetFieldSelf
    <2>3. QED
      BY <2>1, <2>2, Zenon DEF OfClasses, IsMember
  <1>3. /\ d \in DOMAIN library /\ m = self[d]
        /\ IsInterface(class) => IsInterface(d)
    BY <1>1, <1>2, SearchFinds
  <1>4. PICK i \in DOMAIN library[d].fields : m = FoundMember(d, library[d].fields[i])
    <2>1. IsMember(m, d, library[d].fields)
      <3>1. m = GetFieldSelf(d, id, static)
        BY <1>3 DEF FieldSelf
      <3>2. QED
        BY <3>1, MemberSelfIs DEF GetFieldSelf
    <2>2. m # NoMember
      BY NoneExists
    <2>3. QED
      BY <2>1, <2>2, Zenon DEF IsMember
  <1>5. x = library[d].fields[i]
    <2>1. \A c, y : FoundMember(c, y).member = y
      BY DEF FoundMember
    <2>2. QED
      BY <1>4, <2>1, Zenon
  <1>6. ~IsInterface(d)
    BY <1>3, <1>5 DEF Tidy
  <1>7. d \in Range(Chain(class)) /\ ~IsInterface(class)
    BY <1>1, <1>2, <1>3, <1>6, ClassFinds
  <1>8. class \in Range(Chain(n))
    <2>1. class \in {n} \cup Ancestors(n)
      BY SupersAre
    <2>2. FromChain(n)
      BY ClassSupertypes
    <2>3. \A c \in DOMAIN library : \A t \in SuperInterfaces(c) : IsInterface(t)
      BY InterfaceSupertypes
    <2>4. QED
      BY <1>7, <2>1, <2>2, <2>3, Zenon DEF FromChain
  <1>9. d \in Range(Chain(n))
    BY <1>7, <1>8, ChainSteps, Zenon DEF GoodChain
  <1>10. HasFieldsOf(f, n, d)
    BY <1>9, FieldsOfChain
  <1>11. HasField(f, n, x)
    BY <1>5, <1>10, Zenon DEF HasFieldsOf
  <1> DEFINE fs == AllFields(f, n)
             types == library[n].instanceDataType
  <1>12. OneToOne(fs, FALSE, types) /\ \A j \in DOMAIN fs : TypeKnown(fs[j])
    <2>1. Housed(library[n], f[n])
      BY Zenon DEF ShelvedBy
    <2>2. QED
      BY <2>1, Zenon DEF Housed, AllFields
  <1>13. PICK j \in DOMAIN fs : fs[j] = x
    BY <1>11, Zenon DEF HasField
  <1>14. IsStatic(fs[j]) = FALSE
    BY <1>13 DEF IsStatic, Has
  <1> HIDE DEF x, fs, types
  <1>15. types[fs[j].slot + 1] = SlotTypeOfClass(ClassNameByFieldDescriptor(fs[j].descriptor))
    <2>1. j \in {k \in DOMAIN fs : IsStatic(fs[k]) = FALSE}
      BY <1>13, <1>14
    <2>2. QED
      BY <1>12, <2>1, Zenon DEF OneToOne
  <1>16. types[x.slot + 1] = x.slotType
    BY <1>12, <1>13, <1>15 DEF TypeKnown
  <1>17. QED
    BY <1>16 DEF AtItsSlot, x, types
-----------------------------------------------------------------------------
(* Consistent classes *)

\* The place of a class in the order of the files.
PlaceOf(n, names) == IF \E j \in DOMAIN names : names[j] = n
                     THEN CHOOSE j \in DOMAIN names : names[j] = n
                     ELSE 0
RankOf(n, names) == IF n = JAVA_LANG_OBJECT_NAME THEN 0 ELSE 1 + PlaceOf(n, names)

\* No two files are of one class.
LEMMA NamesDiffer ==
  ASSUME program \in Programs
  PROVE  LET names == NamesInOrder
             n == Len(FilesOf(program))
         IN /\ n \in Nat /\ DOMAIN names = 1 .. n
            /\ \A i, j \in 1 .. n : names[i] = names[j] => i = j
  <1> DEFINE files == FilesOf(program)
             n == Len(files)
             names == NamesInOrder
             this(k) == NameIn(files[k], files[k].this)
  <1>1. n \in Nat /\ InOrder(files)
    BY FilesAssumption
  <1>2. DOMAIN files = 1 .. n
    BY <1>1
  <1>3. \A k \in DOMAIN files : \A i \in 1 .. k - 1 : this(i) # this(k)
    BY <1>1 DEF InOrder
  <1>4. names = [i \in DOMAIN files |-> this(i)]
    BY DEF NamesInOrder
  <1> HIDE DEF files, n, names, this
  <1>5. DOMAIN names = 1 .. n /\ \A i \in 1 .. n : names[i] = this(i)
    BY <1>2, <1>4
  <1>6. ASSUME NEW i \in 1 .. n, NEW j \in 1 .. n, i < j PROVE names[i] # names[j]
    <2>1. i \in 1 .. j - 1
      BY <1>1, <1>6
    <2>2. this(i) # this(j)
      BY <1>2, <1>3, <2>1
    <2>3. QED
      BY <1>5, <2>2
  <1>7. \A i, j \in 1 .. n : names[i] = names[j] => i = j
    BY <1>1, <1>6
  <1>8. QED
    BY <1>1, <1>5, <1>7 DEF n, names, files

\* Consistent classes are a hierarchy, by their places.
LEMMA HierarchyIs ==
  ASSUME program \in Programs, AreConsistent
  PROVE  Tidy /\ \E rank, bound : Hierarchy(rank, bound)
  <1> DEFINE names == NamesInOrder
             l == Len(FilesOf(program))
             rank == [n \in DOMAIN library |-> RankOf(n, names)]
             place(n) == PlaceOf(n, names)
             Goes(d, n) == \E i, j \in 1 .. l : i < j /\ names[i] = d /\ names[j] = n
  <1>1. /\ l \in Nat /\ DOMAIN names = 1 .. l
        /\ \A i, j \in 1 .. l : names[i] = names[j] => i = j
    BY NamesDiffer
  <1>2. /\ \A n \in DOMAIN library : IsConsistent(n, names)
        /\ JAVA_LANG_OBJECT_NAME \in DOMAIN library /\ ~IsInterface(JAVA_LANG_OBJECT_NAME)
        /\ \A i \in DOMAIN library[JAVA_LANG_OBJECT_NAME].methods :
               ~IsAbstract(library[JAVA_LANG_OBJECT_NAME].methods[i])
        /\ \A n \in {JAVA_LANG_CLONEABLE_NAME, JAVA_IO_SERIALIZABLE_NAME} \cap DOMAIN library :
               IsInterface(n)
        /\ \A n \in Special \cap DOMAIN library : Interfaces(n) = {}
    BY Zenon DEF AreConsistent, IsInstanceClass, Special
  <1> HIDE DEF names, l
  <1>3. ASSUME NEW j \in 1 .. l PROVE place(names[j]) = j
    BY <1>1 DEF PlaceOf
  <1>4. ASSUME NEW n PROVE place(n) \in 0 .. l
    <2>1. CASE \E j \in DOMAIN names : names[j] = n
      BY <1>1, <1>3, <2>1
    <2>2. CASE ~\E j \in DOMAIN names : names[j] = n
      BY <1>1, <2>2 DEF PlaceOf
    <2>3. QED
      BY <2>1, <2>2
  <1>5. ASSUME NEW d, NEW n, Earlier(d, n, names) PROVE place(d) < place(n)
    <2>1. PICK i \in 1 .. l, j \in 1 .. l : i < j /\ names[i] = d /\ names[j] = n
      BY <1>1, <1>5, Zenon DEF Earlier
    <2>2. place(d) = i /\ place(n) = j
      BY <1>3, <2>1
    <2>3. QED
      BY <2>1, <2>2
  <1> HIDE DEF place
  <1>6. \A n \in DOMAIN library : rank[n] = RankOf(n, names)
    OBVIOUS
  <1>7. \A n : RankOf(n, names) = IF n = JAVA_LANG_OBJECT_NAME THEN 0 ELSE 1 + place(n)
    BY DEF RankOf, place
  <1> HIDE DEF rank
  <1>8. ASSUME NEW n \in DOMAIN library
        PROVE  /\ rank[n] \in Nat /\ rank[n] < l + 2
               /\ n # JAVA_LANG_OBJECT_NAME => rank[JAVA_LANG_OBJECT_NAME] < rank[n]
    BY <1>1, <1>2, <1>4, <1>6, <1>7
  <1>9. ASSUME NEW n \in DOMAIN library, NEW d \in DOMAIN library,
               Earlier(d, n, names), n # JAVA_LANG_OBJECT_NAME
        PROVE  rank[d] < rank[n]
    BY <1>4, <1>5, <1>6, <1>7, <1>9
  <1>10. ASSUME NEW n \in DOMAIN library
         PROVE  /\ n # <<>> /\ ~IsArray(n)
                /\ library[n].interfaces \in
                       Seq({t \in DOMAIN library : Earlier(t, n, names) /\ IsInterface(t)})
                /\ (IsInterface(n) \/ n = JAVA_LANG_OBJECT_NAME) => library[n].superClass = <<>>
                /\ ~(IsInterface(n) \/ n = JAVA_LANG_OBJECT_NAME) =>
                       /\ Earlier(library[n].superClass, n, names)
                       /\ library[n].superClass \in DOMAIN library
                       /\ ~IsInterface(library[n].superClass)
                /\ NoTwins(library[n].methods)
                /\ IsInterface(n) => \A i \in DOMAIN library[n].fields : IsStatic(library[n].fields[i])
    <2>1. IsConsistent(n, names)
      BY <1>2
    <2>2. QED
      BY <2>1, Zenon DEF IsConsistent, NoTwins, IsInstanceClass
  <1>11. Tidy
    BY <1>2, <1>10, Zenon DEF Tidy
  <1>12. ASSUME NEW n \in DOMAIN library
         PROVE  /\ library[n].interfaces \in Seq(DOMAIN library)
                /\ \A t \in Interfaces(n) : IsInterface(t) /\ rank[t] < rank[n]
    <2> DEFINE T == {t \in DOMAIN library : Earlier(t, n, names) /\ IsInterface(t)}
               s == library[n].interfaces
    <2>1. s \in Seq(T)
      BY <1>10
    <2>2. \A t \in T : t \in DOMAIN library /\ Earlier(t, n, names) /\ IsInterface(t)
      OBVIOUS
    <2> HIDE DEF T, s
    <2>3. /\ Len(s) \in Nat /\ DOMAIN s = 1 .. Len(s) /\ \A i \in 1 .. Len(s) : s[i] \in T
          /\ s \in [1 .. Len(s) -> T]
      BY <2>1, SeqHas, LenProperties
    <2>4. s \in Seq(DOMAIN library)
      <3> DEFINE m == Len(s)
      <3>1. m \in Nat /\ s = [i \in 1 .. m |-> s[i]] /\ \A i \in 1 .. m : s[i] \in DOMAIN library
        BY <2>2, <2>3
      <3> HIDE DEF m
      <3>2. QED
        BY <3>1, SeqIs
    <2>5. \A t \in Range(s) : t \in T
      BY <2>3 DEF Range
    <2>6. Range(s) # {} => n # JAVA_LANG_OBJECT_NAME
      BY <1>2, Zenon DEF Interfaces, Special, s
    <2>7. ASSUME NEW t \in Range(s) PROVE IsInterface(t) /\ rank[t] < rank[n]
      BY <1>9, <2>2, <2>5, <2>6
    <2>8. QED
      BY <2>4, <2>7, Zenon DEF Interfaces, s
  <1>13. ASSUME NEW n \in DOMAIN library, ~(IsInterface(n) \/ n = JAVA_LANG_OBJECT_NAME)
         PROVE  rank[library[n].superClass] < rank[n]
    BY <1>9, <1>10, <1>13, Zenon
  <1>14. l + 2 \in Nat
    BY <1>1
  <1>15. Hierarchy(rank, l + 2)
    <2> DEFINE bound == l + 2
    <2>1. bound \in Nat /\ \A n \in DOMAIN library : rank[n] < bound
      BY <1>8, <1>14
    <2> HIDE DEF bound
    <2>2. Hierarchy(rank, bound)
      BY <1>2, <1>8, <1>10, <1>12, <1>13, <2>1, Zenon DEF Hierarchy
    <2>3. QED
      BY <2>2 DEF bound
  <1>16. QED
    BY <1>11, <1>15
-----------------------------------------------------------------------------
(* Handlers and lines *)

\* Where an instruction ends: at its first byte, or behind it; and what is not
\* inside it is on the same side of both.
LEMMA InstructionEnds ==
  ASSUME NEW instruction \in Instructions
  PROVE  LET start == instruction[1]
             pc == PC(instruction)
         IN /\ start \in Nat /\ pc \in Nat /\ start <= pc /\ (start = pc => instruction[2] = 1)
            /\ \A x \in Nat \ Inside(instruction) : (x <= pc <=> x <= start) /\ (pc < x <=> start < x)
  <1> DEFINE start == instruction[1]
             length == instruction[2]
             pc == PC(instruction)
  <1>1. start \in Nat /\ length \in Nat \ {0}
    BY InstructionsAssumption
  <1>2. pc = start + (length - 1) /\ Inside(instruction) = start + 1 .. pc
    BY <1>1 DEF PC, Inside
  <1> HIDE DEF start, length, pc
  <1>3. pc \in Nat /\ start <= pc /\ (start = pc => length = 1)
    BY <1>1, <1>2
  <1>4. ASSUME NEW x \in Nat, x \notin start + 1 .. pc
        PROVE  (x <= pc <=> x <= start) /\ (pc < x <=> start < x)
    BY <1>1, <1>3, <1>4
  <1>5. QED
    BY <1>1, <1>2, <1>3, <1>4 DEF start, length, pc

\* What is caught is what the exception is a subtype of.
LEMMA CatchesSubtypes ==
  ASSUME NEW rank, NEW bound, Hierarchy(rank, bound), NEW f, ShelvedBy(library, f),
         NEW s \in DOMAIN library, ~IsInterface(s), NEW type, ~IsInterface(type)
  PROVE  Catches(type, s) <=> type \in Supertypes(s)
  <1>1. SuperChain(s) \in Seq(DOMAIN library)
    BY ChainFrom
  <1>2. Range(Chain(s)) = {s} \cup Range(SuperChain(s))
    BY <1>1, Pushed DEF Chain
  <1>3. Supertypes(s) = {s} \cup Ancestors(s) /\ FromChain(s)
    BY SupersAre, ClassSupertypes
  <1>4. \A c \in DOMAIN library : \A t \in SuperInterfaces(c) : IsInterface(t)
    BY InterfaceSupertypes
  <1>5. type \in Supertypes(s) <=> type \in Range(Chain(s))
    BY <1>3, <1>4, Zenon DEF FromChain
  <1>6. QED
    BY <1>2, <1>5 DEF Catches, IsSubClassOf

\* The handler that is found: of the rows that cover the first byte.
RightRows(code, start, s) ==
    {r \in DOMAIN code.catches :
        LET row == code.catches[r]
        IN /\ Covers(row, start)
           /\ row[4] = 0 \/ NameAt(row[4]) \in Supertypes(s)}
RightHandler(code, start, s) ==
    LET right == RightRows(code, start, s)
    IN IF right = {} THEN 0 ELSE code.catches[Min(right)][3]

\* findExceptionHandler goes by the pc behind an instruction, and finds the
\* handler that the instruction's first byte asks for.
LEMMA HandlerIs ==
  ASSUME NEW rank, NEW bound, Hierarchy(rank, bound), NEW f, ShelvedBy(library, f),
         NEW s \in DOMAIN library, ~IsInterface(s), NEW instruction \in Instructions,
         NEW code, IsAligned(code, instruction)
  PROVE  FindExceptionHandler(code.catches, s, PC(instruction))
             = RightHandler(code, instruction[1], s)
  <1> DEFINE rows == code.catches
             start == instruction[1]
             pc == PC(instruction)
             fits == {r \in DOMAIN rows : /\ rows[r][1] <= pc /\ pc < rows[r][2]
                                          /\ (rows[r][4] = 0 \/ Catches(NameAt(rows[r][4]), s))}
  <1>1. ASSUME NEW r \in DOMAIN rows
        PROVE  r \in fits <=> r \in RightRows(code, start, s)
    <2>1. /\ rows[r][1] \in Nat \ Inside(instruction) /\ rows[r][2] \in Nat \ Inside(instruction)
          /\ rows[r][4] # 0 => ~IsInterface(NameAt(rows[r][4]))
      BY DEF IsAligned
    <2>2. (rows[r][1] <= pc <=> rows[r][1] <= start) /\ (pc < rows[r][2] <=> start < rows[r][2])
      BY <2>1, InstructionEnds
    <2>3. rows[r][4] # 0 => (Catches(NameAt(rows[r][4]), s) <=> NameAt(rows[r][4]) \in Supertypes(s))
      BY <2>1, CatchesSubtypes
    <2>4. QED
      BY <2>2, <2>3, Zenon DEF RightRows, Covers
  <1>2. fits = RightRows(code, start, s)
    BY <1>1 DEF RightRows
  <1>3. QED
    BY <1>2, Zenon DEF FindExceptionHandler, RightHandler

\* The line that is found: of the last row at or before the first byte, unless
\* the instruction is that byte and begins the line.
RightLine(code, instruction, line) ==
    \A r \in Greatest(code.lines, instruction[1]) :
        \/ line = code.lines[r][2]
        \/ instruction[2] = 1 /\ code.lines[r][1] = instruction[1]

\* getLineNumber, which goes by the pc behind an instruction, finds that line.
LEMMA LineIs ==
  ASSUME NEW instruction \in Instructions, NEW code, IsAligned(code, instruction)
  PROVE  RightLine(code, instruction, GetLineNumber(code.lines, PC(instruction)))
  <1> DEFINE lines == code.lines
             start == instruction[1]
             pc == PC(instruction)
             fits == {r \in DOMAIN lines : pc > lines[r][1]}
             first(r) == lines[r][1]
  <1>1. /\ start \in Nat /\ pc \in Nat /\ start <= pc /\ (start = pc => instruction[2] = 1)
        /\ \A x \in Nat \ Inside(instruction) : x <= pc <=> x <= start
    BY InstructionEnds
  <1>2. /\ lines \in Seq(Seq(Nat))
        /\ \A r \in DOMAIN lines : first(r) \in Nat \ Inside(instruction)
        /\ \A r \in DOMAIN lines : \A q \in DOMAIN lines : q < r => first(q) < first(r)
    BY DEF IsAligned
  <1>3. Len(lines) \in Nat /\ DOMAIN lines = 1 .. Len(lines)
    BY <1>2, SeqHas
  <1>4. fits \subseteq 1 .. Len(lines) /\ \A r \in fits : r \in DOMAIN lines /\ pc > first(r)
    BY <1>3
  <1>5. GetLineNumber(lines, pc) = IF fits = {} THEN 0 ELSE lines[Max(fits)][2]
    BY Zenon DEF GetLineNumber
  <1>6. ASSUME NEW r \in Greatest(lines, start)
        PROVE  \/ GetLineNumber(lines, pc) = lines[r][2]
               \/ instruction[2] = 1 /\ first(r) = start
    <2>1. /\ r \in DOMAIN lines /\ first(r) <= start
          /\ \A q \in DOMAIN lines : first(q) <= start => first(q) <= first(r)
      BY DEF Greatest
    <2>2. \A q \in DOMAIN lines : q \in fits <=> pc > first(q)
      OBVIOUS
    <2> HIDE DEF fits, first
    <2>3. CASE ~(pc > first(r))
      <3>1. first(r) = start /\ start = pc
        BY <1>1, <1>2, <2>1, <2>3
      <3>2. QED
        BY <1>1, <3>1
    <2>4. CASE pc > first(r)
      <3>1. r \in fits /\ fits # {}
        BY <2>1, <2>2, <2>4
      <3> DEFINE x == Max(fits)
      <3>2. x \in fits /\ r <= x
        BY <1>3, <1>4, <3>1, MaxIs
      <3> HIDE DEF x
      <3>3. x \in DOMAIN lines /\ pc > first(x)
        BY <1>4, <3>2
      <3>4. first(x) <= start
        BY <1>1, <1>2, <3>3
      <3>5. first(x) <= first(r)
        BY <2>1, <3>3, <3>4
      <3>6. ~(r < x)
        BY <1>2, <2>1, <3>3, <3>5
      <3>7. x = r
        BY <1>3, <2>1, <3>2, <3>3, <3>6
      <3>8. QED
        BY <1>5, <3>1, <3>7 DEF x
    <2>5. QED
      BY <2>3, <2>4
  <1>7. QED
    BY <1>6, Zenon DEF RightLine

-----------------------------------------------------------------------------
(* Steps of the frame *)

\* Nothing that is looked up changes while the library and the program do not.
LEMMA SameClasses ==
  ASSUME library' = library, program' = program
  PROVE  /\ \A n : Supertypes(n)' = Supertypes(n)
         /\ \A i : NameAt(i)' = NameAt(i) /\ IdAt(i)' = IdAt(i) /\ ClassAt(i)' = ClassAt(i)
         /\ \A n : /\ IsInterface(n)' = IsInterface(n)
                   /\ SuperChain(n)' = SuperChain(n) /\ Chain(n)' = Chain(n)
         /\ \A n, id, static : GetField(n, id, static)' = GetField(n, id, static)
         /\ \A n, id, static : GetMethod(n, id, static)' = GetMethod(n, id, static)
         /\ \A id, s : LinkVirtualMethod(id, s)' = LinkVirtualMethod(id, s)
         /\ \A n, id : Declared(n, id)' = Declared(n, id)
         /\ \A tag : Refs(tag)' = Refs(tag)
  <1>1. \A n : Supertypes(n)' = Supertypes(n)
    BY DEF Supertypes, DirectSupers, IsInstanceClass, Interfaces, IsInterface
  <1>2. \A i : NameAt(i)' = NameAt(i) /\ IdAt(i)' = IdAt(i) /\ ClassAt(i)' = ClassAt(i)
    BY DEF NameAt, IdAt, ClassAt, RefPool, JAVA_LANG_OBJECT_NAME
  <1>3. \A n : /\ IsInterface(n)' = IsInterface(n)
               /\ SuperChain(n)' = SuperChain(n) /\ Chain(n)' = Chain(n)
    BY DEF SuperChain, Chain, IsInterface, IsInstanceClass, SuperClasses, Super
  <1>4. \A n, id, static : GetField(n, id, static)' = GetField(n, id, static)
    BY DEF GetField, GetFieldSelf, Search
  <1>5. \A n, id, static : GetMethod(n, id, static)' = GetMethod(n, id, static)
    BY DEF GetMethod, GetMethodSelf, Search
  <1>6. \A id, s : LinkVirtualMethod(id, s)' = LinkVirtualMethod(id, s)
    <2>1. \A n, id : ConcreteOf(n, id)' = ConcreteOf(n, id)
      BY <1>5 DEF ConcreteOf
    <2>2. \A n, id : FirstConcrete(n, id)' = FirstConcrete(n, id)
      BY <1>3, <2>1 DEF FirstConcrete
    <2>3. QED
      BY <1>5, <2>2 DEF LinkVirtualMethod, JAVA_LANG_OBJECT_NAME
  <1>7. \A n, id : Declared(n, id)' = Declared(n, id)
    BY DEF Declared
  <1>8. \A tag : Refs(tag)' = Refs(tag)
    BY DEF Refs, RefPool
  <1>9. QED
    BY <1>1, <1>2, <1>3, <1>4, <1>5, <1>6, <1>7, <1>8

\* What the frame may have found: fields and methods by their index.
FieldsAt(i) == {GetField(ClassAt(i), IdAt(i), static) : static \in BOOLEAN}
MethodsAt(i) == {GetMethod(ClassAt(i), IdAt(i), static) : static \in BOOLEAN}

\* What is in the map has been found by an instruction that expects what it
\* is, and is what the instruction would find again.
EntryFits(key, e, u) ==
    \/ \E i \in Refs(9) : /\ key = <<i>> /\ e.kind = "field"
                          /\ Exists(e.found) /\ e.found \in FieldsAt(i)
    \/ \E i \in Refs(10) : /\ key = <<i>> /\ e.kind = "method"
                           /\ <<"method", i>> \in u /\ e.found \in MethodsAt(i)
    \/ \E i \in Refs(10) : key = <<i>> /\ e.kind = "virtual" /\ <<"virtual", i>> \in u
    \/ \E i \in Refs(7) : key = <<i>> /\ e.kind = "class" /\ e.found = NameAt(i)
    \/ \E i, s : key = <<i, s>> /\ e.kind = "method" /\ e.found = LinkVirtualMethod(IdAt(i), s)
EntriesFit(c, u) == \A key \in DOMAIN c : EntryFits(key, c[key], u)

\* An entry for an index alone is of what the index refers to.
OfIndex(i, e, u) ==
    /\ i \in Refs(9) => e.kind = "field" /\ Exists(e.found) /\ e.found \in FieldsAt(i)
    /\ i \in Refs(10) =>
           \/ e.kind = "method" /\ <<"method", i>> \in u /\ e.found \in MethodsAt(i)
           \/ e.kind = "virtual" /\ <<"virtual", i>> \in u
    /\ i \in Refs(7) => e.kind = "class" /\ e.found = NameAt(i)

\* An entry that fits has that.
LEMMA IndexEntry ==
  ASSUME NEW i, NEW e, NEW u, EntryFits(<<i>>, e, u)
  PROVE  OfIndex(i, e, u)
  <1>1. \A j : <<i>> = <<j>> => i = j
    OBVIOUS
  <1>2. \A j, s : <<i>> # <<j, s>>
    OBVIOUS
  <1>3. \A j : /\ ~(j \in Refs(9) /\ j \in Refs(10))
               /\ ~(j \in Refs(9) /\ j \in Refs(7))
               /\ ~(j \in Refs(7) /\ j \in Refs(10))
    BY DEF Refs
  <1>4. QED
    BY <1>1, <1>2, <1>3, Zenon DEF EntryFits, OfIndex

\* An entry for an index and a class is the method that is linked.
LEMMA VirtualEntry ==
  ASSUME NEW i, NEW s, NEW e, NEW u, EntryFits(<<i, s>>, e, u)
  PROVE  e.kind = "method" /\ e.found = LinkVirtualMethod(IdAt(i), s)
  <1>1. \A j, t : <<i, s>> = <<j, t>> => i = j /\ s = t
    OBVIOUS
  <1>2. \A j : <<i, s>> # <<j>>
    OBVIOUS
  <1>3. QED
    BY <1>1, <1>2, Zenon DEF EntryFits

\* The map stays so with an entry more, and with more uses.
LEMMA EntriesGrow ==
  ASSUME NEW c, NEW u, EntriesFit(c, u), NEW v, u \subseteq v
  PROVE  /\ EntriesFit(c, v)
         /\ \A key, e : EntryFits(key, e, v) => EntriesFit(With(c, key, e), v)
  <1>1. ASSUME NEW key, NEW e, EntryFits(key, e, u) PROVE EntryFits(key, e, v)
    <2>1. \A x : x \in u => x \in v
      OBVIOUS
    <2>2. QED
      BY <1>1, <2>1, Zenon DEF EntryFits
  <1>2. EntriesFit(c, v)
    BY <1>1, Zenon DEF EntriesFit
  <1>3. ASSUME NEW key, NEW e, EntryFits(key, e, v) PROVE EntriesFit(With(c, key, e), v)
    <2> DEFINE w == With(c, key, e)
    <2>1. \A k \in DOMAIN w : k \in DOMAIN c \cup {key} /\ w[k] = IF k = key THEN e ELSE c[k]
      BY DEF With
    <2>2. ASSUME NEW k \in DOMAIN w PROVE EntryFits(k, w[k], v)
      <3>1. CASE k = key
        BY <1>3, <2>1, <3>1
      <3>2. CASE k # key
        <4>1. k \in DOMAIN c /\ w[k] = c[k]
          BY <2>1, <3>2
        <4>2. QED
          BY <1>2, <4>1 DEF EntriesFit
      <3>3. QED
        BY <3>1, <3>2
    <2> HIDE DEF w
    <2>3. EntriesFit(w, v)
      BY <2>2 DEF EntriesFit
    <2>4. QED
      BY <2>3 DEF w
  <1>4. QED
    BY <1>2, <1>3

\* The properties, of a last instruction, a map and uses.
TypesRight(l) ==
    /\ l.op = "test" =>
           \/ IsArray(l.class) /\ IsArray(NameAt(l.index))
           \/ l.found = (NameAt(l.index) \in Supertypes(l.class))
    /\ l.op = "throw" =>
           LET code == library[Caller(program)].methods[l.index].code
           IN /\ l.found.handler = RightHandler(code, l.found.at[1], l.class)
              /\ RightLine(code, l.found.at, l.found.line)
MethodRight(l) == l.op = "virtual" /\ l.outcome = "found" =>
                      RunsMostDerived(IdAt(l.index), l.class, l.found)
SlotRight(l) == ~IsStatic(l.found.member) =>
                    \A n \in DOMAIN library : l.class \in Supertypes(n) /\ ~IsInterface(n) =>
                        AtItsSlot(l.found.member, n)
CacheRight(l, c, u) ==
    /\ l.outcome = "confused" => <<"method", l.index>> \in u /\ <<"virtual", l.index>> \in u
    /\ l.outcome = "wild" => <<l.index>> \notin DOMAIN c
    /\ l.op = "method" /\ l.outcome = "found" =>
           l.found \in {GetMethod(l.class, IdAt(l.index), static) : static \in BOOLEAN}
    /\ l.op = "virtual" /\ l.outcome = "found" =>
           l.found = LinkVirtualMethod(IdAt(l.index), l.class)
    /\ l.op = "field" /\ l.outcome = "found" =>
           /\ l.found \in {GetField(l.class, IdAt(l.index), static) : static \in BOOLEAN}
           /\ SlotRight(l)
AllRight(l, c, u) == TypesRight(l) /\ MethodRight(l) /\ CacheRight(l, c, u) /\ EntriesFit(c, u)

\* So they are of a state.
LEMMA RightIs ==
  /\ TypesDecide <=> TypesRight(last)
  /\ MostDerivedIsLinked <=> MethodRight(last)
  /\ CacheIsTransparent <=> CacheRight(last, cache, uses)
  <1>1. TypesDecide <=> TypesRight(last)
    BY Zenon DEF TypesDecide, TypesRight, RightHandler, RightRows, RightLine
  <1>2. MostDerivedIsLinked <=> MethodRight(last)
    BY Zenon DEF MostDerivedIsLinked, MethodRight, RunsMostDerived, Declared
  <1>3. CacheIsTransparent <=> CacheRight(last, cache, uses)
    BY Zenon DEF CacheIsTransparent, CacheRight, SlotRight, AtItsSlot, Mixed
  <1>4. QED
    BY <1>1, <1>2, <1>3

\* And after a step that changes neither the classes nor the program.
AreRight == TypesDecide /\ MostDerivedIsLinked /\ CacheIsTransparent /\ EntriesFit(cache, uses)

\* So what a step finds is right if it is right by the classes before it.
LEMMA RightAfter ==
  ASSUME library' = library, program' = program, AllRight(last', cache', uses')
  PROVE  AreRight'
  <1>1. /\ TypesDecide' <=> TypesRight(last)'
        /\ MostDerivedIsLinked' <=> MethodRight(last)'
        /\ CacheIsTransparent' <=> CacheRight(last, cache, uses)'
    BY RightIs, PTL
  <1>2. /\ \A n : Supertypes(n)' = Supertypes(n)
        /\ \A i : NameAt(i)' = NameAt(i) /\ IdAt(i)' = IdAt(i) /\ ClassAt(i)' = ClassAt(i)
        /\ \A n : /\ IsInterface(n)' = IsInterface(n)
                  /\ SuperChain(n)' = SuperChain(n) /\ Chain(n)' = Chain(n)
        /\ \A n, id, static : GetField(n, id, static)' = GetField(n, id, static)
        /\ \A n, id, static : GetMethod(n, id, static)' = GetMethod(n, id, static)
        /\ \A id, s : LinkVirtualMethod(id, s)' = LinkVirtualMethod(id, s)
        /\ \A n, id : Declared(n, id)' = Declared(n, id)
        /\ \A tag : Refs(tag)' = Refs(tag)
    BY SameClasses
  <1>3. \A code, start, s : RightHandler(code, start, s)' = RightHandler(code, start, s)
    <2>1. \A code, start, s : RightRows(code, start, s)' = RightRows(code, start, s)
      BY <1>2 DEF RightRows
    <2>2. QED
      BY <2>1 DEF RightHandler
  <1>4. TypesRight(last)' <=> TypesRight(last')
    BY <1>2, <1>3 DEF TypesRight
  <1>5. MethodRight(last)' <=> MethodRight(last')
    BY <1>2 DEF MethodRight, RunsMostDerived
  <1>6. CacheRight(last, cache, uses)' <=> CacheRight(last', cache', uses')
    BY <1>2 DEF CacheRight, SlotRight, AtItsSlot
  <1>7. EntriesFit(cache, uses)' <=> EntriesFit(cache', uses')
    <2>1. \A i : FieldsAt(i)' = FieldsAt(i) /\ MethodsAt(i)' = MethodsAt(i)
      BY <1>2 DEF FieldsAt, MethodsAt
    <2>2. ASSUME NEW key, NEW e, NEW u PROVE EntryFits(key, e, u)' <=> EntryFits(key, e, u)
      <3>1. Refs(9)' = Refs(9) /\ Refs(10)' = Refs(10) /\ Refs(7)' = Refs(7)
        BY <1>2
      <3>2. \A found : Exists(found)' <=> Exists(found)
        BY DEF Exists
      <3>3. QED
        BY <1>2, <2>1, <3>1, <3>2, Zenon DEF EntryFits
    <2>3. QED
      BY <2>2 DEF EntriesFit
  <1>8. QED
    BY <1>1, <1>4, <1>5, <1>6, <1>7 DEF AreRight, AllRight

\* The parts of what an instruction has done and of an entry.
LEMMA LinkedHas ==
  ASSUME NEW op, NEW index, NEW class, NEW result
  PROVE  LET l == Linked(op, index, class, result)
         IN /\ l.op = op /\ l.index = index /\ l.class = class
            /\ l.outcome = result.outcome /\ l.found = result.found
  BY DEF Linked

\* And of an entry.
LEMMA EntryHas ==
  ASSUME NEW kind, NEW found
  PROVE  Entry(kind, found).kind = kind /\ Entry(kind, found).found = found
  BY DEF Entry

\* The four outcomes of a step.
LEMMA OutcomesAre ==
  /\ \A x : Finds(x).outcome = "found" /\ Finds(x).found = x
  /\ Panic.outcome = "panic" /\ Confused.outcome = "confused" /\ Wild.outcome = "wild"
  BY DEF Finds, Panic, Confused, Wild

\* What a use of the map finds, and what it leaves there.
LEMMA CachedIs ==
  ASSUME NEW key, NEW kind, NEW found
  PROVE  \/ key \notin DOMAIN cache /\ Cached(key, kind, found) = Finds(found)
         \/ /\ key \in DOMAIN cache /\ cache[key].kind = kind
            /\ Cached(key, kind, found) = Finds(cache[key].found)
         \/ /\ key \in DOMAIN cache /\ cache[key].kind # kind
            /\ Cached(key, kind, found) = Confused
  BY DEF Cached

\* So the entries fit after a use that finds one or adds one that fits.
LEMMA CachesFit ==
  ASSUME NEW key, NEW kind, NEW found, Caches(key, kind, found), EntriesFit(cache, uses),
         NEW v, uses \subseteq v, EntryFits(key, Entry(kind, found), v)
  PROVE  EntriesFit(cache', v)
  <1>1. EntriesFit(cache, v) /\ EntriesFit(With(cache, key, Entry(kind, found)), v)
    BY EntriesGrow
  <1>2. cache' = cache \/ cache' = With(cache, key, Entry(kind, found))
    BY DEF Caches
  <1>3. QED
    BY <1>1, <1>2

\* getRefField
LEMMA RefFieldStep ==
  ASSUME NEW rank, NEW bound, Hierarchy(rank, bound), NEW f, ShelvedBy(library, f), Tidy,
         EntriesFit(cache, uses), NEW i \in Refs(9), NEW static \in BOOLEAN,
         GetRefField(i, static)
  PROVE  AllRight(last', cache', uses')
  <1> DEFINE found == GetField(ClassAt(i), IdAt(i), static)
             r == Cached(<<i>>, "field", found)
  <1>1. ClassAt(i) \in DOMAIN library /\ Exists(found)
    BY DEF GetRefField, IsInstanceClass
  <1>2. last' = Linked("field", i, ClassAt(i), r) /\ uses' = uses \cup {<<"field", i>>}
    BY DEF GetRefField, Does
  <1>3. Caches(<<i>>, "field", found)
    BY DEF GetRefField
  <1>4. found \in FieldsAt(i)
    BY DEF FieldsAt
  <1> HIDE DEF found
  <1>5. r.outcome = "found" /\ r.found \in FieldsAt(i) /\ Exists(r.found)
    <2>1. CASE <<i>> \in DOMAIN cache
      <3>1. OfIndex(i, cache[<<i>>], uses)
        BY <2>1, IndexEntry DEF EntriesFit
      <3>2. /\ cache[<<i>>].kind = "field" /\ Exists(cache[<<i>>].found)
            /\ cache[<<i>>].found \in FieldsAt(i)
        BY <3>1, Zenon DEF OfIndex
      <3>3. QED
        BY <2>1, <3>2, CachedIs, OutcomesAre
    <2>2. CASE <<i>> \notin DOMAIN cache
      BY <1>1, <1>4, <2>2, CachedIs, OutcomesAre
    <2>3. QED
      BY <2>1, <2>2
  <1>6. /\ last'.op = "field" /\ last'.index = i /\ last'.class = ClassAt(i)
        /\ last'.outcome = "found" /\ last'.found = r.found
    BY <1>2, <1>5, LinkedHas
  <1> HIDE DEF r
  <1>7. SlotRight(last')
    <2>1. PICK s \in BOOLEAN : r.found = GetField(ClassAt(i), IdAt(i), s)
      BY <1>5 DEF FieldsAt
    <2>2. ASSUME ~IsStatic(r.found.member), NEW n \in DOMAIN library,
                 ClassAt(i) \in Supertypes(n), ~IsInterface(n)
          PROVE  AtItsSlot(r.found.member, n)
      BY <1>1, <1>5, <2>1, <2>2, FieldIsAtItsSlot
    <2>3. QED
      BY <1>6, <2>2, Zenon DEF SlotRight
  <1>8. EntriesFit(cache', uses')
    <2>1. EntryFits(<<i>>, Entry("field", found), uses')
      <3> DEFINE e == Entry("field", found)
                 v == uses'
      <3>1. e.kind = "field" /\ Exists(e.found) /\ e.found \in FieldsAt(i)
        BY <1>1, <1>4, EntryHas
      <3> HIDE DEF e, v
      <3>2. EntryFits(<<i>>, e, v)
        BY <3>1, Zenon DEF EntryFits
      <3>3. QED
        BY <3>2 DEF e, v
    <2>2. uses \subseteq uses'
      BY <1>2
    <2>3. QED
      BY <1>3, <2>1, <2>2, CachesFit
  <1>9. TypesRight(last') /\ MethodRight(last')
    BY <1>6 DEF TypesRight, MethodRight
  <1>10. CacheRight(last', cache', uses')
    BY <1>5, <1>6, <1>7 DEF CacheRight, FieldsAt
  <1>11. QED
    BY <1>8, <1>9, <1>10 DEF AllRight

\* getRefMethod
LEMMA RefMethodStep ==
  ASSUME EntriesFit(cache, uses), NEW i \in Refs(10), NEW static \in BOOLEAN,
         GetRefMethod(i, static)
  PROVE  AllRight(last', cache', uses')
  <1> DEFINE found == GetMethod(ClassAt(i), IdAt(i), static)
             r == Cached(<<i>>, "method", found)
  <1>1. last' = Linked("method", i, ClassAt(i), r) /\ uses' = uses \cup {<<"method", i>>}
    BY DEF GetRefMethod, Does
  <1>2. Caches(<<i>>, "method", found)
    BY DEF GetRefMethod
  <1>3. found \in MethodsAt(i)
    BY DEF MethodsAt
  <1> HIDE DEF found
  <1>4. \/ r.outcome = "found" /\ r.found \in MethodsAt(i)
        \/ r.outcome = "confused" /\ <<"virtual", i>> \in uses
    <2>1. CASE <<i>> \in DOMAIN cache
      <3>1. OfIndex(i, cache[<<i>>], uses)
        BY <2>1, IndexEntry DEF EntriesFit
      <3>2. \/ cache[<<i>>].kind = "method" /\ cache[<<i>>].found \in MethodsAt(i)
            \/ cache[<<i>>].kind = "virtual" /\ <<"virtual", i>> \in uses
        BY <3>1, Zenon DEF OfIndex
      <3>3. QED
        BY <2>1, <3>2, CachedIs, OutcomesAre
    <2>2. CASE <<i>> \notin DOMAIN cache
      BY <1>3, <2>2, CachedIs, OutcomesAre
    <2>3. QED
      BY <2>1, <2>2
  <1>5. /\ last'.op = "method" /\ last'.index = i /\ last'.class = ClassAt(i)
        /\ last'.outcome = r.outcome /\ last'.found = r.found
    BY <1>1, LinkedHas
  <1> HIDE DEF r
  <1>6. EntriesFit(cache', uses')
    <2>1. EntryFits(<<i>>, Entry("method", found), uses')
      <3> DEFINE e == Entry("method", found)
                 v == uses'
      <3>1. e.kind = "method" /\ e.found \in MethodsAt(i) /\ <<"method", i>> \in v
        BY <1>1, <1>3, EntryHas
      <3> HIDE DEF e, v
      <3>2. EntryFits(<<i>>, e, v)
        BY <3>1, Zenon DEF EntryFits
      <3>3. QED
        BY <3>2 DEF e, v
    <2>2. uses \subseteq uses'
      BY <1>1
    <2>3. QED
      BY <1>2, <2>1, <2>2, CachesFit
  <1>7. TypesRight(last') /\ MethodRight(last')
    BY <1>5 DEF TypesRight, MethodRight
  <1>8. CacheRight(last', cache', uses')
    BY <1>1, <1>4, <1>5 DEF CacheRight, MethodsAt
  <1>9. QED
    BY <1>6, <1>7, <1>8 DEF AllRight

\* Objects are arrays, or of classes.
LEMMA ObjectsAre ==
  ASSUME NEW s \in Objects
  PROVE  Concrete(s) /\ (IsArray(s) \/ (s \in DOMAIN library /\ ~IsInterface(s)))
  BY DEF Objects, Concrete, IsInterface, IsInstanceClass

\* getRefClass, of a type test
LEMMA TypeTestStep ==
  ASSUME NEW rank, NEW bound, Hierarchy(rank, bound), NEW f, ShelvedBy(library, f),
         EntriesFit(cache, uses), NEW i \in Refs(7), NEW s \in Objects, TypeTest(i, s)
  PROVE  AllRight(last', cache', uses')
  <1> DEFINE name == NameAt(i)
             r == Cached(<<i>>, "class", name)
             answer == IsAssignableFrom(r.found, s)
  <1>1. last' = Linked("test", i, s, Finds(answer)) /\ uses' = uses \cup {<<"test", i>>}
    BY DEF TypeTest, Does
  <1>2. Caches(<<i>>, "class", name)
    BY DEF TypeTest
  <1>3. r.found = name
    <2>1. CASE <<i>> \in DOMAIN cache
      <3>1. OfIndex(i, cache[<<i>>], uses)
        BY <2>1, IndexEntry DEF EntriesFit
      <3>2. cache[<<i>>].kind = "class" /\ cache[<<i>>].found = name
        BY <3>1, Zenon DEF OfIndex
      <3> HIDE DEF name
      <3>3. QED
        BY <2>1, <3>2, CachedIs, OutcomesAre
    <2>2. CASE <<i>> \notin DOMAIN cache
      <3> HIDE DEF name
      <3>1. QED
        BY <2>2, CachedIs, OutcomesAre
    <2>3. QED
      BY <2>1, <2>2
  <1>4. answer = IsAssignableFrom(name, s)
    BY <1>3
  <1> HIDE DEF answer
  <1>5. /\ last'.op = "test" /\ last'.index = i /\ last'.class = s
        /\ last'.outcome = "found" /\ last'.found = answer
    BY <1>1, LinkedHas, OutcomesAre
  <1>6. \/ IsArray(s) /\ IsArray(name)
        \/ answer = (name \in Supertypes(s))
    BY <1>4, ObjectsAre, AssignableIs
  <1>7. TypesRight(last')
    <2>1. last'.op # "throw"
      BY <1>5
    <2>2. QED
      BY <1>5, <1>6, <2>1, Zenon DEF TypesRight
  <1>8. MethodRight(last') /\ CacheRight(last', cache', uses')
    BY <1>5 DEF MethodRight, CacheRight
  <1>9. EntriesFit(cache', uses')
    <2>1. EntryFits(<<i>>, Entry("class", name), uses')
      <3> DEFINE e == Entry("class", name)
                 v == uses'
      <3>1. e.kind = "class" /\ e.found = name
        BY EntryHas
      <3> HIDE DEF e, v
      <3>2. EntryFits(<<i>>, e, v)
        BY <3>1, Zenon DEF EntryFits
      <3>3. QED
        BY <3>2 DEF e, v
    <2>2. uses \subseteq uses'
      BY <1>1
    <2>3. QED
      BY <1>2, <2>1, <2>2, CachesFit
  <1>10. QED
    BY <1>7, <1>8, <1>9 DEF AllRight

\* A virtual call that finds no method, or takes another entry for its own.
LEMMA StoppedCall ==
  ASSUME EntriesFit(cache, uses), NEW i, NEW s, NEW result, Does("virtual", i, s, result),
         UNCHANGED cache,
         \/ result.outcome = "panic"
         \/ result.outcome = "wild" /\ <<i>> \notin DOMAIN cache
         \/ result.outcome = "confused" /\ <<"method", i>> \in uses
  PROVE  AllRight(last', cache', uses')
  <1>1. last' = Linked("virtual", i, s, result) /\ uses' = uses \cup {<<"virtual", i>>}
    BY DEF Does
  <1>2. /\ last'.op = "virtual" /\ last'.index = i /\ last'.class = s
        /\ last'.outcome = result.outcome /\ last'.outcome # "found"
    BY <1>1, LinkedHas
  <1>3. EntriesFit(cache', uses')
    BY <1>1, EntriesGrow
  <1>4. TypesRight(last') /\ MethodRight(last')
    BY <1>2 DEF TypesRight, MethodRight
  <1>5. CacheRight(last', cache', uses')
    BY <1>1, <1>2 DEF CacheRight
  <1>6. QED
    BY <1>3, <1>4, <1>5 DEF AllRight

\* linkVirtualMethod, and what it keeps
LEMMA InvokeVirtualStep ==
  ASSUME NEW rank, NEW bound, Hierarchy(rank, bound), NEW f, ShelvedBy(library, f), Tidy,
         EntriesFit(cache, uses), NEW i \in Refs(10), NEW s \in Objects,
         HasNoStatic(IdAt(i), s), InvokeVirtual(i, s)
  PROVE  AllRight(last', cache', uses')
  <1> DEFINE id == IdAt(i)
             found == LinkVirtualMethod(id, s)
             first == Cached(<<i>>, "virtual", id)
             r == Cached(<<i, s>>, "method", found)
  <1>1. CASE first.outcome = "confused"
    <2>1. Does("virtual", i, s, Confused) /\ UNCHANGED cache
      BY <1>1 DEF InvokeVirtual
    <2>2. <<i>> \in DOMAIN cache /\ cache[<<i>>].kind # "virtual"
      <3> HIDE DEF id
      <3>1. first.outcome # "found"
        BY <1>1
      <3>2. QED
        BY <3>1, CachedIs, OutcomesAre
    <2>3. OfIndex(i, cache[<<i>>], uses)
      BY <2>2, IndexEntry DEF EntriesFit
    <2>4. <<"method", i>> \in uses
      BY <2>2, <2>3, Zenon DEF OfIndex
    <2>5. QED
      BY <2>1, <2>4, StoppedCall, OutcomesAre
  <1>2. CASE first.outcome # "confused" /\ ~Exists(found)
    <2>1. Does("virtual", i, s, Panic) /\ UNCHANGED cache
      BY <1>2 DEF InvokeVirtual
    <2>2. QED
      BY <2>1, StoppedCall, OutcomesAre
  <1>3. CASE first.outcome # "confused" /\ Exists(found)
    <2>1. /\ Does("virtual", i, s, r)
          /\ cache' = With(With(cache, <<i>>, Entry("virtual", id)), <<i, s>>, Entry("method", found))
      BY <1>3 DEF InvokeVirtual, KeyOf
    <2>2. last' = Linked("virtual", i, s, r) /\ uses' = uses \cup {<<"virtual", i>>}
      BY <2>1 DEF Does
    <2>3. RunsMostDerived(id, s, found)
      BY <1>3, ObjectsAre, ClassLinks, ArrayLinks
    <2>4. <<i, s>> \in DOMAIN cache => cache[<<i, s>>].kind = "method" /\ cache[<<i, s>>].found = found
      BY VirtualEntry DEF EntriesFit
    <2> DEFINE v == uses'
               e == Entry("virtual", id)
               g == Entry("method", found)
    <2>5. EntriesFit(cache', v)
      <3>1. e.kind = "virtual" /\ g.kind = "method" /\ g.found = found /\ <<"virtual", i>> \in v
            /\ uses \subseteq v
        BY <2>2, EntryHas
      <3>2. cache' = With(With(cache, <<i>>, e), <<i, s>>, g)
        BY <2>1
      <3> HIDE DEF e, v, g
      <3>3. EntryFits(<<i>>, e, v) /\ EntryFits(<<i, s>>, g, v)
        BY <3>1, Zenon DEF EntryFits
      <3>4. EntriesFit(With(cache, <<i>>, e), v)
        BY <3>1, <3>3, EntriesGrow
      <3>5. EntriesFit(With(With(cache, <<i>>, e), <<i, s>>, g), v)
        <4>1. v \subseteq v
          OBVIOUS
        <4>2. QED
          BY <3>3, <3>4, <4>1, EntriesGrow
      <3>6. QED
        BY <3>2, <3>5
    <2> HIDE DEF found
    <2>6. r = Finds(found)
      BY <2>4, CachedIs
    <2>7. /\ last'.op = "virtual" /\ last'.index = i /\ last'.class = s
          /\ last'.outcome = "found" /\ last'.found = found
      BY <2>2, <2>6, LinkedHas, OutcomesAre
    <2>8. TypesRight(last')
      BY <2>7 DEF TypesRight
    <2>9. MethodRight(last')
      BY <2>3, <2>7, Zenon DEF MethodRight
    <2>10. CacheRight(last', cache', uses')
      BY <2>7 DEF CacheRight, found
    <2>11. QED
      BY <2>5, <2>8, <2>9, <2>10 DEF AllRight
  <1>4. QED
    BY <1>1, <1>2, <1>3

\* findExceptionHandler and getLineNumber
LEMMA ThrowStep ==
  ASSUME NEW rank, NEW bound, Hierarchy(rank, bound), NEW f, ShelvedBy(library, f),
         EntriesFit(cache, uses), NEW m, NEW instruction \in Instructions,
         NEW s \in Objects, ~IsArray(s), Throw(m, instruction, s)
  PROVE  AllRight(last', cache', uses')
  <1> DEFINE code == library[Caller(program)].methods[m].code
             handler == FindExceptionHandler(code.catches, s, PC(instruction))
             line == GetLineNumber(code.lines, PC(instruction))
             thrown == [at |-> instruction, handler |-> handler, line |-> line]
  <1>1. /\ IsAligned(code, instruction) /\ UNCHANGED <<cache, uses>>
        /\ last' = Linked("throw", m, s, Finds(thrown))
    BY DEF Throw
  <1>2. handler = RightHandler(code, instruction[1], s) /\ RightLine(code, instruction, line)
    BY <1>1, ObjectsAre, HandlerIs, LineIs
  <1>3. thrown.at = instruction /\ thrown.handler = handler /\ thrown.line = line
    OBVIOUS
  <1> HIDE DEF thrown
  <1>4. /\ last'.op = "throw" /\ last'.index = m /\ last'.class = s
        /\ last'.outcome = "found" /\ last'.found = thrown
    BY <1>1, LinkedHas, OutcomesAre
  <1> HIDE DEF handler, line
  <1>5. TypesRight(last')
    <2>1. last'.op # "test"
      BY <1>4
    <2>2. QED
      BY <1>2, <1>3, <1>4, <2>1, Zenon DEF TypesRight
  <1>6. MethodRight(last') /\ CacheRight(last', cache', uses')
    BY <1>4 DEF MethodRight, CacheRight
  <1>7. EntriesFit(cache', uses')
    BY <1>1
  <1>8. QED
    BY <1>5, <1>6, <1>7 DEF AllRight
-----------------------------------------------------------------------------
(* What the frame finds is right *)

\* Loaded classes are there to stay.
LEMMA LoadedStays ==
  ASSUME IInv, phase = "loaded", [Next]_vars
  PROVE  UNCHANGED <<phase, program, library>>
  <1>1. ~Parsing(File)
    BY DEF Parsing, AtHeader, AtConstants, AtInterfaces, AtFieldCount, AtFields, AtMethods,
           AtAttributes, AtEnd, Stopped, BuildPhases
  <1>2. open = <<>>
    BY <1>1 DEF IInv
  <1>3. ~ParseStep
    BY <1>2, StepIs
  <1>4. ~BuildStep
    BY DEF BuildStep, BeginClass, InitAttributes, InitFields, InitMethods,
           InitInterfaceAndSuperClass, MoveConstantPool, CalcFieldSlotId, NextFile
  <1>5. QED
    BY <1>3, <1>4 DEF Next, Ended, vars, parserVars

\* The frame begins when the classes are loaded.
Unlinked == /\ cache = <<>> /\ uses = {}
            /\ last = Linked("none", 0, <<>>, Finds(NoMember))
LInv == /\ IInv /\ Building(File) /\ Shelved
        /\ AreRight
        /\ phase # "loaded" => Unlinked

\* A frame that has done nothing has done nothing wrong.
LEMMA UnlinkedIsRight == Unlinked => AreRight
  <1> SUFFICES ASSUME Unlinked PROVE AreRight
    OBVIOUS
  <1>1. last.op = "none" /\ last.outcome = "found"
    BY LinkedHas, OutcomesAre DEF Unlinked
  <1>2. TypesRight(last) /\ MethodRight(last) /\ CacheRight(last, cache, uses)
    BY <1>1 DEF TypesRight, MethodRight, CacheRight
  <1>3. EntriesFit(cache, uses)
    BY DEF Unlinked, EntriesFit
  <1>4. QED
    BY <1>2, <1>3, RightIs DEF AreRight

\* Loading is a step of ClassBuild, and a step of the frame leaves it as it is.
LEMMA LoadingSteps ==
  ASSUME IInv, Building(File), Shelved, [LNext]_<<vars, linkVars>>
  PROVE  IInv' /\ Building(File)' /\ Shelved'
  <1>1. [Next]_vars
    BY DEF LNext, LinkStep
  <1>2. QED
    BY <1>1, NextIInv, NextBuilding, NextShelved

\* A step of the frame finds what is right.
LEMMA LinkStepIsRight ==
  ASSUME LInv, LinkStep
  PROVE  AreRight'
  <1>1. /\ phase = "loaded" /\ AreConsistent /\ program \in Programs /\ EntriesFit(cache, uses)
        /\ library' = library /\ program' = program
    BY DEF LinkStep, Ready, LInv, AreRight, IInv, vars, parserVars
  <1>2. PICK rank, bound : Hierarchy(rank, bound)
    BY <1>1, HierarchyIs
  <1>3. Tidy
    BY <1>1, HierarchyIs
  <1>4. PICK f : ShelvedBy(library, f)
    BY DEF LInv, Shelved
  <1>5. AllRight(last', cache', uses')
    <2>1. CASE \E i \in Refs(9), static \in BOOLEAN : GetRefField(i, static)
      BY <1>1, <1>2, <1>3, <1>4, <2>1, RefFieldStep
    <2>2. CASE \E i \in Refs(10), static \in BOOLEAN : GetRefMethod(i, static)
      BY <1>1, <2>2, RefMethodStep
    <2>3. CASE \E i \in Refs(7), s \in Objects : TypeTest(i, s)
      BY <1>1, <1>2, <1>4, <2>3, TypeTestStep
    <2>4. CASE \E i \in Refs(10), s \in Objects :
                   /\ ClassAt(i) \in Supertypes(s)
                   /\ HasNoStatic(IdAt(i), s)
                   /\ InvokeVirtual(i, s) \/ ReadsWild(i, s)
      <3>1. PICK i \in Refs(10), s \in Objects :
                     /\ HasNoStatic(IdAt(i), s)
                     /\ InvokeVirtual(i, s) \/ ReadsWild(i, s)
        BY <2>4
      <3>2. CASE InvokeVirtual(i, s)
        BY <1>1, <1>2, <1>3, <1>4, <3>1, <3>2, InvokeVirtualStep
      <3>3. CASE ReadsWild(i, s)
        <4>1. <<i>> \notin DOMAIN cache /\ Does("virtual", i, s, Wild) /\ UNCHANGED cache
          BY <3>3 DEF ReadsWild
        <4>2. QED
          BY <1>1, <4>1, StoppedCall, OutcomesAre
      <3>4. QED
        BY <3>1, <3>2, <3>3
    <2>5. CASE \E m \in DOMAIN library[Caller(program)].methods, instruction \in Instructions,
                  s \in Objects : ~IsArray(s) /\ Throw(m, instruction, s)
      BY <1>1, <1>2, <1>4, <2>5, ThrowStep
    <2>6. QED
      BY <2>1, <2>2, <2>3, <2>4, <2>5, Zenon DEF LinkStep
  <1>6. QED
    BY <1>1, <1>5, RightAfter

\* The invariant holds at first, and after every step.
LEMMA InitLInv == LInit => LInv
  <1> SUFFICES ASSUME LInit PROVE LInv
    OBVIOUS
  <1>1. Unlinked /\ Init
    BY DEF LInit, Unlinked
  <1>2. QED
    BY <1>1, UnlinkedIsRight, InitIInv, InitBuilding, InitShelved DEF LInv

\* Loading leaves a frame that has done nothing, and a frame that runs leaves
\* the classes as they are.
LEMMA NextLInv ==
  ASSUME LInv, [LNext]_<<vars, linkVars>>
  PROVE  LInv'
  <1>1. IInv' /\ Building(File)' /\ Shelved'
    BY LoadingSteps DEF LInv
  <1>2. CASE LinkStep
    <2>1. AreRight'
      BY <1>2, LinkStepIsRight
    <2>2. phase' = "loaded"
      BY <1>2 DEF LinkStep, Ready, vars, parserVars
    <2>3. QED
      BY <1>1, <2>1, <2>2 DEF LInv
  <1>3. CASE [Next]_vars /\ UNCHANGED linkVars
    <2>1. last' = last /\ cache' = cache /\ uses' = uses
      BY <1>3 DEF linkVars
    <2>2. CASE phase = "loaded"
      <3>1. phase' = phase /\ program' = program /\ library' = library
        BY <1>3, <2>2, LoadedStays DEF LInv
      <3>2. AllRight(last', cache', uses')
        <4>1. AllRight(last, cache, uses)
          BY RightIs DEF LInv, AreRight, AllRight
        <4>2. QED
          BY <2>1, <4>1
      <3>3. AreRight'
        BY <3>1, <3>2, RightAfter
      <3>4. QED
        BY <1>1, <2>2, <3>1, <3>3 DEF LInv
    <2>3. CASE phase # "loaded"
      <3>1. Unlinked'
        BY <2>1, <2>3 DEF LInv, Unlinked, Linked, Finds, NoMember, FoundMember
      <3>2. AreRight'
        BY <3>1, UnlinkedIsRight, PTL
      <3>3. QED
        BY <1>1, <3>1, <3>2 DEF LInv
    <2>4. QED
      BY <2>2, <2>3
  <1>4. QED
    BY <1>2, <1>3 DEF LNext, vars, linkVars

\* checkcast, instanceof and the search for a handler go by the subtypes of
\* the Java language, and the handler and the line are those of the
\* instruction that has thrown: TypesDecide.
THEOREM TypesAreDecided == LSpec => []TypesDecide
  <1>1. LInv => TypesDecide
    BY DEF LInv, AreRight
  <1>2. QED
    BY <1>1, InitLInv, NextLInv, PTL DEF LSpec

\* What a virtual call runs is the method of the most derived class that has
\* one which is not abstract: MostDerivedIsLinked.
THEOREM MostDerivedRuns == LSpec => []MostDerivedIsLinked
  <1>1. LInv => MostDerivedIsLinked
    BY DEF LInv, AreRight
  <1>2. QED
    BY <1>1, InitLInv, NextLInv, PTL DEF LSpec

\* The map of the frame never changes what an instruction finds, and a field is
\* at its slot in every object it is looked up in: CacheIsTransparent.
THEOREM CacheKeepsWhatIsFound == LSpec => []CacheIsTransparent
  <1>1. LInv => CacheIsTransparent
    BY DEF LInv, AreRight
  <1>2. QED
    BY <1>1, InitLInv, NextLInv, PTL DEF LSpec
==============================================================================
