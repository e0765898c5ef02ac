--------------------------- MODULE ClassInitProofs ---------------------------
(***************************************************************************)
(* TLAPS proofs about ClassInit.tla: for any number of threads, any tree   *)
(* of classes and any <clinit> methods, what is used has been initialised, *)
(* once, and keeps what the program writes to it after initStaticField.    *)
(***************************************************************************)
EXTENDS ClassInit, SequenceTheorems, TLAPS

\* The values of statics.
LEMMA FreshOrNot == /\ "zeros" \in Fresh /\ Threads \subseteq Fresh
                    /\ "cleared" \notin Fresh /\ "written" \notin Fresh
  BY SuperAssumption DEF Fresh

Active == Steps \ {"check"}           \* clinit is initialising the class
Begun == Active \ {"set"}             \* and its status says so

\* Only a user of a class, a clinit that waits for its superclass and a
\* <clinit> that uses a class have anything above them.
OnlyTopRuns ==
    \A t \in Threads : \A i \in 1 .. Len(stack[t]) - 1 :
        stack[t][i].step \in {"static", "body"} \cup Kinds

\* Above a user is the clinit of the class it uses, above a clinit that waits
\* that of the superclass.
CallsAreNested ==
    \A t \in Threads : \A i \in 1 .. Len(stack[t]) - 1 :
        LET caller == stack[t][i]
            callee == stack[t][i + 1]
        IN /\ caller.step \in Kinds => callee.class = caller.class /\ callee.step \in Steps
           /\ caller.step = "static" => /\ caller.class # Root
                                        /\ callee.class = Super[caller.class]
                                        /\ callee.step \in Steps

\* The status never goes back to LOADED, and before it is left nothing has
\* been done for the class.
LoadedIsFresh ==
    /\ \A c \in Classes : status[c] = "LOADED" =>
           runs[c] = 0 /\ statics[c] \in Fresh
    /\ \A t \in Threads : \A i \in 1 .. Len(stack[t]) :
           stack[t][i].step \in Begun => status[stack[t][i].class] # "LOADED"

\* Without a meeting one call of clinit at most initialises a class.
OneCall ==
    \A t, u \in Threads : \A i \in 1 .. Len(stack[t]), j \in 1 .. Len(stack[u]) :
        /\ stack[t][i].class = stack[u][j].class
        /\ stack[t][i].step \in Active
        /\ stack[u][j].step \in Active
        /\ ~ met[stack[t][i].class]
        => t = u /\ i = j

\* What has been done for a class when its clinit is at some step.
DoneAt(c, step) ==
    /\ step = "set" => status[c] = "LOADED"
    /\ step \in Begun => status[c] = "INIT"
    /\ step \in {"set", "super", "static", "run"} => runs[c] = 0
    /\ step \in {"set", "super", "static"} => statics[c] \in Fresh
    /\ step \in {"run", "body", "special", "done"} => statics[c] \in {"cleared", "written"}
    /\ step = "done" => special[c] = (c \in ThreadClasses)
StepsInOrder ==
    \A t \in Threads : \A i \in 1 .. Len(stack[t]) :
        met[stack[t][i].class] \/ DoneAt(stack[t][i].class, stack[t][i].step)

\* A class that is initialised stays ready.
InitedIsReady ==
    /\ \A c \in Classes : special[c] => c \in ThreadClasses
    /\ \A c \in Classes : met[c] \/ (status[c] = "INITED" => Ready(c))

\* UsedInitialised from the moment the call of clinit returns.
Good(t, c) == Ready(c) \/ Initialising(t, c) \/ met[c]
TopGood(t) ==
    stack[t] # <<>> =>
        /\ Top(t).step \in Kinds => Good(t, Top(t).class)
        /\ Top(t).step \in {"static", "run"} /\ Top(t).class # Root => Good(t, Super[Top(t).class])
TopIsGood == \A t \in Threads : TopGood(t)

IInv == /\ TypeOK
        /\ OnlyTopRuns
        /\ CallsAreNested
        /\ LoadedIsFresh
        /\ OneCall
        /\ StepsInOrder
        /\ InitHasOwner
        /\ InitedIsReady
        /\ RunsOnce
        /\ TopIsGood

-----------------------------------------------------------------------------
(* Shapes of the stack *)

Entries == [class : Classes, step : Steps \cup Kinds, thrown : BOOLEAN]

\* Two stacks agree up to the n-th entry but for pending exceptions.
Agree(r, s, n) == \A i \in 1 .. n : r[i].class = s[i].class /\ r[i].step = s[i].step

\* A nonempty sequence without its last entry.
LEMMA FrontOf ==
  ASSUME NEW S, NEW s \in Seq(S), s # <<>>
  PROVE  /\ Front(s) \in Seq(S)
         /\ Len(Front(s)) = Len(s) - 1
         /\ \A i \in 1 .. Len(s) - 1 : Front(s)[i] = s[i]
  <1> DEFINE n == Len(s) - 1
             f == SubSeq(s, 1, n)
  <1>1. n \in Nat /\ \A i \in 1 .. n : s[i] \in S
    OBVIOUS
  <1>2. /\ f \in Seq(S)
        /\ Len(f) = IF 1 <= n THEN n - 1 + 1 ELSE 0
        /\ \A i \in 1 .. n - 1 + 1 : f[i] = s[1 + i - 1]
    BY <1>1, SubSeqProperties, 1 \in Int, n \in Int
  <1>3. Front(s) = f
    BY DEF Front
  <1> HIDE DEF f
  <1>4. QED
    BY <1>1, <1>2, <1>3

\* A sequence with one entry more.
LEMMA PushOn ==
  ASSUME NEW S, NEW s \in Seq(S), NEW x \in S
  PROVE  /\ s \o <<x>> \in Seq(S)
         /\ Len(s \o <<x>>) = Len(s) + 1
         /\ \A i \in 1 .. Len(s) : (s \o <<x>>)[i] = s[i]
         /\ (s \o <<x>>)[Len(s) + 1] = x
  OBVIOUS

\* The call on top of a thread is the last entry of its stack.
LEMMA TopEntry ==
  ASSUME TypeOK, NEW t \in Threads, stack[t] # <<>>
  PROVE  /\ stack[t] \in Seq(Entries)
         /\ Len(stack[t]) \in Nat \ {0}
         /\ Top(t) = stack[t][Len(stack[t])]
         /\ Top(t) \in Entries
         /\ \A i \in 1 .. Len(stack[t]) : stack[t][i] \in Entries
  <1>1. stack[t] \in Seq(Entries)
    BY DEF TypeOK, Entries
  <1>2. QED
    BY <1>1 DEF Top

\* The call on top goes on to a step.
LEMMA GotoShape ==
  ASSUME TypeOK, NEW t \in Threads, stack[t] # <<>>, NEW step \in Steps
  PROVE  LET s == Goto(t, step)[t]
             n == Len(stack[t])
         IN /\ s \in Seq(Entries) /\ Len(s) = n
            /\ Agree(s, stack[t], n - 1)
            /\ s[n].class = Top(t).class /\ s[n].step = step
            /\ Goto(t, step) = [stack EXCEPT ![t] = s]
  <1> DEFINE x == [Top(t) EXCEPT !.step = step]
  <1>1. stack[t] \in Seq(Entries) /\ Len(stack[t]) \in Nat \ {0} /\ Top(t) \in Entries
    BY TopEntry
  <1>2. x \in Entries /\ x.class = Top(t).class /\ x.step = step
    BY <1>1 DEF Entries
  <1>3. Goto(t, step) = [stack EXCEPT ![t] = Front(stack[t]) \o <<x>>]
    BY DEF Goto, Below
  <1>4. Goto(t, step)[t] = Front(stack[t]) \o <<x>>
    BY <1>3 DEF TypeOK
  <1> HIDE DEF x
  <1>5. /\ Front(stack[t]) \in Seq(Entries)
        /\ Len(Front(stack[t])) = Len(stack[t]) - 1
        /\ \A i \in 1 .. Len(stack[t]) - 1 : Front(stack[t])[i] = stack[t][i]
    BY <1>1, FrontOf
  <1>6. LET s == Front(stack[t]) \o <<x>>
        IN /\ s \in Seq(Entries)
           /\ Len(s) = Len(stack[t])
           /\ \A i \in 1 .. Len(stack[t]) - 1 : s[i] = stack[t][i]
           /\ s[Len(stack[t])] = x
    <2> DEFINE f == Front(stack[t])
    <2>1. f \in Seq(Entries) /\ Len(f) = Len(stack[t]) - 1
      BY <1>5
    <2>2. /\ f \o <<x>> \in Seq(Entries)
          /\ Len(f \o <<x>>) = Len(f) + 1
          /\ \A i \in 1 .. Len(f) : (f \o <<x>>)[i] = f[i]
          /\ (f \o <<x>>)[Len(f) + 1] = x
      BY <2>1, <1>2, PushOn
    <2> HIDE DEF f
    <2>3. Len(stack[t]) = Len(f) + 1 /\ Len(f) = Len(stack[t]) - 1
      BY <2>1, <1>1
    <2>4. \A i \in 1 .. Len(stack[t]) - 1 : f[i] = stack[t][i]
      BY <1>5 DEF f
    <2>5. QED
      BY <2>2, <2>3, <2>4 DEF f
  <1>7. QED
    BY <1>2, <1>3, <1>4, <1>6 DEF Agree

\* The call on top returns.
LEMMA PopsShape ==
  ASSUME TypeOK, NEW t \in Threads, stack[t] # <<>>
  PROVE  LET s == Pops(t)[t]
             n == Len(stack[t])
         IN /\ s \in Seq(Entries) /\ Len(s) = n - 1
            /\ Agree(s, stack[t], n - 1)
            /\ Pops(t) = [stack EXCEPT ![t] = s]
  BY TopEntry, FrontOf DEF Pops, Below, TypeOK, Agree

\* Pending exceptions do not change the shape.
LEMMA ThrownShape ==
  ASSUME NEW s \in Seq(Entries)
  PROVE  /\ ThrownTo(s) \in Seq(Entries)
         /\ Len(ThrownTo(s)) = Len(s)
         /\ Agree(ThrownTo(s), s, Len(s))
  <1>1. PICK user : ThrownTo(s) = [s EXCEPT ![user].thrown = TRUE]
    BY DEF ThrownTo
  <1> DEFINE r == [s EXCEPT ![user].thrown = TRUE]
  <1>2. s \in [1 .. Len(s) -> Entries] /\ \A i \in 1 .. Len(s) : s[i] \in Entries
    OBVIOUS
  <1>3. r = [i \in 1 .. Len(s) |-> IF i = user THEN [s[i] EXCEPT !.thrown = TRUE] ELSE s[i]]
    BY <1>2
  <1>4. \A i \in 1 .. Len(s) : r[i] \in Entries /\ r[i].class = s[i].class /\ r[i].step = s[i].step
    BY <1>2, <1>3 DEF Entries
  <1> HIDE DEF r
  <1>5. r \in Seq(Entries) /\ Len(r) = Len(s)
    <2>1. Len(s) \in Nat
      OBVIOUS
    <2>2. r \in [1 .. Len(s) -> Entries]
      BY <1>3, <1>4
    <2>3. QED
      BY <2>1, <2>2
  <1>6. ThrownTo(s) = r
    BY <1>1 DEF r
  <1>7. QED
    BY <1>4, <1>5, <1>6 DEF Agree

-----------------------------------------------------------------------------
(* What every action does to the stack of its thread, and TypeOK *)

\* The k entries at the bottom of the stack of t stay, as do other stacks.
Keeps(t, k) ==
    /\ stack' \in [Threads -> Seq(Entries)]
    /\ \A u \in Threads \ {t} : stack'[u] = stack[u]
    /\ Agree(stack'[t], stack[t], k)
Is(t, i, class, step) == stack'[t][i].class = class /\ stack'[t][i].step = step

Replaces(t, step) == /\ Keeps(t, Len(stack[t]) - 1)
                     /\ Len(stack'[t]) = Len(stack[t])
                     /\ Is(t, Len(stack[t]), Top(t).class, step)
Removes(t) == /\ Keeps(t, Len(stack[t]) - 1)
              /\ Len(stack'[t]) = Len(stack[t]) - 1

\* Only the stack of thread t changes.
LEMMA NewStack ==
  ASSUME TypeOK, NEW t \in Threads, NEW s \in Seq(Entries),
         stack' = [stack EXCEPT ![t] = s]
  PROVE  /\ stack' \in [Threads -> Seq(Entries)]
         /\ stack'[t] = s
         /\ \A u \in Threads \ {t} : stack'[u] = stack[u]
  BY DEF TypeOK, Entries

\* Going on to a step replaces the step of the call on top.
LEMMA GotoReplaces ==
  ASSUME TypeOK, NEW t \in Threads, stack[t] # <<>>, NEW step \in Steps,
         stack' = Goto(t, step)
  PROVE  Replaces(t, step)
  BY GotoShape, NewStack DEF Replaces, Keeps, Is

\* A return removes the call on top.
LEMMA PopsRemoves ==
  ASSUME TypeOK, NEW t \in Threads, stack[t] # <<>>, stack' = Pops(t)
  PROVE  Removes(t)
  BY PopsShape, NewStack DEF Removes, Keeps

\* An exception ends the <clinit> on top and leaves its clinit at initSpecialType.
LEMMA ThrowReplaces ==
  ASSUME TypeOK, NEW t \in Threads, Throw(t)
  PROVE  Replaces(t, "special")
  <1>1. stack[t] # <<>> /\ "special" \in Steps
    BY DEF Throw, At, Steps
  <1> DEFINE s == Goto(t, "special")[t]
             n == Len(stack[t])
  <1>2. /\ s \in Seq(Entries) /\ Len(s) = n
        /\ Agree(s, stack[t], n - 1)
        /\ s[n].class = Top(t).class /\ s[n].step = "special"
    BY <1>1, GotoShape
  <1>3. stack' = [stack EXCEPT ![t] = ThrownTo(s)]
    BY DEF Throw
  <1>4. n \in Nat \ {0}
    BY <1>1, TopEntry
  <1> HIDE DEF s, n
  <1>5. ThrownTo(s) \in Seq(Entries) /\ Len(ThrownTo(s)) = n /\ Agree(ThrownTo(s), s, n)
    BY <1>2, ThrownShape
  <1>6. /\ Agree(ThrownTo(s), stack[t], n - 1)
        /\ ThrownTo(s)[n].class = Top(t).class /\ ThrownTo(s)[n].step = "special"
    BY <1>2, <1>4, <1>5 DEF Agree
  <1>7. QED
    BY <1>3, <1>5, <1>6, NewStack DEF Replaces, Keeps, Is, n

\* A call of clinit for the superclass, and a use of a class.
LEMMA SuperShape ==
  ASSUME TypeOK, NEW t \in Threads, At(t, "super"), Top(t).class # Root, InitSuper(t)
  PROVE  LET n == Len(stack[t])
         IN /\ Keeps(t, n - 1)
            /\ Len(stack'[t]) = n + 1
            /\ Is(t, n, Top(t).class, "static")
            /\ Is(t, n + 1, Super[Top(t).class], "check")
  <1> DEFINE s == Goto(t, "static")[t]
             n == Len(stack[t])
             x == Entry(Super[Top(t).class], "check")
  <1>1. stack[t] # <<>> /\ "static" \in Steps /\ "check" \in Steps
    BY DEF At, Steps
  <1>2. /\ s \in Seq(Entries) /\ Len(s) = n
        /\ Agree(s, stack[t], n - 1)
        /\ s[n].class = Top(t).class /\ s[n].step = "static"
    BY <1>1, GotoShape
  <1>3. n \in Nat \ {0} /\ Top(t) \in Entries
    BY <1>1, TopEntry
  <1>4. x \in Entries /\ x.class = Super[Top(t).class] /\ x.step = "check"
    <2>1. Super[Top(t).class] \in Classes
      BY <1>3, SuperAssumption DEF Entries
    <2>2. QED
      BY <1>1, <2>1 DEF Entry, Entries
  <1>5. stack' = [stack EXCEPT ![t] = s \o <<x>>]
    BY DEF InitSuper
  <1> HIDE DEF s, n, x
  <1>6. /\ s \o <<x>> \in Seq(Entries)
        /\ Len(s \o <<x>>) = n + 1
        /\ \A i \in 1 .. n : (s \o <<x>>)[i] = s[i]
        /\ (s \o <<x>>)[n + 1] = x
    BY <1>2, <1>4, PushOn
  <1>7. /\ stack' \in [Threads -> Seq(Entries)]
        /\ stack'[t] = s \o <<x>>
        /\ \A u \in Threads \ {t} : stack'[u] = stack[u]
    BY <1>5, <1>6, NewStack
  <1>8. Agree(stack'[t], stack[t], n - 1) /\ Is(t, n, Top(t).class, "static")
    BY <1>2, <1>3, <1>6, <1>7 DEF Agree, Is
  <1>9. Is(t, n + 1, Super[Top(t).class], "check") /\ Len(stack'[t]) = n + 1
    BY <1>4, <1>6, <1>7 DEF Is
  <1>10. QED
    BY <1>7, <1>8, <1>9 DEF Keeps, n

\* A use pushes its user and, above it, a clinit that is yet to read the status.
LEMMA UseShape ==
  ASSUME TypeOK, NEW t \in Threads, NEW c \in Classes, NEW kind \in Kinds, Use(t, c, kind)
  PROVE  LET n == Len(stack[t])
         IN /\ Keeps(t, n)
            /\ Len(stack'[t]) = n + 2
            /\ Is(t, n + 1, c, kind)
            /\ Is(t, n + 2, c, "check")
  <1> DEFINE s == stack[t]
             n == Len(stack[t])
             x == Entry(c, kind)
             y == Entry(c, "check")
  <1>1. s \in Seq(Entries)
    BY DEF TypeOK, Entries
  <1>2. /\ x \in Entries /\ x.class = c /\ x.step = kind
        /\ y \in Entries /\ y.class = c /\ y.step = "check"
    BY DEF Entry, Entries, Kinds, Steps
  <1>3. stack' = [stack EXCEPT ![t] = s \o <<x, y>>]
    BY DEF Use
  <1> HIDE DEF x, y
  <1>n. n \in Nat
    BY <1>1
  <1>4. /\ s \o <<x, y>> \in Seq(Entries)
        /\ Len(s \o <<x, y>>) = n + 2
        /\ \A i \in 1 .. n : (s \o <<x, y>>)[i] = s[i]
        /\ (s \o <<x, y>>)[n + 1] = x
        /\ (s \o <<x, y>>)[n + 2] = y
    BY <1>1, <1>2
  <1> HIDE DEF s
  <1>5. /\ stack' \in [Threads -> Seq(Entries)]
        /\ stack'[t] = s \o <<x, y>>
        /\ \A u \in Threads \ {t} : stack'[u] = stack[u]
    BY <1>3, <1>4, NewStack
  <1>6. QED
    BY <1>2, <1>4, <1>5, <1>n DEF Keeps, Is, Agree, s

\* An access returns, or ends with the exception the <clinit> below it.
LEMMA AccessShape ==
  ASSUME TypeOK, NEW t \in Threads, Access(t)
  PROVE  LET n == Len(stack[t])
         IN \/ Removes(t)
            \/ /\ n - 1 \in Nat \ {0}
               /\ Keeps(t, n - 2)
               /\ Len(stack'[t]) = n - 1
               /\ Is(t, n - 1, stack[t][n - 1].class, "special")
  <1>1. stack[t] # <<>> /\ "special" \in Steps
    BY DEF Access, At, Steps
  <1> DEFINE n == Len(stack[t])
             user == Below(t)
             m == Len(user)
             x == [Last(user) EXCEPT !.step = "special"]
             s == Front(user) \o <<x>>
  <1>2. CASE stack' = Pops(t)
    BY <1>1, <1>2, PopsRemoves
  <1>3. CASE user # <<>> /\ stack' = [stack EXCEPT ![t] = ThrownTo(s)]
    <2>1. /\ n \in Nat \ {0} /\ stack[t] \in Seq(Entries)
      BY <1>1, TopEntry
    <2>2. /\ user \in Seq(Entries) /\ m = n - 1
          /\ \A i \in 1 .. n - 1 : user[i] = stack[t][i]
      BY <1>1, <2>1, FrontOf DEF Below
    <2>3. m \in Nat \ {0} /\ user[m] \in Entries /\ Last(user) = user[m]
      BY <1>3, <2>2 DEF Last
    <2>4. x \in Entries /\ x.class = user[m].class /\ x.step = "special"
      BY <1>1, <2>3 DEF Entries
    <2> HIDE DEF user, x
    <2>5. /\ Front(user) \in Seq(Entries)
          /\ Len(Front(user)) = m - 1
          /\ \A i \in 1 .. m - 1 : Front(user)[i] = user[i]
      BY <1>3, <2>2, FrontOf
    <2> DEFINE f == Front(user)
    <2>6. /\ f \o <<x>> \in Seq(Entries)
          /\ Len(f \o <<x>>) = Len(f) + 1
          /\ \A i \in 1 .. Len(f) : (f \o <<x>>)[i] = f[i]
          /\ (f \o <<x>>)[Len(f) + 1] = x
      BY <2>4, <2>5, PushOn
    <2>7. Len(f) = m - 1 /\ Len(f) + 1 = m
      BY <2>3, <2>5
    <2>8. /\ s \in Seq(Entries) /\ Len(s) = m
          /\ \A i \in 1 .. m - 1 : s[i] = stack[t][i]
          /\ s[m] = x
      BY <2>2, <2>5, <2>6, <2>7
    <2> HIDE DEF s, f
    <2>9. /\ ThrownTo(s) \in Seq(Entries) /\ Len(ThrownTo(s)) = m
          /\ Agree(ThrownTo(s), s, m)
      BY <2>8, ThrownShape
    <2>10. /\ stack' \in [Threads -> Seq(Entries)]
           /\ stack'[t] = ThrownTo(s)
           /\ \A u \in Threads \ {t} : stack'[u] = stack[u]
      BY <1>3, <2>9, NewStack
    <2>11. /\ Agree(stack'[t], stack[t], m - 1)
           /\ Is(t, m, stack[t][m].class, "special")
      <3>1. \A i \in 1 .. m - 1 : i \in 1 .. m
        BY <2>3
      <3>2. m \in 1 .. m /\ user[m] = stack[t][m]
        <4>1. m \in 1 .. m /\ m \in 1 .. n - 1
          <5> HIDE DEF n, m
          <5>1. QED
            BY <2>1, <2>2, <2>3
        <4>2. QED
          BY <2>2, <4>1
      <3>3. QED
        BY <2>4, <2>8, <2>9, <2>10, <3>1, <3>2 DEF Agree, Is
    <2>12. n - 1 = m /\ n - 2 = m - 1
      BY <2>1, <2>2
    <2>13. QED
      BY <2>3, <2>9, <2>10, <2>11, <2>12 DEF Keeps
  <1>4. QED
    BY <1>2, <1>3 DEF Access

\* clinit goes on to write INIT, or returns, by the status it reads.
LEMMA CheckShape ==
  ASSUME TypeOK, NEW t \in Threads, Check(t)
  PROVE  IF NotInitialize(Top(t).class) THEN Replaces(t, "set") ELSE Removes(t)
  <1>1. stack[t] # <<>> /\ "set" \in Steps
    BY DEF Check, At, Steps
  <1>2. stack' = IF NotInitialize(Top(t).class) THEN Goto(t, "set") ELSE Pops(t)
    BY DEF Check
  <1>3. QED
    BY <1>1, <1>2, GotoReplaces, PopsRemoves

\* Each step keeps the types.
LEMMA TypeStep ==
  ASSUME TypeOK, NEW t \in Threads,
         Step(t) \/ \E c \in Classes, kind \in Kinds : Use(t, c, kind)
  PROVE  TypeOK'
  <1> USE DEF Steps
  <1>1. CASE Check(t)
    <2>1. stack' \in [Threads -> Seq(Entries)]
      BY <1>1, CheckShape DEF Replaces, Removes, Keeps
    <2>2. met' \in [Classes -> BOOLEAN]
      BY <1>1 DEF TypeOK, Check
    <2>3. QED
      BY <1>1, <2>1, <2>2 DEF TypeOK, Check, Entries
  <1>2. CASE Set(t)
    <2>1. stack' \in [Threads -> Seq(Entries)]
      BY <1>2, GotoReplaces DEF Set, At, Replaces, Keeps
    <2>2. QED
      BY <1>2, <2>1 DEF TypeOK, Set, Entries
  <1>3. CASE InitSuper(t)
    <2>1. stack' \in [Threads -> Seq(Entries)]
      <3>1. CASE Top(t).class = Root
        BY <1>3, <3>1, GotoReplaces DEF InitSuper, At, Replaces, Keeps
      <3>2. CASE Top(t).class # Root
        BY <1>3, <3>2, SuperShape DEF InitSuper, Keeps
      <3>3. QED
        BY <3>1, <3>2
    <2>2. QED
      BY <1>3, <2>1 DEF TypeOK, InitSuper, Entries
  <1>4. CASE InitStaticField(t)
    <2>1. stack' \in [Threads -> Seq(Entries)]
      BY <1>4, GotoReplaces DEF InitStaticField, At, Replaces, Keeps
    <2>2. QED
      BY <1>4, <2>1 DEF TypeOK, InitStaticField, Entries
  <1>5. CASE RunClinit(t)
    <2>1. stack' \in [Threads -> Seq(Entries)]
      BY <1>5, GotoReplaces DEF RunClinit, At, Replaces, Keeps
    <2>2. runs' \in [Classes -> Nat]
      <3>1. Top(t).class \in Classes
        BY <1>5, TopEntry DEF RunClinit, At, Entries
      <3>2. \/ runs' = runs
            \/ runs' = [runs EXCEPT ![Top(t).class] = runs[Top(t).class] + 1]
        BY <1>5 DEF RunClinit
      <3>3. runs \in [Classes -> Nat]
        BY DEF TypeOK
      <3>4. QED
        BY <3>1, <3>2, <3>3
    <2>3. QED
      BY <1>5, <2>1, <2>2 DEF TypeOK, RunClinit, Entries
  <1>6. CASE EndBody(t)
    <2>1. stack' \in [Threads -> Seq(Entries)]
      BY <1>6, GotoReplaces DEF EndBody, At, Replaces, Keeps
    <2>2. QED
      BY <1>6, <2>1 DEF TypeOK, EndBody, Entries
  <1>7. CASE Throw(t)
    <2>1. stack' \in [Threads -> Seq(Entries)]
      BY <1>7, ThrowReplaces DEF Replaces, Keeps
    <2>2. QED
      BY <1>7, <2>1 DEF TypeOK, Throw, Entries
  <1>8. CASE InitSpecialType(t)
    <2>1. stack' \in [Threads -> Seq(Entries)]
      BY <1>8, GotoReplaces DEF InitSpecialType, At, Replaces, Keeps
    <2>2. special' \in [Classes -> BOOLEAN]
      BY <1>8 DEF TypeOK, InitSpecialType
    <2>3. QED
      BY <1>8, <2>1, <2>2 DEF TypeOK, InitSpecialType, Entries
  <1>9. CASE Finish(t)
    <2>1. stack' \in [Threads -> Seq(Entries)]
      BY <1>9, PopsRemoves DEF Finish, At, Removes, Keeps
    <2>2. QED
      BY <1>9, <2>1 DEF TypeOK, Finish, Entries
  <1>10. CASE Access(t)
    <2>1. stack' \in [Threads -> Seq(Entries)]
      BY <1>10, AccessShape DEF Removes, Keeps
    <2>2. statics' \in [Classes -> Fresh \cup {"cleared", "written"}]
      <3>1. \A c \in Classes : Written(t, c) \in Fresh \cup {"cleared", "written"}
        BY FreshOrNot DEF Written
      <3>2. statics \in [Classes -> Fresh \cup {"cleared", "written"}]
        BY DEF TypeOK
      <3>3. \/ statics' = statics
            \/ statics' = [statics EXCEPT ![Top(t).class] = Written(t, Top(t).class)]
        BY <1>10 DEF Access
      <3>4. Top(t).class \in Classes
        BY <1>10, TopEntry DEF Access, At, Entries
      <3>5. QED
        BY <3>1, <3>2, <3>3, <3>4
    <2>3. QED
      BY <1>10, <2>1, <2>2 DEF TypeOK, Access, Entries
  <1>11. ASSUME NEW c \in Classes, NEW kind \in Kinds, Use(t, c, kind) PROVE TypeOK'
    <2>1. stack' \in [Threads -> Seq(Entries)]
      BY <1>11, UseShape DEF Keeps
    <2>2. uses' \in [Threads -> Nat]
      BY <1>11 DEF TypeOK, Use
    <2>3. QED
      BY <1>11, <2>1, <2>2 DEF TypeOK, Use, Entries
  <1>12. QED
    BY <1>1, <1>2, <1>3, <1>4, <1>5, <1>6, <1>7, <1>8, <1>9, <1>10, <1>11 DEF Step

-----------------------------------------------------------------------------
(* What every action does to the calls of clinit *)

\* The calls that are active have been active, but for one that is new at
\* "set"; the k-th of t, if it is active, is now at step.
ActiveFrom(t, k, step) ==
    \A u \in Threads : \A i \in 1 .. Len(stack'[u]) :
        stack'[u][i].step \in Active =>
            /\ i \in 1 .. Len(stack[u])
            /\ stack'[u][i].class = stack[u][i].class
            /\ IF u = t /\ i = k
               THEN stack'[u][i].step = step /\ (stack[u][i].step \in Active \/ step = "set")
               ELSE stack'[u][i].step = stack[u][i].step
KeepsCalls == \A u \in Threads, c \in Classes : Initialising(u, c) => Initialising(u, c)'
KeepsOthers(t) == \A u \in Threads, c \in Classes :
                     (u # t \/ c # Top(t).class) /\ Initialising(u, c) => Initialising(u, c)'

\* A thread initialises a class when one of its entries does, by position.
LEMMA Owner ==
  ASSUME TypeOK, NEW u \in Threads, NEW c
  PROVE  Initialising(u, c) <=> \E i \in 1 .. Len(stack[u]) :
                                    stack[u][i].class = c /\ stack[u][i].step \in Active
  <1>1. stack[u] \in Seq(Entries)
    BY DEF TypeOK, Entries
  <1>2. DOMAIN stack[u] = 1 .. Len(stack[u])
    BY <1>1
  <1>3. QED
    BY <1>2 DEF Initialising, Calls, Active

\* The same after a step.
LEMMA OwnerNext ==
  ASSUME TypeOK', NEW u \in Threads, NEW c
  PROVE  Initialising(u, c)' <=> \E i \in 1 .. Len(stack'[u]) :
                                    stack'[u][i].class = c /\ stack'[u][i].step \in Active
  <1>1. stack'[u] \in Seq(Entries)
    BY DEF TypeOK, Entries
  <1>2. DOMAIN stack'[u] = 1 .. Len(stack'[u])
    BY <1>1
  <1>3. QED
    BY <1>2 DEF Initialising, Calls, Active

\* A step that replaces the step on top keeps the nesting of the calls.
LEMMA Replaced ==
  ASSUME TypeOK, TypeOK', OnlyTopRuns, CallsAreNested, NEW t \in Threads, stack[t] # <<>>,
         NEW step \in Steps, Replaces(t, step), Top(t).step \in Active \/ step = "set"
  PROVE  /\ OnlyTopRuns' /\ CallsAreNested'
         /\ ActiveFrom(t, Len(stack[t]), step)
         /\ step \in Active => KeepsCalls
         /\ stack'[t] # <<>> /\ Top(t)'.class = Top(t).class /\ Top(t)'.step = step
  <1> DEFINE n == Len(stack[t])
  <1>1. /\ n \in Nat \ {0} /\ Len(stack'[t]) = n
        /\ Top(t) = stack[t][n]
        /\ stack'[t][n].class = stack[t][n].class /\ stack'[t][n].step = step
        /\ \A i \in 1 .. n - 1 : /\ stack'[t][i].class = stack[t][i].class
                                /\ stack'[t][i].step = stack[t][i].step
        /\ \A u \in Threads \ {t} : stack'[u] = stack[u]
    BY TopEntry DEF Replaces, Keeps, Agree, Is
  <1> HIDE DEF n
  <1>2. OnlyTopRuns'
    <2> SUFFICES ASSUME NEW u \in Threads, NEW i \in 1 .. Len(stack'[u]) - 1
                 PROVE  stack'[u][i].step \in {"static", "body"} \cup Kinds
      BY DEF OnlyTopRuns
    <2>1. CASE u = t
      BY <1>1, <2>1 DEF OnlyTopRuns, n
    <2>2. CASE u # t
      BY <1>1, <2>2 DEF OnlyTopRuns
    <2>3. QED
      BY <2>1, <2>2
  <1>3. CallsAreNested'
    <2> SUFFICES ASSUME NEW u \in Threads, NEW i \in 1 .. Len(stack'[u]) - 1
                 PROVE  LET caller == stack'[u][i]
                            callee == stack'[u][i + 1]
                        IN /\ caller.step \in Kinds => callee.class = caller.class /\ callee.step \in Steps
                           /\ caller.step = "static" => /\ caller.class # Root
                                                        /\ callee.class = Super[caller.class]
                                                        /\ callee.step \in Steps
      BY DEF CallsAreNested
    <2>1. CASE u = t
      <3>1. i \in 1 .. n - 1 /\ i + 1 \in 1 .. n /\ i \in 1 .. Len(stack[t]) - 1
        BY <1>1, <2>1 DEF n
      <3>2. stack'[t][i].class = stack[t][i].class /\ stack'[t][i].step = stack[t][i].step
        BY <1>1, <3>1
      <3>3. stack'[t][i + 1].class = stack[t][i + 1].class
        BY <1>1, <3>1
      <3>4. stack'[t][i + 1].step = stack[t][i + 1].step \/ stack'[t][i + 1].step \in Steps
        BY <1>1, <3>1
      <3>5. QED
        BY <2>1, <3>1, <3>2, <3>3, <3>4 DEF CallsAreNested
    <2>2. CASE u # t
      BY <1>1, <2>2 DEF CallsAreNested
    <2>3. QED
      BY <2>1, <2>2
  <1>4. ActiveFrom(t, n, step)
    <2> SUFFICES ASSUME NEW u \in Threads, NEW i \in 1 .. Len(stack'[u]), stack'[u][i].step \in Active
                 PROVE  /\ i \in 1 .. Len(stack[u])
                        /\ stack'[u][i].class = stack[u][i].class
                        /\ IF u = t /\ i = n
                           THEN stack'[u][i].step = step /\ (stack[u][i].step \in Active \/ step = "set")
                           ELSE stack'[u][i].step = stack[u][i].step
      BY DEF ActiveFrom
    <2>1. CASE u = t
      BY <1>1, <2>1 DEF n
    <2>2. CASE u # t
      BY <1>1, <2>2
    <2>3. QED
      BY <2>1, <2>2
  <1>5. ASSUME step \in Active PROVE KeepsCalls
    <2> SUFFICES ASSUME NEW u \in Threads, NEW c \in Classes, Initialising(u, c)
                 PROVE  Initialising(u, c)'
      BY DEF KeepsCalls
    <2>1. PICK i \in 1 .. Len(stack[u]) : stack[u][i].class = c /\ stack[u][i].step \in Active
      BY Owner
    <2>2. i \in 1 .. Len(stack'[u]) /\ stack'[u][i].class = c /\ stack'[u][i].step \in Active
      <3>1. CASE u = t
        BY <1>1, <1>5, <2>1, <3>1 DEF n
      <3>2. CASE u # t
        BY <1>1, <2>1, <3>2
      <3>3. QED
        BY <3>1, <3>2
    <2>3. Initialising(u, c)' <=> \E k \in 1 .. Len(stack'[u]) :
                                     stack'[u][k].class = c /\ stack'[u][k].step \in Active
      BY OwnerNext
    <2>4. QED
      BY <2>2, <2>3
  <1>6. stack'[t] # <<>> /\ Top(t)'.class = Top(t).class /\ Top(t)'.step = step
    BY <1>1 DEF Top
  <1>7. QED
    BY <1>2, <1>3, <1>4, <1>5, <1>6 DEF n

\* Whatever is on a stack is below something, or on top.
NestedAt(u, i) ==
    LET caller == stack[u][i]
        callee == stack[u][i + 1]
    IN /\ caller.step \in {"static", "body"} \cup Kinds
       /\ caller.step \in Kinds => callee.class = caller.class /\ callee.step \in Steps
       /\ caller.step = "static" => /\ caller.class # Root
                                    /\ callee.class = Super[caller.class]
                                    /\ callee.step \in Steps
\* The two invariants of nesting, entry by entry.
LEMMA Nested ==
  OnlyTopRuns /\ CallsAreNested
      <=> \A u \in Threads : \A i \in 1 .. Len(stack[u]) - 1 : NestedAt(u, i)
  BY DEF OnlyTopRuns, CallsAreNested, NestedAt

\* The calls of a thread that does not run stay nested.
LEMMA OtherNested ==
  ASSUME \A u \in Threads : \A i \in 1 .. Len(stack[u]) - 1 : NestedAt(u, i),
         NEW v \in Threads, stack'[v] = stack[v], NEW j \in 1 .. Len(stack'[v]) - 1
  PROVE  NestedAt(v, j)'
  <1>1. j \in 1 .. Len(stack[v]) - 1
    OBVIOUS
  <1>2. NestedAt(v, j)
    BY <1>1
  <1>3. QED
    BY <1>2 DEF NestedAt

\* A return keeps the nesting, and the caller is again on top.
LEMMA Removed ==
  ASSUME TypeOK, TypeOK', OnlyTopRuns, CallsAreNested, NEW t \in Threads, stack[t] # <<>>,
         Removes(t)
  PROVE  /\ OnlyTopRuns' /\ CallsAreNested'
         /\ ActiveFrom(t, 0, "set")
         /\ KeepsOthers(t)
         /\ Top(t).step \notin Active => KeepsCalls
         /\ stack'[t] # <<>> =>
               LET caller == stack[t][Len(stack[t]) - 1]
               IN /\ Len(stack[t]) - 1 \in 1 .. Len(stack[t]) - 1
                  /\ Top(t)'.class = caller.class /\ Top(t)'.step = caller.step
                  /\ NestedAt(t, Len(stack[t]) - 1)
  <1> DEFINE n == Len(stack[t])
  <1>1. /\ n \in Nat \ {0} /\ Len(stack'[t]) = n - 1
        /\ Top(t) = stack[t][n]
        /\ \A i \in 1 .. n - 1 : /\ stack'[t][i].class = stack[t][i].class
                                /\ stack'[t][i].step = stack[t][i].step
        /\ \A u \in Threads \ {t} : stack'[u] = stack[u]
    BY TopEntry DEF Removes, Keeps, Agree
  <1>2. \A u \in Threads : \A i \in 1 .. Len(stack[u]) - 1 : NestedAt(u, i)
    BY Nested
  <1> HIDE DEF n
  <1>3. OnlyTopRuns' /\ CallsAreNested'
    <2>1. ASSUME NEW u \in Threads, NEW i \in 1 .. Len(stack'[u]) - 1 PROVE NestedAt(u, i)'
      <3>1. CASE u = t
        <4>1. i \in 1 .. n - 1 /\ i + 1 \in 1 .. n - 1 /\ i \in 1 .. Len(stack[t]) - 1
          BY <1>1, <2>1, <3>1 DEF n
        <4>2. NestedAt(t, i)
          BY <1>2, <4>1
        <4>3. /\ stack'[t][i].class = stack[t][i].class
              /\ stack'[t][i].step = stack[t][i].step
              /\ stack'[t][i + 1].class = stack[t][i + 1].class
              /\ stack'[t][i + 1].step = stack[t][i + 1].step
          BY <1>1, <4>1
        <4>4. QED
          BY <3>1, <4>2, <4>3 DEF NestedAt
      <3>2. CASE u # t
        <4>1. stack'[u] = stack[u]
          BY <1>1, <3>2
        <4>2. QED
          BY <1>2, <2>1, <4>1, OtherNested
      <3>3. QED
        BY <3>1, <3>2
    <2>2. QED
      BY <2>1 DEF NestedAt, OnlyTopRuns, CallsAreNested
  <1>4. ActiveFrom(t, 0, "set")
    <2> SUFFICES ASSUME NEW u \in Threads, NEW i \in 1 .. Len(stack'[u]), stack'[u][i].step \in Active
                 PROVE  /\ i \in 1 .. Len(stack[u]) /\ i # 0
                        /\ stack'[u][i].class = stack[u][i].class
                        /\ stack'[u][i].step = stack[u][i].step
      BY DEF ActiveFrom
    <2>1. CASE u = t
      BY <1>1, <2>1 DEF n
    <2>2. CASE u # t
      BY <1>1, <2>2
    <2>3. QED
      BY <2>1, <2>2
  <1>5. ASSUME NEW u \in Threads, NEW c \in Classes, Initialising(u, c),
               u # t \/ c # Top(t).class \/ Top(t).step \notin Active
        PROVE  Initialising(u, c)'
    <2>1. PICK i \in 1 .. Len(stack[u]) : stack[u][i].class = c /\ stack[u][i].step \in Active
      BY <1>5, Owner
    <2>2. i \in 1 .. Len(stack'[u]) /\ stack'[u][i].class = c /\ stack'[u][i].step \in Active
      <3>1. CASE u = t
        BY <1>1, <1>5, <2>1, <3>1 DEF n
      <3>2. CASE u # t
        BY <1>1, <2>1, <3>2
      <3>3. QED
        BY <3>1, <3>2
    <2>3. QED
      BY <2>2, OwnerNext
  <1>6. ASSUME stack'[t] # <<>>
        PROVE  /\ n - 1 \in 1 .. n - 1
               /\ Top(t)'.class = stack[t][n - 1].class /\ Top(t)'.step = stack[t][n - 1].step
               /\ NestedAt(t, n - 1)
    <2>1. Len(stack'[t]) \in Nat \ {0}
      BY <1>6 DEF TypeOK
    <2>2. n - 1 \in 1 .. n - 1 /\ n - 1 \in 1 .. Len(stack[t]) - 1
      <3>1. n - 1 \in Nat \ {0}
        BY <1>1, <2>1
      <3>2. n - 1 \in 1 .. n - 1
        BY <1>1, <3>1
      <3>3. QED
        BY <3>2 DEF n
    <2>3. Top(t)' = stack'[t][n - 1]
      BY <1>1 DEF Top
    <2>4. QED
      BY <1>1, <1>2, <2>2, <2>3
  <1>7. QED
    BY <1>3, <1>4, <1>5, <1>6 DEF n, KeepsOthers, KeepsCalls

\* InitSuper, with a call for the superclass.
LEMMA SuperCalled ==
  ASSUME TypeOK, TypeOK', OnlyTopRuns, CallsAreNested, NEW t \in Threads,
         At(t, "super"), Top(t).class # Root, InitSuper(t)
  PROVE  /\ OnlyTopRuns' /\ CallsAreNested'
         /\ ActiveFrom(t, Len(stack[t]), "static")
         /\ KeepsCalls
         /\ stack'[t] # <<>> /\ Top(t)'.step = "check"
  <1> DEFINE n == Len(stack[t])
  <1>1. /\ n \in Nat \ {0} /\ Len(stack'[t]) = n + 1
        /\ Top(t) = stack[t][n] /\ stack[t][n].step = "super" /\ stack[t][n].class # Root
        /\ stack'[t][n].class = stack[t][n].class /\ stack'[t][n].step = "static"
        /\ stack'[t][n + 1].class = Super[stack[t][n].class] /\ stack'[t][n + 1].step = "check"
        /\ \A i \in 1 .. n - 1 : /\ stack'[t][i].class = stack[t][i].class
                                /\ stack'[t][i].step = stack[t][i].step
        /\ \A u \in Threads \ {t} : stack'[u] = stack[u]
    BY TopEntry, SuperShape DEF Keeps, Agree, Is, At
  <1>2. \A u \in Threads : \A i \in 1 .. Len(stack[u]) - 1 : NestedAt(u, i)
    BY Nested
  <1> HIDE DEF n
  <1>3. OnlyTopRuns' /\ CallsAreNested'
    <2>1. ASSUME NEW u \in Threads, NEW i \in 1 .. Len(stack'[u]) - 1 PROVE NestedAt(u, i)'
      <3>1. CASE u = t
        <4>1. CASE i = n
          <5>1. /\ stack'[t][i].step = "static" /\ stack'[t][i].class # Root
                /\ stack'[t][i + 1].class = Super[stack'[t][i].class]
                /\ stack'[t][i + 1].step = "check"
            BY <1>1, <4>1
          <5>2. QED
            BY <3>1, <5>1 DEF NestedAt, Steps, Kinds
        <4>2. CASE i # n
          <5>1. i \in 1 .. n - 1 /\ i + 1 \in 1 .. n /\ i \in 1 .. Len(stack[t]) - 1
            BY <1>1, <2>1, <3>1, <4>2 DEF n
          <5>2. stack'[t][i + 1].class = stack[t][i + 1].class
            BY <1>1, <5>1
          <5>3. stack'[t][i + 1].step = stack[t][i + 1].step \/ stack'[t][i + 1].step \in Steps
            BY <1>1, <5>1 DEF Steps
          <5>4. NestedAt(t, i)
            BY <1>2, <5>1
          <5>5. stack'[t][i].class = stack[t][i].class /\ stack'[t][i].step = stack[t][i].step
            BY <1>1, <5>1
          <5>6. QED
            BY <3>1, <5>2, <5>3, <5>4, <5>5 DEF NestedAt
        <4>3. QED
          BY <4>1, <4>2
      <3>2. CASE u # t
        <4>1. stack'[u] = stack[u]
          BY <1>1, <3>2
        <4>2. QED
          BY <1>2, <2>1, <4>1, OtherNested
      <3>3. QED
        BY <3>1, <3>2
    <2>2. QED
      BY <2>1 DEF NestedAt, OnlyTopRuns, CallsAreNested
  <1>4. ActiveFrom(t, n, "static")
    <2> SUFFICES ASSUME NEW u \in Threads, NEW i \in 1 .. Len(stack'[u]), stack'[u][i].step \in Active
                 PROVE  /\ i \in 1 .. Len(stack[u])
                        /\ stack'[u][i].class = stack[u][i].class
                        /\ IF u = t /\ i = n
                           THEN stack'[u][i].step = "static" /\ stack[u][i].step \in Active
                           ELSE stack'[u][i].step = stack[u][i].step
      BY DEF ActiveFrom
    <2>1. CASE u = t
      <3>1. i # n + 1
        BY <1>1, <2>1 DEF Active
      <3>2. QED
        BY <1>1, <2>1, <3>1 DEF n, Active, Steps
    <2>2. CASE u # t
      BY <1>1, <2>2
    <2>3. QED
      BY <2>1, <2>2
  <1>5. KeepsCalls
    <2> SUFFICES ASSUME NEW u \in Threads, NEW c \in Classes, Initialising(u, c)
                 PROVE  Initialising(u, c)'
      BY DEF KeepsCalls
    <2>1. PICK i \in 1 .. Len(stack[u]) : stack[u][i].class = c /\ stack[u][i].step \in Active
      BY Owner
    <2>2. i \in 1 .. Len(stack'[u]) /\ stack'[u][i].class = c /\ stack'[u][i].step \in Active
      <3>1. CASE u = t
        BY <1>1, <2>1, <3>1 DEF n, Active, Steps
      <3>2. CASE u # t
        BY <1>1, <2>1, <3>2
      <3>3. QED
        BY <3>1, <3>2
    <2>3. QED
      BY <2>2, OwnerNext
  <1>6. stack'[t] # <<>> /\ Top(t)'.step = "check"
    BY <1>1 DEF Top
  <1>7. QED
    BY <1>3, <1>4, <1>5, <1>6 DEF n

\* A use keeps the nesting, and no call of clinit is lost.
LEMMA Used ==
  ASSUME TypeOK, TypeOK', OnlyTopRuns, CallsAreNested, NEW t \in Threads,
         NEW class \in Classes, NEW kind \in Kinds, Use(t, class, kind)
  PROVE  /\ OnlyTopRuns' /\ CallsAreNested'
         /\ ActiveFrom(t, 0, "set")
         /\ KeepsCalls
         /\ stack'[t] # <<>> /\ Top(t)'.step = "check"
  <1> DEFINE n == Len(stack[t])
  <1>0. n \in Nat /\ (stack[t] # <<>> <=> n > 0)
    BY DEF TypeOK
  <1>1. /\ Len(stack'[t]) = n + 2
        /\ stack'[t][n + 1].class = class /\ stack'[t][n + 1].step = kind
        /\ stack'[t][n + 2].class = class /\ stack'[t][n + 2].step = "check"
        /\ \A i \in 1 .. n : /\ stack'[t][i].class = stack[t][i].class
                            /\ stack'[t][i].step = stack[t][i].step
        /\ \A u \in Threads \ {t} : stack'[u] = stack[u]
    BY UseShape DEF Keeps, Agree, Is
  <1>b. n > 0 => stack[t][n].step = "body"
    BY <1>0 DEF At, Use, Top
  <1>2. \A u \in Threads : \A i \in 1 .. Len(stack[u]) - 1 : NestedAt(u, i)
    BY Nested
  <1> HIDE DEF n
  <1>3. OnlyTopRuns' /\ CallsAreNested'
    <2>1. ASSUME NEW u \in Threads, NEW i \in 1 .. Len(stack'[u]) - 1 PROVE NestedAt(u, i)'
      <3>1. CASE u = t
        <4>0. i \in 1 .. n - 1 \/ (i = n /\ n > 0) \/ i = n + 1
          BY <1>0, <1>1, <2>1, <3>1
        <4>1. CASE i \in 1 .. n - 1
          <5>1. i \in 1 .. n /\ i + 1 \in 1 .. n /\ i \in 1 .. Len(stack[t]) - 1
            BY <1>0, <4>1 DEF n
          <5>2. QED
            BY <1>1, <1>2, <3>1, <5>1 DEF NestedAt
        <4>2. CASE i = n /\ n > 0
          <5>1. stack'[t][i].step = "body"
            BY <1>0, <1>1, <1>b, <4>2
          <5>2. QED
            BY <3>1, <5>1 DEF NestedAt, Kinds
        <4>3. CASE i = n + 1
          <5>1. i + 1 = n + 2
            BY <1>0, <4>3
          <5>2. QED
            BY <1>1, <3>1, <4>3, <5>1 DEF NestedAt, Kinds, Steps
        <4>4. QED
          BY <4>0, <4>1, <4>2, <4>3
      <3>2. CASE u # t
        <4>1. stack'[u] = stack[u]
          BY <1>1, <3>2
        <4>2. QED
          BY <1>2, <2>1, <4>1, OtherNested
      <3>3. QED
        BY <3>1, <3>2
    <2>2. QED
      BY <2>1 DEF NestedAt, OnlyTopRuns, CallsAreNested
  <1>4. ActiveFrom(t, 0, "set")
    <2> SUFFICES ASSUME NEW u \in Threads, NEW i \in 1 .. Len(stack'[u]), stack'[u][i].step \in Active
                 PROVE  /\ i \in 1 .. Len(stack[u]) /\ i # 0
                        /\ stack'[u][i].class = stack[u][i].class
                        /\ stack'[u][i].step = stack[u][i].step
      BY DEF ActiveFrom
    <2>1. CASE u = t
      <3>1. i # n + 1 /\ i # n + 2
        BY <1>1, <2>1 DEF Active, Steps, Kinds
      <3>2. QED
        BY <1>0, <1>1, <2>1, <3>1 DEF n
    <2>2. CASE u # t
      BY <1>1, <2>2
    <2>3. QED
      BY <2>1, <2>2
  <1>5. KeepsCalls
    <2> SUFFICES ASSUME NEW u \in Threads, NEW c \in Classes, Initialising(u, c)
                 PROVE  Initialising(u, c)'
      BY DEF KeepsCalls
    <2>1. PICK i \in 1 .. Len(stack[u]) : stack[u][i].class = c /\ stack[u][i].step \in Active
      BY Owner
    <2>2. i \in 1 .. Len(stack'[u]) /\ stack'[u][i].class = c /\ stack'[u][i].step \in Active
      <3>1. CASE u = t
        BY <1>0, <1>1, <2>1, <3>1 DEF n
      <3>2. CASE u # t
        BY <1>1, <2>1, <3>2
      <3>3. QED
        BY <3>1, <3>2
    <2>3. QED
      BY <2>2, OwnerNext
  <1>6. stack'[t] # <<>> /\ Top(t)'.step = "check"
    BY <1>0, <1>1 DEF Top
  <1>7. QED
    BY <1>3, <1>4, <1>5, <1>6

\* A use ends; with an exception it ends the <clinit> it is in as well.
LEMMA Accessed ==
  ASSUME TypeOK, TypeOK', OnlyTopRuns, CallsAreNested, NEW t \in Threads, Access(t)
  PROVE  /\ OnlyTopRuns' /\ CallsAreNested'
         /\ \/ ActiveFrom(t, 0, "set")
            \/ /\ Len(stack[t]) - 1 \in 1 .. Len(stack[t])
               /\ stack[t][Len(stack[t]) - 1].step = "body"
               /\ ActiveFrom(t, Len(stack[t]) - 1, "special")
         /\ KeepsCalls
         /\ stack'[t] # <<>> => Top(t)'.step \in {"body", "special"}
  <1> DEFINE n == Len(stack[t])
  <1>0. stack[t] # <<>> /\ Top(t).step \in Kinds /\ Top(t).step \notin Steps
    BY DEF Access, At, Kinds, Steps
  <1>1. n \in Nat \ {0} /\ Top(t) = stack[t][n]
    BY <1>0, TopEntry
  <1>2. \A u \in Threads : \A i \in 1 .. Len(stack[u]) - 1 : NestedAt(u, i)
    BY Nested
  <1>3. ASSUME n - 1 \in Nat \ {0} PROVE stack[t][n - 1].step = "body"
    <2>1. NestedAt(t, n - 1)
      <3>1. n - 1 \in 1 .. n - 1
        <4> HIDE DEF n
        <4>1. QED
          BY <1>1, <1>3
      <3>2. QED
        BY <1>2, <3>1
    <2>2. stack[t][n - 1 + 1] = Top(t)
      BY <1>1
    <2>3. QED
      BY <1>0, <2>1, <2>2 DEF NestedAt
  <1>4. CASE Removes(t)
    <2>1. stack'[t] # <<>> => Len(stack[t]) - 1 \in 1 .. Len(stack[t]) - 1 /\ Top(t)'.step = stack[t][n - 1].step
      BY <1>0, <1>4, Removed
    <2>2. QED
      BY <1>0, <1>1, <1>3, <1>4, <2>1, Removed DEF Active
  <1>5. CASE /\ n - 1 \in Nat \ {0}
             /\ Keeps(t, n - 2)
             /\ Len(stack'[t]) = n - 1
             /\ Is(t, n - 1, stack[t][n - 1].class, "special")
    <2> DEFINE m == n - 1
    <2>1. /\ m \in Nat \ {0} /\ Len(stack'[t]) = m
          /\ stack'[t][m].class = stack[t][m].class
          /\ stack[t][m].step = "body" /\ stack'[t][m].step = "special"
          /\ \A i \in 1 .. m - 1 : /\ stack'[t][i].class = stack[t][i].class
                                  /\ stack'[t][i].step = stack[t][i].step
          /\ \A u \in Threads \ {t} : stack'[u] = stack[u]
      BY <1>1, <1>3, <1>5 DEF Keeps, Agree, Is
    <2>n. Len(stack[t]) = m + 1
      BY <1>1
    <2> HIDE DEF m, n
    <2>2. OnlyTopRuns' /\ CallsAreNested'
      <3>1. ASSUME NEW u \in Threads, NEW i \in 1 .. Len(stack'[u]) - 1 PROVE NestedAt(u, i)'
        <4>1. CASE u = t
          <5>1. i \in 1 .. m - 1 /\ i + 1 \in 1 .. m /\ i \in 1 .. Len(stack[t]) - 1
            BY <2>1, <2>n, <3>1, <4>1
          <5>2. stack'[t][i + 1].class = stack[t][i + 1].class
            BY <2>1, <5>1
          <5>3. stack'[t][i + 1].step = stack[t][i + 1].step \/ stack'[t][i + 1].step \in Steps
            BY <2>1, <5>1 DEF Steps
          <5>4. QED
            BY <1>2, <2>1, <4>1, <5>1, <5>2, <5>3 DEF NestedAt
        <4>2. CASE u # t
          <5>1. stack'[u] = stack[u]
            BY <2>1, <4>2
          <5>2. QED
            BY <1>2, <3>1, <5>1, OtherNested
        <4>3. QED
          BY <4>1, <4>2
      <3>2. QED
        BY <3>1 DEF NestedAt, OnlyTopRuns, CallsAreNested
    <2>3. ActiveFrom(t, m, "special")
      <3> SUFFICES ASSUME NEW u \in Threads, NEW i \in 1 .. Len(stack'[u]), stack'[u][i].step \in Active
                   PROVE  /\ i \in 1 .. Len(stack[u])
                          /\ stack'[u][i].class = stack[u][i].class
                          /\ IF u = t /\ i = m
                             THEN stack'[u][i].step = "special" /\ stack[u][i].step \in Active
                             ELSE stack'[u][i].step = stack[u][i].step
        BY DEF ActiveFrom
      <3>1. CASE u = t
        BY <2>1, <2>n, <3>1 DEF Active, Steps
      <3>2. CASE u # t
        BY <2>1, <3>2
      <3>3. QED
        BY <3>1, <3>2
    <2>4. KeepsCalls
      <3> SUFFICES ASSUME NEW u \in Threads, NEW c \in Classes, Initialising(u, c)
                   PROVE  Initialising(u, c)'
        BY DEF KeepsCalls
      <3>1. PICK i \in 1 .. Len(stack[u]) : stack[u][i].class = c /\ stack[u][i].step \in Active
        BY Owner
      <3>2. i \in 1 .. Len(stack'[u]) /\ stack'[u][i].class = c /\ stack'[u][i].step \in Active
        <4>1. CASE u = t
          <5>1. i # m + 1
            BY <1>0, <1>1, <2>n, <3>1, <4>1 DEF Active, n
          <5>2. QED
            BY <2>1, <2>n, <3>1, <4>1, <5>1 DEF Active, Steps
        <4>2. CASE u # t
          BY <2>1, <3>1, <4>2
        <4>3. QED
          BY <4>1, <4>2
      <3>3. QED
        BY <3>2, OwnerNext
    <2>5. Top(t)'.step = "special"
      BY <2>1 DEF Top
    <2>6. m \in 1 .. m + 1
      BY <2>1
    <2>7. QED
      BY <2>1, <2>n, <2>2, <2>3, <2>4, <2>5, <2>6 DEF m, n
  <1>6. QED
    BY <1>4, <1>5, AccessShape

-----------------------------------------------------------------------------
(* One conjunct of the invariant at a time *)

LEMMA Mine ==
  ASSUME TypeOK, OneCall, NEW t \in Threads, stack[t] # <<>>,
         Top(t).step \in Active, ~ met[Top(t).class],
         NEW u \in Threads, NEW i \in 1 .. Len(stack[u]),
         stack[u][i].class = Top(t).class, stack[u][i].step \in Active
  PROVE  u = t /\ i = Len(stack[t])
  <1>1. Len(stack[t]) \in 1 .. Len(stack[t]) /\ Top(t) = stack[t][Len(stack[t])]
    BY TopEntry
  <1>2. QED
    BY <1>1 DEF OneCall

\* Each entry has a class and a step.
LEMMA ClassOf ==
  ASSUME TypeOK, NEW u \in Threads, NEW i \in 1 .. Len(stack[u])
  PROVE  stack[u][i].class \in Classes /\ stack[u][i].step \in Steps \cup Kinds
  <1>1. stack[u] \in Seq(Entries)
    BY DEF TypeOK, Entries
  <1>2. stack[u][i] \in Entries
    BY <1>1
  <1>3. QED
    BY <1>2 DEF Entries

\* One call initialises a class: kept when no thread begins a second one.
LEMMA OneCallKept ==
  ASSUME TypeOK, OneCall, NEW t \in Threads, NEW k, NEW step, ActiveFrom(t, k, step),
         step # "set" \/ k = 0,
         \A c \in Classes : met[c] => met'[c]
  PROVE  OneCall'
  <1> SUFFICES ASSUME NEW v \in Threads, NEW u \in Threads,
                      NEW i \in 1 .. Len(stack'[v]), NEW j \in 1 .. Len(stack'[u]),
                      stack'[v][i].class = stack'[u][j].class,
                      stack'[v][i].step \in Active,
                      stack'[u][j].step \in Active,
                      ~ met'[stack'[v][i].class]
               PROVE  v = u /\ i = j
    BY DEF OneCall
  <1>1. /\ i \in 1 .. Len(stack[v]) /\ i # 0
        /\ stack'[v][i].class = stack[v][i].class /\ stack[v][i].step \in Active
    BY DEF ActiveFrom
  <1>2. /\ j \in 1 .. Len(stack[u]) /\ j # 0
        /\ stack'[u][j].class = stack[u][j].class /\ stack[u][j].step \in Active
    BY DEF ActiveFrom
  <1>3. ~ met[stack[v][i].class]
    BY <1>1, ClassOf
  <1>4. stack[v][i].class = stack[u][j].class
    BY <1>1, <1>2
  <1> HIDE DEF Active
  <1>5. QED
    BY <1>1, <1>2, <1>3, <1>4 DEF OneCall

\* DoneAt goes with the calls, if a step of one call breaks no other.
Carries(t, k, step) ==
    \A u \in Threads : \A i \in 1 .. Len(stack[u]) : \A c \in Classes, s \in Active :
        c = stack[u][i].class /\ stack[u][i].step \in Active /\ ~ met[c]
            /\ DoneAt(c, stack[u][i].step)
            /\ s = (IF u = t /\ i = k THEN step ELSE stack[u][i].step)
        => DoneAt(c, s)'

\* What the steps before have done is still done, if the step just taken did its part.
LEMMA OrderKept ==
  ASSUME TypeOK, StepsInOrder, NEW t \in Threads, NEW k, NEW step, ActiveFrom(t, k, step),
         step # "set" \/ k = 0, Carries(t, k, step),
         \A c \in Classes : met[c] => met'[c]
  PROVE  StepsInOrder'
  <1> SUFFICES ASSUME NEW u \in Threads, NEW i \in 1 .. Len(stack'[u]), NEW c, NEW s,
                      c = stack'[u][i].class, s = stack'[u][i].step, ~ met'[c]
               PROVE  DoneAt(c, s)'
    BY DEF StepsInOrder, DoneAt
  <1>1. CASE s \in Active
    <2>1. /\ i \in 1 .. Len(stack[u]) /\ i # 0
          /\ c = stack[u][i].class /\ stack[u][i].step \in Active
          /\ s = (IF u = t /\ i = k THEN step ELSE stack[u][i].step)
      BY <1>1 DEF ActiveFrom
    <2>2. c \in Classes /\ ~ met[c]
      BY <2>1, ClassOf
    <2>3. DoneAt(c, stack[u][i].step)
      BY <2>1, <2>2 DEF StepsInOrder
    <2>4. QED
      BY <1>1, <2>1, <2>2, <2>3 DEF Carries
  <1>2. CASE s \notin Active
    BY <1>2 DEF DoneAt, Begun, Active, Steps
  <1>3. QED
    BY <1>1, <1>2

\* A class still LOADED is as it was loaded: kept by a step that leaves it so.
LEMMA FreshKept ==
  ASSUME TypeOK, LoadedIsFresh, NEW t \in Threads, NEW k, NEW step, ActiveFrom(t, k, step),
         \A c \in Classes : status'[c] = "LOADED" =>
             /\ status[c] = "LOADED"
             /\ runs'[c] = 0 /\ statics'[c] \in Fresh,
         k \in 1 .. Len(stack[t]) /\ step \in Begun => status'[stack[t][k].class] # "LOADED"
  PROVE  LoadedIsFresh'
  <1> SUFFICES ASSUME NEW u \in Threads, NEW i \in 1 .. Len(stack'[u]), stack'[u][i].step \in Begun
               PROVE  status'[stack'[u][i].class] # "LOADED"
    BY DEF LoadedIsFresh
  <1>1. /\ i \in 1 .. Len(stack[u])
        /\ stack'[u][i].class = stack[u][i].class
        /\ IF u = t /\ i = k THEN stack'[u][i].step = step
           ELSE stack'[u][i].step = stack[u][i].step
    BY DEF ActiveFrom, Begun
  <1>2. stack[u][i].class \in Classes
    BY <1>1, ClassOf
  <1>3. QED
    BY <1>1, <1>2 DEF LoadedIsFresh

\* A class at INIT has a thread that initialises it.
LEMMA OwnersKept ==
  ASSUME InitHasOwner, KeepsCalls,
         \A c \in Classes : status'[c] = "INIT" => status[c] = "INIT"
  PROVE  InitHasOwner'
  BY DEF InitHasOwner, KeepsCalls

\* What thread u finds is still good.
LEMMA GoodKept ==
  ASSUME NEW u \in Threads, NEW c \in Classes, Good(u, c),
         Initialising(u, c) => Initialising(u, c)',
         Ready(c) => Ready(c)' \/ met'[c],
         met[c] => met'[c]
  PROVE  Good(u, c)'
  BY DEF Good

\* What a thread found before stays good when another thread runs.
LEMMA OtherGood ==
  ASSUME TypeOK, NEW u \in Threads, stack'[u] = stack[u], TopGood(u),
         \A c \in Classes : Good(u, c) => Good(u, c)'
  PROVE  TopGood(u)'
  <1>1. Top(u)' = Top(u)
    BY DEF Top
  <1>2. ASSUME stack[u] # <<>>, NEW c, c = Top(u).class, Top(u).step \in Kinds
        PROVE  Good(u, c)'
    <2>1. c \in Classes
      BY <1>2, TopEntry DEF Entries
    <2>2. QED
      BY <1>2, <2>1 DEF TopGood
  <1>3. ASSUME stack[u] # <<>>, NEW c, c = Super[Top(u).class],
               Top(u).step \in {"static", "run"}, Top(u).class # Root
        PROVE  Good(u, c)'
    <2>1. c \in Classes
      BY <1>3, TopEntry, SuperAssumption DEF Entries
    <2>2. QED
      BY <1>3, <2>1 DEF TopGood
  <1>4. QED
    BY <1>1, <1>2, <1>3 DEF TopGood, Good, Ready, Initialising, Calls

\* An action of t that leaves every class ready and all calls active.
LEMMA TopsKept ==
  ASSUME TypeOK, TopIsGood, NEW t \in Threads,
         \A u \in Threads \ {t} : stack'[u] = stack[u],
         \A u \in Threads \ {t}, c \in Classes : Good(u, c) => Good(u, c)',
         TopGood(t)'
  PROVE  TopIsGood'
  BY OtherGood DEF TopIsGood

-----------------------------------------------------------------------------
(* One action at a time *)

\* Every action leaves the other stacks alone.
LEMMA OthersStay ==
  ASSUME TypeOK, NEW t \in Threads, Step(t) \/ \E c \in Classes, kind \in Kinds : Use(t, c, kind)
  PROVE  \A u \in Threads \ {t} : stack'[u] = stack[u]
  BY DEF TypeOK, Step, Check, Set, InitSuper, InitStaticField, RunClinit, EndBody, Throw,
         InitSpecialType, Finish, Access, Use, Goto, Pops

\* A thread that is about to use nothing has nothing to find good.
LEMMA TopQuiet ==
  ASSUME NEW t \in Threads,
         stack'[t] # <<>> => Top(t)'.step \notin Kinds \cup {"static", "run"}
  PROVE  TopGood(t)'
  BY DEF TopGood

\* InitSuper, EndBody, Throw and Use: the classes stay as they are.
LEMMA Idle ==
  ASSUME IInv, TypeOK', OnlyTopRuns', CallsAreNested', NEW t \in Threads, NEW k, NEW step,
         ActiveFrom(t, k, step), step # "set" \/ k = 0, KeepsCalls,
         \A u \in Threads \ {t} : stack'[u] = stack[u],
         UNCHANGED <<status, statics, special, runs, met>>,
         k \in 1 .. Len(stack[t]) =>
            /\ \A c \in Classes : DoneAt(c, stack[t][k].step) => DoneAt(c, step)
            /\ step \in Begun => stack[t][k].step \in Begun,
         TopGood(t)'
  PROVE  IInv'
  <1>0. /\ TypeOK /\ LoadedIsFresh /\ OneCall /\ StepsInOrder /\ InitHasOwner
        /\ InitedIsReady /\ RunsOnce /\ TopIsGood
    BY DEF IInv
  <1>1. OneCall'
    BY <1>0, OneCallKept
  <1>2. StepsInOrder'
    <2>1. Carries(t, k, step)
      <3> SUFFICES ASSUME NEW u \in Threads, NEW i \in 1 .. Len(stack[u]),
                          NEW c \in Classes, NEW s \in Active,
                          DoneAt(c, stack[u][i].step),
                          s = (IF u = t /\ i = k THEN step ELSE stack[u][i].step)
                   PROVE  DoneAt(c, s)'
        BY DEF Carries
      <3>1. DoneAt(c, s)
        OBVIOUS
      <3>2. QED
        BY <3>1 DEF DoneAt
    <2>2. QED
      BY <1>0, <2>1, OrderKept
  <1>3. LoadedIsFresh'
    BY <1>0, FreshKept DEF LoadedIsFresh
  <1>4. InitHasOwner'
    BY <1>0, OwnersKept
  <1>5. InitedIsReady' /\ RunsOnce'
    BY <1>0 DEF InitedIsReady, RunsOnce, Ready
  <1>6. TopIsGood'
    <2>1. \A u \in Threads, c \in Classes : Good(u, c) => Good(u, c)'
      BY GoodKept DEF Ready, KeepsCalls
    <2>2. QED
      BY <1>0, <2>1, TopsKept
  <1>7. QED
    BY <1>1, <1>2, <1>3, <1>4, <1>5, <1>6 DEF IInv

\* initSuper keeps the invariant.
LEMMA InitSuperKeeps ==
  ASSUME IInv, TypeOK', NEW t \in Threads, InitSuper(t)
  PROVE  IInv'
  <1>0. /\ TypeOK /\ OnlyTopRuns /\ CallsAreNested
        /\ stack[t] # <<>> /\ Top(t).step = "super"
        /\ Top(t) = stack[t][Len(stack[t])] /\ "static" \in Steps
    BY DEF IInv, InitSuper, At, Top, Steps
  <1>1. UNCHANGED <<status, statics, special, runs, met>> /\ \A u \in Threads \ {t} : stack'[u] = stack[u]
    BY <1>0, OthersStay DEF InitSuper, Step
  <1>2. \A c \in Classes : DoneAt(c, "super") => DoneAt(c, "static")
    BY DEF DoneAt, Begun, Active, Steps
  <1>3. "super" \in Begun /\ "super" \in Active /\ "static" \in Active
    BY DEF Begun, Active, Steps
  <1>4. CASE Top(t).class = Root
    <2>1. stack' = Goto(t, "static")
      BY <1>4 DEF InitSuper
    <2>2. /\ OnlyTopRuns' /\ CallsAreNested'
          /\ ActiveFrom(t, Len(stack[t]), "static") /\ KeepsCalls
          /\ Top(t)'.class = Root /\ Top(t)'.step = "static"
      BY <1>0, <1>3, <1>4, <2>1, GotoReplaces, Replaced
    <2>3. TopGood(t)'
      BY <2>2 DEF TopGood, Kinds
    <2>4. QED
      BY <1>0, <1>1, <1>2, <1>3, <2>2, <2>3, Idle
  <1>5. CASE Top(t).class # Root
    <2>1. /\ OnlyTopRuns' /\ CallsAreNested'
          /\ ActiveFrom(t, Len(stack[t]), "static") /\ KeepsCalls
          /\ Top(t)'.step = "check"
      BY <1>0, <1>5, SuperCalled DEF At
    <2>2. TopGood(t)'
      BY <2>1, TopQuiet DEF Kinds
    <2>3. QED
      BY <1>0, <1>1, <1>2, <1>3, <2>1, <2>2, Idle
  <1>6. QED
    BY <1>4, <1>5

\* The end of <clinit>, by return or by exception, keeps the invariant.
LEMMA BodyEnds ==
  ASSUME IInv, TypeOK', NEW t \in Threads, EndBody(t) \/ Throw(t)
  PROVE  IInv'
  <1>0. /\ TypeOK /\ OnlyTopRuns /\ CallsAreNested
        /\ stack[t] # <<>> /\ Top(t).step = "body"
        /\ Top(t) = stack[t][Len(stack[t])] /\ "special" \in Steps
    BY DEF IInv, EndBody, Throw, At, Top, Steps
  <1>1. UNCHANGED <<status, statics, special, runs, met>> /\ \A u \in Threads \ {t} : stack'[u] = stack[u]
    BY <1>0, OthersStay DEF EndBody, Throw, Step
  <1>2. \A c \in Classes : DoneAt(c, "body") => DoneAt(c, "special")
    BY DEF DoneAt, Begun, Active, Steps
  <1>3. "body" \in Begun /\ "body" \in Active /\ "special" \in Active
    BY DEF Begun, Active, Steps
  <1>4. Replaces(t, "special")
    BY <1>0, GotoReplaces, ThrowReplaces DEF EndBody
  <1>5. /\ OnlyTopRuns' /\ CallsAreNested'
        /\ ActiveFrom(t, Len(stack[t]), "special") /\ KeepsCalls
        /\ Top(t)'.step = "special"
    BY <1>0, <1>3, <1>4, Replaced
  <1>6. TopGood(t)'
    BY <1>5, TopQuiet DEF Kinds
  <1>7. QED
    BY <1>0, <1>1, <1>2, <1>3, <1>5, <1>6, Idle

\* A new use keeps the invariant.
LEMMA UseKeeps ==
  ASSUME IInv, TypeOK', NEW t \in Threads, NEW class \in Classes, NEW kind \in Kinds,
         Use(t, class, kind)
  PROVE  IInv'
  <1>0. TypeOK /\ OnlyTopRuns /\ CallsAreNested
    BY DEF IInv
  <1>1. UNCHANGED <<status, statics, special, runs, met>> /\ \A u \in Threads \ {t} : stack'[u] = stack[u]
    BY <1>0, OthersStay DEF Use
  <1>2. /\ OnlyTopRuns' /\ CallsAreNested'
        /\ ActiveFrom(t, 0, "set") /\ KeepsCalls
        /\ Top(t)'.step = "check"
    BY <1>0, Used
  <1>3. TopGood(t)'
    BY <1>2, TopQuiet DEF Kinds
  <1>4. 0 \notin 1 .. Len(stack[t])
    OBVIOUS
  <1>5. QED
    BY <1>1, <1>2, <1>3, <1>4, Idle

\* The other actions of clinit work on the class of the call on top, which
\* without a meeting is the only call for it.
OnlyFor(c) == \A d \in Classes \ {c} : /\ status'[d] = status[d]
                                      /\ statics'[d] = statics[d]
                                      /\ special'[d] = special[d]
                                      /\ runs'[d] = runs[d]

\* A step does its part for its own class, and the calls of other classes keep theirs.
LEMMA MineCarries ==
  ASSUME TypeOK, OneCall, NEW t \in Threads, stack[t] # <<>>, Top(t).step \in Active,
         NEW class, class = Top(t).class, OnlyFor(class),
         NEW step, ~ met[class] /\ DoneAt(class, Top(t).step) => DoneAt(class, step)'
  PROVE  Carries(t, Len(stack[t]), step)
  <1> SUFFICES ASSUME NEW u \in Threads, NEW i \in 1 .. Len(stack[u]),
                      NEW c \in Classes, NEW s \in Active,
                      c = stack[u][i].class, stack[u][i].step \in Active, ~ met[c],
                      DoneAt(c, stack[u][i].step),
                      s = (IF u = t /\ i = Len(stack[t]) THEN step ELSE stack[u][i].step)
               PROVE  DoneAt(c, s)'
    BY DEF Carries
  <1>1. CASE c = class
    <2>1. u = t /\ i = Len(stack[t])
      BY <1>1, Mine
    <2>2. Top(t) = stack[u][i] /\ s = step
      BY <2>1 DEF Top
    <2>3. QED
      BY <1>1, <2>2
  <1>2. CASE c # class
    <2>1. s = stack[u][i].step
      <3>1. u = t /\ i = Len(stack[t]) => stack[u][i].class = class
        BY DEF Top
      <3>2. QED
        BY <1>2, <3>1
    <2>2. status'[c] = status[c] /\ statics'[c] = statics[c] /\ special'[c] = special[c] /\ runs'[c] = runs[c]
      BY <1>2 DEF OnlyFor
    <2>3. QED
      BY <2>1, <2>2 DEF DoneAt
  <1>3. QED
    BY <1>1, <1>2

\* What comes before the step on top has been done.
LEMMA TopDone ==
  ASSUME TypeOK, StepsInOrder, NEW t \in Threads, stack[t] # <<>>, ~ met[Top(t).class]
  PROVE  DoneAt(Top(t).class, Top(t).step)
  <1>1. Len(stack[t]) \in 1 .. Len(stack[t]) /\ Top(t) = stack[t][Len(stack[t])]
    BY TopEntry
  <1>2. QED
    BY <1>1 DEF StepsInOrder

\* Such an action, with what it does to the class.
LEMMA Works ==
  ASSUME IInv, TypeOK', OnlyTopRuns', CallsAreNested',
         NEW t \in Threads, stack[t] # <<>>, Top(t).step \in Active,
         NEW class \in Classes, class = Top(t).class, OnlyFor(class),
         NEW step \in Active, step # "set", ActiveFrom(t, Len(stack[t]), step), KeepsCalls,
         \A u \in Threads \ {t} : stack'[u] = stack[u],
         met' = met,
         ~ met[class] /\ DoneAt(class, Top(t).step) => DoneAt(class, step)',
         ~ met[class] => runs'[class] <= 1,
         (status'[class] # "LOADED" /\ status'[class] # "INITED") \/ status'[class] = status[class],
         Top(t).step \in Begun \/ status'[class] # "LOADED",
         ~ met[class] /\ Ready(class) => Ready(class)',
         special'[class] => class \in ThreadClasses,
         TopGood(t)'
  PROVE  IInv'
  <1>0. /\ TypeOK /\ LoadedIsFresh /\ OneCall /\ StepsInOrder /\ InitHasOwner
        /\ InitedIsReady /\ RunsOnce /\ TopIsGood
    BY DEF IInv
  <1>n. Len(stack[t]) \in 1 .. Len(stack[t]) /\ Top(t) = stack[t][Len(stack[t])]
    BY <1>0, TopEntry
  <1>1. OneCall'
    BY <1>0, OneCallKept
  <1>2. StepsInOrder'
    <2>1. Carries(t, Len(stack[t]), step)
      BY <1>0, MineCarries
    <2>2. QED
      BY <1>0, <2>1, OrderKept
  <1>3. LoadedIsFresh'
    <2>1. status'[class] # "LOADED"
      BY <1>0, <1>n DEF LoadedIsFresh
    <2>2. \A c \in Classes : status'[c] = "LOADED" =>
             /\ status[c] = "LOADED"
             /\ runs'[c] = 0 /\ statics'[c] \in Fresh
      BY <1>0, <2>1 DEF LoadedIsFresh, OnlyFor
    <2>3. QED
      BY <1>0, <1>n, <2>1, <2>2, FreshKept
  <1>4. InitHasOwner'
    <2> SUFFICES ASSUME NEW c \in Classes, status'[c] = "INIT"
                 PROVE  \E u \in Threads : Initialising(u, c)'
      BY DEF InitHasOwner
    <2>1. CASE c = class
      <3>1. Initialising(t, c)
        BY <1>0, <1>n, <2>1, Owner
      <3>2. QED
        BY <3>1 DEF KeepsCalls
    <2>2. CASE c # class
      <3>1. status[c] = "INIT"
        BY <2>2 DEF OnlyFor
      <3>2. QED
        BY <1>0, <3>1 DEF InitHasOwner, KeepsCalls
    <2>3. QED
      BY <2>1, <2>2
  <1>5. \A c \in Classes : Ready(c) => Ready(c)' \/ met[c]
    <2> SUFFICES ASSUME NEW c \in Classes, Ready(c), ~ met[c]
                 PROVE  Ready(c)'
      OBVIOUS
    <2>1. CASE c = class
      BY <2>1
    <2>2. CASE c # class
      BY <2>2 DEF OnlyFor, Ready
    <2>3. QED
      BY <2>1, <2>2
  <1>6. InitedIsReady'
    <2>1. \A c \in Classes : special'[c] => c \in ThreadClasses
      BY <1>0 DEF InitedIsReady, OnlyFor
    <2>2. ASSUME NEW c \in Classes, ~ met[c], status'[c] = "INITED" PROVE Ready(c)'
      <3>1. status[c] = "INITED"
        BY <2>2 DEF OnlyFor
      <3>2. Ready(c)
        BY <1>0, <2>2, <3>1 DEF InitedIsReady
      <3>3. QED
        BY <1>5, <2>2, <3>2
    <2>3. QED
      BY <2>1, <2>2 DEF InitedIsReady
  <1>7. RunsOnce'
    BY <1>0 DEF RunsOnce, OnlyFor
  <1>8. TopIsGood'
    <2>1. \A u \in Threads, c \in Classes : Good(u, c) => Good(u, c)'
      BY <1>5, GoodKept DEF KeepsCalls
    <2>2. QED
      BY <1>0, <2>1, TopsKept
  <1>9. QED
    BY <1>1, <1>2, <1>3, <1>4, <1>6, <1>7, <1>8 DEF IInv

\* Writing INIT keeps the invariant.
LEMMA SetKeeps ==
  ASSUME IInv, TypeOK', NEW t \in Threads, Set(t)
  PROVE  IInv'
  <1>0. /\ TypeOK /\ OnlyTopRuns /\ CallsAreNested /\ RunsOnce /\ InitedIsReady
        /\ stack[t] # <<>> /\ Top(t).step = "set"
        /\ "super" \in Steps /\ "super" \in Active /\ "set" \in Active
    BY DEF IInv, Set, At, Active, Steps
  <1> DEFINE class == Top(t).class
  <1>1. class \in Classes
    BY <1>0, TopEntry DEF Entries
  <1>2. /\ status' = [status EXCEPT ![class] = "INIT"]
        /\ UNCHANGED <<statics, special, runs, met>>
        /\ \A u \in Threads \ {t} : stack'[u] = stack[u]
    BY <1>0, OthersStay DEF Set, Step
  <1>3. OnlyFor(class) /\ status'[class] = "INIT"
    BY <1>0, <1>1, <1>2 DEF OnlyFor, TypeOK
  <1>4. Replaces(t, "super")
    BY <1>0, GotoReplaces DEF Set
  <1>5. /\ OnlyTopRuns' /\ CallsAreNested'
        /\ ActiveFrom(t, Len(stack[t]), "super") /\ KeepsCalls
        /\ Top(t)'.step = "super"
    BY <1>0, <1>4, Replaced
  <1>6. TopGood(t)'
    BY <1>5, TopQuiet DEF Kinds
  <1>7. ASSUME NEW d, d = class, ~ met[d], DoneAt(d, "set") PROVE DoneAt(d, "super")'
    BY <1>2, <1>3, <1>7 DEF DoneAt, Begun, Active, Steps
  <1>8. ~ met[class] => status[class] = "LOADED"
    BY <1>0, TopDone DEF DoneAt, IInv
  <1>9. ~ met[class] => runs'[class] <= 1
    BY <1>0, <1>1, <1>2 DEF RunsOnce
  <1>10. ~ (~ met[class] /\ Ready(class))
    BY <1>8 DEF Ready
  <1>11. special'[class] => class \in ThreadClasses
    BY <1>0, <1>1, <1>2 DEF InitedIsReady
  <1>12. PICK d \in Classes : d = class
    BY <1>1
  <1> HIDE DEF class
  <1>13. QED
    BY <1>0, <1>2, <1>3, <1>5, <1>6, <1>7, <1>9, <1>10, <1>11, <1>12, Works DEF class

\* initStaticField keeps the invariant.
LEMMA StaticsKeep ==
  ASSUME IInv, TypeOK', NEW t \in Threads, InitStaticField(t)
  PROVE  IInv'
  <1>0. /\ TypeOK /\ OnlyTopRuns /\ CallsAreNested /\ RunsOnce /\ InitedIsReady
        /\ stack[t] # <<>> /\ Top(t).step = "static"
        /\ "run" \in Steps /\ "run" \in Active /\ "static" \in Begun /\ "static" \in Active
    BY DEF IInv, InitStaticField, At, Begun, Active, Steps
  <1> DEFINE class == Top(t).class
  <1>1. class \in Classes
    BY <1>0, TopEntry DEF Entries
  <1>2. /\ statics' = [statics EXCEPT ![class] = "cleared"]
        /\ UNCHANGED <<status, special, runs, met>>
        /\ \A u \in Threads \ {t} : stack'[u] = stack[u]
    BY <1>0, OthersStay DEF InitStaticField, Step
  <1>3. OnlyFor(class) /\ statics'[class] = "cleared"
    BY <1>0, <1>1, <1>2 DEF OnlyFor, TypeOK
  <1>4. Replaces(t, "run")
    BY <1>0, GotoReplaces DEF InitStaticField
  <1>5. /\ OnlyTopRuns' /\ CallsAreNested'
        /\ ActiveFrom(t, Len(stack[t]), "run") /\ KeepsCalls
        /\ stack'[t] # <<>> /\ Top(t)'.class = class /\ Top(t)'.step = "run"
    BY <1>0, <1>4, Replaced
  <1>6. ASSUME NEW d, d = class, ~ met[d], DoneAt(d, "static") PROVE DoneAt(d, "run")'
    BY <1>2, <1>3, <1>6 DEF DoneAt, Begun, Active, Steps
  <1>7. ~ met[class] => runs'[class] <= 1
    BY <1>0, <1>1, <1>2 DEF RunsOnce
  <1>8. \A d \in Classes : Ready(d) => Ready(d)'
    BY <1>2, <1>3 DEF Ready, OnlyFor
  <1>9. special'[class] => class \in ThreadClasses
    BY <1>0, <1>1, <1>2 DEF InitedIsReady
  <1>10. PICK d \in Classes : d = class
    BY <1>1
  <1>11. TopGood(t)'
    <2>1. ASSUME class # Root, NEW sup, sup = Super[class] PROVE Good(t, sup)'
      <3>1. Good(t, sup)
        BY <1>0, <2>1 DEF IInv, TopIsGood, TopGood
      <3>2. sup \in Classes
        BY <1>1, <2>1, SuperAssumption
      <3>3. QED
        BY <1>2, <1>5, <1>8, <3>1, <3>2, GoodKept DEF KeepsCalls
    <2>2. QED
      BY <1>5, <2>1 DEF TopGood, Kinds, Good, Ready, Initialising, Calls
  <1> HIDE DEF class
  <1>12. QED
    BY <1>0, <1>2, <1>3, <1>5, <1>6, <1>7, <1>8, <1>9, <1>10, <1>11, Works DEF class

\* A class without a <clinit> goes on to "special" at once.
LEMMA ClinitKeeps ==
  ASSUME IInv, TypeOK', NEW t \in Threads, RunClinit(t)
  PROVE  IInv'
  <1>0. /\ TypeOK /\ OnlyTopRuns /\ CallsAreNested /\ RunsOnce /\ InitedIsReady
        /\ stack[t] # <<>> /\ Top(t).step = "run"
        /\ "run" \in Begun /\ "run" \in Active
    BY DEF IInv, RunClinit, At, Begun, Active, Steps
  <1> DEFINE class == Top(t).class
  <1>1. class \in Classes
    BY <1>0, TopEntry DEF Entries
  <1>2. /\ UNCHANGED <<status, statics, special, met>>
        /\ \A u \in Threads \ {t} : stack'[u] = stack[u]
        /\ runs' = runs \/ runs' = [runs EXCEPT ![class] = @ + 1]
    BY <1>0, OthersStay DEF RunClinit, Step
  <1>3. OnlyFor(class) /\ (runs'[class] = runs[class] \/ runs'[class] = runs[class] + 1)
    BY <1>0, <1>1, <1>2 DEF OnlyFor, TypeOK
  <1>4. PICK step \in {"body", "special"} : stack' = Goto(t, step)
    BY DEF RunClinit
  <1>5. step \in Steps /\ step \in Active /\ step # "set" /\ Replaces(t, step)
    BY <1>0, <1>4, GotoReplaces DEF Active, Steps
  <1>6. /\ OnlyTopRuns' /\ CallsAreNested'
        /\ ActiveFrom(t, Len(stack[t]), step) /\ KeepsCalls
        /\ Top(t)'.step = step
    BY <1>0, <1>5, Replaced
  <1>7. ASSUME NEW d, d = class, ~ met[d], DoneAt(d, "run") PROVE DoneAt(d, step)'
    BY <1>2, <1>3, <1>7 DEF DoneAt, Begun, Active, Steps
  <1>8. ~ met[class] => runs'[class] <= 1
    <2>1. ~ met[class] => runs[class] = 0
      BY <1>0, TopDone DEF DoneAt, IInv
    <2>2. QED
      BY <1>3, <2>1
  <1>9. \A d \in Classes : Ready(d) => Ready(d)'
    BY <1>2 DEF Ready
  <1>10. special'[class] => class \in ThreadClasses
    BY <1>0, <1>1, <1>2 DEF InitedIsReady
  <1>11. PICK d \in Classes : d = class
    BY <1>1
  <1>12. TopGood(t)'
    BY <1>6, TopQuiet DEF Kinds
  <1> HIDE DEF class
  <1>13. QED
    BY <1>0, <1>2, <1>3, <1>5, <1>6, <1>7, <1>8, <1>9, <1>10, <1>11, <1>12, Works DEF class

\* initSpecialType keeps the invariant.
LEMMA SpecialKeeps ==
  ASSUME IInv, TypeOK', NEW t \in Threads, InitSpecialType(t)
  PROVE  IInv'
  <1>0. /\ TypeOK /\ OnlyTopRuns /\ CallsAreNested /\ RunsOnce /\ InitedIsReady
        /\ stack[t] # <<>> /\ Top(t).step = "special"
        /\ "done" \in Steps /\ "done" \in Active /\ "special" \in Begun /\ "special" \in Active
    BY DEF IInv, InitSpecialType, At, Begun, Active, Steps
  <1> DEFINE class == Top(t).class
  <1>1. class \in Classes
    BY <1>0, TopEntry DEF Entries
  <1>2. /\ special' = [special EXCEPT ![class] = @ \/ class \in ThreadClasses]
        /\ UNCHANGED <<status, statics, runs, met>>
        /\ \A u \in Threads \ {t} : stack'[u] = stack[u]
    BY <1>0, OthersStay DEF InitSpecialType, Step
  <1>3. OnlyFor(class) /\ special'[class] = (special[class] \/ class \in ThreadClasses)
    BY <1>0, <1>1, <1>2 DEF OnlyFor, TypeOK
  <1>s. special[class] \in BOOLEAN /\ (special[class] => class \in ThreadClasses)
    BY <1>0, <1>1 DEF TypeOK, InitedIsReady
  <1>4. Replaces(t, "done")
    BY <1>0, GotoReplaces DEF InitSpecialType
  <1>5. /\ OnlyTopRuns' /\ CallsAreNested'
        /\ ActiveFrom(t, Len(stack[t]), "done") /\ KeepsCalls
        /\ stack'[t] # <<>> /\ Top(t)'.class = class /\ Top(t)'.step = "done"
    BY <1>0, <1>4, Replaced
  <1>n. special'[class] = (class \in ThreadClasses)
    <2>1. special'[class] \in BOOLEAN /\ (special'[class] <=> class \in ThreadClasses)
      BY <1>1, <1>3, <1>s DEF TypeOK
    <2>2. CASE class \in ThreadClasses
      BY <2>1, <2>2
    <2>3. CASE class \notin ThreadClasses
      BY <2>1, <2>3
    <2>4. QED
      BY <2>2, <2>3
  <1>6. ASSUME NEW d, d = class, ~ met[d], DoneAt(d, "special") PROVE DoneAt(d, "done")'
    BY <1>2, <1>n, <1>6 DEF DoneAt, Begun, Active, Steps
  <1>7. ~ met[class] => runs'[class] <= 1
    BY <1>0, <1>1, <1>2 DEF RunsOnce
  <1>8. \A d \in Classes : Ready(d) => Ready(d)'
    BY <1>2, <1>3, <1>n DEF Ready, OnlyFor
  <1>9. special'[class] => class \in ThreadClasses
    BY <1>n
  <1>10. PICK d \in Classes : d = class
    BY <1>1
  <1>11. TopGood(t)'
    BY <1>5, TopQuiet DEF Kinds
  <1> HIDE DEF class
  <1>12. QED
    BY <1>0, <1>2, <1>3, <1>5, <1>6, <1>7, <1>8, <1>9, <1>10, <1>11, Works DEF class

\* Writing INITED keeps the invariant: all four steps are done.
LEMMA FinishKeeps ==
  ASSUME IInv, TypeOK', NEW t \in Threads, Finish(t)
  PROVE  IInv'
  <1>0. /\ TypeOK /\ OnlyTopRuns /\ CallsAreNested /\ LoadedIsFresh /\ OneCall /\ StepsInOrder
        /\ InitHasOwner /\ InitedIsReady /\ RunsOnce /\ TopIsGood
        /\ stack[t] # <<>> /\ Top(t).step = "done" /\ "done" \in Active
    BY DEF IInv, Finish, At, Active, Steps
  <1> DEFINE n == Len(stack[t])
  <1>c. PICK class \in Classes : class = Top(t).class
    BY <1>0, TopEntry DEF Entries
  <1>1. n \in Nat \ {0} /\ Top(t) = stack[t][n]
    BY <1>0, TopEntry
  <1>2. /\ status' = [status EXCEPT ![class] = "INITED"]
        /\ UNCHANGED <<statics, special, runs, met>>
        /\ \A u \in Threads \ {t} : stack'[u] = stack[u]
    BY <1>0, <1>c, OthersStay DEF Finish, Step
  <1>3. status'[class] = "INITED" /\ \A d \in Classes \ {class} : status'[d] = status[d]
    BY <1>0, <1>2 DEF TypeOK
  <1>4. Removes(t)
    BY <1>0, PopsRemoves DEF Finish
  <1>5. /\ OnlyTopRuns' /\ CallsAreNested'
        /\ ActiveFrom(t, 0, "set") /\ KeepsOthers(t)
        /\ stack'[t] # <<>> =>
               LET caller == stack[t][Len(stack[t]) - 1]
               IN /\ Top(t)'.class = caller.class /\ Top(t)'.step = caller.step
                  /\ NestedAt(t, Len(stack[t]) - 1)
    BY <1>0, <1>4, Removed
  <1>6. OneCall'
    BY <1>0, <1>2, <1>5, OneCallKept
  <1>7. StepsInOrder'
    <2> SUFFICES ASSUME NEW u \in Threads, NEW i \in 1 .. Len(stack'[u]), NEW c, NEW s,
                        c = stack'[u][i].class, s = stack'[u][i].step, ~ met'[c]
                 PROVE  DoneAt(c, s)'
      BY DEF StepsInOrder, DoneAt
    <2>1. CASE s \in Active
      <3>1. /\ i \in 1 .. Len(stack[u]) /\ i # 0
            /\ c = stack[u][i].class /\ s = stack[u][i].step
        BY <1>5, <2>1 DEF ActiveFrom
      <3>2. c \in Classes /\ ~ met[c] /\ DoneAt(c, s)
        BY <1>0, <1>2, <3>1, ClassOf DEF StepsInOrder
      <3>3. c # class
        <4>1. c = class => u = t /\ i = n
          BY <1>0, <1>c, <2>1, <3>1, <3>2, Mine
        <4>2. Len(stack'[t]) = n - 1
          BY <1>4 DEF Removes
        <4> HIDE DEF n
        <4>3. QED
          BY <1>1, <4>1, <4>2
      <3>4. QED
        BY <1>2, <1>3, <3>2, <3>3 DEF DoneAt
    <2>2. CASE s \notin Active
      BY <2>2 DEF DoneAt, Begun, Active, Steps
    <2>3. QED
      BY <2>1, <2>2
  <1>8. LoadedIsFresh'
    <2>1. \A c \in Classes : status'[c] = "LOADED" =>
             /\ status[c] = "LOADED"
             /\ runs'[c] = 0 /\ statics'[c] \in Fresh
      BY <1>0, <1>2, <1>3 DEF LoadedIsFresh
    <2>2. 0 \notin 1 .. Len(stack[t])
      OBVIOUS
    <2>3. QED
      BY <1>0, <1>5, <2>1, <2>2, FreshKept
  <1>9. InitHasOwner'
    <2> SUFFICES ASSUME NEW c \in Classes, status'[c] = "INIT"
                 PROVE  \E u \in Threads : Initialising(u, c)'
      BY DEF InitHasOwner
    <2>1. c # class /\ status[c] = "INIT"
      BY <1>3
    <2>2. QED
      BY <1>0, <1>5, <1>c, <2>1 DEF InitHasOwner, KeepsOthers
  <1>10. ~ met[class] => Ready(class)'
    <2>1. ~ met[class] => DoneAt(class, "done")
      BY <1>0, <1>c, TopDone
    <2>2. QED
      BY <1>2, <1>3, <2>1 DEF DoneAt, Ready
  <1>11. \A c \in Classes : Ready(c) => Ready(c)'
    BY <1>2, <1>3 DEF Ready
  <1>12. InitedIsReady'
    <2>1. \A c \in Classes : special'[c] => c \in ThreadClasses
      BY <1>0, <1>2 DEF InitedIsReady
    <2>2. ASSUME NEW c \in Classes, ~ met[c], status'[c] = "INITED" PROVE Ready(c)'
      <3>1. CASE c = class
        BY <1>10, <2>2, <3>1
      <3>2. CASE c # class
        BY <1>0, <1>3, <1>11, <2>2, <3>2 DEF InitedIsReady
      <3>3. QED
        BY <3>1, <3>2
    <2>3. QED
      BY <1>2, <2>1, <2>2 DEF InitedIsReady
  <1>13. RunsOnce'
    BY <1>0, <1>2 DEF RunsOnce
  <1>14. TopIsGood'
    <2>1. \A u \in Threads \ {t}, c \in Classes : Good(u, c) => Good(u, c)'
      BY <1>2, <1>5, <1>11, <1>c, GoodKept DEF KeepsOthers
    <2>2. Good(t, class)'
      BY <1>2, <1>10 DEF Good
    <2>3. TopGood(t)'
      <3> SUFFICES ASSUME stack'[t] # <<>>, NEW e, e = Top(t)'
                   PROVE  /\ e.step \in Kinds => e.class = class
                          /\ e.step \in {"static", "run"} => Super[e.class] = class
        <4>1. \A d : d = class => Good(t, d)'
          BY <2>2
        <4>2. QED
          BY <4>1 DEF TopGood, Good, Ready, Initialising, Calls
      <3>1. n - 1 + 1 = n
        BY <1>1
      <3>2. NestedAt(t, n - 1) /\ e.class = stack[t][n - 1].class /\ e.step = stack[t][n - 1].step
        BY <1>5
      <3> HIDE DEF n
      <3>3. QED
        BY <1>1, <1>c, <3>1, <3>2 DEF NestedAt, Kinds
    <2>4. QED
      BY <1>0, <1>2, <2>1, <2>3, TopsKept
  <1>15. QED
    BY <1>5, <1>6, <1>7, <1>8, <1>9, <1>12, <1>13, <1>14 DEF IInv

\* The access that clinit went before keeps the invariant.
LEMMA AccessKeeps ==
  ASSUME IInv, TypeOK', NEW t \in Threads, Access(t)
  PROVE  IInv'
  <1>0. /\ TypeOK /\ OnlyTopRuns /\ CallsAreNested /\ LoadedIsFresh /\ OneCall /\ StepsInOrder
        /\ InitHasOwner /\ InitedIsReady /\ RunsOnce /\ TopIsGood
    BY DEF IInv
  <1>1. /\ UNCHANGED <<status, special, runs, met>>
        /\ \A u \in Threads \ {t} : stack'[u] = stack[u]
    BY <1>0, OthersStay DEF Access, Step
  <1>2. \A c \in Classes : statics'[c] = statics[c] \/ statics'[c] = Written(t, c)
    BY <1>0 DEF Access, TypeOK
  <1>3. PICK k, step :
          /\ ActiveFrom(t, k, step)
          /\ \/ k = 0 /\ step = "set"
             \/ /\ k \in 1 .. Len(stack[t]) /\ stack[t][k].step = "body"
                /\ step = "special"
    BY <1>0, Accessed
  <1>4. OnlyTopRuns' /\ CallsAreNested' /\ KeepsCalls
    BY <1>0, Accessed
  <1>5. OneCall'
    BY <1>0, <1>1, <1>3, OneCallKept
  <1>6. StepsInOrder'
    <2>1. Carries(t, k, step)
      <3> SUFFICES ASSUME NEW u \in Threads, NEW i \in 1 .. Len(stack[u]),
                          NEW c \in Classes, NEW s \in Active,
                          DoneAt(c, stack[u][i].step),
                          s = (IF u = t /\ i = k THEN step ELSE stack[u][i].step)
                   PROVE  DoneAt(c, s)'
        BY DEF Carries
      <3>1. DoneAt(c, s)
        <4>1. DoneAt(c, "body") => DoneAt(c, "special")
          BY DEF DoneAt, Begun, Active, Steps
        <4>2. QED
          BY <1>3, <4>1
      <3>2. /\ statics[c] \in Fresh => statics'[c] \in Fresh
            /\ statics[c] \in {"cleared", "written"} => statics'[c] \in {"cleared", "written"}
        BY <1>2, FreshOrNot DEF Written
      <3>3. status'[c] = status[c] /\ special'[c] = special[c] /\ runs'[c] = runs[c]
        BY <1>1
      <3>4. QED
        BY <3>1, <3>2, <3>3 DEF DoneAt
    <2>2. QED
      BY <1>0, <1>1, <1>3, <2>1, OrderKept
  <1>7. LoadedIsFresh'
    <2>1. \A c \in Classes : status'[c] = "LOADED" =>
             /\ status[c] = "LOADED"
             /\ runs'[c] = 0 /\ statics'[c] \in Fresh
      BY <1>0, <1>1, <1>2, FreshOrNot DEF LoadedIsFresh, Written
    <2>2. k \in 1 .. Len(stack[t]) => status'[stack[t][k].class] # "LOADED"
      BY <1>0, <1>1, <1>3 DEF LoadedIsFresh, Begun, Active, Steps
    <2>3. QED
      BY <1>0, <1>3, <2>1, <2>2, FreshKept
  <1>8. InitHasOwner'
    BY <1>0, <1>1, <1>4, OwnersKept
  <1>9. \A c \in Classes : Ready(c) => Ready(c)'
    BY <1>1, <1>2, FreshOrNot DEF Ready, Written
  <1>10. InitedIsReady' /\ RunsOnce'
    BY <1>0, <1>1, <1>9 DEF InitedIsReady, RunsOnce
  <1>11. TopIsGood'
    <2>1. \A u \in Threads, c \in Classes : Good(u, c) => Good(u, c)'
      BY <1>1, <1>4, <1>9, GoodKept DEF KeepsCalls
    <2>2. TopGood(t)'
      BY <1>0, Accessed, TopQuiet DEF Kinds
    <2>3. QED
      BY <1>0, <1>1, <2>1, <2>2, TopsKept
  <1>12. QED
    BY <1>4, <1>5, <1>6, <1>7, <1>8, <1>10, <1>11 DEF IInv

\* Reading the status keeps the invariant, also where a second thread meets the first.
LEMMA CheckKeeps ==
  ASSUME IInv, TypeOK', NEW t \in Threads, Check(t)
  PROVE  IInv'
  <1>0. /\ TypeOK /\ OnlyTopRuns /\ CallsAreNested /\ LoadedIsFresh /\ OneCall /\ StepsInOrder
        /\ InitHasOwner /\ InitedIsReady /\ RunsOnce /\ TopIsGood
        /\ stack[t] # <<>> /\ Top(t).step = "check" /\ "check" \notin Active
        /\ "set" \in Steps /\ "set" \in Active /\ "set" \notin Begun
    BY DEF IInv, Check, At, Begun, Active, Steps
  <1> DEFINE n == Len(stack[t])
  <1>c. PICK class \in Classes : class = Top(t).class
    BY <1>0, TopEntry DEF Entries
  <1>1. n \in Nat \ {0} /\ n \in 1 .. n /\ Top(t) = stack[t][n]
    BY <1>0, TopEntry
  <1>2. /\ UNCHANGED <<status, statics, special, runs>>
        /\ \A u \in Threads \ {t} : stack'[u] = stack[u]
        /\ \A c \in Classes : met[c] => met'[c]
        /\ (\E u \in Threads \ {t} : Initialising(u, class)) => met'[class]
    <2>1. met' = [met EXCEPT ![class] = @ \/ \E u \in Threads \ {t} : Initialising(u, class)]
      BY <1>c DEF Check
    <2>2. \A c \in Classes : met'[c] = IF c = class THEN met[c] \/ \E u \in Threads \ {t} : Initialising(u, class)
                                     ELSE met[c]
      BY <1>0, <2>1 DEF TypeOK
    <2>3. QED
      BY <1>0, <2>2, OthersStay DEF Check, Step
  <1>3. IF NotInitialize(class) THEN Replaces(t, "set") ELSE Removes(t)
    BY <1>0, <1>c, CheckShape
  <1>4. \A c \in Classes : Ready(c) => Ready(c)'
    BY <1>2 DEF Ready
  <1>5. InitedIsReady' /\ RunsOnce'
    BY <1>0, <1>2, <1>4 DEF InitedIsReady, RunsOnce
  <1>6. KeepsCalls => InitHasOwner' /\ \A u \in Threads, c \in Classes : Good(u, c) => Good(u, c)'
    BY <1>0, <1>2, <1>4, OwnersKept, GoodKept DEF KeepsCalls
  <1>7. CASE NotInitialize(class)
    <2>1. /\ OnlyTopRuns' /\ CallsAreNested'
          /\ ActiveFrom(t, n, "set") /\ KeepsCalls
          /\ Top(t)'.step = "set"
      BY <1>0, <1>3, <1>7, Replaced
    <2>l. status[class] = "LOADED"
      BY <1>7 DEF NotInitialize
    <2>2. ASSUME NEW u \in Threads, NEW i \in 1 .. Len(stack'[u]), ~ met'[class],
                 stack'[u][i].class = class, stack'[u][i].step \in Active
          PROVE  u = t /\ i = n
      <3>1. SUFFICES ASSUME ~ (u = t /\ i = n) PROVE FALSE
        OBVIOUS
      <3>2. /\ i \in 1 .. Len(stack[u])
            /\ stack[u][i].class = class /\ stack[u][i].step \in Active
        BY <2>1, <2>2, <3>1 DEF ActiveFrom
      <3>3. Initialising(u, class)
        BY <1>0, <3>2, Owner
      <3>4. u = t
        BY <1>2, <2>2, <3>3
      <3>5. i \in 1 .. Len(stack[t]) - 1
        BY <1>1, <3>1, <3>2, <3>4
      <3>6. stack[t][i].step \in Begun
        BY <1>0, <3>2, <3>4, <3>5 DEF OnlyTopRuns, Begun, Active, Steps, Kinds
      <3>7. QED
        BY <1>0, <2>l, <3>2, <3>4, <3>6 DEF LoadedIsFresh
    <2>3. OneCall'
      <3> SUFFICES ASSUME NEW v \in Threads, NEW u \in Threads,
                          NEW i \in 1 .. Len(stack'[v]), NEW j \in 1 .. Len(stack'[u]),
                          stack'[v][i].class = stack'[u][j].class,
                          stack'[v][i].step \in Active,
                          stack'[u][j].step \in Active,
                          ~ met'[stack'[v][i].class]
                   PROVE  v = u /\ i = j
        BY DEF OneCall
      <3>1. CASE stack'[v][i].class = class
        BY <2>2, <3>1
      <3>2. CASE stack'[v][i].class # class
        <4>1. ASSUME NEW w \in Threads, NEW k \in 1 .. Len(stack'[w]),
                     stack'[w][k].step \in Active, stack'[w][k].class # class
              PROVE  /\ k \in 1 .. Len(stack[w]) /\ stack[w][k].step \in Active
                     /\ stack[w][k].class = stack'[w][k].class
          <5>1. k \in 1 .. Len(stack[w]) /\ stack[w][k].class = stack'[w][k].class
            BY <2>1, <4>1 DEF ActiveFrom
          <5>2. ~ (w = t /\ k = n)
            BY <1>1, <1>c, <4>1, <5>1
          <5>3. QED
            BY <2>1, <4>1, <5>1, <5>2 DEF ActiveFrom
        <4>2. /\ i \in 1 .. Len(stack[v]) /\ stack[v][i].step \in Active
              /\ stack[v][i].class = stack'[v][i].class
          BY <3>2, <4>1
        <4>3. /\ j \in 1 .. Len(stack[u]) /\ stack[u][j].step \in Active
              /\ stack[u][j].class = stack'[u][j].class
          BY <3>2, <4>1
        <4>4. stack[v][i].class = stack[u][j].class /\ ~ met[stack[v][i].class]
          BY <1>0, <1>2, <4>2, <4>3, ClassOf
        <4> HIDE DEF Active
        <4>5. QED
          BY <1>0, <4>2, <4>3, <4>4 DEF OneCall
      <3>3. QED
        BY <3>1, <3>2
    <2>4. StepsInOrder'
      <3> SUFFICES ASSUME NEW u \in Threads, NEW i \in 1 .. Len(stack'[u]), NEW c, NEW s,
                          c = stack'[u][i].class, s = stack'[u][i].step, ~ met'[c]
                   PROVE  DoneAt(c, s)'
        BY DEF StepsInOrder, DoneAt
      <3>1. CASE s \in Active
        <4>1. /\ i \in 1 .. Len(stack[u])
              /\ c = stack[u][i].class
              /\ IF u = t /\ i = n THEN s = "set" ELSE s = stack[u][i].step
          BY <2>1, <3>1 DEF ActiveFrom
        <4>2. c \in Classes /\ ~ met[c] /\ DoneAt(c, stack[u][i].step)
          BY <1>0, <1>2, <4>1, ClassOf DEF StepsInOrder
        <4>3. DoneAt(c, s)
          <5>1. CASE u = t /\ i = n
            <6>1. c = class /\ s = "set"
              BY <1>1, <1>c, <4>1, <5>1
            <6>2. runs[class] = 0 /\ statics[class] \in Fresh
              BY <1>0, <2>l DEF LoadedIsFresh
            <6>3. QED
              BY <2>l, <6>1, <6>2 DEF DoneAt, Begun
          <5>2. CASE ~ (u = t /\ i = n)
            BY <4>1, <4>2, <5>2
          <5>3. QED
            BY <5>1, <5>2
        <4>4. QED
          BY <1>2, <4>2, <4>3 DEF DoneAt
      <3>2. CASE s \notin Active
        BY <3>2 DEF DoneAt, Begun, Active, Steps
      <3>3. QED
        BY <3>1, <3>2
    <2>5. LoadedIsFresh'
      <3>1. \A c \in Classes : status'[c] = "LOADED" =>
               /\ status[c] = "LOADED"
               /\ runs'[c] = 0 /\ statics'[c] \in Fresh
        BY <1>0, <1>2 DEF LoadedIsFresh
      <3>2. QED
        BY <1>0, <2>1, <3>1, FreshKept
    <2>6. TopIsGood'
      BY <1>0, <1>2, <1>6, <2>1, TopQuiet, TopsKept DEF Kinds
    <2>7. QED
      BY <1>5, <1>6, <2>1, <2>3, <2>4, <2>5, <2>6 DEF IInv
  <1>8. CASE ~ NotInitialize(class)
    <2>1. /\ OnlyTopRuns' /\ CallsAreNested'
          /\ ActiveFrom(t, 0, "set") /\ KeepsCalls
          /\ stack'[t] # <<>> =>
               LET caller == stack[t][Len(stack[t]) - 1]
               IN /\ Top(t)'.class = caller.class /\ Top(t)'.step = caller.step
                  /\ NestedAt(t, Len(stack[t]) - 1)
      BY <1>0, <1>3, <1>8, Removed
    <2>2. OneCall'
      BY <1>0, <1>2, <2>1, OneCallKept
    <2>3. StepsInOrder'
      <3>1. Carries(t, 0, "set")
        BY <1>2 DEF Carries, DoneAt
      <3>2. QED
        BY <1>0, <1>2, <2>1, <3>1, OrderKept
    <2>4. LoadedIsFresh'
      <3>1. \A c \in Classes : status'[c] = "LOADED" =>
               /\ status[c] = "LOADED"
               /\ runs'[c] = 0 /\ statics'[c] \in Fresh
        BY <1>0, <1>2 DEF LoadedIsFresh
      <3>2. QED
        BY <1>0, <2>1, <3>1, FreshKept
    <2>5. Good(t, class)'
      <3>1. CASE status[class] = "INIT"
        <4>1. PICK u \in Threads : Initialising(u, class)
          BY <1>0, <3>1 DEF InitHasOwner
        <4>2. CASE u = t
          BY <2>1, <4>1, <4>2 DEF KeepsCalls, Good
        <4>3. CASE u # t
          BY <1>2, <4>1, <4>3 DEF Good
        <4>4. QED
          BY <4>2, <4>3
      <3>2. CASE status[class] = "INITED"
        <4>1. Ready(class) \/ met[class]
          BY <1>0, <3>2 DEF InitedIsReady
        <4>2. QED
          BY <1>2, <1>4, <4>1 DEF Good
      <3>3. QED
        BY <1>0, <1>8, <3>1, <3>2 DEF TypeOK, NotInitialize
    <2>6. TopGood(t)'
      <3> SUFFICES ASSUME stack'[t] # <<>>, NEW e, e = Top(t)'
                   PROVE  /\ e.step \in Kinds => e.class = class
                          /\ e.step \in {"static", "run"} => Super[e.class] = class
        <4>1. \A d : d = class => Good(t, d)'
          BY <2>5
        <4>2. QED
          BY <4>1 DEF TopGood, Good, Ready, Initialising, Calls
      <3>1. n - 1 + 1 = n
        BY <1>1
      <3>2. NestedAt(t, n - 1) /\ e.class = stack[t][n - 1].class /\ e.step = stack[t][n - 1].step
        BY <2>1
      <3> HIDE DEF n
      <3>3. QED
        BY <1>1, <1>c, <3>1, <3>2 DEF NestedAt, Kinds
    <2>7. TopIsGood'
      BY <1>0, <1>2, <1>6, <2>1, <2>6, TopsKept
    <2>8. QED
      BY <1>5, <1>6, <2>1, <2>2, <2>3, <2>4, <2>7 DEF IInv
  <1>9. QED
    BY <1>7, <1>8

-----------------------------------------------------------------------------
(* The theorems *)

LEMMA InitIInv == Init => IInv
  <1> SUFFICES ASSUME Init PROVE IInv
    OBVIOUS
  <1>1. TypeOK
    BY FreshOrNot DEF Init, TypeOK
  <1>2. \A t \in Threads : stack[t] = <<>> /\ Len(stack[t]) = 0
    BY DEF Init
  <1>3. OnlyTopRuns /\ CallsAreNested /\ LoadedIsFresh /\ OneCall /\ StepsInOrder /\ TopIsGood
    BY <1>2, FreshOrNot DEF Init, OnlyTopRuns, CallsAreNested, LoadedIsFresh, OneCall, StepsInOrder,
                TopIsGood, TopGood
  <1>4. InitHasOwner /\ InitedIsReady /\ RunsOnce
    BY DEF Init, InitHasOwner, InitedIsReady, RunsOnce
  <1>5. QED
    BY <1>1, <1>3, <1>4 DEF IInv

\* A step that changes nothing keeps the invariant.
LEMMA StutterIInv ==
  ASSUME IInv, UNCHANGED vars
  PROVE  IInv'
  <1>0. UNCHANGED <<status, statics, special, stack, uses, runs, met>>
    BY DEF vars
  <1>1. TypeOK' /\ OnlyTopRuns' /\ CallsAreNested'
    BY <1>0 DEF IInv, TypeOK, OnlyTopRuns, CallsAreNested
  <1>2. LoadedIsFresh' /\ OneCall'
    BY <1>0 DEF IInv, LoadedIsFresh, OneCall
  <1>3. StepsInOrder'
    BY <1>0 DEF IInv, StepsInOrder, DoneAt
  <1>4. InitHasOwner' /\ InitedIsReady' /\ RunsOnce'
    BY <1>0 DEF IInv, InitHasOwner, InitedIsReady, Ready, RunsOnce, Initialising, Calls
  <1>5. TopIsGood'
    BY <1>0 DEF IInv, TopIsGood, TopGood, Good, Top, Ready, Initialising, Calls
  <1>6. QED
    BY <1>1, <1>2, <1>3, <1>4, <1>5 DEF IInv

\* Every step keeps the invariant.
LEMMA NextIInv == IInv /\ [Next]_vars => IInv'
  <1> SUFFICES ASSUME IInv, [Next]_vars PROVE IInv'
    OBVIOUS
  <1>1. CASE UNCHANGED vars
    BY <1>1, StutterIInv
  <1>2. ASSUME NEW t \in Threads, Step(t) PROVE IInv'
    <2>1. TypeOK'
      BY <1>2, TypeStep DEF IInv
    <2>2. QED
      BY <1>2, <2>1, CheckKeeps, SetKeeps, InitSuperKeeps, StaticsKeep, ClinitKeeps, BodyEnds,
         SpecialKeeps, FinishKeeps, AccessKeeps DEF Step
  <1>3. ASSUME NEW t \in Threads, NEW c \in Classes, NEW kind \in Kinds, Use(t, c, kind) PROVE IInv'
    <2>1. TypeOK'
      BY <1>3, TypeStep DEF IInv
    <2>2. QED
      BY <1>3, <2>1, UseKeeps
  <1>4. QED
    BY <1>1, <1>2, <1>3 DEF Next

\* The inductive invariant of clinit: it holds for any tree of classes and any
\* number of threads, and the theorems below follow from it.
THEOREM Invariance == Spec => []IInv
  BY InitIInv, NextIInv, PTL DEF Spec

\* The status, the static fields, the stacks of calls and the histories stay
\* what they are declared to be, whatever <clinit> methods do.
THEOREM TypeCorrect == Spec => []TypeOK
  <1>1. IInv => TypeOK
    BY DEF IInv
  <1>2. QED
    BY Invariance, <1>1, PTL

\* Who goes on to use a class after clinit finds it initialised, or is
\* initialising it, for any tree of classes and any number of threads, unless
\* two threads have met in clinit of that class.
THEOREM UseIsInitialised == Spec => []UsedInitialised
  <1>1. IInv => UsedInitialised
    <2> SUFFICES ASSUME IInv, NEW t \in Threads, NEW c \in Relies(t)
                 PROVE  Good(t, c)
      BY DEF UsedInitialised, Good
    <2>1. TopGood(t)
      BY DEF IInv, TopIsGood
    <2>2. CASE \E kind \in Kinds : At(t, kind) /\ c = Top(t).class
      BY <2>1, <2>2 DEF TopGood, At
    <2>3. CASE At(t, "run") /\ Top(t).class # Root /\ c = Super[Top(t).class]
      BY <2>1, <2>3 DEF TopGood, At
    <2>4. QED
      BY <2>2, <2>3 DEF Relies
  <1>2. QED
    BY Invariance, <1>1, PTL

\* <clinit> is run at most once for a class no two threads have met in.
THEOREM ClinitRunsOnce == Spec => []RunsOnce
  <1>1. IInv => RunsOnce
    BY DEF IInv
  <1>2. QED
    BY Invariance, <1>1, PTL

\* A class of status INIT is in the clinit of some thread, meetings or not.
THEOREM InitIsOwned == Spec => []InitHasOwner
  <1>1. IInv => InitHasOwner
    BY DEF IInv
  <1>2. QED
    BY Invariance, <1>1, PTL

\* Who writes to the array of the constructor is initialising the class.
WriterInitialises ==
    \A c \in Classes : statics[c] \in Threads => met[c] \/ Initialising(statics[c], c)

\* Only Finish ends a call of clinit, and only that of its own class.
LEMMA CallsGoOn ==
  ASSUME IInv, TypeOK', NEW t \in Threads,
         Step(t) \/ \E c \in Classes, kind \in Kinds : Use(t, c, kind)
  PROVE  KeepsCalls \/ (Finish(t) /\ KeepsOthers(t))
  <1>0. TypeOK /\ OnlyTopRuns /\ CallsAreNested
    BY DEF IInv
  <1>1. ASSUME NEW step \in Active, stack[t] # <<>>, Top(t).step \in Active \/ step = "set",
               Replaces(t, step)
        PROVE  KeepsCalls
    BY <1>0, <1>1, Replaced DEF Active
  <1>2. ASSUME NEW step \in Active, stack[t] # <<>>, Top(t).step \in Active, stack' = Goto(t, step)
        PROVE  KeepsCalls
    BY <1>0, <1>1, <1>2, GotoReplaces DEF Active
  <1>3. CASE Check(t)
    <2>1. stack[t] # <<>> /\ Top(t).step \notin Active /\ "set" \in Active
      BY <1>3 DEF Check, At, Active, Steps
    <2>2. Replaces(t, "set") \/ Removes(t)
      BY <1>0, <1>3, CheckShape
    <2>3. QED
      BY <1>0, <1>1, <2>1, <2>2, Removed
  <1>4. CASE InitSuper(t)
    <2>1. At(t, "super") /\ stack[t] # <<>> /\ Top(t).step \in Active /\ "static" \in Active
      BY <1>4 DEF InitSuper, At, Active, Steps
    <2>2. CASE Top(t).class = Root
      BY <1>2, <1>4, <2>1, <2>2 DEF InitSuper
    <2>3. CASE Top(t).class # Root
      BY <1>0, <1>4, <2>1, <2>3, SuperCalled
    <2>4. QED
      BY <2>2, <2>3
  <1>5. CASE Throw(t)
    <2>1. stack[t] # <<>> /\ Top(t).step \in Active /\ "special" \in Active
      BY <1>5 DEF Throw, At, Active, Steps
    <2>2. QED
      BY <1>0, <1>1, <1>5, <2>1, ThrowReplaces
  <1>6. CASE Finish(t)
    <2>1. stack[t] # <<>> /\ stack' = Pops(t)
      BY <1>6 DEF Finish, At
    <2>2. QED
      BY <1>0, <1>6, <2>1, PopsRemoves, Removed
  <1>7. CASE Access(t)
    BY <1>0, <1>7, Accessed
  <1>8. CASE \E c \in Classes, kind \in Kinds : Use(t, c, kind)
    BY <1>0, <1>8, Used
  <1>9. CASE \/ Set(t) \/ InitStaticField(t) \/ RunClinit(t) \/ EndBody(t)
             \/ InitSpecialType(t)
    <2>1. /\ stack[t] # <<>> /\ Top(t).step \in Active
          /\ \E step \in Active : stack' = Goto(t, step)
      BY <1>9 DEF Set, InitStaticField, RunClinit, EndBody, InitSpecialType, At, Active, Steps
    <2>2. QED
      BY <1>2, <2>1
  <1>10. QED
    BY <1>3, <1>4, <1>5, <1>6, <1>7, <1>8, <1>9 DEF Step

\* Only initStaticField and a write by the program change a static field.
LEMMA StaticsChange ==
  ASSUME TypeOK, NEW t \in Threads, NEW c \in Classes, statics'[c] # statics[c],
         Step(t) \/ \E class \in Classes, kind \in Kinds : Use(t, class, kind)
  PROVE  /\ stack[t] # <<>> /\ Top(t).class = c
         /\ \/ InitStaticField(t) /\ Top(t).step = "static" /\ statics'[c] = "cleared"
            \/ Access(t) /\ Top(t).step \in Kinds /\ statics'[c] = Written(t, c)
  <1>1. InitStaticField(t) \/ Access(t)
    BY DEF Step, Check, Set, InitSuper, RunClinit, EndBody, Throw, InitSpecialType, Finish, Use
  <1>2. CASE InitStaticField(t)
    BY <1>2 DEF InitStaticField, At, TypeOK
  <1>3. CASE Access(t)
    BY <1>3 DEF Access, At, TypeOK, Kinds
  <1>4. QED
    BY <1>1, <1>2, <1>3

\* Meetings are not forgotten.
LEMMA MetStays ==
  ASSUME TypeOK, NEW t \in Threads, NEW c \in Classes, met[c],
         Step(t) \/ \E class \in Classes, kind \in Kinds : Use(t, class, kind)
  PROVE  met'[c]
  <1>1. met \in [Classes -> BOOLEAN]
    BY DEF TypeOK
  <1>2. CASE Check(t)
    <2>1. PICK b : met' = [met EXCEPT ![Top(t).class] = met[Top(t).class] \/ b]
      BY <1>2 DEF Check
    <2>2. QED
      BY <1>1, <2>1
  <1>3. CASE met' = met
    BY <1>3
  <1>4. QED
    BY <1>2, <1>3 DEF Step, Set, InitSuper, InitStaticField, RunClinit, EndBody, Throw,
       InitSpecialType, Finish, Access, Use

\* A thread that writes to a class that is not ready is initialising it, and a
\* call of clinit does not end while the array of the constructor is in use.
LEMMA WriterStays ==
  ASSUME IInv, TypeOK', WriterInitialises, NEW t \in Threads,
         Step(t) \/ \E c \in Classes, kind \in Kinds : Use(t, c, kind)
  PROVE  WriterInitialises'
  <1> SUFFICES ASSUME NEW c \in Classes, NEW u \in Threads, statics'[c] = u, ~ met'[c]
               PROVE  Initialising(u, c)'
    BY DEF WriterInitialises, Initialising, Calls
  <1>0. TypeOK /\ StepsInOrder /\ TopIsGood
    BY DEF IInv
  <1>1. ~ met[c]
    BY <1>0, MetStays
  <1>2. CASE statics[c] = u
    <2>1. Initialising(u, c)
      BY <1>1, <1>2 DEF WriterInitialises, Initialising, Calls
    <2>2. CASE KeepsCalls
      BY <2>1, <2>2 DEF KeepsCalls
    <2>3. CASE Finish(t) /\ KeepsOthers(t)
      <3>1. CASE c = Top(t).class
        <4>1. DoneAt(c, "done")
          BY <1>0, <1>1, <2>3, <3>1, TopDone DEF Finish, At
        <4>2. statics[c] \in {"cleared", "written"}
          BY <4>1 DEF DoneAt
        <4>3. QED
          BY <1>2, <4>2, SuperAssumption
      <3>2. CASE c # Top(t).class
        BY <2>1, <2>3, <3>2 DEF KeepsOthers
      <3>3. QED
        BY <3>1, <3>2
    <2>4. QED
      BY <2>2, <2>3, CallsGoOn
  <1>3. CASE statics[c] # u
    <2>1. /\ Access(t) /\ stack[t] # <<>> /\ Top(t).class = c /\ Top(t).step \in Kinds
          /\ Written(t, c) = u
      BY <1>0, <1>3, StaticsChange, SuperAssumption
    <2>2. u = t /\ statics[c] \in Fresh
      BY <2>1, SuperAssumption DEF Written
    <2>3. Good(t, c)
      BY <1>0, <2>1 DEF TopIsGood, TopGood, Good, Ready, Initialising, Calls
    <2>4. Initialising(t, c)
      BY <1>1, <2>2, <2>3, FreshOrNot DEF Good, Ready
    <2>5. KeepsCalls
      <3>1. ~ Finish(t)
        BY <2>1 DEF Finish, At, Kinds
      <3>2. QED
        BY <3>1, CallsGoOn
    <2>6. QED
      BY <2>2, <2>4, <2>5 DEF KeepsCalls
  <1>4. QED
    BY <1>2, <1>3

\* The same of every step.
LEMMA WriterKept == IInv /\ WriterInitialises /\ [Next]_vars => WriterInitialises'
  <1> SUFFICES ASSUME IInv, WriterInitialises, [Next]_vars PROVE WriterInitialises'
    OBVIOUS
  <1>1. CASE UNCHANGED vars
    BY <1>1 DEF vars, WriterInitialises, Initialising, Calls
  <1>2. CASE Next
    <2>1. TypeOK'
      BY NextIInv DEF IInv
    <2>2. PICK t \in Threads : Step(t) \/ \E c \in Classes, kind \in Kinds : Use(t, c, kind)
      BY <1>2 DEF Next
    <2>3. QED
      BY <2>1, <2>2, WriterStays
  <1>3. QED
    BY <1>1, <1>2

\* A write is lost to initStaticField only, and then the thread that runs this
\* made it itself, on its way there; met classes excepted.
LEMMA LossIsOwn ==
  ASSUME IInv, WriterInitialises, Next, NEW c \in Classes,
         statics[c] \in Values, statics'[c] \notin Values, ~ met[c]
  PROVE  statics[c] \in Threads /\ Resetting(statics[c], c)
  <1>0. TypeOK /\ OneCall /\ StepsInOrder
    BY DEF IInv
  <1>1. PICK t \in Threads : Step(t) \/ \E class \in Classes, kind \in Kinds : Use(t, class, kind)
    BY DEF Next
  <1>2. /\ InitStaticField(t) /\ stack[t] # <<>> /\ Top(t).class = c /\ Top(t).step = "static"
    <2>1. Written(t, c) \in Values
      BY DEF Written, Values
    <2>2. QED
      BY <1>0, <1>1, <2>1, StaticsChange
  <1>3. statics[c] \in Fresh
    BY <1>0, <1>2, TopDone DEF DoneAt
  <1>4. PICK u \in Threads : u = statics[c]
    BY <1>3, FreshOrNot DEF Values
  <1>5. Initialising(u, c)
    BY <1>4 DEF WriterInitialises, Initialising, Calls
  <1>6. u = t
    <2>1. PICK i \in 1 .. Len(stack[u]) : stack[u][i].class = c /\ stack[u][i].step \in Active
      BY <1>0, <1>5, Owner
    <2>2. QED
      BY <1>0, <1>2, <2>1, Mine DEF Active, Steps
  <1>7. QED
    BY <1>2, <1>4, <1>6 DEF Resetting, At, InitStaticField

\* What the program has written to a static field is kept, by any number of
\* threads, but for one loss: initStaticField resets what the thread that runs
\* it wrote itself before that, in the <clinit> of a superclass.  No other
\* thread loses a write, and none is lost after initStaticField, unless two
\* threads have met in clinit of the class.
THEOREM LossesAreTheWritersOwn == Spec => WritesLast
  <1>1. Init => WriterInitialises
    BY SuperAssumption DEF Init, WriterInitialises
  <1>2. IInv /\ WriterInitialises /\ [Next]_vars =>
           [\A c \in Classes :
               statics[c] \in Values /\ statics'[c] \notin Values
               => met[c] \/ (statics[c] \in Threads /\ Resetting(statics[c], c))]_vars
    BY LossIsOwn
  <1>3. QED
    BY Invariance, WriterKept, <1>1, <1>2, PTL DEF Spec, WritesLast

=============================================================================
