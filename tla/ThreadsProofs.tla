---------------------------- MODULE ThreadsProofs ----------------------------
(***************************************************************************)
(* TLAPS proofs about Threads.tla, for any threads, any daemons and any    *)
(* number of calls.  Both theorems rest on the order of joinThreads: the   *)
(* thread that starts another one is a user thread, it is waited for until *)
(* it is gone, and it stands in line before the one it starts.             *)
(***************************************************************************)
EXTENDS Threads, SequenceTheorems, TLAPS

Users == Threads \ Daemons

Starts(s, u) == pc[s] \in Starting /\ target[s] = u

\* u is to be joined, or the thread of C++ is about to join it.
InLine(u) == \/ vm = "join" /\ joining = u
             \/ \E i \in DOMAIN joinThreads : joinThreads[i] = u

\* Whoever comes to u has been to s before.
Ahead(s, u) ==
    /\ ~(vm = "join" /\ joining = u)
    /\ \A i \in DOMAIN joinThreads :
           joinThreads[i] = u => \/ vm = "join" /\ joining = s
                                 \/ \E j \in 1 .. i - 1 : joinThreads[j] = s

\* Only user threads start threads, and the operations have a target.
TargetsAreSet ==
    /\ \A t \in Threads : pc[t] \in Starting \cup {"slock"} => t \in Users
    /\ \A t \in Threads : pc[t] \in Starting \cup Joining \cup {"slock"}
                              => target[t] \in Threads
    /\ vm = "join" => joining \in Threads

\* ExitAfterUsers as the thread of C++ decides it.
EndIsQuiet ==
    /\ exit => vm = "exitVM"
    /\ vm \in {"exit", "exitVM"} => \A t \in Users : pc[t] \in {"new", "gone"}

\* A user thread that runs is in line, and will be waited for.
UsersAreAwaited ==
    /\ \A t \in Users : pc[t] \notin {"new", "gone"} =>
                            native[t] = "joinable" /\ InLine(t)
    /\ \A t \in Threads : pc[t] = "screate" => InLine(target[t])

\* Before its first start nothing is known of a thread.
UnstartedIsUnknown ==
    \A u \in Threads : starts[u] = 0 => /\ pc[u] = "new"
                                        /\ ~InLine(u)
                                        /\ \A s \in Threads : ~Starts(s, u)

\* During its first start it is in line behind the one that starts it.
FirstStartIsOrdered ==
    \A u, s \in Threads :
        starts[u] = 1 /\ Starts(s, u) =>
            /\ \A r \in Threads : Starts(r, u) => r = s
            /\ pc[s] \in {"sadd", "screate"} => pc[u] = "new"
            /\ pc[s] = "sadd" => ~InLine(u)
            /\ pc[s] \in {"screate", "sdetach"} => Ahead(s, u)

IInv == /\ TypeOK
        /\ TargetsAreSet
        /\ EndIsQuiet
        /\ ~crashed => UsersAreAwaited /\ UnstartedIsUnknown /\ FirstStartIsOrdered
        /\ CrashNeedsTwoStarts

\* The invariant holds when main begins.
LEMMA InitIInv == Init => IInv
  <1> SUFFICES ASSUME Init PROVE IInv
    OBVIOUS
  <1> USE ThreadsAssumption DEF Init
  <1>1. TypeOK
    <2>1. pc \in [Threads -> PC] /\ vm \in VM
      BY DEF PC, VM
    <2>2. joinThreads \in Seq(Threads)
      OBVIOUS
    <2>3. /\ calls \in [Threads -> Nat] /\ starts \in [Threads -> Nat]
          /\ unlocked \in [Threads -> BOOLEAN]
      OBVIOUS
    <2>4. /\ status \in [Threads -> {"NEW", "RUNNABLE", "WAITING", "TERMINATED"}]
          /\ native \in [Threads -> {"none", "joinable", "detached", "joined"}]
          /\ owner \in [Threads -> Threads \cup {None}]
          /\ target \in [Threads -> Threads \cup {None}]
      OBVIOUS
    <2>5. QED
      BY <2>1, <2>2, <2>3, <2>4 DEF TypeOK
  <1>2. TargetsAreSet /\ EndIsQuiet
    BY DEF TargetsAreSet, EndIsQuiet, Starting, Joining, Users
  <1>3. InLine(Main) /\ \A u \in Threads : InLine(u) => u = Main
    BY DEF InLine
  <1>4. UsersAreAwaited
    BY <1>3 DEF UsersAreAwaited, Users
  <1>5. \A s, u \in Threads : ~Starts(s, u)
    BY DEF Starts, Starting
  <1>6. UnstartedIsUnknown /\ FirstStartIsOrdered
    BY <1>3, <1>5 DEF UnstartedIsUnknown, FirstStartIsOrdered
  <1>7. QED
    BY <1>1, <1>2, <1>4, <1>6 DEF IInv, CrashNeedsTwoStarts

\* A step that starts no thread, ends no start but by leaving it, and is not
\* the thread of C++.
LEMMA QuietStep ==
  ASSUME IInv, ~crashed, TypeOK',
         UNCHANGED <<joinThreads, vm, joining, exit, crashed, starts>>,
         \A u \in Users : native'[u] = native[u],
         \A s \in Threads :
             /\ pc'[s] \in Starting => pc'[s] = pc[s] /\ target'[s] = target[s]
             /\ pc'[s] \in Starting \cup Joining \cup {"slock"}
                    => target'[s] \in Threads
             /\ pc'[s] = "slock" => s \in Users
             /\ pc'[s] = "new" <=> pc[s] = "new"
             /\ pc[s] = "gone" => pc'[s] = "gone"
  PROVE  IInv'
  <1>1. \A u \in Threads : InLine(u)' <=> InLine(u)
    BY DEF InLine
  <1>2. \A s, u \in Threads : /\ Ahead(s, u)' <=> Ahead(s, u)
                              /\ Starts(s, u)' => Starts(s, u) /\ pc'[s] = pc[s]
    BY DEF Ahead, Starts
  <1>3. TargetsAreSet'
    BY DEF IInv, TargetsAreSet
  <1>4. EndIsQuiet'
    BY DEF IInv, EndIsQuiet, Users
  <1>5. UsersAreAwaited'
    <2>1. \A t \in Users : pc'[t] \notin {"new", "gone"} =>
                               native'[t] = "joinable" /\ InLine(t)'
      BY <1>1 DEF IInv, UsersAreAwaited, Users
    <2>2. ASSUME NEW t \in Threads, pc'[t] = "screate" PROVE InLine(target[t])'
      <3>1. pc[t] = "screate" /\ target'[t] = target[t] /\ target[t] \in Threads
        BY <2>2 DEF Starting
      <3>2. QED
        BY <3>1, <1>1 DEF IInv, UsersAreAwaited
    <2>3. QED
      BY <2>1, <2>2 DEF UsersAreAwaited, Starting
  <1>6. UnstartedIsUnknown'
    BY <1>1, <1>2 DEF IInv, UnstartedIsUnknown
  <1>7. FirstStartIsOrdered'
    BY <1>1, <1>2 DEF IInv, FirstStartIsOrdered
  <1>8. QED
    BY <1>3, <1>4, <1>5, <1>6, <1>7 DEF IInv, CrashNeedsTwoStarts

\* What a thread does to pc is typed when where it goes is.
LEMMA GoesIsTyped ==
  ASSUME TypeOK, NEW t \in Threads, NEW where \in PC, Goes(t, where)
  PROVE  /\ pc' \in [Threads -> PC]
         /\ \A s \in Threads : pc'[s] = IF s = t THEN where ELSE pc[s]
  BY DEF TypeOK, Goes

\* A lock that is taken or released has a thread or nobody as owner.
LEMMA LocksAreTyped ==
  ASSUME TypeOK, NEW t \in Threads, NEW u \in Threads, Lock(t, u) \/ Unlock(t, u)
  PROVE  owner' \in [Threads -> Threads \cup {None}]
  BY DEF TypeOK, Lock, Unlock

\* A count stays a number when it goes up.
LEMMA CountsAreTyped ==
  ASSUME NEW f \in [Threads -> Nat], NEW t \in Threads
  PROVE  [f EXCEPT ![t] = @ + 1] \in [Threads -> Nat]
  OBVIOUS

\* What a thread does besides starting others.
Other(t) ==
    \/ Begin(t) \/ EndBody(t) \/ Terminate(t) \/ NotifyJoiners(t)
    \/ EnterJoin(t) \/ CheckAlive(t) \/ Sleep(t) \/ SpuriousWakeup(t)
    \/ Relock(t) \/ LeaveWait(t) \/ LeaveJoin(t)
    \/ \E u \in Threads : CallStart(t, u) \/ CallJoin(t, u)

\* What a thread does besides starting others keeps the types.
LEMMA OtherIsTyped ==
  ASSUME IInv, NEW t \in Threads, Other(t)
  PROVE  TypeOK'
  <1> USE DEF vmVars
  <1>0. TypeOK /\ (pc[t] \in Joining => target[t] \in Threads)
    BY DEF IInv, TargetsAreSet
  <1>1. {"body", "exit", "tlock", "slock"} \cup Joining \subseteq PC /\ "gone" \in PC
    BY DEF PC
  <1>2. CASE Begin(t) \/ EndBody(t) \/ Terminate(t)
    <2>1. pc' \in [Threads -> PC]
      BY <1>0, <1>1, <1>2, GoesIsTyped DEF Begin, EndBody, Terminate
    <2>2. QED
      BY <1>0, <1>2, <2>1 DEF TypeOK, Begin, EndBody, Terminate, Sets
  <1>3. CASE NotifyJoiners(t)
    <2>1. pc' \in [Threads -> PC]
      BY <1>0, <1>1, <1>3 DEF TypeOK, NotifyJoiners, Joining
    <2>2. QED
      BY <1>0, <1>3, <2>1 DEF TypeOK, NotifyJoiners
  <1>4. CASE EnterJoin(t) \/ CheckAlive(t) \/ Sleep(t) \/ SpuriousWakeup(t)
             \/ Relock(t) \/ LeaveWait(t) \/ LeaveJoin(t)
    <2>1. pc[t] \in Joining
      BY <1>4 DEF EnterJoin, CheckAlive, Sleep, SpuriousWakeup, Relock, LeaveWait,
         LeaveJoin, Joining
    <2>2. pc' \in [Threads -> PC]
      BY <1>0, <1>1, <1>4, GoesIsTyped
      DEF EnterJoin, CheckAlive, Sleep, SpuriousWakeup, Relock, LeaveWait,
          LeaveJoin, Joining
    <2>3. owner' \in [Threads -> Threads \cup {None}]
      BY <1>0, <1>4, <2>1, LocksAreTyped
      DEF EnterJoin, CheckAlive, Sleep, SpuriousWakeup, Relock, LeaveWait,
          LeaveJoin, TypeOK
    <2>4. /\ status' \in [Threads -> {"NEW", "RUNNABLE", "WAITING", "TERMINATED"}]
          /\ unlocked' \in [Threads -> BOOLEAN]
      BY <1>0, <1>4
      DEF EnterJoin, CheckAlive, Sleep, SpuriousWakeup, Relock, LeaveWait,
          LeaveJoin, TypeOK, Sets
    <2>5. UNCHANGED <<native, target, calls, starts, vmVars, crashed>>
      BY <1>4
      DEF EnterJoin, CheckAlive, Sleep, SpuriousWakeup, Relock, LeaveWait, LeaveJoin
    <2>6. QED
      BY <1>0, <2>2, <2>3, <2>4, <2>5 DEF TypeOK
  <1>5. ASSUME NEW u \in Threads, CallStart(t, u) \/ CallJoin(t, u) PROVE TypeOK'
    <2>1. pc' \in [Threads -> PC]
      BY <1>0, <1>1, <1>5, GoesIsTyped DEF CallStart, CallJoin, Call, Joining
    <2>2. /\ calls' = [calls EXCEPT ![t] = @ + 1]
          /\ target' = [target EXCEPT ![t] = u]
      BY <1>5 DEF CallStart, CallJoin, Call
    <2>5. calls' \in [Threads -> Nat] /\ target' \in [Threads -> Threads \cup {None}]
      BY <1>0, <2>2, CountsAreTyped DEF TypeOK
    <2>3. unlocked' \in [Threads -> BOOLEAN]
      BY <1>0, <1>5 DEF TypeOK, CallStart, CallJoin
    <2>4. UNCHANGED <<status, native, owner, starts, vmVars, crashed>>
      BY <1>5 DEF CallStart, CallJoin
    <2>6. QED
      BY <1>0, <2>1, <2>3, <2>4, <2>5 DEF TypeOK
  <1>6. QED
    BY <1>2, <1>3, <1>4, <1>5 DEF Other

\* It starts nobody and brings nobody back.
LEMMA OtherIsQuiet ==
  ASSUME IInv, ~crashed, NEW t \in Threads, Other(t)
  PROVE  IInv'
  <1> DEFINE Quiet ==
        /\ UNCHANGED <<joinThreads, vm, joining, exit, crashed, starts, native>>
        /\ \A s \in Threads :
             /\ pc'[s] \in Starting => pc'[s] = pc[s] /\ target'[s] = target[s]
             /\ pc'[s] \in Starting \cup Joining \cup {"slock"}
                    => target'[s] \in Threads
             /\ pc'[s] = "slock" => s \in Users
             /\ pc'[s] = "new" <=> pc[s] = "new"
             /\ pc[s] = "gone" => pc'[s] = "gone"
  <1> USE DEF vmVars, Starting, Joining, TargetsAreSet, Goes
  <1>0. /\ TargetsAreSet
        /\ pc \in [Threads -> PC] /\ target \in [Threads -> Threads \cup {None}]
    BY DEF IInv, TypeOK
  <1>1. CASE Begin(t) \/ EndBody(t) \/ Terminate(t)
    <2>1. Quiet
      BY <1>0, <1>1 DEF Begin, EndBody, Terminate
    <2>2. QED
      BY <2>1, QuietStep, OtherIsTyped
  <1>2. CASE NotifyJoiners(t)
    <2>1. Quiet
      BY <1>0, <1>2 DEF NotifyJoiners
    <2>2. QED
      BY <2>1, QuietStep, OtherIsTyped
  <1>3. CASE EnterJoin(t) \/ CheckAlive(t)
    <2>1. Quiet
      BY <1>0, <1>3 DEF EnterJoin, CheckAlive
    <2>2. QED
      BY <2>1, QuietStep, OtherIsTyped
  <1>4. CASE Sleep(t) \/ SpuriousWakeup(t)
    <2>1. Quiet
      BY <1>0, <1>4 DEF Sleep, SpuriousWakeup
    <2>2. QED
      BY <2>1, QuietStep, OtherIsTyped
  <1>5. CASE Relock(t) \/ LeaveWait(t) \/ LeaveJoin(t)
    <2>1. Quiet
      BY <1>0, <1>5 DEF Relock, LeaveWait, LeaveJoin
    <2>2. QED
      BY <2>1, QuietStep, OtherIsTyped
  <1>6. ASSUME NEW u \in Threads, CallStart(t, u) \/ CallJoin(t, u)
        PROVE  IInv'
    <2>1. Quiet
      BY <1>0, <1>6 DEF CallStart, CallJoin, Call, Users
    <2>2. QED
      BY <2>1, QuietStep, OtherIsTyped
  <1>7. QED
    BY <1>1, <1>2, <1>3, <1>4, <1>5, <1>6 DEF Other

\* The start of u is over; a daemon is not waited for any more.
LEMMA DetachStep ==
  ASSUME IInv, ~crashed, NEW t \in Threads, Detach(t)
  PROVE  IInv'
  <1>1. TypeOK /\ target[t] \in Threads /\ pc[t] = "sdetach"
    BY DEF IInv, TargetsAreSet, Starting, Detach
  <1>2. /\ pc' \in [Threads -> PC]
        /\ \A s \in Threads : pc'[s] = IF s = t THEN "body" ELSE pc[s]
    BY <1>1, GoesIsTyped DEF Detach, PC
  <1>3. owner' \in [Threads -> Threads \cup {None}]
    BY <1>1, LocksAreTyped DEF Detach
  <1>4. /\ native' \in [Threads -> {"none", "joinable", "detached", "joined"}]
        /\ \A u \in Users : native'[u] = native[u]
        /\ UNCHANGED <<joinThreads, vm, joining, exit, crashed, starts, target,
                       status, calls, unlocked>>
    BY <1>1 DEF Detach, TypeOK, Users, vmVars
  <1>5. TypeOK'
    BY <1>1, <1>2, <1>3, <1>4 DEF TypeOK
  <1>6. \A s \in Threads :
             /\ pc'[s] \in Starting => pc'[s] = pc[s] /\ target'[s] = target[s]
             /\ pc'[s] \in Starting \cup Joining \cup {"slock"}
                    => target'[s] \in Threads
             /\ pc'[s] = "slock" => s \in Users
             /\ pc'[s] = "new" <=> pc[s] = "new"
             /\ pc[s] = "gone" => pc'[s] = "gone"
    BY <1>1, <1>2, <1>4 DEF IInv, TargetsAreSet, Starting, Joining
  <1>7. QED
    BY <1>4, <1>5, <1>6, QuietStep

\* A first start begins: nothing was known of u.
LEMMA EnterStartStep ==
  ASSUME IInv, ~crashed, NEW t \in Threads, EnterStart(t)
  PROVE  IInv'
  <1> USE DEF EnterStart, vmVars, Goes, Lock
  <1>0. PICK u \in Threads : u = target[t]
    BY DEF IInv, TargetsAreSet
  <1>1. /\ t \in Users /\ pc[t] = "slock"
        /\ UNCHANGED <<native, target, joinThreads, vm, joining, exit, crashed>>
    BY DEF IInv, TargetsAreSet
  <1>2. CASE status[u] # "NEW"
    <2>1. TypeOK' /\ starts' = starts
      BY <1>0, <1>1, <1>2 DEF IInv, TypeOK, PC
    <2>2. \A s \in Threads :
             /\ pc'[s] \in Starting => pc'[s] = pc[s] /\ target'[s] = target[s]
             /\ pc'[s] \in Starting \cup Joining \cup {"slock"}
                    => target'[s] \in Threads
             /\ pc'[s] = "slock" => s \in Users
             /\ pc'[s] = "new" <=> pc[s] = "new"
             /\ pc[s] = "gone" => pc'[s] = "gone"
      BY <1>0, <1>1, <1>2 DEF IInv, TypeOK, PC, Starting, Joining, TargetsAreSet
    <2>3. QED
      BY <1>1, <2>1, <2>2, QuietStep
  <1>3. CASE status[u] = "NEW"
    <2>1. /\ pc' = [pc EXCEPT ![t] = "sadd"]
          /\ starts' = [starts EXCEPT ![u] = @ + 1]
      BY <1>0, <1>3
    <2>2. TypeOK'
      <3>1. pc' \in [Threads -> PC]
        BY <2>1 DEF IInv, TypeOK, PC, Starting
      <3>2. starts' \in [Threads -> Nat]
        BY <1>1, <2>1, CountsAreTyped DEF IInv, TypeOK
      <3>3. owner' \in [Threads -> Threads \cup {None}]
        BY <1>0, <1>3, LocksAreTyped DEF IInv
      <3>4. UNCHANGED <<status, calls, unlocked>>
        OBVIOUS
      <3>5. QED
        BY <1>1, <3>1, <3>2, <3>3, <3>4 DEF IInv, TypeOK
    <2>3. TargetsAreSet'
      BY <1>0, <1>1, <2>1 DEF IInv, TypeOK, TargetsAreSet, Starting, Joining
    <2>4. EndIsQuiet'
      BY <1>1, <2>1 DEF IInv, TypeOK, EndIsQuiet
    <2>5. \A v \in Threads : InLine(v)' <=> InLine(v)
      BY <1>1 DEF InLine
    <2>6. UsersAreAwaited'
      BY <1>1, <2>1, <2>5 DEF IInv, TypeOK, UsersAreAwaited, TargetsAreSet,
         Users, Starting
    <2>7. /\ \A s, v \in Threads : Starts(s, v) => Starts(s, v)' /\ s # t
          /\ \A s, v \in Threads : Starts(s, v)' =>
                                      Starts(s, v) \/ (s = t /\ v = u)
          /\ \A s, v \in Threads : Ahead(s, v)' <=> Ahead(s, v)
      <3>1. \A s, v \in Threads : Ahead(s, v)' <=> Ahead(s, v)
        BY <1>1 DEF Ahead
      <3>2. \A s \in Threads : /\ pc'[s] = IF s = t THEN "sadd" ELSE pc[s]
                               /\ target'[s] = target[s]
        BY <1>1, <2>1 DEF IInv, TypeOK
      <3>3. \A s, v \in Threads : Starts(s, v) => Starts(s, v)' /\ s # t
        BY <1>1, <3>2 DEF Starts, Starting
      <3>4. \A s, v \in Threads : Starts(s, v)' => Starts(s, v) \/ (s = t /\ v = u)
        BY <1>0, <3>2 DEF Starts, Starting
      <3>5. QED
        BY <3>1, <3>3, <3>4
    <2>8. \A v \in Threads : /\ starts'[v] = IF v = u THEN starts[v] + 1 ELSE starts[v]
                             /\ starts[v] \in Nat
      BY <1>1, <2>1 DEF IInv, TypeOK
    <2>9. UnstartedIsUnknown'
      BY <1>1, <2>1, <2>5, <2>7, <2>8 DEF IInv, TypeOK, UnstartedIsUnknown
    <2>10. FirstStartIsOrdered'
      BY <1>1, <2>1, <2>5, <2>7, <2>8
      DEF IInv, TypeOK, FirstStartIsOrdered, UnstartedIsUnknown
    <2>11. QED
      BY <1>1, <2>2, <2>3, <2>4, <2>6, <2>9, <2>10 DEF IInv, CrashNeedsTwoStarts
  <1>4. QED
    BY <1>2, <1>3

\* t, a user thread that is awaited, puts u in line behind itself.
LEMMA AddThreadStep ==
  ASSUME IInv, ~crashed, NEW t \in Threads, AddThread(t)
  PROVE  IInv'
  <1> DEFINE n == Len(joinThreads)
  <1>0. PICK u \in Threads : u = target[t]
    BY DEF IInv, TargetsAreSet, AddThread, Starting
  <1>1. /\ TypeOK /\ t \in Users /\ pc[t] = "sadd"
        /\ Starts(t, u)
        /\ joinThreads' = Append(joinThreads, u)
        /\ UNCHANGED <<status, native, owner, target, calls, starts, unlocked,
                       vm, joining, exit, crashed>>
    BY <1>0 DEF IInv, TargetsAreSet, Starting, AddThread, Starts
  <1>2. /\ pc' \in [Threads -> PC]
        /\ \A s \in Threads : pc'[s] = IF s = t THEN "screate" ELSE pc[s]
    BY <1>1, GoesIsTyped DEF AddThread, PC, Starting
  <1>3. /\ joinThreads \in Seq(Threads) /\ n \in Nat /\ DOMAIN joinThreads = 1 .. n
        /\ joinThreads' \in Seq(Threads) /\ DOMAIN joinThreads' = 1 .. n + 1
        /\ \A i \in 1 .. n : joinThreads'[i] = joinThreads[i]
        /\ joinThreads'[n + 1] = u
    BY <1>1, AppendProperties, LenProperties DEF TypeOK
  <1> HIDE DEF n
  <1>4. TypeOK'
    BY <1>1, <1>2, <1>3 DEF TypeOK
  <1>5. TargetsAreSet' /\ EndIsQuiet'
    BY <1>1, <1>2 DEF IInv, TargetsAreSet, EndIsQuiet, Starting, Joining
  <1>6. /\ InLine(u)'
        /\ \A v \in Threads : InLine(v) => InLine(v)'
        /\ \A v \in Threads : InLine(v)' => InLine(v) \/ v = u
    BY <1>1, <1>3 DEF InLine
  <1>7. InLine(t)
    BY <1>1 DEF IInv, UsersAreAwaited
  <1>8. \A s, v \in Threads : Starts(s, v)' <=> Starts(s, v)
    BY <1>1, <1>2 DEF Starts, Starting
  <1>9. ASSUME NEW s \in Threads, NEW v \in Threads, v # u, Ahead(s, v)
        PROVE  Ahead(s, v)'
    BY <1>1, <1>3, <1>9 DEF Ahead
  <1>10. ASSUME ~InLine(u)
         PROVE  Ahead(t, u)'
    <2>1. ~(vm' = "join" /\ joining' = u)
      BY <1>1, <1>10 DEF InLine
    <2>2. ASSUME NEW i \in DOMAIN joinThreads', joinThreads'[i] = u
          PROVE  \/ vm' = "join" /\ joining' = t
                 \/ \E j \in 1 .. i - 1 : joinThreads'[j] = t
      <3>1. i = n + 1
        BY <1>3, <1>10, <2>2 DEF InLine
      <3>2. \/ vm = "join" /\ joining = t
            \/ \E j \in 1 .. n : joinThreads[j] = t
        BY <1>3, <1>7 DEF InLine
      <3>3. QED
        BY <1>1, <1>3, <3>1, <3>2
    <2>3. QED
      BY <2>1, <2>2 DEF Ahead
  <1>11. UsersAreAwaited'
    BY <1>0, <1>1, <1>2, <1>6, <1>7 DEF IInv, UsersAreAwaited, Users, TargetsAreSet, Starting
  <1>12. UnstartedIsUnknown'
    BY <1>1, <1>2, <1>6, <1>8 DEF IInv, UnstartedIsUnknown
  <1>13. FirstStartIsOrdered'
    <2> SUFFICES ASSUME NEW v \in Threads, NEW s \in Threads,
                        starts[v] = 1, Starts(s, v)
                 PROVE  /\ \A r \in Threads : Starts(r, v)' => r = s
                        /\ pc'[s] \in {"sadd", "screate"} => pc'[v] = "new"
                        /\ pc'[s] = "sadd" => ~InLine(v)'
                        /\ pc'[s] \in {"screate", "sdetach"} => Ahead(s, v)'
      BY <1>1, <1>8 DEF FirstStartIsOrdered
    <2>1. /\ \A r \in Threads : Starts(r, v) => r = s
          /\ pc[s] \in {"sadd", "screate"} => pc[v] = "new"
          /\ pc[s] = "sadd" => ~InLine(v)
          /\ pc[s] \in {"screate", "sdetach"} => Ahead(s, v)
      BY DEF IInv, FirstStartIsOrdered
    <2>2. CASE v = u
      <3>1. s = t /\ pc[v] = "new" /\ ~InLine(u)
        BY <2>1, <2>2, <1>1
      <3>2. Ahead(t, u)'
        BY <3>1, <1>10
      <3>3. v # t
        BY <3>1, <1>1
      <3>4. QED
        BY <2>1, <2>2, <3>1, <3>2, <3>3, <1>2, <1>8
    <2>3. CASE v # u
      <3>1. s # t
        BY <2>3, <1>0, <1>1 DEF Starts
      <3>2. pc[s] \in {"screate", "sdetach"} => Ahead(s, v)'
        BY <2>1, <2>3, <1>9
      <3>3. v # t \/ pc[s] \notin {"sadd", "screate"}
        BY <2>1, <1>1
      <3>4. QED
        BY <2>1, <2>3, <3>1, <3>2, <3>3, <1>2, <1>6, <1>8
    <2>4. QED
      BY <2>2, <2>3
  <1>14. QED
    BY <1>1, <1>4, <1>5, <1>11, <1>12, <1>13 DEF IInv, CrashNeedsTwoStarts

\* A first start finds a thread that has never run.
LEMMA CreateThreadStep ==
  ASSUME IInv, ~crashed, NEW t \in Threads, CreateThread(t)
  PROVE  IInv'
  <1>0. PICK u \in Threads : u = target[t]
    BY DEF IInv, TargetsAreSet, CreateThread, Starting
  <1>1. /\ TypeOK /\ t \in Users /\ pc[t] = "screate"
        /\ Starts(t, u) /\ InLine(u)
        /\ UNCHANGED <<status, owner, target, calls, starts, unlocked, joinThreads,
                       vm, joining, exit>>
    BY <1>0 DEF IInv, TargetsAreSet, UsersAreAwaited, Starting, CreateThread, Starts, vmVars
  <1>2. /\ \A v \in Threads : InLine(v)' <=> InLine(v)
        /\ \A s, v \in Threads : Ahead(s, v)' <=> Ahead(s, v)
    BY <1>1 DEF InLine, Ahead
  <1>3. CASE pc[u] = "new"
    <2>1. /\ native' = [native EXCEPT ![u] = "joinable"]
          /\ pc' = [pc EXCEPT ![t] = "sdetach", ![u] = "begin"]
          /\ crashed' = crashed /\ u # t
      BY <1>0, <1>1, <1>3 DEF CreateThread
    <2>2. /\ native' \in [Threads -> {"none", "joinable", "detached", "joined"}]
          /\ \A v \in Threads : native'[v] = IF v = u THEN "joinable" ELSE native[v]
      BY <1>1, <2>1 DEF TypeOK
    <2>3. /\ pc' \in [Threads -> PC]
          /\ \A s \in Threads : pc'[s] = IF s = t THEN "sdetach"
                                         ELSE IF s = u THEN "begin" ELSE pc[s]
      BY <1>1, <2>1 DEF TypeOK, PC, Starting
    <2>4. TypeOK'
      BY <1>1, <2>1, <2>2, <2>3 DEF TypeOK
    <2>5. TargetsAreSet'
      BY <1>1, <2>3 DEF IInv, TargetsAreSet, Starting, Joining
    <2>6. EndIsQuiet'
      BY <1>1, <2>3 DEF IInv, EndIsQuiet
    <2>7. UsersAreAwaited'
      BY <1>0, <1>1, <1>2, <2>2, <2>3
      DEF IInv, UsersAreAwaited, Users, TargetsAreSet, Starting
    <2>8. \A s, v \in Threads : Starts(s, v)' <=> Starts(s, v)
      BY <1>1, <1>3, <2>3 DEF Starts, Starting
    <2>9. UnstartedIsUnknown'
      BY <1>1, <1>2, <2>3, <2>8 DEF IInv, UnstartedIsUnknown
    <2>10. FirstStartIsOrdered'
      <3> SUFFICES ASSUME NEW v \in Threads, NEW s \in Threads,
                          starts[v] = 1, Starts(s, v)
                   PROVE  /\ \A r \in Threads : Starts(r, v)' => r = s
                          /\ pc'[s] \in {"sadd", "screate"} => pc'[v] = "new"
                          /\ pc'[s] = "sadd" => ~InLine(v)'
                          /\ pc'[s] \in {"screate", "sdetach"} => Ahead(s, v)'
        BY <1>1, <2>8 DEF FirstStartIsOrdered
      <3>1. /\ \A r \in Threads : Starts(r, v) => r = s
            /\ pc[s] \in {"sadd", "screate"} => pc[v] = "new"
            /\ pc[s] = "sadd" => ~InLine(v)
            /\ pc[s] \in {"screate", "sdetach"} => Ahead(s, v)
        BY DEF IInv, FirstStartIsOrdered
      <3>2. s # u
        BY <1>3 DEF Starts, Starting
      <3>3. v = u => s = t
        BY <3>1, <1>1
      <3>4. s # t => v # t \/ pc[s] = "sdetach"
        BY <3>1, <1>1 DEF Starts, Starting
      <3>5. QED
        BY <3>1, <3>2, <3>3, <3>4, <1>1, <1>2, <2>3, <2>8
    <2>11. QED
      BY <1>1, <2>1, <2>4, <2>5, <2>6, <2>7, <2>9, <2>10 DEF IInv, CrashNeedsTwoStarts
  <1>4. CASE pc[u] # "new"
    <2>1. crashed' = TRUE /\ native' = native /\ pc' = pc
      BY <1>0, <1>4 DEF CreateThread
    <2>2. starts[u] \in Nat /\ starts[u] # 0 /\ starts[u] # 1
      BY <1>1, <1>4 DEF IInv, TypeOK, UnstartedIsUnknown, FirstStartIsOrdered
    <2>3. CrashNeedsTwoStarts'
      BY <1>1, <2>2 DEF CrashNeedsTwoStarts
    <2>4. TypeOK' /\ TargetsAreSet' /\ EndIsQuiet'
      BY <1>1, <2>1 DEF IInv, TypeOK, TargetsAreSet, EndIsQuiet
    <2>5. QED
      BY <2>1, <2>3, <2>4 DEF IInv
  <1>5. QED
    BY <1>3, <1>4

\* Who is popped was the first in line; with an empty line nobody runs.
LEMMA PopThreadStep ==
  ASSUME IInv, ~crashed, PopThread
  PROVE  IInv'
  <1>1. /\ TypeOK /\ vm = "pop" /\ exit = FALSE
        /\ UNCHANGED <<exit, status, native, owner, pc, target, calls, starts,
                       unlocked, crashed>>
    BY DEF IInv, EndIsQuiet, TypeOK, PopThread, threadVars
  <1>2. \A s, v \in Threads : Starts(s, v)' <=> Starts(s, v)
    BY <1>1 DEF Starts
  <1>3. CASE joinThreads = <<>>
    <2>1. vm' = "exit" /\ joinThreads' = joinThreads /\ joining' = joining
      BY <1>3 DEF PopThread
    <2>2. \A v \in Threads : ~InLine(v)
      BY <1>1, <1>3 DEF InLine
    <2>3. /\ \A v \in Threads : ~InLine(v)'
          /\ \A s, v \in Threads : Ahead(s, v)'
      BY <1>3, <2>1 DEF InLine, Ahead
    <2>4. /\ \A t \in Users : pc[t] \in {"new", "gone"}
          /\ \A t \in Threads : pc[t] # "screate"
      BY <2>2 DEF IInv, UsersAreAwaited, Users, TargetsAreSet, Starting
    <2>5. TypeOK' /\ TargetsAreSet' /\ EndIsQuiet'
      BY <1>1, <2>1, <2>4 DEF IInv, TypeOK, VM, TargetsAreSet, EndIsQuiet
    <2>6. UsersAreAwaited' /\ UnstartedIsUnknown' /\ FirstStartIsOrdered'
      BY <1>1, <1>2, <2>3, <2>4
      DEF IInv, UsersAreAwaited, UnstartedIsUnknown, FirstStartIsOrdered
    <2>7. QED
      BY <1>1, <2>5, <2>6 DEF IInv, CrashNeedsTwoStarts
  <1>4. CASE joinThreads # <<>>
    <2> DEFINE n == Len(joinThreads)
    <2>1. vm' = "join" /\ joining' = Head(joinThreads) /\ joinThreads' = Tail(joinThreads)
      BY <1>4 DEF PopThread, Pop
    <2>2. /\ joinThreads \in Seq(Threads) /\ n \in Nat \ {0}
          /\ DOMAIN joinThreads = 1 .. n
          /\ joining' = joinThreads[1] /\ joining' \in Threads
          /\ joinThreads' \in Seq(Threads) /\ DOMAIN joinThreads' = 1 .. n - 1
          /\ \A i \in 1 .. n - 1 : joinThreads'[i] = joinThreads[i + 1]
      BY <1>1, <1>4, <2>1, HeadTailProperties, LenProperties, EmptySeq DEF TypeOK
    <2> HIDE DEF n
    <2>3. \A i \in 2 .. n : joinThreads[i] = joinThreads'[i - 1] /\ i - 1 \in 1 .. n - 1
      BY <2>2
    <2>4. ASSUME NEW v \in Threads PROVE InLine(v)' <=> InLine(v)
      <3>1. ASSUME InLine(v) PROVE InLine(v)'
        <4>1. PICK i \in 1 .. n : joinThreads[i] = v
          BY <1>1, <2>2, <3>1 DEF InLine
        <4>2. CASE i = 1
          BY <2>1, <2>2, <4>1, <4>2 DEF InLine
        <4>3. CASE i # 1
          <5>1. i - 1 \in DOMAIN joinThreads' /\ joinThreads'[i - 1] = v
            BY <2>2, <2>3, <4>1, <4>3
          <5>2. QED
            BY <5>1 DEF InLine
        <4>4. QED
          BY <4>2, <4>3
      <3>2. ASSUME InLine(v)' PROVE InLine(v)
        <4>1. CASE joining' = v
          <5>1. 1 \in DOMAIN joinThreads /\ joinThreads[1] = v
            BY <2>2, <4>1
          <5>2. QED
            BY <5>1 DEF InLine
        <4>2. CASE joining' # v
          <5>1. PICK i \in DOMAIN joinThreads' : joinThreads'[i] = v
            BY <3>2, <4>2 DEF InLine
          <5>2. i + 1 \in DOMAIN joinThreads /\ joinThreads[i + 1] = v
            BY <2>2, <5>1
          <5>3. QED
            BY <5>2 DEF InLine
        <4>3. QED
          BY <4>1, <4>2
      <3>3. QED
        BY <3>1, <3>2
    <2>5. ASSUME NEW s \in Threads, NEW v \in Threads, Ahead(s, v)
          PROVE  Ahead(s, v)'
      <3>1. joining' # v
        BY <2>2, <2>5, <1>1 DEF Ahead
      <3>2. ASSUME NEW i \in DOMAIN joinThreads', joinThreads'[i] = v
            PROVE  joining' = s \/ \E j \in 1 .. i - 1 : joinThreads'[j] = s
        <4>1. i + 1 \in DOMAIN joinThreads /\ joinThreads[i + 1] = v
          BY <2>2, <3>2
        <4>2. PICK j \in 1 .. i : joinThreads[j] = s
          BY <1>1, <2>2, <2>5, <4>1 DEF Ahead
        <4>3. CASE j = 1
          BY <2>2, <4>2, <4>3
        <4>4. CASE j # 1
          BY <2>2, <2>3, <3>2, <4>2, <4>4
        <4>5. QED
          BY <4>3, <4>4
      <3>3. QED
        BY <2>1, <3>1, <3>2 DEF Ahead
    <2>6. TypeOK' /\ TargetsAreSet' /\ EndIsQuiet'
      BY <1>1, <2>1, <2>2 DEF IInv, TypeOK, VM, TargetsAreSet, EndIsQuiet
    <2>7. UsersAreAwaited'
      BY <1>1, <2>4 DEF IInv, UsersAreAwaited, Users, TargetsAreSet, Starting
    <2>8. UnstartedIsUnknown' /\ FirstStartIsOrdered'
      BY <1>1, <1>2, <2>4, <2>5 DEF IInv, UnstartedIsUnknown, FirstStartIsOrdered
    <2>9. QED
      BY <1>1, <2>6, <2>7, <2>8 DEF IInv, CrashNeedsTwoStarts
  <1>5. QED
    BY <1>3, <1>4

\* Who is joined is not starting anybody: he is gone, or was never awaited.
LEMMA JoinThreadStep ==
  ASSUME IInv, ~crashed, JoinThread
  PROVE  IInv'
  <1>0. PICK w \in Threads : w = joining
    BY DEF IInv, TargetsAreSet, JoinThread
  <1>1. /\ TypeOK /\ vm = "join" /\ vm' = "pop" /\ exit = FALSE
        /\ UNCHANGED <<joinThreads, joining, exit, status, owner, pc, target, calls,
                       starts, unlocked>>
    BY DEF IInv, EndIsQuiet, TypeOK, JoinThread
  <1>2. /\ InLine(w)
        /\ \A v \in Threads : InLine(v)' => InLine(v)
        /\ \A v \in Threads \ {w} : InLine(v) => InLine(v)'
    BY <1>0, <1>1 DEF InLine
  <1>3. \A s, v \in Threads : Starts(s, v)' <=> Starts(s, v)
    BY <1>1 DEF Starts
  <1>4. TargetsAreSet' /\ EndIsQuiet'
    BY <1>1 DEF IInv, TargetsAreSet, EndIsQuiet
  <1>5. CASE BeingStarted(w)
    <2>1. crashed' = TRUE /\ native' = native
      BY <1>0, <1>5 DEF JoinThread
    <2>2. PICK s \in Threads : Starts(s, w) /\ pc[s] \in {"screate", "sdetach"}
      BY <1>5 DEF BeingStarted, Starts, Starting
    <2>3. ~Ahead(s, w)
      BY <1>0, <1>1 DEF Ahead
    <2>4. starts[w] \in Nat /\ starts[w] # 0 /\ starts[w] # 1
      BY <1>1, <2>2, <2>3 DEF IInv, TypeOK, UnstartedIsUnknown, FirstStartIsOrdered
    <2>5. CrashNeedsTwoStarts'
      BY <1>1, <2>4 DEF CrashNeedsTwoStarts
    <2>6. TypeOK'
      BY <1>1, <2>1 DEF TypeOK, VM
    <2>7. QED
      BY <1>4, <2>1, <2>5, <2>6 DEF IInv
  <1>6. CASE ~BeingStarted(w)
    <2>1. /\ native[w] = "joinable" => pc[w] = "gone"
          /\ native' = [native EXCEPT ![w] = IF @ = "joinable" THEN "joined" ELSE @]
          /\ crashed' = crashed
      BY <1>0, <1>6 DEF JoinThread
    <2>2. /\ native' \in [Threads -> {"none", "joinable", "detached", "joined"}]
          /\ \A v \in Threads \ {w} : native'[v] = native[v]
      BY <1>1, <2>1 DEF TypeOK
    <2>3. TypeOK'
      BY <1>1, <2>1, <2>2 DEF TypeOK, VM
    <2>4. /\ \A t \in Users : pc[t] \notin {"new", "gone"} => t # w
          /\ \A t \in Threads : pc[t] = "screate" => target[t] # w
      BY <1>6, <2>1 DEF IInv, UsersAreAwaited, BeingStarted
    <2>5. UsersAreAwaited'
      BY <1>1, <1>2, <2>2, <2>4
      DEF IInv, UsersAreAwaited, Users, TargetsAreSet, Starting
    <2>6. UnstartedIsUnknown'
      BY <1>1, <1>2, <1>3 DEF IInv, UnstartedIsUnknown
    <2>7. ASSUME NEW s \in Threads, NEW v \in Threads, s # w, Ahead(s, v)
          PROVE  Ahead(s, v)'
      BY <1>0, <1>1, <2>7 DEF Ahead
    <2>8. \A s \in Threads : pc[s] \in {"screate", "sdetach"} => s # w
      BY <2>4 DEF IInv, TargetsAreSet, Starting
    <2>9. FirstStartIsOrdered'
      BY <1>1, <1>2, <1>3, <2>7, <2>8 DEF IInv, FirstStartIsOrdered
    <2>10. QED
      BY <1>4, <2>1, <2>3, <2>5, <2>6, <2>9, <1>1 DEF IInv, CrashNeedsTwoStarts
  <1>7. QED
    BY <1>5, <1>6

\* Raising the exit flag keeps the invariant.
LEMMA SetExitStep ==
  ASSUME IInv, ~crashed, SetExit
  PROVE  IInv'
  <1>1. /\ TypeOK /\ vm = "exit" /\ vm' = "exitVM" /\ exit' = TRUE
        /\ UNCHANGED <<joinThreads, joining, status, native, owner, pc, target, calls,
                       starts, unlocked, crashed>>
    BY DEF IInv, SetExit, threadVars
  <1>2. /\ \A v \in Threads : InLine(v)' <=> InLine(v)
        /\ \A s, v \in Threads : Starts(s, v)' <=> Starts(s, v)
        /\ \A s, v \in Threads : Ahead(s, v)' <=> Ahead(s, v)
    BY <1>1 DEF InLine, Starts, Ahead
  <1>3. TypeOK' /\ TargetsAreSet' /\ EndIsQuiet'
    BY <1>1 DEF IInv, TypeOK, VM, TargetsAreSet, EndIsQuiet
  <1>4. UsersAreAwaited'
    BY <1>1, <1>2 DEF IInv, UsersAreAwaited, Users, TargetsAreSet, Starting
  <1>5. UnstartedIsUnknown' /\ FirstStartIsOrdered'
    BY <1>1, <1>2 DEF IInv, UnstartedIsUnknown, FirstStartIsOrdered
  <1>6. QED
    BY <1>1, <1>3, <1>4, <1>5 DEF IInv, CrashNeedsTwoStarts

\* Every step keeps the invariant.
LEMMA NextIInv == IInv /\ [Next]_vars => IInv'
  <1> SUFFICES ASSUME IInv, [Next]_vars PROVE IInv'
    OBVIOUS
  <1>1. CASE UNCHANGED vars
    BY <1>1 DEF IInv, TypeOK, TargetsAreSet, EndIsQuiet, UsersAreAwaited,
       UnstartedIsUnknown, FirstStartIsOrdered, CrashNeedsTwoStarts, InLine, Ahead,
       Starts, vars, threadVars, vmVars
  <1>2. ASSUME ~crashed, NEW t \in Threads,
               \/ Runs(t) \/ EndBody(t) \/ SpuriousWakeup(t)
               \/ \E u \in Threads : CallStart(t, u) \/ CallJoin(t, u)
        PROVE  IInv'
    <2>1. Other(t) \/ EnterStart(t) \/ AddThread(t) \/ CreateThread(t) \/ Detach(t)
      BY <1>2 DEF Other, Runs
    <2>2. QED
      BY <1>2, <2>1, OtherIsQuiet, EnterStartStep, AddThreadStep, CreateThreadStep,
         DetachStep
  <1>3. CASE ~crashed /\ VMStep
    BY <1>3, PopThreadStep, JoinThreadStep, SetExitStep DEF VMStep
  <1>4. QED
    BY <1>1, <1>2, <1>3 DEF Next

-----------------------------------------------------------------------------
(* Theorems *)

\* Whatever the program starts and joins, the variables of Threads keep their
\* types and the order of joinThreads is the order of the first starts.
THEOREM ThreadsInvariant == Spec => []IInv
  BY InitIInv, NextIInv, PTL DEF Spec

\* VM::exec does not exit before every user thread has ended, those included
\* that a user thread starts while the thread of C++ is joining
\* (ThreadManager::joinUserThreads pops and joins without a common lock).
THEOREM VMOutlivesUsers == Spec => []ExitAfterUsers
  <1>1. IInv => ExitAfterUsers
    <2> SUFFICES ASSUME IInv, exit, NEW t \in Threads \ Daemons
                 PROVE  ~Unfinished(t)
      BY DEF ExitAfterUsers
    <2>1. \A u \in Users : pc[u] \in {"new", "gone"}
      BY DEF IInv, EndIsQuiet
    <2>2. \A s \in Threads : pc[s] \notin Starting
      BY <2>1 DEF IInv, TargetsAreSet, Starting
    <2>3. QED
      BY <2>1, <2>2 DEF Unfinished, Users
  <1>2. QED
    BY <1>1, ThreadsInvariant, PTL

\* A program that starts no thread twice never has nativeThread assigned to
\* while it is joinable, nor read by join() while it is being assigned.
THEOREM NoCrashWithoutRestart == Spec => []CrashNeedsTwoStarts
  <1>1. IInv => CrashNeedsTwoStarts
    BY DEF IInv
  <1>2. QED
    BY <1>1, ThreadsInvariant, PTL
=============================================================================
