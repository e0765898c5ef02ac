-------------------------- MODULE CollectionProofs ---------------------------
(***************************************************************************)
(* TLAPS proofs about garbage collection.  Safepoint.tla, with the         *)
(* Finalizer.tla that takes part in it, for any set of threads, any bound  *)
(* on nested guards and any interleaving: the world is stopped.            *)
(* Collector.tla for any heap: any set of oops, any graph, any             *)
(* interleaving of threads, finalizer and cycles, in the order             *)
(* traceMarkOop and the sweep happen to take the oops.                     *)
(***************************************************************************)
EXTENDS Finalizer, Collector, TLAPS

(* The inductive invariant: what makes WorldStopped true. *)

\* stopForCollect is up exactly while the thread is in the wait, or has
\* left the wait and not cleared the flag yet.
FlagMatchesPC ==
    \A t \in Threads : stopForCollect[t] <=> pc[t] \in AtSafepoint \cup {"leave"}

\* Only a registered thread has ever run.
OnlyRegisteredRun == \A t \in Threads \ registered : pc[t] = "new"

\* checkStop follows the phase of the GC thread.
StopMatchesPhase == checkStop <=> gc \in {"scan", "check", "process", "open"}

\* Nobody is on the way out while the GC thread wants the world stopped.
\* This is where the timing assumption enters.
NobodyLeaves == checkStop => \A t \in Threads : pc[t] # "leave"

\* What the scan has passed stays stopped, until the end of the cycle.
ScanHolds == /\ scanned \subseteq registered
             /\ gc = "scan" => \A t \in scanned : Stopped(t)
             /\ gc = "check" => exit \/ \A t \in registered : Stopped(t)
             /\ gc = "process" => \A t \in registered : Stopped(t)

IInv == /\ TypeOK
        /\ FlagMatchesPC
        /\ OnlyRegisteredRun
        /\ StopMatchesPhase
        /\ NobodyLeaves
        /\ ScanHolds

\* Nobody is stopped and nothing is scanned in the beginning.
LEMMA InitIInv == Init => IInv
  <1> SUFFICES ASSUME Init PROVE IInv
    OBVIOUS
  <1> USE SafepointAssumption DEF Init
  <1>1. TypeOK
    <2>1. guards \in [Threads -> [open : 0 .. MaxNest, ended : BOOLEAN]]
      OBVIOUS
    <2>2. pc \in [Threads -> PC] /\ gc \in GC
      BY DEF PC, GC
    <2>3. registered \in SUBSET Threads /\ scanned \in SUBSET Threads
      OBVIOUS
    <2>4. joining \in [Threads -> Threads \cup {None}]
      OBVIOUS
    <2>5. stopForCollect \in [Threads -> BOOLEAN] /\ gcSafe \in [Threads -> BOOLEAN]
      OBVIOUS
    <2>6. checkStop \in BOOLEAN /\ exit \in BOOLEAN /\ mtx \in Threads \cup {None}
      OBVIOUS
    <2>7. QED
      BY <2>1, <2>2, <2>3, <2>4, <2>5, <2>6 DEF TypeOK
  <1>2. FlagMatchesPC
    BY DEF FlagMatchesPC, AtSafepoint
  <1>3. OnlyRegisteredRun /\ StopMatchesPhase /\ NobodyLeaves
    BY DEF OnlyRegisteredRun, StopMatchesPhase, NobodyLeaves
  <1>4. ScanHolds
    BY DEF ScanHolds
  <1>5. QED
    BY <1>1, <1>2, <1>3, <1>4 DEF IInv

\* What the scan has passed is still stopped when the collection runs.
LEMMA IInvImpliesWorldStopped == IInv => WorldStopped
  BY DEF IInv, WorldStopped, TypeOK, FlagMatchesPC, OnlyRegisteredRun,
     StopMatchesPhase, NobodyLeaves, ScanHolds, Stopped, Terminated

\* No step breaks the inductive invariant.
LEMMA NextIInv == IInv /\ [Next]_vars => IInv'
  <1> SUFFICES ASSUME IInv, [Next]_vars PROVE IInv'
    OBVIOUS
  <1> USE SafepointAssumption
          DEF IInv, TypeOK, FlagMatchesPC, OnlyRegisteredRun, StopMatchesPhase,
              NobodyLeaves, ScanHolds, Stopped, Terminated, AtSafepoint, PC, GC,
              threadVars, gcVars
  <1>1. ASSUME NEW t \in Threads, Begin(t) PROVE IInv'
    BY <1>1 DEF Begin
  <1>2. ASSUME NEW t \in Threads, Terminate(t) PROVE IInv'
    BY <1>2 DEF Terminate
  <1>3. ASSUME NEW t \in Threads, Joined(t) PROVE IInv'
    BY <1>3 DEF Joined
  <1>4. ASSUME NEW t \in Threads, EnterNative(t) PROVE IInv'
    BY <1>4 DEF EnterNative
  <1>5. ASSUME NEW t \in Threads, LeaveNative(t) PROVE IInv'
    BY <1>5 DEF LeaveNative
  <1>6. ASSUME NEW t \in Threads, EnterGuard(t) PROVE IInv'
    BY <1>6 DEF EnterGuard
  <1>7. ASSUME NEW t \in Threads, LeaveGuard(t) PROVE IInv'
    BY <1>7 DEF LeaveGuard
  <1>8. ASSUME NEW t \in Threads, NEW u \in Threads, Start(t, u) PROVE IInv'
    BY <1>8 DEF Start
  <1>9. ASSUME NEW t \in Threads, NEW u \in Threads, Join(t, u) PROVE IInv'
    BY <1>9 DEF Join
  <1>10. ASSUME NEW t \in Threads, Poll(t) PROVE IInv'
    BY <1>10 DEF Poll
  <1>11. ASSUME NEW t \in Threads, Announce(t) PROVE IInv'
    BY <1>11 DEF Announce
  <1>12. ASSUME NEW t \in Threads, EvaluatePredicate(t) PROVE IInv'
    BY <1>12 DEF EvaluatePredicate
  <1>13. ASSUME NEW t \in Threads, Block(t) PROVE IInv'
    BY <1>13 DEF Block
  <1>14. ASSUME NEW t \in Threads, SpuriousWakeup(t) PROVE IInv'
    BY <1>14 DEF SpuriousWakeup
  <1>15. ASSUME NEW t \in Threads, Reacquire(t) PROVE IInv'
    BY <1>15 DEF Reacquire
  <1>16. ASSUME NEW t \in Threads, Resume(t) PROVE IInv'
    BY <1>16 DEF Resume
  <1>17. CASE BeginStop
    BY <1>17 DEF BeginStop, SleepOutlastsBrief
  <1>18. ASSUME NEW t \in Threads, ScanThread(t) PROVE IInv'
    BY <1>18 DEF ScanThread
  <1>19. CASE WorldIsStopped
    BY <1>19 DEF WorldIsStopped
  <1>20. CASE StopEndsByExit
    BY <1>20 DEF StopEndsByExit
  <1>21. CASE StopTimeout
    BY <1>21 DEF StopTimeout
  <1>22. CASE CheckTermination
    BY <1>22 DEF CheckTermination, MayCollect
  <1>23. CASE ProcessEnds
    BY <1>23 DEF ProcessEnds
  <1>24. CASE OpenWorld
    BY <1>24 DEF OpenWorld
  <1>25. CASE NotifyAll
    BY <1>25 DEF NotifyAll
  <1>26. CASE GCThreadExit
    BY <1>26 DEF GCThreadExit
  <1>27. CASE SetExit
    BY <1>27 DEF SetExit
  <1>28. CASE UNCHANGED vars
    BY <1>28 DEF vars
  <1>29. QED
    BY <1>1, <1>2, <1>3, <1>4, <1>5, <1>6, <1>7, <1>8, <1>9, <1>10, <1>11,
       <1>12, <1>13, <1>14, <1>15, <1>16, <1>17, <1>18, <1>19, <1>20, <1>21,
       <1>22, <1>23, <1>24, <1>25, <1>26, <1>27, <1>28
       DEF Next, Mutate, Handshake, GCStep

\* Every variable keeps its type.
THEOREM TypeCorrect == Spec => []TypeOK
  <1>1. IInv => TypeOK
    BY DEF IInv
  <1>2. QED
    BY <1>1, InitIInv, NextIInv, PTL DEF Spec

\* The safepoint protocol is safe: for any number of threads that start one
\* another, block, join and terminate, whenever the GC thread collects every
\* thread is stopped, terminated or not started.
THEOREM Safety == Spec => []WorldStopped
  BY InitIInv, NextIInv, IInvImpliesWorldStopped, PTL DEF Spec

-----------------------------------------------------------------------------
(* Guards.  gcSafe says that the thread is inside none, or that one ended   *)
(* in the innermost it is inside.                                           *)

GuardMatchesFlag ==
    \A t \in Threads : gcSafe[t] <=> (guards[t].open = 0 \/ guards[t].ended)

\* An unregistered thread has not run, hence holds no guard.
NewIsUnguarded == \A t \in Threads \ registered : guards[t].open = 0

\* gcSafe was TRUE for every registered thread when the collection began,
\* and no thread has moved since.
CollectUnguarded == gc = "process" => \A t \in registered : gcSafe[t]

GInv == IInv /\ GuardMatchesFlag /\ NewIsUnguarded /\ CollectUnguarded

\* No thread is inside a guard in the beginning.
LEMMA InitGInv == Init => GInv
  BY InitIInv DEF Init, GInv, GuardMatchesFlag, NewIsUnguarded, CollectUnguarded

\* The flag follows the guards, however they nest.
LEMMA NextGInv == GInv /\ [Next]_vars => GInv'
  <1> SUFFICES ASSUME GInv, [Next]_vars PROVE GInv'
    OBVIOUS
  <1> USE SafepointAssumption
          DEF GInv, GuardMatchesFlag, NewIsUnguarded, CollectUnguarded,
              threadVars, gcVars
  <1>0. IInv'
    BY NextIInv
  <1>i. /\ TypeOK
        /\ WorldStopped
        /\ \A t \in Threads \ registered : pc[t] = "new"
    BY IInvImpliesWorldStopped DEF IInv, OnlyRegisteredRun
  <1>1. ASSUME NEW t \in Threads, Mutate(t) PROVE GInv'
    <2> USE <1>0, <1>i DEF TypeOK, WorldStopped, AtSafepoint, Terminated
    <2>1. CASE Begin(t)
      BY <2>1 DEF Begin
    <2>2. CASE Terminate(t)
      BY <2>2 DEF Terminate
    <2>3. CASE Joined(t)
      BY <2>3 DEF Joined
    <2>4. CASE EnterNative(t)
      BY <2>4 DEF EnterNative
    <2>5. CASE LeaveNative(t)
      BY <2>5 DEF LeaveNative
    <2>6. CASE EnterGuard(t)
      BY <2>6 DEF EnterGuard
    <2>7. CASE LeaveGuard(t)
      <3> DEFINE g == [open |-> guards[t].open - 1, ended |-> guards[t].open > 1]
      <3>1. guards' = [guards EXCEPT ![t] = g] /\ gcSafe' = [gcSafe EXCEPT ![t] = TRUE]
        BY <2>7 DEF LeaveGuard
      <3>a. pc[t] = "run" /\ guards[t].open > 0 /\ UNCHANGED <<registered, gc>>
        BY <2>7 DEF LeaveGuard, gcVars
      <3>b. guards[t].open \in Nat
        <4>1. guards[t] \in [open : 0 .. MaxNest, ended : BOOLEAN]
          OBVIOUS
        <4>2. QED
          BY <4>1
      <3>2. /\ guards[t].open \in Nat /\ guards[t].open > 0
            /\ UNCHANGED <<registered, gc>> /\ t \in registered /\ gc # "process"
        BY <3>a, <3>b
      <3>3. g.open = 0 \/ g.ended
        <4>1. g.open = guards[t].open - 1 /\ (g.ended <=> guards[t].open > 1)
          BY ZenonT(30)
        <4> HIDE DEF g
        <4>2. CASE guards[t].open = 1
          BY <4>1, <4>2
        <4>3. CASE guards[t].open > 1
          BY <4>1, <4>3
        <4>4. QED
          BY <3>2, <4>2, <4>3
      <3> HIDE DEF g
      <3>4. GuardMatchesFlag'
        BY <3>1, <3>3
      <3>5. NewIsUnguarded' /\ CollectUnguarded'
        BY <3>1, <3>2
      <3>6. QED
        BY <3>4, <3>5
    <2>8. ASSUME NEW u \in Threads, Start(t, u) PROVE GInv'
      BY <2>8 DEF Start
    <2>9. ASSUME NEW u \in Threads, Join(t, u) PROVE GInv'
      BY <2>9 DEF Join
    <2>10. QED
      BY <1>1, <2>1, <2>2, <2>3, <2>4, <2>5, <2>6, <2>7, <2>8, <2>9 DEF Mutate
  <1>2. ASSUME NEW t \in Threads, Poll(t) \/ Handshake(t) \/ SpuriousWakeup(t)
        PROVE  GInv'
    BY <1>0, <1>2 DEF Poll, Handshake, Announce, EvaluatePredicate, Block,
       Reacquire, Resume, SpuriousWakeup
  <1>3. CASE CheckTermination
    BY <1>0, <1>3 DEF CheckTermination, MayCollect
  <1>4. CASE BeginStop \/ SetExit \/ UNCHANGED vars
    BY <1>0, <1>4 DEF BeginStop, SetExit, vars
  <1>5. CASE GCStep /\ ~CheckTermination
    BY <1>0, <1>5 DEF GCStep, ScanThread, WorldIsStopped, StopEndsByExit,
       StopTimeout, ProcessEnds, OpenWorld, NotifyAll, GCThreadExit
  <1>6. QED
    BY <1>1, <1>2, <1>3, <1>4, <1>5 DEF Next

\* For any depth of guards, the heap is never collected while a thread is
\* inside one, unless it has left one nested in that.
THEOREM GuardSafety == Spec => []GuardedNativeIsSafe
  <1>1. GInv => GuardedNativeIsSafe
    BY DEF GInv, GuardedNativeIsSafe, GuardMatchesFlag, NewIsUnguarded,
       CollectUnguarded
  <1>2. GInv /\ [Next]_vars => GInv'
    BY NextGInv
  <1>3. QED
    BY <1>1, <1>2, InitGInv, PTL DEF Spec

-----------------------------------------------------------------------------
(* The protocol implements StopTheWorld. *)

\* One mutator, and no collection, in the beginning.
LEMMA InitImplements == Init => World!Init
  BY SafepointAssumption DEF Init, World!Init, Mutators

\* A step of the protocol is a step of StopTheWorld, or leaves what it sees
\* unchanged.
LEMMA StepImplements ==
  IInv /\ IInv' /\ [Next]_vars => [World!Next]_(World!vars)
  <1> SUFFICES ASSUME IInv, IInv', [Next]_vars
               PROVE  [World!Next]_(World!vars)
    OBVIOUS
  <1> DEFINE Same == Mutators' = Mutators /\ (gc = "process")' = (gc = "process")
  <1>s. Same => [World!Next]_(World!vars)
    BY DEF World!vars
  <1> USE SafepointAssumption
          DEF IInv, TypeOK, FlagMatchesPC, OnlyRegisteredRun, StopMatchesPhase,
              NobodyLeaves, ScanHolds, Stopped, Terminated, AtSafepoint, PC, GC,
              threadVars, gcVars, Mutators
  <1>1. ASSUME NEW t \in Threads, Mutate(t) PROVE [World!Next]_(World!vars)
    <2>1. ASSUME NEW u \in Threads, Start(t, u) PROVE World!Enter(u)
      BY <2>1 DEF Start, World!Enter
    <2>2. CASE Terminate(t)
      <3>1. World!Leave(t)
        BY <2>2 DEF Terminate, World!Leave
      <3>2. QED
        BY <3>1 DEF World!Next
    <2>3. CASE Begin(t) \/ Joined(t) \/ EnterNative(t) \/ LeaveNative(t)
               \/ EnterGuard(t) \/ LeaveGuard(t)
      <3>1. Same
        BY <2>3 DEF Begin, Joined, EnterNative, LeaveNative, EnterGuard,
                    LeaveGuard
      <3>2. QED
        BY <3>1, <1>s
    <2>4. ASSUME NEW u \in Threads, Join(t, u) PROVE Same
      BY <2>4 DEF Join
    <2>5. QED
      BY <1>1, <2>1, <2>2, <2>3, <2>4, <1>s DEF Mutate, World!Next
  <1>2. ASSUME NEW t \in Threads, Announce(t) PROVE World!Leave(t)
    BY <1>2 DEF Announce, World!Leave
  <1>3. ASSUME NEW t \in Threads, EvaluatePredicate(t)
        PROVE  [World!Next]_(World!vars)
    <2>1. CASE checkStop
      <3>1. Same
        BY <1>3, <2>1 DEF EvaluatePredicate
      <3>2. QED
        BY <3>1, <1>s
    <2>2. CASE ~checkStop
      <3>1. World!Enter(t)
        BY <1>3, <2>2 DEF EvaluatePredicate, World!Enter
      <3>2. QED
        BY <3>1 DEF World!Next
    <2>3. QED
      BY <2>1, <2>2
  <1>4. ASSUME NEW t \in Threads,
               Poll(t) \/ Block(t) \/ SpuriousWakeup(t) \/ Reacquire(t) \/ Resume(t)
        PROVE  Same
    BY <1>4 DEF Poll, Block, SpuriousWakeup, Reacquire, Resume
  <1>5. CASE CheckTermination
    <2>1. CASE MayCollect
      <3>1. World!BeginCollect
        BY <1>5, <2>1 DEF CheckTermination, MayCollect, World!BeginCollect
      <3>2. QED
        BY <3>1 DEF World!Next
    <2>2. CASE ~MayCollect
      <3>1. Same
        BY <1>5, <2>2 DEF CheckTermination
      <3>2. QED
        BY <3>1, <1>s
    <2>3. QED
      BY <2>1, <2>2
  <1>6. CASE ProcessEnds
    <2>1. World!EndCollect
      BY <1>6 DEF ProcessEnds, World!EndCollect
    <2>2. QED
      BY <2>1 DEF World!Next
  <1>7. CASE \/ \E t \in Threads : ScanThread(t)
             \/ WorldIsStopped \/ StopEndsByExit \/ StopTimeout
             \/ OpenWorld \/ GCThreadExit \/ BeginStop \/ SetExit
             \/ UNCHANGED vars
    <2>1. Same
      BY <1>7 DEF ScanThread, WorldIsStopped, StopEndsByExit, StopTimeout,
                  OpenWorld, GCThreadExit, BeginStop, SetExit, vars
    <2>2. QED
      BY <2>1, <1>s
  <1>8. CASE NotifyAll
    <2>1. Same
      BY <1>8 DEF NotifyAll
    <2>2. QED
      BY <2>1, <1>s
  <1>9. QED
    BY <1>1, <1>2, <1>3, <1>4, <1>5, <1>6, <1>7, <1>8, <1>s
       DEF Next, Handshake, GCStep, World!Next

\* Every behaviour of the protocol is, seen through the set of threads that
\* may touch the heap, a behaviour of StopTheWorld: Collector.tla may take
\* its mutators to be still during a cycle.
THEOREM Refinement == Spec => ImplementsStopTheWorld
  BY InitImplements, StepImplements, InitIInv, NextIInv, PTL
     DEF Spec, ImplementsStopTheWorld, World!Spec

-----------------------------------------------------------------------------
(* The finalizer does not break the handshake: with it, and with the        *)
(* notifications it gets, every step is a step of Safepoint or a stutter.   *)

\* The runner only ever moves itself: by its loop, by going to sleep on its
\* condition variable, by waking up and by ending.
LEMMA RunnerSteps ==
  ASSUME RunnerStep \/ PollOfRunner \/ WakeUp
  PROVE  [Next]_vars
  <1> DEFINE Moves == Mutate(Runner) \/ Poll(Runner)
  <1>1. Runner \in Threads
    BY FinalizerAssumption, SafepointAssumption
  <1>2. Moves => Next
    BY <1>1 DEF Next
  <1>3. Loop \/ Take \/ RunOopFinalize \/ NoStop \/ After \/ WaitForObjects => UNCHANGED vars
    BY DEF Loop, Take, RunOopFinalize, NoStop, After, WaitForObjects
  <1>4. FallAsleep \/ EndOfRunner \/ WakeUp => Mutate(Runner)
    BY DEF FallAsleep, EndOfRunner, WakeUp, Mutate
  <1>5. PollOfRunner => Poll(Runner)
    BY DEF PollOfRunner
  <1>6. QED
    BY <1>2, <1>3, <1>4, <1>5 DEF RunnerStep

\* What the other threads do is what they do in Safepoint.
LEMMA OtherSteps ==
  ASSUME NEW t \in Threads,
         Unchanging(Others(t) \/ Handshake(t) \/ SpuriousWakeup(t))
  PROVE  Next
  <1>1. Runner \in Threads
    BY FinalizerAssumption, SafepointAssumption
  <1>2. Others(t) => Mutate(t) \/ Poll(t)
    BY <1>1 DEF Others, Mutate
  <1>3. Others(t) \/ Handshake(t) \/ SpuriousWakeup(t)
    BY DEF Unchanging
  <1>4. QED
    BY <1>2, <1>3 DEF Next

\* A step of the handshake with its finalizer is a step of the handshake.
LEMMA FNextImplements == [FNext]_allVars => [Next]_vars
  <1> SUFFICES ASSUME [FNext]_allVars PROVE [Next]_vars
    OBVIOUS
  <1>1. CASE RunnerStep \/ PollOfRunner \/ WakeUp
    BY <1>1, RunnerSteps
  <1>2. CASE RaiseStop
    BY <1>2 DEF RaiseStop, Next
  <1>3. CASE NotifyRunner
    BY <1>3, RunnerSteps DEF NotifyRunner
  <1>4. CASE CollectorStep
    BY <1>4 DEF CollectorStep, Next
  <1>5. CASE \E o \in Objects : Add(o)
    BY <1>5 DEF Add
  <1>6. ASSUME NEW t \in Threads,
               Unchanging(Others(t) \/ Handshake(t) \/ SpuriousWakeup(t))
        PROVE  [Next]_vars
    BY <1>6, OtherSteps
  <1>7. CASE Unchanging(SetExit)
    BY <1>7 DEF Unchanging, Next
  <1>8. CASE UNCHANGED allVars
    BY <1>8 DEF allVars
  <1>9. QED
    BY <1>1, <1>2, <1>3, <1>4, <1>5, <1>6, <1>7, <1>8 DEF FNext, Unchanging

\* The finalizer, its deque and the notifications that are sent without the
\* mutex of its condition variable leave the safepoint protocol what it is:
\* what is proved of Safepoint holds with them.
THEOREM FinalizerImplements == FSpec => Spec
  <1>1. FInit => Init
    BY DEF FInit
  <1>2. QED
    BY <1>1, FNextImplements, PTL DEF FSpec, Spec

\* A collection that runs beside the finalizer finds the world stopped too.
THEOREM FinalizerIsSafe == FSpec => []WorldStopped /\ ImplementsStopTheWorld
  BY FinalizerImplements, Safety, Refinement, PTL

\* Where the runner is when the handshake has its thread: it polls only
\* before the sleep and in a finalize(), it ends only out of its loop.
RunnerMatchesPC ==
    /\ pc[Runner] = "new" => at = "loop"
    /\ pc[Runner] = "done" => at = "end"
    /\ pc[Runner] \in {"lock", "leave"} \cup AtSafepoint => at \in {"after", "finalize"}

\* The runner is neither about to sleep nor asleep while a collection runs:
\* FinalizeRunner::add never waits for dequeMtx, and its notify_all finds
\* nobody to wake.
AddFindsNobodyAsleep == gc = "process" => at \notin {"pred", "block", "asleep"}

FinInv == IInv /\ RunnerMatchesPC

\* The runner has not started, or is about to enter its loop.
LEMMA InitFinInv == FInit => FinInv
  <1> SUFFICES ASSUME FInit PROVE FinInv
    OBVIOUS
  <1>1. IInv
    BY InitIInv DEF FInit
  <1>2. pc[Runner] \in {"new", "run"} /\ at = "loop"
    BY FinalizerAssumption, SafepointAssumption DEF FInit, Init
  <1>3. QED
    BY <1>1, <1>2 DEF FinInv, RunnerMatchesPC, AtSafepoint

\* No step of another thread moves the runner.
LEMMA OthersSpareRunner ==
  ASSUME NEW t \in Threads, t # Runner, pc \in [Threads -> PC],
         Mutate(t) \/ Poll(t) \/ Handshake(t) \/ SpuriousWakeup(t)
  PROVE  pc'[Runner] = pc[Runner]
  <1> USE FinalizerAssumption, SafepointAssumption
  <1>1. CASE Mutate(t)
    BY <1>1 DEF Mutate, Begin, Terminate, Joined, EnterNative, LeaveNative, EnterGuard,
                LeaveGuard, Start, Join
  <1>2. CASE Poll(t) \/ Handshake(t) \/ SpuriousWakeup(t)
    BY <1>2 DEF Poll, Handshake, Announce, EvaluatePredicate, Block, Reacquire, Resume,
                SpuriousWakeup
  <1>3. QED
    BY <1>1, <1>2

\* No step of the finalizer, the GC thread or another thread breaks it.
LEMMA NextFinInv == FinInv /\ [FNext]_allVars => FinInv'
  <1> SUFFICES ASSUME FinInv, [FNext]_allVars PROVE FinInv'
    OBVIOUS
  <1>0. IInv'
    BY NextIInv, FNextImplements DEF FinInv
  <1>i. Runner \in Threads /\ pc \in [Threads -> PC]
    BY FinalizerAssumption, SafepointAssumption DEF FinInv, IInv, TypeOK
  <1>1. CASE RunnerStep \/ PollOfRunner
    <2> USE <1>i DEF RunnerMatchesPC, AtSafepoint
    <2>1. ASSUME Loop \/ Take \/ RunOopFinalize \/ NoStop \/ After \/ WaitForObjects
          PROVE  RunnerMatchesPC'
      <3>1. pc[Runner] = "run" /\ pc' = pc
        BY <2>1 DEF Loop, Take, RunOopFinalize, NoStop, After, WaitForObjects, Running, vars
      <3>2. QED
        BY <3>1
    <2>2. ASSUME FallAsleep PROVE RunnerMatchesPC'
      BY <2>2 DEF FallAsleep, EnterNative
    <2>3. ASSUME EndOfRunner PROVE RunnerMatchesPC'
      BY <2>3 DEF EndOfRunner, Terminate, finVars
    <2>4. ASSUME PollOfRunner PROVE RunnerMatchesPC'
      BY <2>4 DEF PollOfRunner, Poll
    <2>5. QED
      BY <1>0, <1>1, <2>1, <2>2, <2>3, <2>4 DEF FinInv, RunnerStep
  <1>2. ASSUME WakeUp PROVE RunnerMatchesPC'
    BY <1>2, <1>i DEF RunnerMatchesPC, AtSafepoint, WakeUp, LeaveNative
  <1>3. ASSUME UNCHANGED <<pc, at>> PROVE RunnerMatchesPC'
    BY <1>3 DEF FinInv, RunnerMatchesPC
  <1>4. CASE RaiseStop \/ (\E o \in Objects : Add(o)) \/ Unchanging(SetExit)
             \/ UNCHANGED allVars
    <2>1. UNCHANGED <<pc, at>>
      BY <1>4 DEF RaiseStop, BeginStop, Add, Unchanging, SetExit, allVars, finVars, vars,
                  threadVars
    <2>2. QED
      BY <2>1, <1>3, <1>0 DEF FinInv
  <1>5. CASE NotifyRunner
    <2>1. WakeUp \/ UNCHANGED <<pc, at>>
      BY <1>5 DEF NotifyRunner, vars, finVars
    <2>2. QED
      BY <2>1, <1>2, <1>3, <1>0 DEF FinInv
  <1>6. CASE CollectorStep
    <2>1. at' = at
      BY <1>6 DEF CollectorStep, finVars
    <2>2. pc' = pc \/ NotifyAll
      BY <1>6 DEF CollectorStep, GCStep, ScanThread, WorldIsStopped, StopEndsByExit,
         StopTimeout, CheckTermination, ProcessEnds, OpenWorld, GCThreadExit, threadVars
    <2>3. CASE NotifyAll
      BY <2>1, <2>3, <1>0, <1>i DEF NotifyAll, FinInv, RunnerMatchesPC, AtSafepoint
    <2>4. QED
      BY <2>1, <2>2, <2>3, <1>3, <1>0 DEF FinInv
  <1>7. ASSUME NEW t \in Threads,
               Unchanging(Others(t) \/ Handshake(t) \/ SpuriousWakeup(t))
        PROVE  RunnerMatchesPC'
    <2>1. at' = at
      BY <1>7 DEF Unchanging, finVars
    <2>2. CASE t # Runner
      <3>1. Mutate(t) \/ Poll(t) \/ Handshake(t) \/ SpuriousWakeup(t)
        BY <1>7, <1>i DEF Unchanging, Others, Mutate
      <3>2. pc'[Runner] = pc[Runner]
        BY <2>2, <3>1, <1>i, OthersSpareRunner
      <3>3. QED
        BY <2>1, <3>2 DEF FinInv, RunnerMatchesPC
    <2>3. CASE t = Runner
      <3>1. Start(Runner, Runner) \/ Begin(Runner) \/ Handshake(Runner)
                \/ SpuriousWakeup(Runner)
        BY <1>7, <2>3 DEF Unchanging, Others
      <3>2. QED
        BY <2>1, <3>1, <1>i DEF FinInv, RunnerMatchesPC, AtSafepoint, Start, Begin,
           Handshake, Announce, EvaluatePredicate, Block, Reacquire, Resume, SpuriousWakeup
    <2>4. QED
      BY <2>2, <2>3
  <1>8. QED
    BY <1>0, <1>1, <1>2, <1>4, <1>5, <1>6, <1>7 DEF FNext, FinInv, Unchanging

\* No object is added, and no notification of FinalizeRunner::add sent, while
\* the runner is about to sleep or asleep: it has stopped before it can lock
\* dequeMtx.  Only the notifications of stopTheWorld and exit can wake it.
THEOREM NobodyAsleepAtAdd == FSpec => []AddFindsNobodyAsleep
  <1>1. FinInv => AddFindsNobodyAsleep
    <2> SUFFICES ASSUME FinInv, gc = "process" PROVE at \notin {"pred", "block", "asleep"}
      BY DEF AddFindsNobodyAsleep
    <2>1. pc[Runner] \in {"done", "new"} \cup AtSafepoint
      BY IInvImpliesWorldStopped, FinalizerAssumption, SafepointAssumption
         DEF FinInv, WorldStopped, Terminated
    <2>2. QED
      BY <2>1 DEF FinInv, RunnerMatchesPC
  <1>2. QED
    BY <1>1, InitFinInv, NextFinInv, PTL DEF FSpec

-----------------------------------------------------------------------------
(* The heap.  Closure is the least closed set above R. *)

\* A closed set above R has all of R's closure.
LEMMA ClosureIsLeast ==
  ASSUME NEW R, NEW f, NEW S \in SUBSET Oops, R \subseteq S, Closed(S, f)
  PROVE  Closure(R, f) \subseteq S
  BY DEF Closure

\* What is reachable contains where it starts,
LEMMA ClosureContains ==
  ASSUME NEW R \in SUBSET Oops, NEW f
  PROVE  R \subseteq Closure(R, f)
  BY DEF Closure

\* is closed under the fields,
LEMMA ClosureIsClosed ==
  ASSUME NEW R, NEW f \in [Oops -> SUBSET Oops]
  PROVE  Closed(Closure(R, f), f)
  BY DEF Closure, Closed

\* is a set of objects,
LEMMA ClosureIsOops ==
  ASSUME NEW R, NEW f PROVE Closure(R, f) \in SUBSET Oops
  BY DEF Closure

\* and grows with where it starts.
LEMMA ClosureIsMonotonic ==
  ASSUME NEW R \in SUBSET Oops, NEW Q \in SUBSET Oops, R \subseteq Q,
         NEW f \in [Oops -> SUBSET Oops]
  PROVE  Closure(R, f) \subseteq Closure(Q, f)
  BY ClosureIsLeast, ClosureContains, ClosureIsClosed, ClosureIsOops

-----------------------------------------------------------------------------
(* The inductive invariant *)

\* What a cycle must not delete: it is closed over objects that wait for
\* their finalizer, so that NoDangling alone is not inductive.
KeepRoots == Roots \cup Unfinalized \cup (ThreadOops \cap Held) \cup native
Keep == Closure(KeepRoots, fields)

KeepIsAllocated == Keep \subseteq allocated

\* Garbage that was not deleted yet can come back to life through the
\* string pool, so until the sweep starts its references must be good too.
Whole == Closure(KeepRoots \cup Held, fields)

WholeIsAllocated == phase # "sweep" => Whole \subseteq allocated

\* Between cycles no flag is set and no call is pending; natives hold
\* references only then.
QuietBetweenCycles ==
    /\ phase = "mutate" => traced = {} /\ pending = {}
    /\ phase # "mutate" => native = {}

\* The marking invariant: whatever must survive and was considered so far
\* is marked or about to be, and so are the references of what is marked.
MarkingIsComplete ==
    phase \in {"trace", "revive"} =>
        /\ todo \subseteq Held
        /\ Roots \subseteq traced \cup pending
        /\ \A o \in traced : fields[o] \subseteq traced \cup pending
        /\ traced \cup pending \subseteq Keep
        /\ \A o \in Held \ todo :
               ~finalized[o] \/ o \in ThreadOops => o \in traced \cup pending

\* While the sweep runs, what must survive and was not reached is marked,
\* and nothing else is.
SweepIsExact ==
    phase = "sweep" => /\ pending = {}
                       /\ todo \subseteq Held
                       /\ Keep \cap todo \subseteq traced
                       /\ traced \subseteq todo \cup {MainOop}
                       /\ traced \subseteq Keep
                       /\ Held \ todo \subseteq Keep

CollectorIInv == /\ HeapTypeOK
                 /\ MainOop \in allocated
                 /\ deque \in Seq(Oops \ {MainOop})
                 /\ PoolIsAlive
                 /\ KeepIsAllocated
                 /\ WholeIsAllocated
                 /\ QuietBetweenCycles
                 /\ MarkingIsComplete
                 /\ SweepIsExact

\* The objects a cycle must keep are closed under the fields.
LEMMA KeepFacts ==
  ASSUME HeapTypeOK
  PROVE  /\ KeepRoots \in SUBSET Oops
         /\ Keep \in SUBSET Oops
         /\ KeepRoots \subseteq Keep
         /\ Closed(Keep, fields)
         /\ Whole \in SUBSET Oops
         /\ KeepRoots \cup Held \subseteq Whole
         /\ Closed(Whole, fields)
         /\ Keep \subseteq Whole
  <1>1. KeepRoots \in SUBSET Oops /\ Held \in SUBSET Oops
    BY CollectorAssumption
       DEF HeapTypeOK, KeepRoots, Roots, Unfinalized, Held
  <1>2. /\ Keep \in SUBSET Oops /\ KeepRoots \subseteq Keep
        /\ Closed(Keep, fields)
    BY <1>1, ClosureContains, ClosureIsClosed, ClosureIsOops DEF HeapTypeOK, Keep
  <1>3. /\ Whole \in SUBSET Oops /\ KeepRoots \cup Held \subseteq Whole
        /\ Closed(Whole, fields)
    BY <1>1, ClosureContains, ClosureIsClosed, ClosureIsOops DEF HeapTypeOK, Whole
  <1>4. Keep \subseteq Whole
    BY <1>3, ClosureIsLeast DEF Keep
  <1>5. QED
    BY <1>1, <1>2, <1>3, <1>4

\* The invariant holds in the initial state.
LEMMA InitCollectorIInv == CollectorInit => CollectorIInv
  <1> SUFFICES ASSUME CollectorInit PROVE CollectorIInv
    OBVIOUS
  <1> USE CollectorAssumption DEF CollectorInit
  <1>1. HeapTypeOK
    <2>1. /\ allocated \in SUBSET Oops /\ fields \in [Oops -> SUBSET Oops]
          /\ stack \in SUBSET Oops /\ statics \in SUBSET Oops
          /\ native \in SUBSET Oops
          /\ pending \in SUBSET Oops /\ traced \in SUBSET Oops
          /\ todo \in SUBSET Oops
      OBVIOUS
    <2>2. /\ finalized \in [Oops -> BOOLEAN] /\ crashed \in BOOLEAN
          /\ pool \in SUBSET StringOops /\ live \in SUBSET ThreadOops
          /\ started \in SUBSET ThreadOops
          /\ finalizing \in Oops \cup {NoOop}
      OBVIOUS
    <2>3. deque \in Seq(Oops) /\ runs \in [Oops -> 0 .. 2] /\ phase \in Phases
      BY DEF Phases
    <2>4. QED
      BY <2>1, <2>2, <2>3 DEF HeapTypeOK
  <1>2. KeepIsAllocated /\ WholeIsAllocated
    <2>1. KeepRoots \subseteq allocated /\ Held \subseteq allocated
      BY DEF KeepRoots, Roots, Unfinalized, Held
    <2>2. Closed(allocated, fields)
      BY DEF Closed
    <2>3. QED
      BY <1>1, <2>1, <2>2, ClosureIsLeast
         DEF KeepIsAllocated, WholeIsAllocated, Keep, Whole, HeapTypeOK
  <1>3. QED
    BY <1>1, <1>2 DEF CollectorIInv, PoolIsAlive, QuietBetweenCycles,
       MarkingIsComplete, SweepIsExact

-----------------------------------------------------------------------------
(* Types *)

\* Every step keeps the types.
LEMMA TypeStep == HeapTypeOK /\ [CollectorNext]_collectorVars => HeapTypeOK'
  <1> SUFFICES ASSUME HeapTypeOK, [CollectorNext]_collectorVars PROVE HeapTypeOK'
    OBVIOUS
  <1> USE CollectorAssumption
          DEF HeapTypeOK, Phases, heapVars, rootVars, finalizerVars, cycleVars,
              Roots, Held, Mutating, Create, PushRef
  <1>1. ASSUME NEW o \in Oops, Mutator(o) PROVE HeapTypeOK'
    <2>1. CASE New(o)
      BY <2>1 DEF New
    <2>2. CASE NativeNew(o)
      BY <2>2 DEF NativeNew
    <2>3. CASE NativeReturn(o) \/ Push(o) \/ Pop(o)
      BY <2>3 DEF NativeReturn, Push, Pop
    <2>4. CASE PutStatic(o) \/ ClearStatic(o)
      BY <2>4 DEF PutStatic, ClearStatic
    <2>5. CASE Intern(o)
      BY <2>5 DEF Intern
    <2>6. CASE StartThread(o) \/ EndThread(o)
      BY <2>6 DEF StartThread, EndThread
    <2>7. QED
      BY <1>1, <2>1, <2>2, <2>3, <2>4, <2>5, <2>6 DEF Mutator
  <1>2. ASSUME NEW a \in Oops, NEW b \in Oops, PutField(a, b) \/ ClearField(a, b)
        PROVE  HeapTypeOK'
    BY <1>2 DEF PutField, ClearField
  <1>3. CASE RunFinalize
    <2>1. deque' \in Seq(Oops) /\ Head(deque) \in Oops
      BY <1>3 DEF RunFinalize
    <2>2. finalizing' \in Oops \cup {NoOop} /\ runs' \in [Oops -> 0 .. 2]
      BY <1>3, <2>1 DEF RunFinalize
    <2>3. QED
      BY <1>3, <2>1, <2>2 DEF RunFinalize
  <1>4. CASE EndFinalize
    BY <1>4 DEF EndFinalize
  <1>5. CASE StartCycle
    BY <1>5 DEF StartCycle
  <1>6. ASSUME NEW o \in Oops, TraceMarkOop(o) PROVE HeapTypeOK'
    BY <1>6 DEF TraceMarkOop
  <1>7. ASSUME NEW o \in Oops, Revive(o) PROVE HeapTypeOK'
    BY <1>7 DEF Revive
  <1>8. ASSUME NEW o \in Oops, Sweep(o) PROVE HeapTypeOK'
    BY <1>8 DEF Sweep
  <1>9. CASE RootsTraced \/ TraceEnds \/ EndCycle
    BY <1>9 DEF RootsTraced, TraceEnds, EndCycle
  <1>10. CASE UNCHANGED collectorVars
    BY <1>10 DEF collectorVars
  <1>11. QED
    BY <1>1, <1>2, <1>3, <1>4, <1>5, <1>6, <1>7, <1>8, <1>9, <1>10 DEF CollectorNext

\* Every variable keeps its type.
THEOREM HeapTypeCorrect == CollectorSpec => []HeapTypeOK
  <1>1. CollectorInit => HeapTypeOK
    BY InitCollectorIInv DEF CollectorIInv
  <1>2. QED
    BY <1>1, TypeStep, PTL DEF CollectorSpec

-----------------------------------------------------------------------------
(* Steps between cycles *)

\* To keep KeepIsAllocated and WholeIsAllocated over a step it is enough
\* to name a set of allocated oops that contains the new roots and the held
\* oops and that the new fields do not leave.
LEMMA WholeBound ==
  ASSUME HeapTypeOK', NEW S \in SUBSET Oops,
         (KeepRoots \cup Held)' \subseteq S,
         Closed(S, fields'), S \subseteq allocated'
  PROVE  KeepIsAllocated' /\ WholeIsAllocated'
  <1>1. Closure(KeepRoots', fields') \subseteq S
    BY ClosureIsLeast
  <1>2. Closure((KeepRoots \cup Held)', fields') \subseteq S
    BY ClosureIsLeast
  <1>3. QED
    BY <1>1, <1>2 DEF KeepIsAllocated, WholeIsAllocated, Keep, Whole

\* A step of a thread or of the finalizer keeps everything the invariant
\* says, once it is known to keep the references good.
LEMMA QuietStep ==
  ASSUME CollectorIInv, HeapTypeOK', KeepIsAllocated', WholeIsAllocated',
         phase = "mutate", UNCHANGED cycleVars,
         allocated \subseteq allocated', pool' \subseteq allocated',
         deque' \in Seq(Oops \ {MainOop})
  PROVE  CollectorIInv'
  BY DEF CollectorIInv, PoolIsAlive, QuietBetweenCycles, MarkingIsComplete,
         SweepIsExact, cycleVars

\* A step that creates nothing, stores nothing and gives the threads only
\* references to what exists.
LEMMA NoNewEdge ==
  ASSUME CollectorIInv, HeapTypeOK', phase = "mutate", UNCHANGED <<allocated, fields>>,
         KeepRoots' \subseteq Whole
  PROVE  KeepIsAllocated' /\ WholeIsAllocated'
  <1>1. /\ Whole \in SUBSET Oops /\ Closed(Whole, fields)
        /\ Held \subseteq Whole
    BY KeepFacts DEF CollectorIInv
  <1>2. /\ Whole \subseteq allocated' /\ Closed(Whole, fields')
        /\ Held' = Held
    BY <1>1 DEF CollectorIInv, WholeIsAllocated, Held
  <1>3. QED
    BY <1>1, <1>2, WholeBound

\* What a thread does with an object keeps the invariant.
LEMMA MutatorStep ==
  ASSUME CollectorIInv, NEW o \in Oops, Mutator(o)
  PROVE  CollectorIInv'
  <1>t. HeapTypeOK /\ HeapTypeOK'
    <2>1. [CollectorNext]_collectorVars
      BY DEF CollectorNext
    <2>2. QED
      BY <2>1, TypeStep DEF CollectorIInv
  <1>p. phase = "mutate"
    BY DEF Mutator, Mutating, New, NativeNew, NativeReturn, Push, Pop,
       PutStatic, ClearStatic, Intern, StartThread, EndThread
  <1>k. /\ KeepRoots \subseteq Whole /\ Held \subseteq Whole
        /\ Whole \in SUBSET Oops
        /\ Closed(Whole, fields)
        /\ Whole \subseteq allocated
    BY <1>t, <1>p, KeepFacts DEF CollectorIInv, WholeIsAllocated
  <1>q. /\ pool \subseteq allocated /\ MainOop \in allocated
        /\ allocated \subseteq Oops
    BY <1>t DEF CollectorIInv, PoolIsAlive, HeapTypeOK
  <1>1. CASE New(o) \/ NativeNew(o) \/ Intern(o)
    <2> DEFINE S == Whole \cup {o}
    <2>1. /\ UNCHANGED cycleVars /\ pool' \subseteq pool \cup {o}
          /\ allocated' = allocated \cup {o} /\ o \notin allocated
          /\ fields' = [fields EXCEPT ![o] = {}]
          /\ finalized' = [finalized EXCEPT ![o] = o \notin Finalizable]
      BY <1>1, <1>q DEF New, NativeNew, Intern, Create
    <2>2. /\ stack' \subseteq stack \cup {o} /\ native' \subseteq native \cup {o}
          /\ statics' = statics /\ live' = live /\ finalizing' = finalizing
      BY <1>1 DEF New, NativeNew, Intern, PushRef, finalizerVars
    <2>3. (KeepRoots \cup Held)' \subseteq S
      <3>1. Roots' \subseteq Roots \cup {o}
        BY <2>2 DEF Roots
      <3>2. Held' \subseteq Held \cup {o}
        BY <2>1 DEF Held
      <3>3. Unfinalized' \subseteq Held' /\ (ThreadOops \cap Held)' \subseteq Held'
        BY DEF Unfinalized
      <3>4. QED
        BY <3>1, <3>2, <3>3, <2>2, <1>k DEF KeepRoots
    <2>4. Closed(S, fields')
      BY <2>1, <1>k, <1>t DEF Closed, HeapTypeOK
    <2>5. S \in SUBSET Oops /\ S \subseteq allocated'
      BY <2>1, <1>k
    <2>6. KeepIsAllocated' /\ WholeIsAllocated'
      BY <1>t, <2>3, <2>4, <2>5, WholeBound
    <2>7. deque' = deque
      BY <1>1 DEF New, NativeNew, Intern, finalizerVars
    <2>8. QED
      BY <1>t, <1>p, <1>q, <2>1, <2>6, <2>7, QuietStep DEF CollectorIInv
  <1>2. CASE ~(New(o) \/ NativeNew(o) \/ Intern(o))
    <2>1. /\ UNCHANGED cycleVars /\ UNCHANGED heapVars
          /\ pool' = pool
          /\ finalizing' = finalizing /\ deque' = deque
      BY <1>2, <1>q DEF Mutator, NativeReturn, Push, Pop, PutStatic,
         ClearStatic, StartThread, EndThread, PushRef,
         rootVars, finalizerVars
    <2>2. /\ stack' \subseteq stack \cup {o} /\ native' \subseteq native
          /\ statics' \subseteq statics \cup {o} /\ live' \subseteq live \cup {o}
          /\ o \in Whole \/ (stack' \subseteq stack /\ statics' \subseteq statics
                                /\ live' \subseteq live)
      <3>1. CASE NativeReturn(o)
        BY <3>1, <1>k DEF NativeReturn, PushRef, KeepRoots
      <3>2. CASE Push(o)
        <4>1. CASE \E a \in stack : o \in fields[a]
          <5>1. stack \subseteq Whole
            BY <1>k DEF KeepRoots, Roots
          <5>2. o \in Whole
            BY <4>1, <5>1, <1>k DEF Closed
          <5>3. QED
            BY <3>2, <5>2 DEF Push, PushRef
        <4>2. CASE o \in statics \/ o \in live \/ o = finalizing
          <5>1. o \in Whole
            BY <4>2, <1>k, CollectorAssumption DEF KeepRoots, Roots
          <5>2. QED
            BY <3>2, <5>1 DEF Push, PushRef
        <4>3. CASE o \in pool
          <5>1. o \in Held
            BY <4>3, <1>q, <1>t, CollectorAssumption DEF HeapTypeOK, Held
          <5>2. QED
            BY <3>2, <5>1, <1>k DEF Push, PushRef
        <4>4. QED
          BY <3>2, <4>1, <4>2, <4>3 DEF Push, Obtainable
      <3>3. CASE Pop(o) \/ ClearStatic(o) \/ EndThread(o)
        BY <3>3 DEF Pop, ClearStatic, EndThread
      <3>4. CASE PutStatic(o) \/ StartThread(o)
        BY <3>4, <1>k DEF PutStatic, StartThread, KeepRoots, Roots
      <3>5. QED
        BY <1>2, <3>1, <3>2, <3>3, <3>4 DEF Mutator
    <2>3. KeepRoots' \subseteq Whole
      <3>1. Roots' \subseteq Whole
        BY <2>1, <2>2, <1>k DEF Roots, KeepRoots
      <3>2. QED
        BY <3>1, <2>1, <2>2, <1>k DEF KeepRoots, Unfinalized, Held, heapVars
    <2>4. KeepIsAllocated' /\ WholeIsAllocated'
      BY <1>t, <1>p, <2>1, <2>3, NoNewEdge DEF heapVars
    <2>5. pool' \subseteq allocated'
      BY <2>1, <1>q DEF heapVars
    <2>6. QED
      BY <1>t, <1>p, <2>1, <2>4, <2>5, QuietStep DEF heapVars, CollectorIInv
  <1>3. QED
    BY <1>1, <1>2

\* Writing a field keeps it: what is stored was held.
LEMMA FieldStep ==
  ASSUME CollectorIInv, NEW a \in Oops, NEW b \in Oops,
         PutField(a, b) \/ ClearField(a, b)
  PROVE  CollectorIInv'
  <1>t. HeapTypeOK /\ HeapTypeOK'
    <2>1. [CollectorNext]_collectorVars
      BY DEF CollectorNext
    <2>2. QED
      BY <2>1, TypeStep DEF CollectorIInv
  <1>1. /\ phase = "mutate" /\ UNCHANGED cycleVars /\ UNCHANGED rootVars
        /\ UNCHANGED <<allocated, finalized, pool, finalizing, deque>>
        /\ a \in stack
        /\ fields'[a] \subseteq fields[a] \cup (stack \cap {b})
        /\ \A o \in Oops \ {a} : fields'[o] = fields[o]
    BY <1>t DEF PutField, ClearField, Mutating, finalizerVars, HeapTypeOK
  <1>2. /\ KeepRoots \cup Held \subseteq Whole
        /\ Whole \in SUBSET Oops
        /\ Closed(Whole, fields)
        /\ Whole \subseteq allocated
    BY <1>t, <1>1, KeepFacts DEF CollectorIInv, WholeIsAllocated
  <1>3. (KeepRoots \cup Held)' \subseteq Whole
    BY <1>1, <1>2 DEF KeepRoots, Roots, Unfinalized, Held, rootVars
  <1>4. Closed(Whole, fields')
    <2>1. stack \subseteq Whole
      BY <1>2 DEF KeepRoots, Roots
    <2>2. QED
      BY <2>1, <1>1, <1>2 DEF Closed
  <1>5. KeepIsAllocated' /\ WholeIsAllocated'
    BY <1>t, <1>1, <1>2, <1>3, <1>4, WholeBound
  <1>6. QED
    BY <1>t, <1>1, <1>5, QuietStep DEF CollectorIInv, PoolIsAlive, rootVars

\* The finalizer thread keeps it: it held the object already.
LEMMA FinalizerStep ==
  ASSUME CollectorIInv, RunFinalize \/ EndFinalize
  PROVE  CollectorIInv'
  <1>t. HeapTypeOK /\ HeapTypeOK'
    <2>1. [CollectorNext]_collectorVars
      BY DEF CollectorNext
    <2>2. QED
      BY <2>1, TypeStep DEF CollectorIInv
  <1>1. /\ phase = "mutate" /\ UNCHANGED cycleVars /\ UNCHANGED rootVars
        /\ UNCHANGED <<allocated, fields, pool>>
        /\ \A o \in Oops : finalized[o] => finalized'[o]
    BY <1>t DEF RunFinalize, EndFinalize, Mutating, HeapTypeOK
  <1>q. /\ deque' \in Seq(Oops \ {MainOop})
        /\ finalizing' \in Held \cup {finalizing, NoOop}
    <2>1. CASE RunFinalize
      <3>1. /\ Head(deque) \in Oops \ {MainOop}
            /\ Tail(deque) \in Seq(Oops \ {MainOop})
        BY <2>1 DEF RunFinalize, CollectorIInv
      <3>2. QED
        BY <2>1, <3>1 DEF RunFinalize, Held
    <2>2. CASE EndFinalize
      BY <2>2 DEF EndFinalize, CollectorIInv
    <2>3. QED
      BY <2>1, <2>2
  <1>2. /\ KeepRoots \cup Held \subseteq Whole
        /\ Whole \in SUBSET Oops
    BY <1>t, KeepFacts
  <1>3. KeepRoots' \subseteq Whole
    <2>1. Held' = Held /\ Unfinalized' \subseteq Held
      BY <1>1 DEF Held, Unfinalized
    <2>2. finalizing' # NoOop => finalizing' \in Whole
      BY <1>q, <1>2 DEF KeepRoots, Roots
    <2>3. QED
      BY <2>1, <2>2, <1>1, <1>2 DEF KeepRoots, Roots, rootVars
  <1>4. KeepIsAllocated' /\ WholeIsAllocated'
    BY <1>t, <1>1, <1>3, NoNewEdge
  <1>5. QED
    BY <1>t, <1>1, <1>q, <1>4, QuietStep DEF CollectorIInv, PoolIsAlive, rootVars

-----------------------------------------------------------------------------
(* Steps of a cycle *)

\* Before the sweep a cycle changes neither the heap nor the roots, hence
\* none of the sets the invariant speaks of.
LEMMA CycleStep ==
  ASSUME CollectorIInv, HeapTypeOK', UNCHANGED heapVars, UNCHANGED rootVars,
         UNCHANGED <<finalizing, pool>>,
         phase # "sweep", deque' \in Seq(Oops \ {MainOop})
  PROVE  /\ Keep' = Keep /\ Held' = Held /\ Roots' = Roots
         /\ native' = native
         /\ PoolIsAlive'
         /\ KeepIsAllocated' /\ WholeIsAllocated'
         /\ MainOop \in allocated'
  <1>1. Roots' = Roots /\ Held' = Held /\ KeepRoots' = KeepRoots
    BY DEF Roots, Held, KeepRoots, Unfinalized, heapVars, rootVars
  <1>2. Keep' = Keep /\ Whole' = Whole
    BY <1>1 DEF Keep, Whole, heapVars
  <1>3. QED
    BY <1>1, <1>2 DEF CollectorIInv, KeepIsAllocated, WholeIsAllocated, PoolIsAlive,
       heapVars, rootVars

\* A cycle starts with the roots to be traced.
LEMMA StartCycleStep == CollectorIInv /\ StartCycle => CollectorIInv'
  <1> SUFFICES ASSUME CollectorIInv, StartCycle PROVE CollectorIInv'
    OBVIOUS
  <1>1. HeapTypeOK /\ HeapTypeOK'
    <2>1. [CollectorNext]_collectorVars
      BY DEF CollectorNext
    <2>2. QED
      BY <2>1, TypeStep DEF CollectorIInv
  <1>2. /\ phase = "mutate" /\ phase' = "trace" /\ native = {}
        /\ pending' = Roots /\ todo' = Held /\ traced' = {}
        /\ UNCHANGED heapVars /\ UNCHANGED rootVars
        /\ UNCHANGED <<finalizing, pool, deque>>
    BY DEF StartCycle, Mutating, CollectorIInv, QuietBetweenCycles, finalizerVars
  <1>3. /\ Keep' = Keep /\ Held' = Held /\ Roots' = Roots
        /\ native' = native
        /\ PoolIsAlive' /\ KeepIsAllocated' /\ WholeIsAllocated'
        /\ MainOop \in allocated'
    BY <1>1, <1>2, CycleStep DEF CollectorIInv
  <1>4. Roots \subseteq Keep
    BY <1>1, KeepFacts DEF KeepRoots
  <1>5. MarkingIsComplete' /\ SweepIsExact' /\ QuietBetweenCycles'
    BY <1>2, <1>3, <1>4
       DEF MarkingIsComplete, SweepIsExact, QuietBetweenCycles
  <1>6. QED
    BY <1>1, <1>2, <1>3, <1>5 DEF CollectorIInv

\* Tracing an object leaves its fields to be traced.
LEMMA TraceMarkOopStep ==
  ASSUME CollectorIInv, NEW o \in Oops, TraceMarkOop(o) PROVE CollectorIInv'
  <1>1. HeapTypeOK /\ HeapTypeOK'
    <2>1. [CollectorNext]_collectorVars
      BY DEF CollectorNext
    <2>2. QED
      BY <2>1, TypeStep DEF CollectorIInv
  <1>2. /\ phase \in {"trace", "revive"} /\ phase' = phase /\ o \in pending
        /\ UNCHANGED heapVars /\ UNCHANGED rootVars
        /\ UNCHANGED <<finalizing, pool, deque, todo>>
        /\ traced' = traced \cup {o}
        /\ o \in traced => pending' = pending \ {o}
        /\ o \notin traced => pending' = (pending \ {o}) \cup fields[o]
    BY DEF TraceMarkOop, finalizerVars
  <1>3. /\ Keep' = Keep /\ Held' = Held /\ Roots' = Roots
        /\ native' = native
        /\ PoolIsAlive' /\ KeepIsAllocated' /\ WholeIsAllocated'
        /\ MainOop \in allocated'
    BY <1>1, <1>2, CycleStep DEF CollectorIInv
  <1>4. fields[o] \subseteq Keep
    BY <1>1, <1>2, KeepFacts DEF CollectorIInv, MarkingIsComplete, Closed
  <1>5. MarkingIsComplete'
    BY <1>2, <1>3, <1>4 DEF CollectorIInv, MarkingIsComplete, heapVars
  <1>6. SweepIsExact' /\ QuietBetweenCycles'
    BY <1>2, <1>3 DEF CollectorIInv, SweepIsExact, QuietBetweenCycles
  <1>7. QED
    BY <1>1, <1>2, <1>3, <1>5, <1>6 DEF CollectorIInv

\* An object to be finalized is traced again.
LEMMA ReviveStep ==
  ASSUME CollectorIInv, NEW o \in Oops, Revive(o) PROVE CollectorIInv'
  <1>1. HeapTypeOK /\ HeapTypeOK'
    <2>1. [CollectorNext]_collectorVars
      BY DEF CollectorNext
    <2>2. QED
      BY <2>1, TypeStep DEF CollectorIInv
  <1>2. /\ phase = "revive" /\ phase' = phase /\ pending = {} /\ o \in todo
        /\ UNCHANGED heapVars /\ UNCHANGED rootVars
        /\ UNCHANGED <<finalizing, pool, traced>>
        /\ todo' = todo \ {o}
        /\ pending' \subseteq {o}
        /\ ~finalized[o] \/ o \in ThreadOops => o \in pending'
        /\ o \in pending' => ~finalized[o] \/ o \in ThreadOops
    BY DEF Revive
  <1>3. o \in Held
    BY <1>2 DEF CollectorIInv, MarkingIsComplete
  <1>4. deque' \in Seq(Oops \ {MainOop})
    BY <1>3 DEF Revive, CollectorIInv, Held
  <1>5. /\ Keep' = Keep /\ Held' = Held /\ Roots' = Roots
        /\ native' = native
        /\ PoolIsAlive' /\ KeepIsAllocated' /\ WholeIsAllocated'
        /\ MainOop \in allocated'
    BY <1>1, <1>2, <1>4, CycleStep
  <1>6. pending' \subseteq Keep
    BY <1>1, <1>2, <1>3, KeepFacts DEF KeepRoots, Unfinalized
  <1>7. MarkingIsComplete'
    BY <1>2, <1>3, <1>5, <1>6 DEF CollectorIInv, MarkingIsComplete, heapVars
  <1>8. SweepIsExact' /\ QuietBetweenCycles'
    BY <1>2, <1>5 DEF CollectorIInv, SweepIsExact, QuietBetweenCycles
  <1>9. QED
    BY <1>1, <1>4, <1>5, <1>7, <1>8 DEF CollectorIInv

\* When no call is pending, what the roots reach is traced.
LEMMA RootsTracedStep == CollectorIInv /\ RootsTraced => CollectorIInv'
  <1> SUFFICES ASSUME CollectorIInv, RootsTraced PROVE CollectorIInv'
    OBVIOUS
  <1>1. HeapTypeOK /\ HeapTypeOK'
    <2>1. [CollectorNext]_collectorVars
      BY DEF CollectorNext
    <2>2. QED
      BY <2>1, TypeStep DEF CollectorIInv
  <1>2. /\ phase = "trace" /\ phase' = "revive"
        /\ UNCHANGED heapVars /\ UNCHANGED rootVars
        /\ UNCHANGED <<finalizing, pool, deque, pending, traced, todo>>
    BY DEF RootsTraced, finalizerVars
  <1>3. /\ Keep' = Keep /\ Held' = Held /\ Roots' = Roots
        /\ native' = native
        /\ PoolIsAlive' /\ KeepIsAllocated' /\ WholeIsAllocated'
        /\ MainOop \in allocated'
    BY <1>1, <1>2, CycleStep DEF CollectorIInv
  <1>4. QED
    BY <1>1, <1>2, <1>3 DEF CollectorIInv, MarkingIsComplete, SweepIsExact,
       QuietBetweenCycles, heapVars

\* When the marking is over, what must survive is exactly what is marked.
LEMMA TraceEndsStep == CollectorIInv /\ TraceEnds => CollectorIInv'
  <1> SUFFICES ASSUME CollectorIInv, TraceEnds PROVE CollectorIInv'
    OBVIOUS
  <1>1. HeapTypeOK /\ HeapTypeOK'
    <2>1. [CollectorNext]_collectorVars
      BY DEF CollectorNext
    <2>2. QED
      BY <2>1, TypeStep DEF CollectorIInv
  <1>2. /\ phase = "revive" /\ phase' = "sweep" /\ pending = {} /\ todo = {}
        /\ todo' = Held
        /\ UNCHANGED heapVars /\ UNCHANGED rootVars
        /\ UNCHANGED <<finalizing, pool, deque, pending, traced>>
    BY DEF TraceEnds, finalizerVars
  <1>3. /\ Keep' = Keep /\ Held' = Held
        /\ native' = native
        /\ PoolIsAlive' /\ KeepIsAllocated' /\ WholeIsAllocated'
        /\ MainOop \in allocated'
    BY <1>1, <1>2, CycleStep DEF CollectorIInv
  <1>4. Keep \subseteq traced
    <2>1. KeepRoots \subseteq traced
      BY <1>2 DEF CollectorIInv, MarkingIsComplete, QuietBetweenCycles, KeepRoots,
         Unfinalized
    <2>2. Closed(traced, fields)
      BY <1>2 DEF CollectorIInv, MarkingIsComplete, Closed
    <2>3. QED
      BY <1>1, <2>1, <2>2, ClosureIsLeast DEF Keep, HeapTypeOK
  <1>5. traced \subseteq Keep /\ traced \subseteq Held \cup {MainOop}
    BY <1>2 DEF CollectorIInv, MarkingIsComplete, KeepIsAllocated, Held
  <1>6. SweepIsExact' /\ MarkingIsComplete' /\ QuietBetweenCycles'
    BY <1>2, <1>3, <1>4, <1>5
       DEF CollectorIInv, SweepIsExact, MarkingIsComplete, QuietBetweenCycles
  <1>7. QED
    BY <1>1, <1>2, <1>3, <1>6 DEF CollectorIInv

\* The sweep deletes nothing that must survive; deleting the rest changes
\* neither the roots nor what can be reached from them.
LEMMA SweepStep ==
  ASSUME CollectorIInv, NEW o \in Oops, Sweep(o) PROVE CollectorIInv'
  <1>1. HeapTypeOK /\ HeapTypeOK'
    <2>1. [CollectorNext]_collectorVars
      BY DEF CollectorNext
    <2>2. QED
      BY <2>1, TypeStep DEF CollectorIInv
  <1>2. /\ phase = "sweep" /\ phase' = "sweep" /\ o \in todo
        /\ todo' = todo \ {o}
        /\ UNCHANGED <<fields, finalized, finalizing, pending, deque>>
        /\ UNCHANGED rootVars
        /\ o \in traced => /\ traced' = traced \ {o}
                           /\ UNCHANGED <<allocated, pool>>
        /\ o \notin traced => /\ traced' = traced
                              /\ allocated' = allocated \ {o}
                              /\ pool' \subseteq pool
                              /\ o \in StringOops => o \notin pool'
    BY DEF Sweep, finalizerVars
  <1>3. /\ KeepRoots \subseteq Keep /\ o \in Held
        /\ o \in Keep => o \in traced
    BY <1>1, <1>2, KeepFacts DEF CollectorIInv, SweepIsExact
  <1>4. KeepRoots' = KeepRoots
    <2>1. Roots' = Roots /\ native' = native
      BY <1>2 DEF Roots, rootVars
    <2>2. CASE o \in traced
      BY <1>2, <2>1, <2>2 DEF KeepRoots, Unfinalized, Held
    <2>3. CASE o \notin traced
      <3>1. o \notin Unfinalized /\ o \notin ThreadOops \cap Held
        BY <1>3, <2>3 DEF KeepRoots
      <3>2. Unfinalized' = Unfinalized /\ (ThreadOops \cap Held)' = ThreadOops \cap Held
        BY <1>2, <2>3, <3>1 DEF Unfinalized, Held
      <3>3. QED
        BY <2>1, <3>2 DEF KeepRoots
    <2>4. QED
      BY <2>2, <2>3
  <1>5. Keep' = Keep
    BY <1>2, <1>4 DEF Keep
  <1>6. KeepIsAllocated' /\ WholeIsAllocated'
    BY <1>2, <1>3, <1>5 DEF CollectorIInv, KeepIsAllocated, WholeIsAllocated
  <1>7. PoolIsAlive'
    BY <1>1, <1>2 DEF CollectorIInv, PoolIsAlive, HeapTypeOK
  <1>8. SweepIsExact'
    BY <1>2, <1>3, <1>5 DEF CollectorIInv, SweepIsExact, Held
  <1>9. MarkingIsComplete' /\ QuietBetweenCycles'
        /\ MainOop \in allocated'
    BY <1>2, <1>3 DEF CollectorIInv, MarkingIsComplete, QuietBetweenCycles, rootVars, Held
  <1>10. QED
    BY <1>1, <1>2, <1>6, <1>7, <1>8, <1>9 DEF CollectorIInv

\* What a cycle deletes is reachable from nothing.
LEMMA EndCycleStep == CollectorIInv /\ EndCycle => CollectorIInv'
  <1> SUFFICES ASSUME CollectorIInv, EndCycle PROVE CollectorIInv'
    OBVIOUS
  <1>1. HeapTypeOK /\ HeapTypeOK'
    <2>1. [CollectorNext]_collectorVars
      BY DEF CollectorNext
    <2>2. QED
      BY <2>1, TypeStep DEF CollectorIInv
  <1>2. /\ phase = "sweep" /\ phase' = "mutate" /\ todo = {}
        /\ traced' = traced \ {MainOop}
        /\ UNCHANGED heapVars /\ UNCHANGED rootVars
        /\ UNCHANGED <<finalizing, pool, deque, pending>>
    BY DEF EndCycle, finalizerVars
  <1>3. Held' = Held /\ KeepRoots' = KeepRoots
    BY <1>2 DEF Roots, Held, KeepRoots, Unfinalized, heapVars, rootVars
  <1>4. /\ KeepRoots \cup Held \subseteq Keep /\ Closed(Keep, fields)
        /\ Keep \in SUBSET Oops /\ Keep \subseteq allocated
    BY <1>1, <1>2, KeepFacts DEF CollectorIInv, SweepIsExact, KeepIsAllocated
  <1>5. KeepIsAllocated' /\ WholeIsAllocated'
    BY <1>1, <1>2, <1>3, <1>4, WholeBound DEF heapVars
  <1>6. QED
    BY <1>1, <1>2, <1>5 DEF CollectorIInv, SweepIsExact, MarkingIsComplete,
       QuietBetweenCycles, PoolIsAlive, heapVars, rootVars

\* Every step keeps the invariant.
LEMMA NextCollectorIInv == CollectorIInv /\ [CollectorNext]_collectorVars => CollectorIInv'
  <1> SUFFICES ASSUME CollectorIInv, [CollectorNext]_collectorVars PROVE CollectorIInv'
    OBVIOUS
  <1>1. CASE UNCHANGED collectorVars
    BY <1>1 DEF CollectorIInv, HeapTypeOK, PoolIsAlive, KeepIsAllocated, WholeIsAllocated,
       QuietBetweenCycles, MarkingIsComplete, SweepIsExact, Keep, Whole,
       KeepRoots, Roots, Unfinalized, Held, collectorVars
  <1>2. QED
    BY <1>1, MutatorStep, FieldStep, FinalizerStep, StartCycleStep,
       TraceMarkOopStep, ReviveStep, RootsTracedStep, TraceEndsStep,
       SweepStep, EndCycleStep DEF CollectorNext

\* The inductive invariant of the collector holds in every state.
LEMMA InductiveInvariant == CollectorSpec => []CollectorIInv
  <1>1. CollectorIInv /\ [CollectorNext]_collectorVars => CollectorIInv'
    BY NextCollectorIInv
  <1>2. QED
    BY <1>1, InitCollectorIInv, PTL DEF CollectorSpec

-----------------------------------------------------------------------------
(* What follows from it *)

\* What a program can reach is what a cycle must keep.
LEMMA ReachableIsKept ==
  ASSUME HeapTypeOK PROVE Reachable \subseteq Keep
  <1>1. Roots \subseteq KeepRoots /\ Keep \in SUBSET Oops
        /\ KeepRoots \subseteq Keep /\ Closed(Keep, fields)
    BY KeepFacts DEF KeepRoots
  <1>2. QED
    BY <1>1, ClosureIsLeast DEF Reachable

\* The collector is sound: for any heap and any program, nothing a thread
\* can reach is ever deleted, not even while a sweep is half done.
THEOREM Soundness == CollectorSpec => []NoDangling
  <1>1. CollectorIInv => NoDangling
    BY ReachableIsKept DEF CollectorIInv, KeepIsAllocated, NoDangling
  <1>2. QED
    BY <1>1, InductiveInvariant, PTL

\* The collector never looks into a deleted oop.
THEOREM TraceSafety == CollectorSpec => []TraceTouchesLive
  <1>1. CollectorIInv => TraceTouchesLive
    BY DEF CollectorIInv, TraceTouchesLive, HeapTypeOK, Phases, QuietBetweenCycles,
       MarkingIsComplete, SweepIsExact, KeepIsAllocated
  <1>2. QED
    BY <1>1, InductiveInvariant, PTL

\* The string pool, though it is no root, never lists a deleted string.
THEOREM PoolSafety == CollectorSpec => []PoolIsAlive
  <1>1. CollectorIInv => PoolIsAlive
    BY DEF CollectorIInv
  <1>2. QED
    BY <1>1, InductiveInvariant, PTL

\* No TRACED flag is left over from a cycle.
THEOREM FlagsCleared == CollectorSpec => []FlagsAreClear
  <1>1. CollectorIInv => FlagsAreClear
    BY DEF CollectorIInv, QuietBetweenCycles, FlagsAreClear
  <1>2. QED
    BY <1>1, InductiveInvariant, PTL

\* The collector is complete: a cycle deletes everything that is neither
\* reachable, nor waiting for its finalizer, nor kept for a Thread object.
THEOREM Completeness == CollectorSpec => []GarbageIsFreed
  <1>1. CollectorIInv => GarbageIsFreed
    <2> SUFFICES ASSUME CollectorIInv, phase = "sweep", todo = {} PROVE Held \subseteq Kept
      BY DEF GarbageIsFreed
    <2>1. KeepRoots = Roots \cup Unfinalized \cup (ThreadOops \cap Held)
      BY DEF CollectorIInv, QuietBetweenCycles, KeepRoots
    <2>2. Keep = Kept
      BY <2>1 DEF Keep, Kept
    <2>3. QED
      BY <2>2 DEF CollectorIInv, SweepIsExact
  <1>2. QED
    BY <1>1, InductiveInvariant, PTL
=============================================================================
