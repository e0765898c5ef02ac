------------------------------ MODULE Safepoint ------------------------------
(***************************************************************************)
(* The safepoint handshake between the GC thread and the VM threads:       *)
(* GarbageCollect::{checkStopForCollect, stopTheWorld,                     *)
(* checkTerminationCollect, startTheWorld, run} of garbage_collect.cpp     *)
(* with the part of ThreadManager and VMThread (thread.cpp) they read.     *)
(* enableGC is TRUE.  The collection itself is one phase of the GC         *)
(* thread; Collector.tla refines what happens in it.                       *)
(*                                                                         *)
(* A VM thread is at one of these control points:                          *)
(*   new     not running yet (it may be registered already)                *)
(*   run     executes bytecode or a native method                          *)
(*   join    blocked until another thread has terminated                   *)
(*   native  blocked in a native method (sleep, a condition variable)      *)
(*   lock    has read checkStop = TRUE, wants checkStopMtx                 *)
(*   pred    holds checkStopMtx, evaluates the predicate of the wait       *)
(*   block   holds it, saw checkStop = TRUE, about to sleep                *)
(*   wait    asleep on checkStopCv                                         *)
(*   woken   woken up, wants checkStopMtx back                             *)
(*   leave   holds it, saw checkStop = FALSE, flag not cleared yet         *)
(*   done    terminated                                                    *)
(***************************************************************************)
EXTENDS Naturals

CONSTANTS Threads,        \* the VM threads (VMThread objects)
          Main,           \* the one registered when the model starts
          Daemons,        \* VM::joinThreads does not wait for these
          None,           \* no thread
          MaxNest,        \* bound: ThreadSafeGuards one thread nests
          Brief           \* control points no thread stays at for the 5 s
                          \* of collectSleepTime (a timing assumption)

ASSUME SafepointAssumption == /\ Main \in Threads
                              /\ Daemons \subseteq Threads
                              /\ None \notin Threads
                              /\ MaxNest \in Nat
                              /\ "leave" \in Brief

VARIABLES checkStop,      \* GarbageCollect::checkStop
          mtx,            \* owner of checkStopMtx
          stopForCollect, \* VMThread::stopForCollect
          gcSafe,         \* VMThread::gcSafe
          guards,         \* the ThreadSafeGuards the thread is inside: how many
                          \* are open; whether one ended in the innermost
          registered,     \* ThreadManager::threads
          pc,             \* control point of each VM thread
          joining,        \* the thread a thread at "join" waits for
          gc,             \* control point of the GC thread
          scanned,        \* threads checkAllThreadStopForCollect has passed
          exit            \* VM::exit

vars == <<checkStop, mtx, stopForCollect, gcSafe, guards, registered, pc,
          joining, gc, scanned, exit>>

threadVars == <<mtx, stopForCollect, gcSafe, guards, registered, pc, joining>>
gcVars == <<checkStop, gc, scanned>>

PC == {"new", "run", "join", "native", "lock", "pred", "block", "wait",
       "woken", "leave", "done"}

GC == {"sleep", "scan", "check", "process", "open", "notify", "exit"}

\* Inside the wait of checkStopForCollect: the thread does not move on
\* before it has read checkStop = FALSE.
AtSafepoint == {"pred", "block", "wait", "woken"}

Terminated(t) == pc[t] = "done"

Init == /\ checkStop = FALSE
        /\ mtx = None
        /\ stopForCollect = [t \in Threads |-> FALSE]
        /\ gcSafe = [t \in Threads |-> TRUE]
        /\ guards = [t \in Threads |-> [open |-> 0, ended |-> FALSE]]
        /\ registered = {Main}
        /\ pc = [t \in Threads |-> IF t = Main THEN "run" ELSE "new"]
        /\ joining = [t \in Threads |-> None]
        /\ gc = "sleep"
        /\ scanned = {}
        /\ exit = FALSE

-----------------------------------------------------------------------------
(* VM threads: life cycle *)

\* VMThread::start of u, called by t: addThread takes threadsMtx, which a
\* scan in progress holds.
Start(t, u) ==
    /\ pc[t] = "run"
    /\ pc[u] = "new"
    /\ u \notin registered
    /\ ~(gc = "scan" /\ scanned # {})
    /\ registered' = registered \cup {u}
    /\ UNCHANGED <<mtx, stopForCollect, gcSafe, guards, pc, joining, exit>>
    /\ UNCHANGED gcVars

\* VMThread::run begins on the new native thread.
Begin(t) ==
    /\ pc[t] = "new"
    /\ t \in registered
    /\ pc' = [pc EXCEPT ![t] = "run"]
    /\ UNCHANGED <<mtx, stopForCollect, gcSafe, guards, registered, joining, exit>>
    /\ UNCHANGED gcVars

\* VMThread::run ends with setStatus(TERMINATED).
Terminate(t) ==
    /\ pc[t] = "run"
    /\ guards[t].open = 0
    /\ pc' = [pc EXCEPT ![t] = "done"]
    /\ UNCHANGED <<mtx, stopForCollect, gcSafe, guards, registered, joining, exit>>
    /\ UNCHANGED gcVars

\* Java's Thread.join, Object.wait on the thread u until u notifies as it
\* ends: no safepoint is reached while u is alive.
Join(t, u) ==
    /\ pc[t] = "run"
    /\ u \in registered \ {t}
    /\ pc' = [pc EXCEPT ![t] = "join"]
    /\ joining' = [joining EXCEPT ![t] = u]
    /\ UNCHANGED <<mtx, stopForCollect, gcSafe, guards, registered, exit>>
    /\ UNCHANGED gcVars

Joined(t) ==
    /\ pc[t] = "join"
    /\ Terminated(joining[t])
    /\ pc' = [pc EXCEPT ![t] = "run"]
    /\ joining' = [joining EXCEPT ![t] = None]
    /\ UNCHANGED <<mtx, stopForCollect, gcSafe, guards, registered, exit>>
    /\ UNCHANGED gcVars

\* Thread.sleep, Object.wait, the finalizer's own wait: neither entering
\* nor leaving looks at checkStop.
EnterNative(t) ==
    /\ pc[t] = "run"
    /\ pc' = [pc EXCEPT ![t] = "native"]
    /\ UNCHANGED <<mtx, stopForCollect, gcSafe, guards, registered, joining, exit>>
    /\ UNCHANGED gcVars

LeaveNative(t) ==
    /\ pc[t] = "native"
    /\ pc' = [pc EXCEPT ![t] = "run"]
    /\ UNCHANGED <<mtx, stopForCollect, gcSafe, guards, registered, joining, exit>>
    /\ UNCHANGED gcVars

\* ThreadSafeGuard's constructor and destructor.  They nest: the Java code
\* that invokedynamic runs inside its guard can use invokedynamic.  gcSafe
\* is a flag, not a counter: the end of an inner guard makes the thread safe
\* again.
EnterGuard(t) ==
    /\ pc[t] = "run"
    /\ guards[t].open < MaxNest
    /\ guards' = [guards EXCEPT ![t] = [open |-> @.open + 1, ended |-> FALSE]]
    /\ gcSafe' = [gcSafe EXCEPT ![t] = FALSE]
    /\ UNCHANGED <<mtx, stopForCollect, registered, pc, joining, exit>>
    /\ UNCHANGED gcVars

LeaveGuard(t) ==
    /\ pc[t] = "run"
    /\ guards[t].open > 0
    /\ guards' = [guards EXCEPT ![t] = [open |-> @.open - 1, ended |-> @.open > 1]]
    /\ gcSafe' = [gcSafe EXCEPT ![t] = TRUE]
    /\ UNCHANGED <<mtx, stopForCollect, registered, pc, joining, exit>>
    /\ UNCHANGED gcVars

-----------------------------------------------------------------------------
(* VM threads: checkStopForCollect, called at the entry of every method *)

\* The unlocked read of checkStop; reading FALSE changes nothing.
Poll(t) ==
    /\ pc[t] = "run"
    /\ checkStop
    /\ pc' = [pc EXCEPT ![t] = "lock"]
    /\ UNCHANGED <<mtx, stopForCollect, gcSafe, guards, registered, joining, exit>>
    /\ UNCHANGED gcVars

\* Take checkStopMtx and announce the stop.
Announce(t) ==
    /\ pc[t] = "lock"
    /\ mtx = None
    /\ mtx' = t
    /\ stopForCollect' = [stopForCollect EXCEPT ![t] = TRUE]
    /\ pc' = [pc EXCEPT ![t] = "pred"]
    /\ UNCHANGED <<gcSafe, guards, registered, joining, exit>>
    /\ UNCHANGED gcVars

\* The predicate of checkStopCv.wait, under the mutex.
EvaluatePredicate(t) ==
    /\ pc[t] = "pred"
    /\ pc' = [pc EXCEPT ![t] = IF checkStop THEN "block" ELSE "leave"]
    /\ UNCHANGED <<mtx, stopForCollect, gcSafe, guards, registered, joining, exit>>
    /\ UNCHANGED gcVars

\* Release the mutex and fall asleep, atomically.
Block(t) ==
    /\ pc[t] = "block"
    /\ mtx' = None
    /\ pc' = [pc EXCEPT ![t] = "wait"]
    /\ UNCHANGED <<stopForCollect, gcSafe, guards, registered, joining, exit>>
    /\ UNCHANGED gcVars

\* A condition variable may wake up for no reason.
SpuriousWakeup(t) ==
    /\ pc[t] = "wait"
    /\ pc' = [pc EXCEPT ![t] = "woken"]
    /\ UNCHANGED <<mtx, stopForCollect, gcSafe, guards, registered, joining, exit>>
    /\ UNCHANGED gcVars

Reacquire(t) ==
    /\ pc[t] = "woken"
    /\ mtx = None
    /\ mtx' = t
    /\ pc' = [pc EXCEPT ![t] = "pred"]
    /\ UNCHANGED <<stopForCollect, gcSafe, guards, registered, joining, exit>>
    /\ UNCHANGED gcVars

ResumeAsStopped(t) ==  \* mutant: stopForCollect is not cleared
    /\ pc[t] = "leave"
    /\ mtx' = None
    /\ pc' = [pc EXCEPT ![t] = "run"]
    /\ UNCHANGED <<stopForCollect, gcSafe, guards, registered, joining, exit>>
    /\ UNCHANGED gcVars

\* stopForCollect = false, then the destructor of the lock.
Resume(t) ==
    /\ pc[t] = "leave"
    /\ stopForCollect' = [stopForCollect EXCEPT ![t] = FALSE]
    /\ mtx' = None
    /\ pc' = [pc EXCEPT ![t] = "run"]
    /\ UNCHANGED <<gcSafe, guards, registered, joining, exit>>
    /\ UNCHANGED gcVars

-----------------------------------------------------------------------------
(* The GC thread *)

\* Timing assumption: the collectSleepTime (5 s) between two cycles
\* outlasts a thread's stay at the control points in Brief.  Safety needs
\* "leave", the few instructions between a waiter's read of checkStop and
\* its stopForCollect = false.  Nothing in the code enforces it.
SleepOutlastsBrief == \A t \in Threads : pc[t] \notin Brief

\* The sleep is over and the heap is above collectMemoryThreshold (which
\* it may never be again): stopTheWorld raises checkStop.  vm.exit was read
\* before the sleep, so that a last cycle can begin when it is set.
BeginStop ==
    /\ gc = "sleep"
    /\ SleepOutlastsBrief
    /\ checkStop' = TRUE
    /\ gc' = "scan"
    /\ scanned' = {}
    /\ UNCHANGED <<threadVars, exit>>

\* Mutant: a thread that sleeps or waits in a native method counts.
StoppedOrNative(t) == Terminated(t) \/ stopForCollect[t] \/ pc[t] = "native"

\* One round of the loop of checkAllThreadStopForCollect.  A thread that is
\* neither terminated nor stopped makes it return FALSE, and stopTheWorld
\* calls it again.
Stopped(t) == Terminated(t) \/ stopForCollect[t]

ScanThread(t) ==
    /\ gc = "scan"
    /\ t \in registered \ scanned
    /\ scanned' = IF Stopped(t) THEN scanned \cup {t} ELSE {}
    /\ UNCHANGED <<threadVars, checkStop, gc, exit>>

WorldIsStopped ==
    /\ gc = "scan"
    /\ scanned = registered
    /\ gc' = "check"
    /\ scanned' = {}
    /\ UNCHANGED <<threadVars, checkStop, exit>>

\* Between two scans stopTheWorld looks at vm.exit, then at the clock.
StopEndsByExit ==
    /\ gc = "scan"
    /\ scanned = {}
    /\ exit
    /\ gc' = "check"
    /\ UNCHANGED <<threadVars, checkStop, scanned, exit>>

TimeoutAfterFullScan ==  \* mutant: the clock is read once all have stopped
    /\ gc = "scan"
    /\ scanned = registered
    /\ ~exit
    /\ gc' = "open"
    /\ UNCHANGED <<threadVars, checkStop, scanned, exit>>

StopTimeout ==
    /\ gc = "scan"
    /\ scanned = {}
    /\ ~exit
    /\ gc' = "open"
    /\ UNCHANGED <<threadVars, checkStop, scanned, exit>>

\* checkTerminationCollect.
MayCollectUnlessExit == ~exit  \* mutant: gcSafe is not looked at
MayCollect == ~exit /\ \A t \in registered : gcSafe[t]

CheckTermination ==
    /\ gc = "check"
    /\ gc' = IF MayCollect THEN "process" ELSE "open"
    /\ UNCHANGED <<threadVars, checkStop, scanned, exit>>

ProcessEnds ==
    /\ gc = "process"
    /\ gc' = "open"
    /\ UNCHANGED <<threadVars, checkStop, scanned, exit>>

\* startTheWorld: checkStop is cleared without checkStopMtx, then all
\* waiters are notified.
OpenWorld ==
    /\ gc = "open"
    /\ checkStop' = FALSE
    /\ gc' = "notify"
    /\ UNCHANGED <<threadVars, scanned, exit>>

NotifyOne ==  \* mutant: notify_one in the place of notify_all
    /\ gc = "notify"
    /\ gc' = IF exit THEN "exit" ELSE "sleep"
    /\ IF \E t \in Threads : pc[t] = "wait"
       THEN \E t \in Threads : pc[t] = "wait" /\ pc' = [pc EXCEPT ![t] = "woken"]
       ELSE UNCHANGED pc
    /\ UNCHANGED <<mtx, stopForCollect, gcSafe, guards, registered, joining,
                   checkStop, scanned, exit>>

NotifyAndGoOn ==  \* mutant: the loop does not look at vm.exit
    /\ gc = "notify"
    /\ gc' = "sleep"
    /\ pc' = [t \in Threads |-> IF pc[t] = "wait" THEN "woken" ELSE pc[t]]
    /\ UNCHANGED <<mtx, stopForCollect, gcSafe, guards, registered, joining,
                   checkStop, scanned, exit>>

\* The loop of the GC thread goes on unless the VM exits.
NotifyAll ==
    /\ gc = "notify"
    /\ gc' = IF exit THEN "exit" ELSE "sleep"
    /\ pc' = [t \in Threads |-> IF pc[t] = "wait" THEN "woken" ELSE pc[t]]
    /\ UNCHANGED <<mtx, stopForCollect, gcSafe, guards, registered, joining,
                   checkStop, scanned, exit>>

\* The heap is below the threshold after the sleep, and the VM exits.
GCThreadExit ==
    /\ gc = "sleep"
    /\ exit
    /\ gc' = "exit"
    /\ UNCHANGED <<threadVars, checkStop, scanned, exit>>

\* VM::joinThreads has joined every user thread it knows.
SetExit ==
    /\ ~exit
    /\ \A t \in registered \ Daemons : Terminated(t)
    /\ exit' = TRUE
    /\ UNCHANGED <<threadVars, gcVars>>

-----------------------------------------------------------------------------
Handshake(t) == Announce(t) \/ EvaluatePredicate(t) \/ Block(t)
                    \/ Reacquire(t) \/ Resume(t)

Mutate(t) == \/ Begin(t)
             \/ Terminate(t)
             \/ Joined(t)
             \/ EnterNative(t)
             \/ LeaveNative(t)
             \/ EnterGuard(t)
             \/ LeaveGuard(t)
             \/ \E u \in Threads : Start(t, u) \/ Join(t, u)

GCStep == \/ \E t \in Threads : ScanThread(t)
          \/ WorldIsStopped
          \/ StopEndsByExit
          \/ StopTimeout
          \/ CheckTermination
          \/ ProcessEnds
          \/ OpenWorld
          \/ NotifyAll
          \/ GCThreadExit

Next == \/ \E t \in Threads : \/ Mutate(t)
                              \/ Poll(t)
                              \/ Handshake(t)
                              \/ SpuriousWakeup(t)
        \/ BeginStop
        \/ GCStep
        \/ SetExit

Spec == Init /\ [][Next]_vars

\* The threads and the GC thread are scheduled; checkStopMtx, which is free
\* again and again, is granted to whoever keeps asking; vm.exit and the
\* clock are looked at between any two scans.
\* Nothing is assumed of the program a thread runs (it may never call a
\* method again, never return from a native) nor of BeginStop.
Fairness == /\ \A t \in Threads : /\ WF_vars(EvaluatePredicate(t))
                                  /\ WF_vars(Block(t))
                                  /\ WF_vars(Resume(t))
                                  /\ SF_vars(Announce(t))
                                  /\ SF_vars(Reacquire(t))
            /\ WF_vars(GCStep)
            /\ SF_vars(StopTimeout)
            /\ SF_vars(StopEndsByExit)

FairSpec == Spec /\ Fairness

-----------------------------------------------------------------------------
(* Properties *)

\* Every control point, flag and owner has a value of its type.
TypeOK == /\ checkStop \in BOOLEAN
          /\ mtx \in Threads \cup {None}
          /\ stopForCollect \in [Threads -> BOOLEAN]
          /\ gcSafe \in [Threads -> BOOLEAN]
          /\ guards \in [Threads -> [open : 0 .. MaxNest, ended : BOOLEAN]]
          /\ registered \in SUBSET Threads
          /\ pc \in [Threads -> PC]
          /\ joining \in [Threads -> Threads \cup {None}]
          /\ gc \in GC
          /\ scanned \in SUBSET Threads
          /\ exit \in BOOLEAN

\* While GarbageCollect::process runs, every thread of the VM is inside the
\* wait of checkStopForCollect, has terminated, or was never started: no
\* thread can allocate, store a reference or register a thread meanwhile.
WorldStopped ==
    gc = "process" =>
        \A t \in Threads : \/ Terminated(t)
                           \/ pc[t] \in AtSafepoint
                           \/ pc[t] = "new" /\ t \notin registered

\* No collection while a thread is inside a ThreadSafeGuard, i.e. while a
\* native method holds references the collector cannot see, unless a guard
\* nested in it has ended: from then on it protects nothing.
GuardedNativeIsSafe ==
    gc = "process" => \A t \in Threads : guards[t].open > 0 => guards[t].ended

\* The safepoint protocol implements the promise the collector relies on.
Mutators == {t \in Threads : /\ ~Terminated(t)
                             /\ pc[t] \notin AtSafepoint
                             /\ t \in registered}

World == INSTANCE StopTheWorld WITH mutators <- Mutators,
                                    collecting <- gc = "process"

ImplementsStopTheWorld == World!Spec

\* An attempt to stop the world ends, whatever the threads do (join one
\* another, sleep, loop without a call): the GC thread cannot be wedged.
StopAttemptEnds == gc = "scan" ~> gc \in {"sleep", "exit"}

\* A thread whose notification came between its predicate and its sleep: it
\* sleeps on while no stop is under way, until the next one, if there is one.
Overslept(t) == pc[t] = "wait" /\ gc = "sleep"

\* A thread that entered checkStopForCollect gets out of it again or misses
\* the notification, unless the VM exits (only daemons are left then).  All
\* that are asleep when a stop ends get out, with those that have overslept
\* the end of an earlier one.
ParkedResumes ==
    \A t \in Threads :
        /\ pc[t] \in {"lock"} \cup AtSafepoint ~> pc[t] = "run" \/ Overslept(t) \/ exit
        /\ pc[t] = "wait" /\ gc = "notify" ~> pc[t] = "run" \/ exit
=============================================================================
