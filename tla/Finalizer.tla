------------------------------ MODULE Finalizer ------------------------------
(***************************************************************************)
(* The finalizer (FinalizeRunner of garbage_collect.cpp) in the handshake  *)
(* of Safepoint: a daemon that runs runnerMethod instead of Java code.  It *)
(* takes objects from a deque, polls checkStop between two of them, and    *)
(* sleeps on its condition variable when there is none.  The GC thread     *)
(* fills the deque while the world is stopped and wakes the finalizer      *)
(* when it stops the world and when it exits; checkStop and exit are set   *)
(* without the mutex of that condition variable.                           *)
(*                                                                         *)
(* Its sleep is the native of Safepoint; what its finalize() methods do    *)
(* with the heap is in Collector.                                          *)
(***************************************************************************)
EXTENDS Safepoint, Sequences

CONSTANTS Runner,     \* FinalizeRunner::finalizeThread
          Objects,    \* objects that wait for their finalize()
          MaxQueue    \* bounds oopDeque

ASSUME FinalizerAssumption == /\ Runner \in Daemons
                              /\ MaxQueue \in Nat

VARIABLES at,         \* where the runner is
          runOne,     \* of runnerMethod
          oopDeque,
          isFinalized,  \* Oop::isFinalized
          cvDue       \* the GC thread is about to notify the runner

finVars == <<at, runOne, oopDeque, isFinalized>>
allVars == <<vars, finVars, cvDue>>

\* loop, take   the test of vm.exit, runOneOop;  finalize  in a finalize()
\* stop         about to call checkStopForCollect;  after  has called it
\* pred         about to lock dequeMtx;  block  holds it, about to sleep
\* asleep       in cv.wait;  end  out of the loop
At == {"loop", "take", "finalize", "stop", "after", "pred", "block", "asleep", "end"}

FInit == /\ Init
         /\ at = "loop"
         /\ runOne = FALSE
         /\ oopDeque = <<>>
         /\ isFinalized = {}
         /\ cvDue = FALSE

Running(where) == pc[Runner] = "run" /\ at = where

-----------------------------------------------------------------------------
(* FinalizeRunner::runnerMethod *)

Loop == /\ Running("loop")
        /\ at' = IF exit THEN "end" ELSE "take"
        /\ UNCHANGED <<vars, runOne, oopDeque, isFinalized, cvDue>>

Take == /\ Running("take")
        /\ at' = IF oopDeque = <<>> THEN "stop" ELSE "finalize"
        /\ runOne' = (oopDeque # <<>>)
        /\ UNCHANGED <<vars, oopDeque, isFinalized, cvDue>>

\* runOopFinalize; the object has left the deque before.
RunOopFinalize == /\ Running("finalize")
                  /\ isFinalized' = isFinalized \cup {Head(oopDeque)}
                  /\ oopDeque' = Tail(oopDeque)
                  /\ at' = "stop"
                  /\ UNCHANGED <<vars, runOne, cvDue>>

\* The runner stops there, as well as in the methods a finalize() calls.
PollOfRunner == /\ at \in {"stop", "finalize"}
                /\ Poll(Runner)
                /\ at' = IF at = "stop" THEN "after" ELSE at
                /\ UNCHANGED <<runOne, oopDeque, isFinalized, cvDue>>

NoStop == /\ Running("stop")
          /\ ~checkStop
          /\ at' = "after"
          /\ UNCHANGED <<vars, runOne, oopDeque, isFinalized, cvDue>>

After == /\ Running("after")
         /\ at' = IF runOne THEN "loop" ELSE "pred"
         /\ UNCHANGED <<vars, runOne, oopDeque, isFinalized, cvDue>>

WantedIfStopped == checkStop \/ exit   \* a mutant
\* The predicate of cv.wait, under dequeMtx.
Wanted == oopDeque # <<>> \/ checkStop \/ exit

WaitForObjects == /\ Running("pred")
                  /\ at' = IF Wanted THEN "loop" ELSE "block"
                  /\ UNCHANGED <<vars, runOne, oopDeque, isFinalized, cvDue>>

FallAsleep == /\ at = "block"
              /\ EnterNative(Runner)
              /\ at' = "asleep"
              /\ UNCHANGED <<runOne, oopDeque, isFinalized, cvDue>>

WakeUp == /\ at = "asleep"
          /\ LeaveNative(Runner)
          /\ at' = "pred"
          /\ UNCHANGED <<runOne, oopDeque, isFinalized>>

EndOfRunner == /\ at = "end"
               /\ Terminate(Runner)
               /\ UNCHANGED <<finVars, cvDue>>

RunnerStep == \/ Loop
              \/ Take
              \/ RunOopFinalize
              \/ NoStop
              \/ After
              \/ WaitForObjects
              \/ FallAsleep
              \/ EndOfRunner

-----------------------------------------------------------------------------
(* The GC thread *)

RaiseStop == /\ BeginStop
             /\ cvDue' = TRUE
             /\ UNCHANGED finVars

\* finalizeRunner.cv.notify_all(): of use to a runner that is asleep.
NotifyRunner == /\ cvDue
                /\ cvDue' = FALSE
                /\ IF at = "asleep" THEN WakeUp ELSE UNCHANGED <<vars, finVars>>

\* FinalizeRunner::add, under dequeMtx.  An object is added in every cycle
\* that finds it not finalized, also when it is in the deque.  The notify_all
\* finds nobody: the world is stopped.
Add(o) == /\ gc = "process"
          /\ at # "block"
          /\ o \notin isFinalized
          /\ Len(oopDeque) < MaxQueue
          /\ oopDeque' = Append(oopDeque, o)
          /\ UNCHANGED <<vars, at, runOne, isFinalized, cvDue>>

CollectorStep == /\ ~cvDue
                 /\ GCStep
                 /\ cvDue' = (gc' = "exit")
                 /\ UNCHANGED finVars

-----------------------------------------------------------------------------
\* The other threads, and the handshake, as in Safepoint.  The main thread
\* starts the runner before it calls main.
Others(t) == \/ t # Runner /\ Poll(t)
             \/ IF Runner \in registered THEN t # Runner /\ Mutate(t)
                ELSE Start(t, Runner)
             \/ t = Runner /\ Begin(t)
Unchanging(A) == A /\ UNCHANGED <<finVars, cvDue>>

FNext == \/ RunnerStep
         \/ PollOfRunner
         \/ at = "asleep" /\ WakeUp /\ UNCHANGED cvDue   \* for no reason
         \/ RaiseStop
         \/ NotifyRunner
         \/ CollectorStep
         \/ \E o \in Objects : Add(o)
         \/ \E t \in Threads : Unchanging(Others(t) \/ Handshake(t) \/ SpuriousWakeup(t))
         \/ Unchanging(SetExit)

FSpec == FInit /\ [][FNext]_allVars

\* As in Safepoint: threads and GC thread are scheduled, the clock goes on,
\* nothing is assumed of the heap, so that no stop need follow another; a
\* finalize() ends, and wakeups for no reason come to an end.
FinalizerSpec ==
    /\ FSpec
    /\ WF_allVars(RunnerStep \/ PollOfRunner) /\ SF_allVars(RunOopFinalize)
    /\ \A t \in Threads : /\ WF_allVars(Unchanging(EvaluatePredicate(t) \/ Block(t) \/ Resume(t)))
                          /\ SF_allVars(Unchanging(Announce(t)))
                          /\ SF_allVars(Unchanging(Reacquire(t)))
                          /\ <>[][~SpuriousWakeup(t)]_allVars
    /\ SF_allVars(Unchanging(Start(Main, Runner))) /\ WF_allVars(Unchanging(Begin(Runner)))
    /\ WF_allVars(NotifyRunner) /\ WF_allVars(CollectorStep)
    /\ SF_allVars(CollectorStep /\ StopTimeout)
    /\ SF_allVars(CollectorStep /\ StopEndsByExit)

-----------------------------------------------------------------------------
(* Properties *)

\* Once there is a runner, what waits for its finalizer gets it, unless the
\* VM exits or the runner has overslept the end of a stop: no notification
\* is lost between the deque, the stops and the runner's own sleep.
FinalizerServes ==
    \A o \in Objects : Runner \in registered /\ (\E i \in DOMAIN oopDeque : oopDeque[i] = o)
                           ~> o \in isFinalized \/ Overslept(Runner) \/ exit

\* exitVM gets past the join of the GC thread, whatever the daemons and the
\* runner do.
ShutdownEnds == exit ~> gc = "exit"
=============================================================================
