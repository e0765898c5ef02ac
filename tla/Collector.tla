------------------------------ MODULE Collector ------------------------------
(***************************************************************************)
(* The tracing collector of garbage_collect.cpp (processTrace,             *)
(* traceMarkOop, processCollect, collectOopHolder, process) with the       *)
(* FinalizeRunner it feeds, over an abstract heap.                         *)
(*                                                                         *)
(* What the threads do to the heap is abstracted to the references they    *)
(* can obtain, store and drop; all stacks of live threads are one set.     *)
(* The threads move only between two cycles: that is StopTheWorld.tla,     *)
(* which Safepoint.tla is proved to implement.  Within a cycle every call  *)
(* of traceMarkOop and every turn of a loop over the holders is a step.    *)
(*                                                                         *)
(* stack is what the live frames hold.  Two more ways a reference gets     *)
(* among the roots or misses them, slots that a frame has not written yet  *)
(* and Frame::throwObject, are the subject of FrameStack.tla.              *)
(*                                                                         *)
(* An oop is its address.  A freed address may be allocated again, always  *)
(* for an object of the same kind (an abstraction: malloc promises less).  *)
(***************************************************************************)
EXTENDS Naturals, FiniteSets, Sequences

CONSTANTS Oops,         \* the addresses
          MainOop,      \* VM::mainThread, the one oop in no OopHolder
          ThreadOops,   \* java.lang.Thread objects
          StringOops,   \* java.lang.String objects
          Finalizable,  \* objects whose class declares finalize()
          NoOop,        \* no oop
          MaxFields,    \* bound: references stored in one object
          MaxStack,     \* bound: references held by the stacks
          MaxStatics,   \* bound: references held by static fields
          MaxDeque      \* bound: entries of FinalizeRunner::oopDeque

ASSUME CollectorAssumption ==
    /\ MainOop \in ThreadOops
    /\ ThreadOops \subseteq Oops
    /\ StringOops \subseteq Oops \ ThreadOops
    /\ Finalizable \subseteq Oops
    /\ NoOop \notin Oops
    /\ MaxFields \in Nat
    /\ MaxStack \in Nat
    /\ MaxStatics \in Nat
    /\ MaxDeque \in Nat

VARIABLES allocated,  \* the oops that have been created and not deleted
          fields,     \* references each object stores
          finalized,  \* Oop::isFinalized (TRUE where nothing is to be run)
          stack,      \* REF slots of the stacks of the live threads
          statics,    \* class mirrors and static REF fields
          pool,       \* the strings in StringPool, which is no root
          live,       \* registered threads that have not terminated
          started,    \* threads whose status is no longer NEW
          native,     \* held by C++ locals under a ThreadSafeGuard
          deque,      \* FinalizeRunner::oopDeque
          finalizing, \* the oop whose finalize() is running
          runs,       \* history: how often finalize() was run on each oop
          phase,      \* what the GC thread is doing
          pending,    \* oops passed to traceMarkOop, not looked at yet
          traced,     \* the oops with the TRACED flag
          todo,       \* holder entries the current loop has not reached
          crashed     \* a deleted oop was used: behaviour is undefined

collectorVars == <<allocated, fields, finalized, stack, statics, pool, live, started,
                   native, deque, finalizing, runs, phase, pending, traced, todo,
                   crashed>>

heapVars == <<allocated, fields, finalized, runs>>
rootVars == <<stack, statics, live, started, native>>
finalizerVars == <<deque, finalizing>>
cycleVars == <<phase, pending, traced, todo>>

Phases == {"mutate", "trace", "revive", "sweep"}

\* The oops some OopHolder lists.
Held == allocated \ {MainOop}

\* getGarbageCollectRoots: mirrors and statics, the slots of every thread
\* that is not terminated, and its Thread object.  The running finalize()
\* has its object in local 0 of the finalizer's first frame.
Roots == stack \cup statics \cup live \cup ({finalizing} \ {NoOop})

\* Everything that can be reached from R through f: the least set that
\* contains R and is closed under f.
Closed(S, f) == \A a \in S : f[a] \subseteq S
Closure(R, f) == {o \in Oops : \A S \in SUBSET Oops :
                                  R \subseteq S /\ Closed(S, f) => o \in S}

Reachable == Closure(Roots, fields)

CollectorInit == /\ allocated = {MainOop}
                 /\ fields = [o \in Oops |-> {}]
                 /\ finalized = [o \in Oops |-> TRUE]
                 /\ stack = {}
                 /\ statics = {}
                 /\ pool = {}
                 /\ live = {MainOop}
                 /\ started = {MainOop}
                 /\ native = {}
                 /\ deque = <<>>
                 /\ finalizing = NoOop
                 /\ runs = [o \in Oops |-> 0]
                 /\ phase = "mutate"
                 /\ pending = {}
                 /\ traced = {}
                 /\ todo = {}
                 /\ crashed = FALSE

-----------------------------------------------------------------------------
(* The threads *)

Mutating == phase = "mutate" /\ ~crashed

\* o gets into a stack slot.
PushRef(o) == /\ o \in stack \/ Cardinality(stack) < MaxStack
              /\ stack' = stack \cup {o}

\* The effect of creating o on the heap: no references yet, to be finalized
\* when its class says so.
Create(o) == /\ o \notin allocated
             /\ allocated' = allocated \cup {o}
             /\ fields' = [fields EXCEPT ![o] = {}]
             /\ finalized' = [finalized EXCEPT ![o] = o \notin Finalizable]
             /\ runs' = [runs EXCEPT ![o] = 0]

\* new, newarray: OopManager::newInstance, and the result is pushed.
New(o) ==
    /\ Mutating
    /\ Create(o)
    /\ PushRef(o)
    /\ UNCHANGED <<statics, live, started, native, pool, crashed>>
    /\ UNCHANGED <<finalizerVars, cycleVars>>

\* invokeDynamic creates objects it keeps in C++ locals while it calls Java
\* methods, inside a ThreadSafeGuard.
NativeNew(o) ==
    /\ Mutating
    /\ Create(o)
    /\ native' = native \cup {o}
    /\ UNCHANGED <<stack, statics, live, started, pool, crashed>>
    /\ UNCHANGED <<finalizerVars, cycleVars>>

\* The native method is done with o and pushes it.
NativeReturn(o) ==
    /\ Mutating
    /\ o \in native
    /\ native' = native \ {o}
    /\ PushRef(o)
    /\ UNCHANGED <<statics, live, started, pool, crashed>>
    /\ UNCHANGED <<heapVars, finalizerVars, cycleVars>>

\* Ways to get hold of a reference: aload, getfield, aaload, getstatic, an
\* interned string, Thread.currentThread, `this' of a running finalize().
Obtainable(o) == \/ \E a \in stack : o \in fields[a]
                 \/ o \in statics
                 \/ o \in pool
                 \/ o \in live
                 \/ o = finalizing

Push(o) ==
    /\ Mutating
    /\ Obtainable(o)
    /\ PushRef(o)
    /\ UNCHANGED <<statics, live, started, native, pool, crashed>>
    /\ UNCHANGED <<heapVars, finalizerVars, cycleVars>>

\* The last slot that holds o is popped or overwritten.
Pop(o) ==
    /\ Mutating
    /\ o \in stack
    /\ stack' = stack \ {o}
    /\ UNCHANGED <<statics, live, started, native, pool, crashed>>
    /\ UNCHANGED <<heapVars, finalizerVars, cycleVars>>

\* putfield, aastore.
PutField(a, b) ==
    /\ Mutating
    /\ {a, b} \subseteq stack
    /\ b \notin fields[a]
    /\ Cardinality(fields[a]) < MaxFields
    /\ fields' = [fields EXCEPT ![a] = @ \cup {b}]
    /\ UNCHANGED <<allocated, finalized, runs, rootVars, pool, crashed>>
    /\ UNCHANGED <<finalizerVars, cycleVars>>

\* putfield, aastore over the last field of a that referred to b.
ClearField(a, b) ==
    /\ Mutating
    /\ a \in stack
    /\ b \in fields[a]
    /\ fields' = [fields EXCEPT ![a] = @ \ {b}]
    /\ UNCHANGED <<allocated, finalized, runs, rootVars, pool, crashed>>
    /\ UNCHANGED <<finalizerVars, cycleVars>>

PutStatic(o) ==
    /\ Mutating
    /\ o \in stack \ statics
    /\ Cardinality(statics) < MaxStatics
    /\ statics' = statics \cup {o}
    /\ UNCHANGED <<stack, live, started, native, pool, crashed>>
    /\ UNCHANGED <<heapVars, finalizerVars, cycleVars>>

ClearStatic(o) ==
    /\ Mutating
    /\ o \in statics
    /\ statics' = statics \ {o}
    /\ UNCHANGED <<stack, live, started, native, pool, crashed>>
    /\ UNCHANGED <<heapVars, finalizerVars, cycleVars>>

\* String.intern, ldc of a string constant: getInternString has found no
\* equal string in the pool and creates one (to find one is Push).
Intern(o) ==
    /\ Mutating
    /\ o \in StringOops
    /\ Create(o)
    /\ PushRef(o)
    /\ pool' = pool \cup {o}
    /\ UNCHANGED <<statics, live, started, native, crashed>>
    /\ UNCHANGED <<finalizerVars, cycleVars>>

\* VMThread::start, once for each Thread object.
StartThread(o) ==
    /\ Mutating
    /\ o \in (stack \cap ThreadOops) \ started
    /\ live' = live \cup {o}
    /\ started' = started \cup {o}
    /\ UNCHANGED <<stack, statics, native, pool, crashed>>
    /\ UNCHANGED <<heapVars, finalizerVars, cycleVars>>

\* Some thread runs until the VM exits, the finalizer if no other.
EndThread(o) ==
    /\ Mutating
    /\ o \in live
    /\ live' = live \ {o}
    /\ UNCHANGED <<stack, statics, started, native, pool, crashed>>
    /\ UNCHANGED <<heapVars, finalizerVars, cycleVars>>

Mutator(o) == \/ New(o) \/ NativeNew(o) \/ NativeReturn(o)
              \/ Push(o) \/ Pop(o) \/ PutStatic(o) \/ ClearStatic(o)
              \/ Intern(o) \/ StartThread(o) \/ EndThread(o)

-----------------------------------------------------------------------------
(* The finalizer thread *)

\* runOneOop takes the front of the deque and calls its finalize().
RunFinalize ==
    /\ Mutating
    /\ finalizing = NoOop
    /\ deque # <<>>
    /\ LET o == Head(deque)
       IN  IF o \in allocated
           THEN /\ finalizing' = o
                /\ runs' = [runs EXCEPT ![o] = IF @ < 2 THEN @ + 1 ELSE @]
                /\ UNCHANGED crashed
           ELSE /\ crashed' = TRUE
                /\ UNCHANGED <<finalizing, runs>>
    /\ deque' = Tail(deque)
    /\ UNCHANGED <<allocated, fields, finalized, rootVars, pool, cycleVars>>

\* finalize() has returned: runOopFinalize sets the flag only now.
EndFinalize ==
    /\ Mutating
    /\ finalizing # NoOop
    /\ finalized' = [finalized EXCEPT ![finalizing] = TRUE]
    /\ finalizing' = NoOop
    /\ UNCHANGED <<allocated, fields, runs, rootVars, pool, deque, crashed>>
    /\ UNCHANGED cycleVars

-----------------------------------------------------------------------------
(* The GC thread *)

Unfinalized == {o \in Held : ~finalized[o]}

StartUnsafeCycle ==  \* mutant: without checkTerminationCollect
    /\ Mutating
    /\ Len(deque) + Cardinality(Unfinalized) <= MaxDeque
    /\ phase' = "trace"
    /\ pending' = Roots
    /\ todo' = Held
    /\ UNCHANGED <<heapVars, rootVars, finalizerVars, pool, traced, crashed>>

\* The world is stopped and no thread is inside a ThreadSafeGuard: collect
\* the roots.  The bound on the deque is the model's.
StartCycle ==
    /\ Mutating
    /\ native = {}
    /\ Len(deque) + Cardinality(Unfinalized) <= MaxDeque
    /\ phase' = "trace"
    /\ pending' = Roots
    /\ todo' = Held
    /\ UNCHANGED <<heapVars, rootVars, finalizerVars, pool, traced, crashed>>

TraceShallow(o) ==  \* mutant: the fields of o are not followed
    /\ ~crashed
    /\ phase \in {"trace", "revive"}
    /\ o \in pending
    /\ pending' = pending \ {o}
    /\ traced' = traced \cup {o}
    /\ UNCHANGED <<heapVars, rootVars, finalizerVars, pool, phase, todo, crashed>>

\* One call of traceMarkOop; its recursion is the set of pending calls.
TraceMarkOop(o) ==
    /\ ~crashed
    /\ phase \in {"trace", "revive"}
    /\ o \in pending
    /\ IF o \in traced
       THEN /\ pending' = pending \ {o}
            /\ UNCHANGED traced
       ELSE /\ traced' = traced \cup {o}
            /\ pending' = (pending \ {o}) \cup fields[o]
    /\ UNCHANGED <<heapVars, rootVars, finalizerVars, pool, phase, todo, crashed>>

RootsTraced ==
    /\ ~crashed
    /\ phase = "trace"
    /\ pending = {}
    /\ phase' = "revive"
    /\ UNCHANGED <<heapVars, rootVars, finalizerVars, pool, pending, traced,
                   todo, crashed>>

\* The second loop of processTrace: an object still to be finalized is
\* traced and queued, whether or not it was traced already; a Thread object
\* is traced because it owns an OopHolder.
Revive(o) ==
    /\ ~crashed
    /\ phase = "revive"
    /\ pending = {}
    /\ o \in todo
    /\ todo' = todo \ {o}
    /\ pending' = IF ~finalized[o] \/ o \in ThreadOops THEN {o} ELSE {}
    /\ deque' = IF ~finalized[o] THEN Append(deque, o) ELSE deque
    /\ UNCHANGED <<heapVars, rootVars, finalizing, pool, phase, traced, crashed>>

TraceEnds ==
    /\ ~crashed
    /\ phase = "revive"
    /\ pending = {}
    /\ todo = {}
    /\ phase' = "sweep"
    /\ todo' = Held
    /\ UNCHANGED <<heapVars, rootVars, finalizerVars, pool, pending, traced, crashed>>

SweepKeepsPool(o) ==  \* mutant: deleteOop does not call gcStringOop
    /\ ~crashed
    /\ phase = "sweep"
    /\ o \in todo
    /\ todo' = todo \ {o}
    /\ IF o \in traced
       THEN traced' = traced \ {o} /\ UNCHANGED allocated
       ELSE allocated' = allocated \ {o} /\ UNCHANGED traced
    /\ UNCHANGED <<fields, finalized, runs, rootVars, finalizerVars, pool, phase,
                   pending, crashed>>

SweepAllButLast(o) ==  \* mutant: the loop stops one entry early
    /\ ~crashed
    /\ phase = "sweep"
    /\ o \in todo
    /\ todo' = todo \ {o}
    /\ IF o \in traced \/ todo = {o}
       THEN traced' = traced \ {o} /\ UNCHANGED <<allocated, pool>>
       ELSE /\ allocated' = allocated \ {o}
            /\ pool' = pool \ {o}
            /\ UNCHANGED traced
    /\ UNCHANGED <<fields, finalized, runs, rootVars, finalizerVars, phase,
                   pending, crashed>>

\* One turn of collectOopHolder: a traced oop survives and loses the flag,
\* any other is deleted, a string after it was taken out of the pool.
Sweep(o) ==
    /\ ~crashed
    /\ phase = "sweep"
    /\ o \in todo
    /\ todo' = todo \ {o}
    /\ IF o \in traced
       THEN /\ traced' = traced \ {o}
            /\ UNCHANGED <<allocated, pool>>
       ELSE /\ allocated' = allocated \ {o}
            /\ pool' = IF o \in StringOops THEN pool \ {o} ELSE pool
            /\ UNCHANGED traced
    /\ UNCHANGED <<fields, finalized, runs, rootVars, finalizerVars, phase,
                   pending, crashed>>

EndCycleMarked ==  \* mutant: the main thread's flag is left
    /\ ~crashed
    /\ phase = "sweep"
    /\ todo = {}
    /\ phase' = "mutate"
    /\ UNCHANGED <<heapVars, rootVars, finalizerVars, pool, pending, traced,
                   todo, crashed>>

\* The main thread's oop is in no holder: process clears its flag.
EndCycle ==
    /\ ~crashed
    /\ phase = "sweep"
    /\ todo = {}
    /\ phase' = "mutate"
    /\ traced' = traced \ {MainOop}
    /\ UNCHANGED <<heapVars, rootVars, finalizerVars, pool, pending, todo, crashed>>

-----------------------------------------------------------------------------
CollectorNext == \/ \E o \in Oops : Mutator(o)
                 \/ \E a, b \in Oops : PutField(a, b) \/ ClearField(a, b)
                 \/ RunFinalize
                 \/ EndFinalize
                 \/ StartCycle
                 \/ \E o \in Oops : TraceMarkOop(o) \/ Revive(o) \/ Sweep(o)
                 \/ RootsTraced
                 \/ TraceEnds
                 \/ EndCycle

CollectorSpec == CollectorInit /\ [][CollectorNext]_collectorVars

-----------------------------------------------------------------------------
(* Properties *)

\* Every variable keeps its type.
HeapTypeOK == /\ allocated \in SUBSET Oops
              /\ fields \in [Oops -> SUBSET Oops]
              /\ finalized \in [Oops -> BOOLEAN]
              /\ stack \in SUBSET Oops
              /\ statics \in SUBSET Oops
              /\ pool \in SUBSET StringOops
              /\ live \in SUBSET ThreadOops
              /\ started \in SUBSET ThreadOops
              /\ native \in SUBSET Oops
              /\ deque \in Seq(Oops)
              /\ finalizing \in Oops \cup {NoOop}
              /\ runs \in [Oops -> 0 .. 2]
              /\ phase \in Phases
              /\ pending \in SUBSET Oops
              /\ traced \in SUBSET Oops
              /\ todo \in SUBSET Oops
              /\ crashed \in BOOLEAN

\* The point of a collector: nothing a thread can reach has been deleted,
\* at any moment of a cycle or between cycles.
NoDangling == Reachable \subseteq allocated

\* The collector itself never follows a reference to a deleted oop: what
\* traceMarkOop is called on, and what it marked, exists.
TraceTouchesLive == pending \cup traced \subseteq allocated

\* StringPool never lists a deleted string.
PoolIsAlive == pool \subseteq allocated

\* No TRACED flag survives a cycle: a stale one would make the next
\* traceMarkOop skip the object's references.
FlagsAreClear == phase = "mutate" => traced = {}

\* A finished cycle leaves nothing but what is reachable, waits for its
\* finalizer or is (reachable from) a Thread object: all garbage is freed.
Kept == Closure(Roots \cup Unfinalized \cup (ThreadOops \cap Held), fields)
GarbageIsFreed == phase = "sweep" /\ todo = {} => Held \subseteq Kept

\* finalize() runs at most once on an object.
FinalizeOnce == \A o \in Oops : runs[o] <= 1
=============================================================================
