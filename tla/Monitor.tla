------------------------------- MODULE Monitor -------------------------------
(***************************************************************************)
(* The monitor of one object: Oop::getAndInitMonitor, lock, unlock, wait,  *)
(* notify_one and notify_all of oop.cpp, as monitorenter, monitorexit,     *)
(* synchronized methods, Object.wait and Object.notify use them.           *)
(*                                                                         *)
(* A monitor is created by the first thread that needs it, under a spin    *)
(* lock all objects share, after a check without it.  It is a recursive    *)
(* mutex with a condition variable.  Unlocking one that the thread does    *)
(* not own is undefined; pthreads refuses it and nothing changes.          *)
(*                                                                         *)
(* The threads run verified bytecode: wait, notify and monitorexit occur   *)
(* inside a synchronized block (the code checks none of this).             *)
(***************************************************************************)
EXTENDS Naturals

CONSTANTS Threads,
          Monitors,   \* addresses of OopMonitors
          None,
          MaxDepth    \* bound: blocks one thread nests

ASSUME MonitorAssumption == /\ None \notin Threads \cup Monitors
                            /\ MaxDepth \in Nat

VARIABLES monitor,    \* the pointer in Oop::comFlags
          spin,       \* owner of monitorLock
          created,    \* the OopMonitors that exist
          owner,      \* of each monitorMtx
          count,      \* how often its owner has locked it
          pc,         \* what a thread is doing, see PC
          op,         \* the operation it is in
          mon,        \* what getAndInitMonitor returned to it
          depth,      \* synchronized blocks the program is in
          waited      \* history: it has called wait() in its outermost block

monitorVars == <<monitor, spin, created, owner, count, pc, op, mon, depth, waited>>
wordVars == <<monitor, spin, created>>
mutexVars == <<owner, count>>
blockVars == <<depth, waited>>

\* run     executes bytecode
\* get     about to read the monitor pointer
\* spin    read null, wants monitorLock
\* init    holds it
\* act     has the monitor
\* asleep  in monitorCv.wait
\* woken   woken up, wants monitorMtx back
\* leave   has it back, about to destroy the unique_lock of Oop::wait
PC == {"run", "get", "spin", "init", "act", "asleep", "woken", "leave"}
Op == {"lock", "unlock", "wait", "notify", "notifyAll"}

MonitorInit == /\ monitor = None
        /\ spin = None
        /\ created = {}
        /\ owner = [m \in Monitors |-> None]
        /\ count = [m \in Monitors |-> 0]
        /\ pc = [t \in Threads |-> "run"]
        /\ op = [t \in Threads |-> "lock"]
        /\ mon = [t \in Threads |-> None]
        /\ depth = [t \in Threads |-> 0]
        /\ waited = [t \in Threads |-> FALSE]

Goes(t, where) == pc' = [pc EXCEPT ![t] = where]

-----------------------------------------------------------------------------
(* The program calls *)

Calls(t, o) == /\ pc[t] = "run"
               /\ Goes(t, "get")
               /\ op' = [op EXCEPT ![t] = o]
               /\ UNCHANGED <<wordVars, mutexVars, blockVars, mon>>

MonitorEnter(t) == depth[t] < MaxDepth /\ Calls(t, "lock")
MonitorExit(t) == depth[t] > 0 /\ Calls(t, "unlock")
CallWait(t) == depth[t] > 0 /\ Calls(t, "wait")
CallNotify(t) == depth[t] > 0 /\ \E o \in {"notify", "notifyAll"} : Calls(t, o)

-----------------------------------------------------------------------------
(* getAndInitMonitor *)

\* The check without the lock; a pointer once set is all that is needed.
GetMonitor(t) ==
    /\ pc[t] = "get"
    /\ Goes(t, IF monitor = None THEN "spin" ELSE "act")
    /\ mon' = [mon EXCEPT ![t] = monitor]
    /\ UNCHANGED <<wordVars, mutexVars, blockVars, op>>

LockSpin(t) ==
    /\ pc[t] = "spin"
    /\ spin = None
    /\ spin' = t
    /\ Goes(t, "init")
    /\ UNCHANGED <<monitor, created, mutexVars, blockVars, op, mon>>

InitMonitorAnyway(t) ==  \* mutant: without the second check
    /\ pc[t] = "init"
    /\ \E m \in Monitors \ created : /\ monitor' = m
                                     /\ created' = created \cup {m}
    /\ mon' = [mon EXCEPT ![t] = monitor']
    /\ spin' = None
    /\ Goes(t, "act")
    /\ UNCHANGED <<mutexVars, blockVars, op>>

\* The second check, new OopMonitor, the release of the spin lock.
InitMonitor(t) ==
    /\ pc[t] = "init"
    /\ IF monitor = None
       THEN \E m \in Monitors \ created : /\ monitor' = m
                                          /\ created' = created \cup {m}
       ELSE UNCHANGED <<monitor, created>>
    /\ mon' = [mon EXCEPT ![t] = monitor']
    /\ spin' = None
    /\ Goes(t, "act")
    /\ UNCHANGED <<mutexVars, blockVars, op>>

-----------------------------------------------------------------------------
(* The recursive mutex *)

Lock(t) == LET m == mon[t]
           IN  /\ owner[m] \in {None, t}
               /\ owner' = [owner EXCEPT ![m] = t]
               /\ count' = [count EXCEPT ![m] = @ + 1]

\* a mutant: unlock frees every level
UnlockAll(t) == LET m == mon[t]
                IN  IF owner[m] = t
                    THEN /\ count' = [count EXCEPT ![m] = 0]
                         /\ owner' = [owner EXCEPT ![m] = None]
                    ELSE UNCHANGED mutexVars

\* Without effect for a thread that is not the owner.
Unlock(t) == LET m == mon[t]
             IN  IF owner[m] = t
                 THEN /\ count' = [count EXCEPT ![m] = @ - 1]
                      /\ owner' = [owner EXCEPT
                                       ![m] = IF count[m] = 1 THEN None ELSE t]
                 ELSE UNCHANGED mutexVars

Acts(t, o) == pc[t] = "act" /\ op[t] = o

\* Oop::lock.
DoLock(t) == /\ Acts(t, "lock")
             /\ Lock(t)
             /\ depth' = [depth EXCEPT ![t] = @ + 1]
             /\ Goes(t, "run")
             /\ UNCHANGED <<wordVars, op, mon, waited>>

LeaveLocked(t) ==  \* mutant: a block is left without the unlock
    /\ Acts(t, "unlock")
    /\ depth' = [depth EXCEPT ![t] = @ - 1]
    /\ waited' = [waited EXCEPT ![t] = @ /\ depth[t] > 1]
    /\ Goes(t, "run")
    /\ UNCHANGED <<wordVars, mutexVars, op, mon>>

\* Oop::unlock.
DoUnlock(t) == /\ Acts(t, "unlock")
               /\ Unlock(t)
               /\ depth' = [depth EXCEPT ![t] = @ - 1]
               /\ waited' = [waited EXCEPT ![t] = @ /\ depth[t] > 1]
               /\ Goes(t, "run")
               /\ UNCHANGED <<wordVars, op, mon>>

\* Oop::wait: the unique_lock adopts the mutex, monitorCv.wait unlocks it
\* once and sleeps, atomically for a notifier.
Sleep(t) == /\ Acts(t, "wait")
            /\ Unlock(t)
            /\ waited' = [waited EXCEPT ![t] = TRUE]
            /\ Goes(t, "asleep")
            /\ UNCHANGED <<wordVars, op, mon, depth>>

\* The timeout has expired, or no reason at all.
WakeUp(t) == /\ pc[t] = "asleep"
             /\ Goes(t, "woken")
             /\ UNCHANGED <<wordVars, mutexVars, blockVars, op, mon>>

Relock(t) == /\ pc[t] = "woken"
             /\ Lock(t)
             /\ Goes(t, "leave")
             /\ UNCHANGED <<wordVars, blockVars, op, mon>>

\* The destructor of the unique_lock unlocks what it adopted.
LeaveWait(t) == /\ pc[t] = "leave"
                /\ Unlock(t)
                /\ Goes(t, "run")
                /\ UNCHANGED <<wordVars, blockVars, op, mon>>

Sleepers(m) == {u \in Threads : pc[u] = "asleep" /\ mon[u] = m}

DoNotify(t) ==
    /\ Acts(t, "notify")
    /\ IF Sleepers(mon[t]) = {} THEN Goes(t, "run")
       ELSE \E u \in Sleepers(mon[t]) :
                pc' = [pc EXCEPT ![t] = "run", ![u] = "woken"]
    /\ UNCHANGED <<wordVars, mutexVars, blockVars, op, mon>>

DoNotifyAll(t) ==
    /\ Acts(t, "notifyAll")
    /\ pc' = [u \in Threads |-> IF u = t THEN "run"
                                ELSE IF u \in Sleepers(mon[t]) THEN "woken"
                                ELSE pc[u]]
    /\ UNCHANGED <<wordVars, mutexVars, blockVars, op, mon>>

-----------------------------------------------------------------------------
Program(t) == \/ MonitorEnter(t)
              \/ MonitorExit(t)
              \/ CallWait(t)
              \/ CallNotify(t)

VMStep(t) == \/ GetMonitor(t)
             \/ LockSpin(t)
             \/ InitMonitor(t)
             \/ DoLock(t)
             \/ DoUnlock(t)
             \/ Sleep(t)
             \/ Relock(t)
             \/ LeaveWait(t)
             \/ DoNotify(t)
             \/ DoNotifyAll(t)

MonitorNext == \E t \in Threads : Program(t) \/ VMStep(t) \/ WakeUp(t)

MonitorSpec == MonitorInit /\ [][MonitorNext]_monitorVars

\* The VM is scheduled, the spin lock and the mutex are granted to whoever
\* keeps asking, and a program leaves every block it has entered, the
\* outermost one too, and has no wait to finish.  Nothing wakes a waiter but
\* another thread.
Fairness == \A t \in Threads : /\ WF_monitorVars(VMStep(t))
                               /\ SF_monitorVars(LockSpin(t))
                               /\ SF_monitorVars(DoLock(t))
                               /\ SF_monitorVars(Relock(t))
                               /\ SF_monitorVars(MonitorExit(t))
                               /\ SF_monitorVars(MonitorExit(t) /\ depth[t] = 1)

FairSpec == MonitorSpec /\ Fairness

-----------------------------------------------------------------------------
(* Properties *)

\* Every variable keeps its type.
TypeOK == /\ monitor \in Monitors \cup {None}
          /\ spin \in Threads \cup {None}
          /\ created \in SUBSET Monitors
          /\ owner \in [Monitors -> Threads \cup {None}]
          /\ count \in [Monitors -> Nat]
          /\ pc \in [Threads -> PC]
          /\ op \in [Threads -> Op]
          /\ mon \in [Threads -> Monitors \cup {None}]
          /\ depth \in [Threads -> 0 .. MaxDepth]
          /\ waited \in [Threads -> BOOLEAN]

\* All threads that have got the object's monitor have got the same one,
\* and no other was ever created for it: double-checked locking works.
HasMonitor(t) == pc[t] \in {"act", "asleep", "woken", "leave"}
OneMonitor == /\ created = {monitor} \ {None}
              /\ \A t \in Threads : HasMonitor(t) => mon[t] = monitor /\ monitor # None

\* A thread owns the mutex at most as often as the blocks it is in account
\* for: outside of every block it owns nothing and keeps nobody out.
NothingIsLeaked ==
    \A t \in Threads, m \in Monitors :
        owner[m] = t => count[m] <= depth[t]

\* At most one thread is in a block among those that have not called wait()
\* in theirs.
Inside(t) == depth[t] > 0
ExclusionWithoutWait ==
    \A t, u \in Threads :
        Inside(t) /\ Inside(u) /\ ~waited[t] /\ ~waited[u] => t = u

\* What synchronized promises: one thread at a time runs in a block.
RunsInside(t) == Inside(t) /\ pc[t] = "run"
MutualExclusion ==
    \A t, u \in Threads : RunsInside(t) /\ RunsInside(u) => t = u

\* A thread that wants to enter a block gets in, unless somebody sleeps in a
\* nested wait: that releases one level of the lock and keeps the others.
SleepsWithLock(u) == pc[u] = "asleep" /\ owner[mon[u]] = u
EnterSucceeds == \A t \in Threads :
    Acts(t, "lock") ~> Inside(t) \/ \E u \in Threads : SleepsWithLock(u)
=============================================================================
