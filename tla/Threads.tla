------------------------------- MODULE Threads -------------------------------
(***************************************************************************)
(* The life of Java threads: start, run and join of thread.cpp, and the    *)
(* thread of C++ that starts the main thread, joins every user thread and  *)
(* ends the VM (vm.cpp).                                                   *)
(*                                                                         *)
(* Thread.start() and Thread.join() are Java code around the natives:      *)
(* synchronized on the Thread object; start() throws unless threadStatus   *)
(* is NEW, join() waits on the object while isAlive().  A wait() that      *)
(* returns has lost the lock (see Monitor): the loop of join() goes on     *)
(* without it.                                                             *)
(*                                                                         *)
(* Programs in which daemons start no threads, and nobody joins himself.   *)
(***************************************************************************)
EXTENDS Naturals, Sequences

CONSTANTS Threads, Main,
          Daemons,    \* setDaemon(true) has been called before start()
          None,
          MaxCalls    \* bounds the calls of start and join by one thread

ASSUME ThreadsAssumption == /\ Main \in Threads
                            /\ Daemons \subseteq Threads \ {Main}
                            /\ None \notin Threads
                            /\ MaxCalls \in Nat

VARIABLES
    status,    \* the field threadStatus
    native,    \* VMThread::nativeThread
    owner,     \* of the monitor of each Thread object
    pc,        \* what each thread does, see PC
    target,    \* the thread it starts or joins
    joinThreads,   \* ThreadManager::joinThreads
    vm,        \* what the thread of C++ does, see VM
    joining,   \* the thread it joins
    exit,      \* VM::exit
    crashed,   \* std::terminate, or a data race
    calls,     \* calls of start and join so far
    starts,    \* history: starts of a thread that have got past the check
    unlocked   \* history: woken for no reason in join, goes on without lock

threadVars == <<status, native, owner, pc, target, calls, starts, unlocked>>
vmVars == <<joinThreads, vm, joining, exit>>
vars == <<threadVars, vmVars, crashed>>

\* new      not started, or gone
\* begin    run() before it sets RUNNABLE
\* body     in the Java code of the thread
\* slock    in start(), wants the monitor;  sadd  about to call addThread
\* screate  about to create the native thread;  sdetach  to detach it
\* jlock    in join(), wants the monitor;  jcheck  about to call isAlive()
\* jwait    about to sleep;  jsleep  asleep;  jwoken  wants the monitor back
\* jleave   has it back, about to destroy the unique_lock;  jexit  leaves
\* exit     in Thread.exit();  tlock  TERMINATED, about to notify;  gone
Starting == {"sadd", "screate", "sdetach"}
Joining == {"jlock", "jcheck", "jwait", "jsleep", "jwoken", "jleave", "jexit"}
PC == {"new", "begin", "body", "slock", "exit", "tlock", "gone"}
      \cup Starting \cup Joining

VM == {"pop", "join", "exit", "exitVM"}

TypeOK ==
    /\ status \in [Threads -> {"NEW", "RUNNABLE", "WAITING", "TERMINATED"}]
    /\ native \in [Threads -> {"none", "joinable", "detached", "joined"}]
    /\ owner \in [Threads -> Threads \cup {None}]
    /\ pc \in [Threads -> PC]
    /\ target \in [Threads -> Threads \cup {None}]
    /\ joinThreads \in Seq(Threads)
    /\ vm \in VM
    /\ joining \in Threads \cup {None}
    /\ exit \in BOOLEAN
    /\ crashed \in BOOLEAN
    /\ calls \in [Threads -> Nat]
    /\ starts \in [Threads -> Nat]
    /\ unlocked \in [Threads -> BOOLEAN]

\* VM::runMainMethod has started the main thread.
Init == /\ status = [t \in Threads |-> "NEW"]
        /\ native = [t \in Threads |-> IF t = Main THEN "joinable" ELSE "none"]
        /\ owner = [t \in Threads |-> None]
        /\ pc = [t \in Threads |-> IF t = Main THEN "begin" ELSE "new"]
        /\ target = [t \in Threads |-> None]
        /\ joinThreads = <<Main>>
        /\ vm = "pop"
        /\ joining = None
        /\ exit = FALSE
        /\ crashed = FALSE
        /\ calls = [t \in Threads |-> 0]
        /\ starts = [t \in Threads |-> IF t = Main THEN 1 ELSE 0]
        /\ unlocked = [t \in Threads |-> FALSE]

Goes(t, where) == pc' = [pc EXCEPT ![t] = where]
Sets(t, s) == status' = [status EXCEPT ![t] = s]

\* The monitor of a Thread object; to unlock it without owning it does
\* nothing.
Lock(t, u) == owner[u] = None /\ owner' = [owner EXCEPT ![u] = t]
Unlock(t, u) == owner' = [owner EXCEPT ![u] = IF @ = t THEN None ELSE @]

-----------------------------------------------------------------------------
(* VMThread::run *)

\* It takes its name, which may be given again, and is alive.
Begin(t) == /\ pc[t] = "begin"
            /\ Goes(t, "body")
            /\ Sets(t, "RUNNABLE")
            /\ UNCHANGED <<native, owner, target, calls, starts, unlocked, vmVars, crashed>>

\* The Java code returns or throws; Thread.exit() is called.
EndBody(t) == /\ pc[t] = "body"
              /\ Goes(t, "exit")
              /\ UNCHANGED <<status, native, owner, target, calls, starts, unlocked,
                             vmVars, crashed>>

Terminate(t) == /\ pc[t] = "exit"
                /\ Goes(t, "tlock")
                /\ Sets(t, "TERMINATED")
                /\ UNCHANGED <<native, owner, target, calls, starts, unlocked, vmVars, crashed>>

NotifyUnlocked(t) ==   \* a mutant: notifies without the lock
    /\ pc[t] = "tlock"
    /\ pc' = [u \in Threads |-> IF u = t THEN "gone"
                                ELSE IF pc[u] = "jsleep" /\ target[u] = t THEN "jwoken"
                                ELSE pc[u]]
    /\ UNCHANGED <<status, native, owner, target, calls, starts, unlocked, vmVars, crashed>>
NotifyJoiners(t) ==
    /\ pc[t] = "tlock"
    /\ owner[t] = None
    /\ pc' = [u \in Threads |-> IF u = t THEN "gone"
                                ELSE IF pc[u] = "jsleep" /\ target[u] = t THEN "jwoken"
                                ELSE pc[u]]
    /\ UNCHANGED <<status, native, owner, target, calls, starts, unlocked, vmVars, crashed>>

-----------------------------------------------------------------------------
(* VMThread::start *)

Call(t, u, where) == /\ pc[t] = "body"
                     /\ calls[t] < MaxCalls
                     /\ calls' = [calls EXCEPT ![t] = @ + 1]
                     /\ target' = [target EXCEPT ![t] = u]
                     /\ Goes(t, where)

CallStart(t, u) == /\ t \notin Daemons
                   /\ u # t
                   /\ Call(t, u, "slock")
                   /\ UNCHANGED <<status, native, owner, starts, unlocked, vmVars, crashed>>

\* IllegalThreadStateException unless NEW.
EnterStart(t) == /\ pc[t] = "slock"
                 /\ LET u == target[t]
                    IN IF status[u] = "NEW"
                       THEN /\ Lock(t, u)
                            /\ starts' = [starts EXCEPT ![u] = @ + 1]
                            /\ Goes(t, "sadd")
                       ELSE /\ owner[u] = None
                            /\ Goes(t, "body")
                            /\ UNCHANGED <<owner, starts>>
                 /\ UNCHANGED <<status, native, target, calls, unlocked, vmVars, crashed>>

\* start0 tests the status again and throws, and goes on all the same.
AddThread(t) == /\ pc[t] = "sadd"
                /\ joinThreads' = Append(joinThreads, target[t])
                /\ Goes(t, "screate")
                /\ UNCHANGED <<status, native, owner, target, calls, starts, unlocked,
                               vm, joining, exit, crashed>>

\* A std::thread that is joinable must not be assigned to, and a VMThread
\* not be run twice.
CreateThread(t) ==
    /\ pc[t] = "screate"
    /\ LET u == target[t]
       IN IF pc[u] = "new"
          THEN /\ native' = [native EXCEPT ![u] = "joinable"]
               /\ pc' = [pc EXCEPT ![t] = "sdetach", ![u] = "begin"]
               /\ UNCHANGED crashed
          ELSE /\ crashed' = TRUE
               /\ UNCHANGED <<native, pc>>
    /\ UNCHANGED <<status, owner, target, calls, starts, unlocked, vmVars>>

DetachNone(t) ==   \* a mutant: no thread is detached
    /\ pc[t] = "sdetach"
    /\ Unlock(t, target[t])
    /\ Goes(t, "body")
    /\ UNCHANGED <<status, native, target, calls, starts, unlocked, vmVars, crashed>>
Detach(t) ==
    /\ pc[t] = "sdetach"
    /\ LET u == target[t]
       IN /\ native' = [native EXCEPT ![u] = IF u \in Daemons THEN "detached" ELSE @]
          /\ Unlock(t, u)
    /\ Goes(t, "body")
    /\ UNCHANGED <<status, target, calls, starts, unlocked, vmVars, crashed>>

-----------------------------------------------------------------------------
(* Thread.join and VMThread::isAlive *)

CallJoin(t, u) == /\ u # t
                  /\ Call(t, u, "jlock")
                  /\ unlocked' = [unlocked EXCEPT ![t] = FALSE]
                  /\ UNCHANGED <<status, native, owner, starts, vmVars, crashed>>

EnterJoin(t) == /\ pc[t] = "jlock"
                /\ Lock(t, target[t])
                /\ Goes(t, "jcheck")
                /\ UNCHANGED <<status, native, target, calls, starts, unlocked, vmVars, crashed>>

\* NEW counts as not alive, also when the thread has been started.
IsAlive(u) == status[u] \notin {"NEW", "TERMINATED"}

CheckAlive(t) == /\ pc[t] = "jcheck"
                 /\ Goes(t, IF IsAlive(target[t]) THEN "jwait" ELSE "jexit")
                 /\ UNCHANGED <<status, native, owner, target, calls, starts, unlocked,
                                vmVars, crashed>>

\* Oop::wait of the Thread object
Sleep(t) == /\ pc[t] = "jwait"
            /\ Sets(t, "WAITING")
            /\ Unlock(t, target[t])
            /\ Goes(t, "jsleep")
            /\ UNCHANGED <<native, target, calls, starts, unlocked, vmVars, crashed>>

\* At most once in a join, to bound the model.
SpuriousWakeup(t) == /\ pc[t] = "jsleep"
                     /\ ~unlocked[t]
                     /\ Goes(t, "jwoken")
                     /\ unlocked' = [unlocked EXCEPT ![t] = TRUE]
                     /\ UNCHANGED <<status, native, owner, target, calls, starts,
                                    vmVars, crashed>>

Relock(t) == /\ pc[t] = "jwoken"
             /\ Lock(t, target[t])
             /\ Goes(t, "jleave")
             /\ UNCHANGED <<status, native, target, calls, starts, unlocked, vmVars, crashed>>

LeaveWait(t) == /\ pc[t] = "jleave"
                /\ Sets(t, "RUNNABLE")
                /\ Unlock(t, target[t])
                /\ Goes(t, "jcheck")
                /\ UNCHANGED <<native, target, calls, starts, unlocked, vmVars, crashed>>

LeaveJoin(t) == /\ pc[t] = "jexit"
                /\ Unlock(t, target[t])
                /\ Goes(t, "body")
                /\ UNCHANGED <<status, native, target, calls, starts, unlocked, vmVars, crashed>>

-----------------------------------------------------------------------------
(* The thread of C++: ThreadManager::joinUserThreads, VM::joinThreads *)

PopNewest(s) == [head |-> s[Len(s)], rest |-> SubSeq(s, 1, Len(s) - 1)]   \* a mutant
Pop(s) == [head |-> Head(s), rest |-> Tail(s)]

PopThread == /\ vm = "pop"
             /\ IF joinThreads = <<>>
                THEN /\ vm' = "exit"
                     /\ UNCHANGED <<joinThreads, joining>>
                ELSE /\ vm' = "join"
                     /\ joining' = Pop(joinThreads).head
                     /\ joinThreads' = Pop(joinThreads).rest
             /\ UNCHANGED <<exit, threadVars, crashed>>

\* A thread that is about to be assigned to nativeThread, or to detach it,
\* while join looks at it: a data race.
BeingStarted(u) == \E s \in Threads : pc[s] \in {"screate", "sdetach"} /\ target[s] = u

JoinAlive ==   \* a mutant: joins if the thread is alive
    /\ vm = "join"
    /\ vm' = "pop"
    /\ IsAlive(joining) => pc[joining] = "gone"
    /\ native' = [native EXCEPT ![joining] = IF @ = "joinable" THEN "joined" ELSE @]
    /\ UNCHANGED <<crashed, joinThreads, joining, exit, status, owner, pc, target, calls,
                   starts, unlocked>>
JoinThread ==
    /\ vm = "join"
    /\ vm' = "pop"
    /\ IF BeingStarted(joining)
       THEN /\ crashed' = TRUE
            /\ UNCHANGED native
       ELSE /\ native[joining] = "joinable" => pc[joining] = "gone"
            /\ native' = [native EXCEPT ![joining] =
                              IF @ = "joinable" THEN "joined" ELSE @]
            /\ UNCHANGED crashed
    /\ UNCHANGED <<joinThreads, joining, exit, status, owner, pc, target, calls, starts,
                   unlocked>>

SetExit == /\ vm = "exit"
           /\ vm' = "exitVM"
           /\ exit' = TRUE
           /\ UNCHANGED <<joinThreads, joining, threadVars, crashed>>

-----------------------------------------------------------------------------
Runs(t) == \/ Begin(t)
           \/ Terminate(t)
           \/ NotifyJoiners(t)
           \/ EnterStart(t)
           \/ AddThread(t)
           \/ CreateThread(t)
           \/ Detach(t)
           \/ EnterJoin(t)
           \/ CheckAlive(t)
           \/ Sleep(t)
           \/ Relock(t)
           \/ LeaveWait(t)
           \/ LeaveJoin(t)

VMStep == PopThread \/ JoinThread \/ SetExit

Next == /\ ~crashed
        /\ \/ \E t \in Threads : \/ Runs(t)
                                 \/ EndBody(t)
                                 \/ SpuriousWakeup(t)
                                 \/ \E u \in Threads : CallStart(t, u) \/ CallJoin(t, u)
           \/ VMStep

Spec == Init /\ [][Next]_vars

\* The threads and the thread of C++ are scheduled.  Calls are bounded, so a
\* monitor is free for good in the end, and whoever wants it gets it.  Nothing
\* is assumed of the Java code: a thread may run for ever.
Fairness == /\ \A t \in Threads : WF_vars(~crashed /\ Runs(t))
            /\ WF_vars(~crashed /\ VMStep)

FairSpec == Spec /\ Fairness

-----------------------------------------------------------------------------
(* Properties *)

\* The VM exits when no user thread is left that was started and has not
\* ended, those included that a thread has started in its last step.
Unfinished(t) == \/ pc[t] \notin {"new", "gone"}
                 \/ \E s \in Threads : pc[s] \in Starting /\ target[s] = t
ExitAfterUsers == exit => \A t \in Threads \ Daemons : ~Unfinished(t)

\* nativeThread is never assigned, detached and joined at the same time, and
\* never assigned twice, unless a program starts a thread twice.
CrashNeedsTwoStarts == crashed => \E t \in Threads : starts[t] > 1

\* join() returns when the thread has ended: no joiner sleeps through the
\* notification, unless he was woken for no reason, and waits without lock.
JoinEnds ==
    \A t \in Threads : pc[t] \in Joining /\ status[target[t]] = "TERMINATED"
                           ~> pc[t] = "body" \/ unlocked[t] \/ crashed

\* The VM exits after the last user thread, whatever the daemons do.
VMEnds == (\A t \in Threads \ Daemons : pc[t] \in {"new", "gone"}) ~> exit \/ crashed
=============================================================================
