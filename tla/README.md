# A specification of RexVM

RexVM is a Java 8 virtual machine in C++: a class-file loader, a bytecode
interpreter, Java threads on native threads, object monitors, a stop-the-world
tracing collector with finalizers. This directory holds TLA+ modules that model
its core, TLC configurations that check them on small instances, and proofs of
the main safety properties for every instance, checked by TLAPS.

Paths are relative to `src/src/` of the repository. `PROJECT.json` gives, for
each definition, the lines it stands for.

    tlc -workers 2 -config Safepoint.cfg MCSafepoint     # one run
    tlapm CollectionProofs.tla                           # the proofs of one module

## 1. The system

| Component | State | Operations | Module |
|---|---|---|---|
| safepoint handshake (`garbage_collect.cpp`, `thread.cpp`) | `checkStop`, `checkStopMtx/Cv`; per thread `stopForCollect`, `gcSafe`, status | `checkStopForCollect`, `stopTheWorld`, `checkTerminationCollect`, `startTheWorld`, `ThreadSafeGuard` | `Safepoint`, `StopTheWorld` |
| finalizer thread (`garbage_collect.cpp`) | `oopDeque`, its condition variable | `runnerMethod`, `add`, `runOneOop` | `Finalizer`, on `Safepoint`; the heap side in `Collector` |
| tracing collector (`garbage_collect.cpp`, `memory.cpp`) | the `OopHolder` of each thread, TRACED and FINALIZED flags | `processTrace`, `traceMarkOop`, `collectOopHolder` | `Collector` |
| frames (`frame.cpp`, `utils/stack.cpp`, `execute.cpp`) | one array of slots and types per thread, `Frame` objects | frame construction, push and pop, return, exception passing, `getCollectRoots` | `FrameStack`, `JavaFrames` |
| object monitors (`oop.cpp`) | the monitor pointer in `comFlags`, `OopMonitor` | `getAndInitMonitor`, `lock`, `unlock`, `wait`, `notify_one/all` | `Monitor` |
| thread life cycle (`thread.cpp`, `native/core/java_lang_thread.hpp`) | status, `nativeThread`, `joinThreads` | `start0`, `run`, `join`, `isAlive` | `Threads`; as a stop sees it, `Safepoint` |
| bootstrap and shutdown (`vm.cpp`, `bootstrap_helper.cpp`) | `exit`, the threads of the VM | `runMainMethod`, `joinThreads`, `exitVM` | `Threads`, `Finalizer` |
| class initialisation (`class.cpp`) | `initStatus`, `staticData`, special type | `clinit`, `initStaticField`, use of static members and `new` | `ClassInit` |
| class file parser (`class_file.cpp`, `constant_info.hpp`, `attribute_info.hpp`) | the stream, the `ClassFile` | `parserAll`, the constructors of constants and attributes | `JavaClassFile`, `ClassFile` |
| construction of classes (`class.cpp`, `class_member.cpp`, `utils/descriptor_parser.cpp`) | what is left of the `ClassFile`, tables of members, slots | the constructors of `InstanceClass`, `Field`, `Method` | `ClassBuild`, `Descriptors` |
| hierarchy and linking (`class.cpp`, `frame_memory_handler.cpp`) | member tables, `executeClassMemberCache` | `isAssignableFrom`, `getMethod`, `getRefMethod`, `linkVirtualMethod`, `findExceptionHandler` | `Linking` |
| class loader (`class_loader.cpp`) | `classMap`, `clMutex` | `getClass`, `loadArrayClass`, `defineClass` | `ClassLoader` |
| string pool (`string_pool.cpp`) | a table of hash chains | `getInternString`, `gcStringOop` | `StringPool`; a set in `Collector` |
| mirrors (`mirror_base.cpp`) | `mirOop` of classes, fields and methods | `getBaseMirror`, `clearHolder` | `Mirrors` |
| reflection, method handles (`native/core`, `method_handle.cpp`) | none of their own | some forty natives, `invokedynamic` | `NativeCalls`, `CoreNatives`, `Reflection` |
| interpreter (`interpreter.cpp`, `utils/stack.cpp`) | slots and types of one frame | about 200 instructions | `Interpreter`, `JavaOperands`, `JavaTypes`; those that call, return or allocate in `FrameStack` |
| VM exceptions (`exception_helper.cpp`) | none of their own | `throwAssignException`, handler search | `FrameStack`, `Linking`, `ClassInit` |
| unsafe operations, the header word of objects (`unsafe_helper.hpp`, `composite_ptr.hpp`) | raw memory | `compareAndSwap*`, set pointer, set data | not modelled (section 5) |
| class path, zip, files, printing, platform | none that outlives a call | | not modelled: I/O |

**How they interact.** A VM thread polls `checkStop` at the entry of each method
(`monitorExecuteFrame`) and nowhere else. The GC thread sleeps 5 s, and when more
than 100 MB are allocated raises `checkStop` and scans the list of threads until
each is stopped or terminated, for at most `collectStopWaitTimeout`. It gives up
too when a thread is inside a `ThreadSafeGuard`. In between it takes the slots of
all thread stacks, the static fields and class mirrors and the `Thread` objects
for roots, marks, marks again what awaits `finalize()`, and deletes the rest; the
finalizer thread takes its objects from a deque. The string pool, classes and
members refer to strings and mirrors without keeping them alive, so the sweep
takes them out. Object monitors are independent of all this, except that they
share a header word with the flags of the collector and that a thread blocked in
one never reaches a safepoint; `Thread.join` is a wait on the monitor of a
`Thread` object. A class is read, built, linked and initialised by the thread
that first uses it: the loader holds `clMutex` while it builds a class and
everything above it; initialisation takes no lock.

**What is hard** is what no unit test reaches: the handshake between a plain
boolean, a mutex and a timeout; references the collector cannot see (C++
variables, a pending exception, slots nobody has written yet); double-checked
creation of monitors, mirrors and classes; exceptions thrown while the VM, not
bytecode, is the caller; constructors that move the class file out from under
the constructors that follow. `PROJECT.json` lists the hazards by line; the
properties below are aimed at them. There are no tests in the repository.

`GarbageCollect::enableGC` is FALSE by default and nothing sets it; all models
take it to be TRUE, otherwise nothing is ever collected and the handshake is
a no-op.

## 2. The modules

### Safepoint implements StopTheWorld

`StopTheWorld` is the promise: threads are mutators or not, a collection begins
only without mutators, and nobody becomes one until it ends.

`Safepoint` is the protocol. `pc` is the control point of each VM thread, `gc`
that of the GC thread. `checkStopForCollect` is split at each point where another
thread can interfere: the unlocked read (`Poll`), taking the mutex and announcing
the stop (`Announce`), the predicate (`EvaluatePredicate`), falling asleep
(`Block`), waking up (`NotifyAll`, `SpuriousWakeup`), `Reacquire`, and the reset
of the flag (`Resume`). `stopTheWorld` is one `ScanThread` per thread with its
three ends: all stopped, `vm.exit`, timeout. `startTheWorld` is two steps,
`OpenWorld` and `NotifyAll`, because it holds no mutex. Threads also start one
another, join, block in natives (`sleep`, `wait`) and enter guards. Guards nest, as
invokedynamic runs Java code inside its own: `gcSafe` is a flag, so the end of an inner
guard (`LeaveGuard`) makes the thread collectable while `guards[t].open` says it is
still in another, and `ended` remembers that.

The protocol is not safe by itself: a waiter that has read `checkStop = FALSE`
still has `stopForCollect = TRUE` for a few instructions, and a stop that begins
there counts it as stopped although it is about to run. What prevents it is time,
the 5 s between two collections, and this is the named assumption
`SleepOutlastsBrief`: no thread stays at a control point in `Brief` for the 5 s.
The run `Safepoint` puts only `leave` there, `Finalizer` more (see Fairness).

### Finalizer extends Safepoint

The finalizer is a daemon that runs `runnerMethod` instead of Java code: `at` is
where it is in its loop, `oopDeque` what it still has to do. It sleeps on a
condition variable of its own, which is the blocked native of `Safepoint`; the GC
thread raises `checkStop` and `exit` without the mutex of that variable, and
notifies it one step later (`cvDue`). `Add` is open to all objects not yet
finalized, those that are in the deque already included, because the code is.
All temporal properties of the handshake are checked here, with the thread that
depends on it most: `StopAttemptEnds` and `ParkedResumes` of `Safepoint`,
`FinalizerServes`, `ShutdownEnds`. Whether the heap ever needs another collection
is the program's business, so nothing makes the GC thread begin a next one.

### Collector

The heap is a graph (`fields`), the roots are sets (`stack`, `statics`, `live`).
Threads create, obtain, store and drop references between cycles; inside a cycle
each call of `traceMarkOop` (its recursion is the set `pending`) and each turn of
the loops over the holders is a step, so that the properties speak of every
moment of a cycle. `Revive` is the second loop of `processTrace`, which marks
objects still to be finalized and all `Thread` objects, whether or not they are
reachable. Addresses are used again after `Sweep`.

That threads move only outside a cycle is what `StopTheWorld` promises. How a
reference may be missing from the roots is the subject of `FrameStack` (slots) and
of `Reflection` (C++ variables of natives).

### FrameStack implements JavaFrames

`JavaFrames` is what a method may rely on: locals and operands of its own, which
change only by its instructions, its callees' results and exceptions.

`FrameStack` is the shared array: a callee's locals are the slots of its caller's
popped arguments, a popped slot keeps its value, and a new frame clears nothing.
`frames` holds what the C++ objects hold (`base`, `sp`, `markThrow` and
`throwObject` as `thrown`), `next` says what the C++ code does after a callee
threw into it, which is not always to handle the exception: after a `<clinit>`
it goes on (`clinit`), and so do natives and `invokedynamic` where they do not look at
`markThrow` (`more`, once: `last`). `InvokeDynamic` is the Java code a bytecode frame runs
by hand. `runMethodManual` pops a result even of a method that threw, so `sp` can
fall below -1, and the next frame then begins on slots of the one that calls it.
From there on (`overlaid`) the model does not follow the thread: the
properties speak of what comes before, and of the caller that has made the call
(`LaidOver`). A collection (`Collect`) is possible whenever the thread polls, and
deletes what the scan does not see. `defined`, the locals stored to, is known to
the bytecode verifier only; the code never reads it, it limits which locals
verified bytecode loads. The first use of a deleted object is undefined
behaviour: `crashed` records it and nothing happens after it.

### Monitor

One object. `getAndInitMonitor` is three steps around the spin lock;
`std::recursive_mutex` and `condition_variable_any` are modelled from how they are
used (`Lock`, `Unlock`, `Relock`, `Sleepers` are marked external). To unlock a
mutex one does not own is undefined by the C++ standard; the model has what the
pthreads implementation does, nothing. `wait` adopts the caller's mutex in a
`std::unique_lock` and its destructor unlocks it: `Sleep`, `WakeUp`, `Relock`,
`LeaveWait`. The threads run verified bytecode, i.e. they call `wait`, `notify`
and `monitorexit` inside a block.

### Threads

`start`, `run` and `join` over the monitors of `Thread` objects, next to the thread
of C++ that joins the user threads one by one (`PopThread`, `JoinThread`) and then
sets `exit`. `Thread.start` and `Thread.join` are synchronized Java methods around
the natives; `EnterStart`, `EnterJoin`, `LeaveJoin` and the rest have both. A
`wait` that returns has lost the lock (`MonitorWait`), so the loop of `join` goes on
without it: `LeaveWait`. `CreateThread` assigns `nativeThread`, `Detach` may detach
it, and the thread of C++ looks at it: two of these at once are a data race
(`BeingStarted`), to start twice is `std::terminate`; both are `crashed`. In the
programs modelled daemons start no threads and nobody joins himself.

### ClassInit

`clinit` takes no lock. `stack` has, for each thread, the calls of `clinit` and
their users, with the step each is at: `check` reads the status, then `set`,
`super` (which calls `clinit` of the superclass), `static` (`initStaticField`, which
replaces the array of static fields: `statics` has the thread that wrote to them last,
or that nobody has since), `run`, `body` (the `<clinit>`, which uses any
class, ends or throws), `special`, `done`. An exception of a `<clinit>` becomes that
of the frame that uses the class, and all pending initialisations go on:
`ThrownTo`. `met` remembers the classes two threads have met in; for these the code
promises nothing, and the properties except them by name.

### From file to frame: JavaClassFile, ClassFile, ClassBuild, Linking

`JavaClassFile` is the input: what a class file is, and its bytes as units of
1, 2, 4 or 8. `ClassFile` reads them, one action per constant, member and attribute;
a read of the wrong width has no action, so that deadlock, which is checked, would
show it. `ClassBuild` has the constructors of `InstanceClass`, `Field` and `Method`,
which do not copy what was read but move it: what has been moved is null in
`pool` and `cf` for the steps that follow.
`Descriptors` has the parser of descriptors over tokens.
`Linking` has a frame of the last class of the program: resolution of its
constants, virtual methods by the class of the receiver, type tests, handlers,
all through the one map of the frame, `executeClassMemberCache`. A behaviour is one
program from its first byte to the last use (`LSpec`). What an instruction names exists.
The frame runs if the classes are consistent (`AreConsistent`), which compilers see to and the
loader in part: interfaces come before what has them, superclasses are no interfaces,
no method of `Object` is abstract, and no class has two methods of one name and
descriptor. In the same way `HasNoStatic` excepts a static method called on an object and
`IsAligned` a table with rows that begin or end inside an instruction. `Reached` and `Search`
are the walks of `isSubInterfaceOf`, `getField` and `getMethod`, as functions on the loaded classes.

Which files there are is an assumption of `ClassFile` (`FilesAssumption`), of which
`IsFile` says what it means: constants have the numbers of their tag, and behind a
long or a double there is an unusable one; names, descriptors and classes are at
indices of constants of that kind; an attribute is called by its kind, has the
numbers and columns of its kind, and there is one of each kind in a list; Code is not
inside of Code, and a native method has none; a descriptor is one by the grammar of
descriptors. `InOrder` says which files make a program: their names differ and are not
empty, and none comes before its superclass, because the loader builds the superclass
first (`class.cpp:377`) and no name is loaded twice (`OneClassPerName`). A superclass may
be missing in a program of one file: then nothing is inherited. That is what compilers write; the
numbers themselves, the length of every list and the tags and attributes beyond what
the program knows are free. TLC tests the assumption on all files of `MCLinking`.
A file with a tag or an attribute the program does not know is `Unknown`.

### The natives: NativeCalls, ClassLoader, StringPool, Mirrors, CoreNatives, Reflection

A native is a sequence of calls: `todo` has, for each thread, those it still has to
make, and a call that makes others puts them in front. `got` has the objects in
C++ variables, `held` those in Java frames, which alone the collector sees.
`ClassLoader` has `getClass` under `clMutex`, and the natives that define a class from
bytes, which use the map without it (`torn` when that meets a reader). `StringPool`
has the strings chained in a bucket, as a set, by the hash of their bytes; they are
compared as UTF-16. `Mirrors`
has `getBaseMirror` under its spin locks, with the fields of a mirror set after it is
published. `CoreNatives` has the bodies of the natives, each as the calls it
makes in the order of the C++; `Reflection` lets threads call them, and collects
when all threads are in Java code, theirs or what a native has called, and `gcSafe`.
Java code that a native runs calls natives in turn: the state is kept for each of the
`Levels` of a thread, `<<t, n>>` being the n-th native nested in thread t, and the Java
code of a level (`RunJava`) ends when the levels above it are idle. A native whose
guard was on when a guard inside it ended is in `lapsed`. Java code may throw; the
natives that look at `markThrow` end then (`EndIfThrown`). The model stops where a C++
variable points to what has been deleted (`Dangling`), whether or not the C++ uses it
again. The assumptions of these modules say what class files and
callers give: no class file is above itself; members, attributes and call sites name
classes that exist, as do the arguments of all natives but `forName0` (the others
call `getMirror` on what `getClass` returns without a test); and names stand for one
thing each, so that a string and a class of one name have two names here.

### Interpreter implements JavaOperands

One frame. `JavaOperands` has whole values and integers that are brought back into
their range; `Interpreter` has the slots of the code: a `long` is two of them, the
value and a second one (`Half`, in the code a 0 of the same type, which nothing
tells apart from a value), the dup family moves single slots, arithmetic goes
through unsigned, and `&`, `|` and `^` through the places where a word has a 1. One action stands
for the handlers that differ in the type or the operator only. The handlers check
no types: the guards `Verified`, `Boundary` and `readable` are what a bytecode
verifier guarantees. The widths of the integers are parameters, floating-point
numbers are a few numbers and NaN of which only the order matters. The bound on the
number of instructions is `budget`. `JavaTypes` has the types and values both share.

`JavaOperands` describes RexVM where it is not Java, in three points: `fdiv`,
`ddiv`, `frem` and `drem` by zero throw `ArithmeticException`; `baload` gives
unsigned bytes (`ByteTypeArrayOop::data` is `u1`); no handler checks an array index,
so that one out of bounds is undefined behaviour (`Crash`). So is `MIN / -1`,
which traps on amd64 and wraps on aarch64; both are steps of `Divide`.

## 3. The runs

| Run | Shows | Distinct states |
|---|---|---|
| `Safepoint` | `WorldStopped`, `GuardedNativeIsSafe`, refinement of `StopTheWorld` | 315,382 |
| `Finalizer` | `StopAttemptEnds`, `ParkedResumes`, `FinalizerServes`, `ShutdownEnds` | 5,782 |
| `Collector` | `NoDangling`, `TraceTouchesLive`, `PoolIsAlive`, `FlagsAreClear`, `GarbageIsFreed` | 2,756,968 |
| `FinalizeOnce` (violation) | an object is finalized twice | |
| `FrameStack` | refinement of `JavaFrames`, `ReadableIsAlive` | 300,980 |
| `Monitor` | `OneMonitor`, `NothingIsLeaked`, `ExclusionWithoutWait`, `EnterSucceeds` | 8,623 |
| `MonitorWait` (violation) | `MutualExclusion` fails after `wait` | |
| `Interpreter` | refinement of `JavaOperands`, `HalvesTogether` | 170,505 |
| `ClassFile` | `ParsedFaithfully`, `NothingMovedIsRead`, `BuiltFaithfully`, `SlotsAreDistinct`, `ParametersAgree`, `TypesDecide`, `MostDerivedIsLinked`, `CacheIsTransparent` | 180,109 |
| `ClassInit` | `UsedInitialised`, `RunsOnce`, `WritesLast`, `EveryUseEnds` | 305,001 |
| `Threads` | `ExitAfterUsers`, `CrashNeedsTwoStarts`, `JoinEnds`, `VMEnds` | 249,772 |
| `Reflection` | `OneObject`, `PointsToLiving`, `OneClassPerName`, `CallsEnd` | 209,759 |

What the two violation runs show is stated, with the line of the comment or
document it disagrees with, under `findings` in `PROJECT.json`. The runs that
pass say what holds nevertheless, and each exception they need is written into
the property and is itself a statement about the code:

* `GuardedNativeIsSafe`: no collection while a thread is in a `ThreadSafeGuard` inside
  which no other has ended. It does not hold without the exception, and neither does
  what `checkTerminationCollect` is for (`garbage_collect.cpp:122`, "if the stack of a
  thread has a native function in it, stop the collection"): the end of the inner guard of
  two sets `gcSafe` (`thread.cpp:241`), and the thread can be stopped and its collection
  run while it is inside the outer one.
* `ParkedResumes`: all that are asleep when a stop ends get out of the handshake. A
  thread whose notification falls between its predicate and its sleep, which is
  possible because `startTheWorld` holds no mutex, has overslept (`Overslept`): it
  sleeps until the next stop, and nothing says that there is one (the heap has to
  exceed the threshold again, `garbage_collect.cpp:84`). `FinalizerServes` has the same
  exception for the runner, and for it alone.
* `ImplementsJavaFrames` and `ReadableIsAlive` hold until a frame lies over its caller's
  slots (`LaidOver`), and say how it comes to that, and in no other way: a method run by hand throws, `runMethodManual` pops the result nobody pushed
  (`frame.cpp:117`), and the caller, which does not look at `markThrow`, runs another
  (`method_handle.cpp:93` and 114, 196 and 199; `execute.cpp:26`).
* `ReadableIsAlive`: whatever a frame can still *read* survives a collection, as
  long as no deleted object has been used. Roots themselves may be deleted
  objects (a slot nobody has overwritten), and so may what a native without a
  `ThreadSafeGuard` keeps in C++ variables. `PointsToLiving` shows that `invokedynamic`,
  which has the guard, loses nothing as long as no guard ends inside its own. When Java
  code it runs uses `invokedynamic` too, that guard ends first, and what the outer one keeps
  in `argResults` (`method_handle.cpp:141`) for the arguments that follow can be deleted.
* `ExclusionWithoutWait`: blocks that do not call `wait` exclude each other.
* `EnterSucceeds` excepts a nested waiter, who releases one level of the lock and
  keeps everybody out for as long as he sleeps.
* `UsedInitialised`, `RunsOnce` and `WritesLast` except classes two threads meet
  in. `WritesLast` says what `initStaticField` can take away: only what the
  thread that runs it wrote on its way there, from the `<clinit>` of the superclass.
  `EveryUseEnds` is the other side of this: without a lock two classes that
  use each other cannot block two threads.
* `CrashNeedsTwoStarts`: the unlocked test in `start`, which goes on after it has
  thrown, does harm only when a program starts one thread twice.
* `JoinEnds` excepts a joiner that was woken for no reason: he sleeps again
  without the lock and can miss the notification.
* `OneClassPerName` excepts names that are defined from bytes, as those natives
  do not take `clMutex`; `OneObject` excepts equal strings in two encodings whose
  bytes have different hashes.
* `CacheIsTransparent` excepts a Methodref used by `invokespecial` and
  `invokevirtual` in one frame, which have one key in the map; `TypesDecide` two
  arrays (`class.cpp:126` compares the component of `s` with itself) and the line of
  a one-byte instruction that throws where a new line begins.

**Bounds.** `Safepoint`: three threads, one a daemon: one that stops, one that
joins it, one that is started or terminates in between. `MaxNest = 2`: a guard, one
inside it, and what is left when that has ended.
`Finalizer`: the main thread and the runner, one object, a deque of two, so that
one object is queued twice; both sleep and are woken through every order of
`notify_all`, timeout and exit.
`Collector`: a main thread's object, a string and a finalizable `Thread` object,
one field each, two stack references, one static: this has cycles through the
fields, resurrection by a finalizer, reuse of every address, and strings in and
out of the pool; the deque holds one entry (`MaxDeque`), and a cycle that would
overflow it is not started. `FinalizeOnce` allows two. `FrameStack`: two objects,
three frames (a caller, a native or `<clinit>` in the middle, a callee), two
locals, two operands, and an array of four slots, so that frames overlap in
every way; the four methods are a `void` method with one uninitialised local
(`<clinit>` or `run`), one with a parameter (`printStackTrace`), one with
two and a result, and a native. `MaxFrames`, `Size`, `MaxOperands` are guards in
the model, the code checks none of them; nor that a frame begins below the array,
which is left out. A frame goes on to one more call after one that threw, which is
enough for an overlap. `Monitor`: two contenders, of whom
either may be the waiter, two monitors, the one that is needed and a second that
must not come to be, two levels of nesting. `Interpreter`: integers of 4 bits, all
pairs of them, and of 8 bits at the boundaries, which is where wrap-around, sign
extension, masks and division can go wrong; the widths 2, 3, 4 and 8 differ, as those
of the code do. Every stack of up to four values in up to five slots runs two
instructions (`dup2_x2` needs four slots), a method with a `long` and an `int`
parameter three, enough to tear a local and to load from it again.

`ClassFile` runs the programs of `MCLinking`, in groups. *Class*, *field* and
*method*: every pair of the attributes a compiler puts there, in either order,
since what goes wrong is a length or a move that the next attribute suffers from;
*constants*: a pool with all tags, and two with what the program does not know,
which panics; *family*: a superclass, an interface and fields of one and two
slots, static or not, in every order, sorted or not (lists longer than
`SortThreshold = 1` are sorted, in the code those longer than 32); *descriptor*: up to two parameters of six types, static or
not; *linking*: `Cloneable`, `Shape`, `A` and `B`, each above the next, of which the
last three declare `x()V`, declare it abstract or do not, with references from `B`
to both classes and to an array, code of three instructions with overlapping
handlers, and two uses of the map (`MaxUses`), one that fills an entry and one
that finds it.
`ClassInit`: two threads, a class and its subclass, which is a `Thread` class, both
with a `<clinit>`; two uses per thread, so that a `<clinit>` can use a class that is
used by the other thread, its own subclass included. `Threads`: a main thread, a
user thread and a daemon, two calls each: start and join, two starts, or two joins.
`Reflection`: two threads, two calls each out of the natives of `MCReflection`
(`AllCalls`), one thread's second one inside its first or after it (`MaxCalls = 2`,
`MaxDepth = 2`), which between them take every lock after every other; left out are
`findLoadedClass0` and `getDeclaringClass0`, which make the calls of others; a class with
an interface, a field, a method and a constructor; two strings with the same
text, in four and in six bytes of one hash, and a third. The class and its
interface may be loaded at the start or not. Two threads
are enough for each to hold a lock the other waits for, and for every pair of natives
to overlap.

Deadlock is checked in `Monitor` (a thread that owns nothing can always be
notified or wake up spuriously, and one that sleeps always wakes) and in
`ClassFile` (a read of the wrong width, or a class no step can finish); it is not
in the others, where the program may end (`Safepoint`, `Finalizer`, `Threads`,
`FrameStack`) or the bounds stop it (`Collector`, `Interpreter`, `ClassInit`,
`Reflection`).

**Fairness.** `FinalizerSpec` has weak fairness for the steps of
`checkStopForCollect` that no one else can disable, for the runner and for the GC
thread; strong fairness for taking `checkStopMtx` (it is free again and again, and
mutexes are assumed not to starve), and for the timeout and the test of `exit`,
which the loop of `stopTheWorld` reaches between any two scans. A `finalize()`
ends, and spurious wakeups of the handshake come to an end. There is no fairness for
`RaiseStop`: the heap may stay below the threshold for ever. `Brief` is here the whole handshake except the mutex queue and the
sleep itself, which means that a thread does not take 5 s to go from its read of
`checkStop` to sleep; nothing is assumed of the other Java code, which may never
call a method or never return from a native. `FairSpec` of `Monitor` has weak fairness for the VM's
own steps, strong fairness for the spin lock and the mutex, and for
`MonitorExit`: the program leaves the blocks it enters; nobody but another thread
need wake a waiter. In `Threads` the VM's own steps are weakly fair, the Java code of
a thread may run for ever. In `ClassInit` the steps of each thread are weakly fair
and a `<clinit>` ends or throws. In `Reflection` the steps of the natives are weakly
fair as long as the map is not torn, Java code that a native calls returns; calls are
bounded, so that a lock that is free often enough is free for good.

**Mutants.** For each property of a passing run `PROJECT.json` names a change of
one definition, of a kind a slip in the code would make, under which TLC finds the
property violated; the mutated forms stand before the definitions they change.

## 4. The proofs

All proofs are of the modules TLC checks, for any constants, finite or infinite,
that satisfy the modules' assumptions.

* `CollectionProofs`, of `Safepoint` and `Finalizer`: `TypeCorrect`, `Safety` (`WorldStopped`), `GuardSafety` (`GuardedNativeIsSafe`, for any
  depth of nesting), `Refinement` (`ImplementsStopTheWorld`). `WorldStopped` speaks
  of one moment; that it lasts is because the GC thread's view was right when
  the scan passed a thread and cannot become wrong while `checkStop` is up. So
  `IInv` says: `checkStop` is up exactly from the scan to the end of the collection
  (`StopMatchesPhase`); the flag `stopForCollect` is up exactly from `Announce` to
  `Resume` (`FlagMatchesPC`); only registered threads run (`OnlyRegisteredRun`); no
  thread is at `leave` while `checkStop` is up (`NobodyLeaves`: here the timing
  assumption enters); what has been scanned is at a safepoint or terminated, and
  stays there (`ScanHolds`). For `GuardSafety`, `GInv` says what the flag `gcSafe` is worth: that the
  thread is in no guard, or that one has ended inside the one it is in. The refinement maps the steps of threads to `Enter`, `Leave` or
  a stutter.
  `FinalizerImplements` shows that `Finalizer`, for any deque and whatever is added
  to it, takes steps of `Safepoint` only, so that all of this holds with the
  finalizer thread as well (`FinalizerIsSafe`). `NobodyAsleepAtAdd` adds what the
  notifications rest on: the runner polls before it locks `dequeMtx`
  (`RunnerMatchesPC`), so that `add`, which runs in a stopped world, never finds it
  asleep, and its own `notify_all` is of no use.
* `CollectionProofs`, of `Collector`: `HeapTypeCorrect`, `Soundness` (`NoDangling`), `TraceSafety`,
  `PoolSafety`, `FlagsCleared`, `Completeness` (`GarbageIsFreed`). Reachability is
  `Closure`, the least set that contains the roots and is closed under `fields`;
  three lemmas (least, closed, monotonic) replace induction over paths.
  `CollectorIInv` says that whatever must be kept is allocated at every moment of a cycle
  (`KeepIsAllocated`), and until the sweep also what garbage refers to, because the
  string pool can bring it back (`WholeIsAllocated`); that nothing is marked between
  cycles (`QuietBetweenCycles`); that during the trace only what must be kept is
  marked or pending, and that what the traced roots and the marked objects refer to
  is marked or pending (`MarkingIsComplete`); and that the sweep deletes exactly
  what is not marked (`SweepIsExact`).
* `ExecutionProofs`, of `Monitor`: `TypeCorrect`, `UniqueMonitor`, `LockAccounting`, `Exclusion`.
  `LockAccounting` is the surprising one: `wait` unlocks once more than it should,
  and the proof shows that this is never made up for by keeping the lock
  elsewhere; `Exclusion` needs that a thread in a block that has not waited owns
  the mutex exactly as often as it is nested.
* `ClassInitProofs`: `TypeCorrect`, `UseIsInitialised` (`UsedInitialised`),
  `ClinitRunsOnce` (`RunsOnce`), `LossesAreTheWritersOwn` (`WritesLast`), `InitIsOwned`, for any
  number of threads, any tree of classes and any depth of nesting. The code has no
  lock, so the argument is: as long as no two threads have met in a class, one call
  of `clinit` at most is initialising it (`OneCall`), because the status is read and
  set in two steps but whoever comes in between is a meeting. Then what has been
  done for the class follows from the step this call is at (`StepsInOrder`), nothing
  has been done while the status is LOADED (`LoadedIsFresh`) and everything once it
  is INITED (`InitedIsReady`). What a thread relies on when a call returns follows
  from how calls are nested: only the one on top runs (`OnlyTopRuns`), and below it
  is a user of that class or the `clinit` of its subclass (`CallsAreNested`), so that
  the check or the end of the upper call establishes what the lower one needs
  (`TopIsGood`). A status of INIT always has an owner on some stack (`InitHasOwner`),
  so that no class is left half initialised by nobody.
  For `WritesLast` the invariant is not enough, because it has to say of a value
  who wrote it: `WriterInitialises` says that a static field written before
  `initStaticField` was written by a thread that is initialising the class, unless
  two have met in it. That there is one such call at most makes it the one that
  resets the field (`LossIsOwn`).
* `FrameStackProofs`: `FramesStayDisjoint` (`Layout`, until `overlaid`), `NothingReadableIsCollected`
  (`ReadableIsAlive`), `SlotsImplementFrames` (`ImplementsJavaFrames`), `OverlapNeedsThrow`, for any methods,
  any depth of calls and any size of the array. All rest on one fact: the
  slots of a frame, its operands included, lie below the base of every frame that
  was called after it (`FramesAreDisjoint`), as long as `sp` is at least -1 at every call. It is not inductive by itself, because
  where a callee's slots begin follows from what its caller popped: `Layout` adds what
  holds of each frame alone (`FramesFit`: its slots are inside the array, a frame
  without exception has nothing left to do for one), of a frame and the one it called
  (`FramesCall`: only a callee that returns nothing stands above a frame that reports
  exceptions, a value is returned to native code only by a method called for it) and
  of the first frame (`FirstReports`). Then there is one lemma for each action,
  with three conclusions: `Layout'`, the step of `JavaFrames` it maps to, and
  `ReadableIsAlive'`. A call from a frame with `sp` below -1 sets `overlaid`, which no step takes
  back (`OverlaidStays`); a call from any other keeps frames apart. That only a frame with a
  pending exception, run by hand once more, has such an `sp` when it calls follows from
  what fits a frame (`FirstOverlap`), so that the exception of both properties is no wider
  than this (`OverlapNeedsThrow`). The scan of a collection covers more slots than Java can read
  (`ShownIsInSlots`); which of them are alive is the invariant.
* `ThreadsProofs`: `ThreadsInvariant` (`IInv`), `VMOutlivesUsers` (`ExitAfterUsers`),
  `NoCrashWithoutRestart` (`CrashNeedsTwoStarts`), for any threads and daemons. The
  thread of C++ sees the end of a queue and takes it for the end of the program.
  That nobody adds to the queue after that is because whoever starts a user thread is
  one, and is waited for before the end of the queue is reached
  (`UsersAreAwaited`); that `CreateThread` and `JoinThread` do not meet in one
  `std::thread` is because the starter stands in the queue ahead of the one it starts
  (`FirstStartIsOrdered`), until a second start breaks the order
  (`UnstartedIsUnknown` says that nothing else does).

* `ReflectionProofs`: `OneObjectHolds` (`OneObject`),
  `PointsToLivingHolds` (`PointsToLiving`), `OneClassPerNameHolds` (`OneClassPerName`),
  all from `Inductive` (`Inv`), for any threads, class files, members, strings, call
  sites and natives called, any number of times and nested to any depth. Steps are taken
  only where no C++ variable dangles; there `Inv` is `IInv`, which every step keeps,
  and it keeps the rest of `Inv` even if it makes a variable dangle, which only
  a native in `lapsed` can have (`GuardsHold`). The state of a native is the sequence
  of calls it has left, of any length, so the invariant says how such a sequence
  looks (`GoodTodo`) and the lemmas what happens to it when its first call is replaced
  by others (`Splice`, `Replaces`, `Continues`):
  which call may stand in front of which (`Before`, `Ordered`: a class is emplaced only
  after calls that load what is above it, which do not load the class again,
  because no file is above itself);
  that whoever looks a name up, or adds one that is not defined from bytes, will
  unlock `clMutex` later (`Locking`); that the class whose mirror is asked for has been
  found just before (`Found`); and that Java code outside a `ThreadSafeGuard`
  runs only before any object is asked for (`Careful`), which is where the
  collector may run without harm. `BodiesAreGood` shows that every native, with `FlattenSeq` over any
  number of parameters, members or bootstrap arguments, starts that way. What the
  threads share follows: `clMutex` is held as often as its owner has unlocks left
  (`LockIsCounted`, a count over a sequence), so that what is to be emplaced is not in
  the map (`EmplacedOnce`) and two threads never touch it at once; the pool's lock is
  held from the search to the insertion (`InsertedOnce`); each live object is the one
  its class, member or bucket points to, and conversely (`HeapIsIndexed`: this is what
  `clearHolder` and `gcStringOop` keep); only mirrors of members refer to other
  objects, and to none that does (`ReferencesAreFlat`), so that a collection need not
  look further than one reference. Induction over the length of a sequence is possible
  in one form, over a set of numbers (`SetInduction`, from `WFMin`), and gives
  `FlattenSeqStays`.

* `ExecutionProofs`, of `Interpreter`: `NothingIsTorn` (`HalvesTogether`), for any widths, constants and
  tables, any frame of whole values to start with (`FramesAssumption`) and any number
  of instructions. The invariant is `HalvesTogether` itself and that the stack is a
  sequence; the argument is what keeps it: a stack cut at a boundary is a stack
  (`CutStack`), two stacks put together are one (`ConcatStacks`), and slots given back in
  a list are one if each stands in the list where it stood on the stack, or at a
  boundary (`Unbroken`, `GivenIsStack`), which holds of the lists of all nine stack
  instructions. What is pushed does not matter. A store drops the variables whose
  halves it overwrites from `readable`, as the verifier does (`StoreIInv`).

* `ClassFileProofs`: `ParsedCorrectly` (`ParsedFaithfully`), `NothingMovedIsLookedAt`
  (`NothingMovedIsRead`), `BuiltAsTheFileSays` (`BuiltFaithfully`), `SlotsAreOneToOne`
  (`SlotsAreDistinct`), `TypesAreOfDescriptor` (`ParametersAgree`), for any programs of any number of files of any length. What is behind the parser is data of any depth
  (a file of members of attributes with attributes inside), so the proofs need
  induction, which comes in one form: a set of numbers with 0 in it and closed under
  the successor has all of `Nat` (`Induction`, proved by counting: a set that stopped
  at x would map what it has below x one to one into less). From it come the
  functions behind `FlattenSeq`, `Width` and `BootstrapMethodsAt` (`JoinOf`, `WidthOf`,
  `BeginsAre`) and what they do at the next step (`RestStep`, `WidthAppend`).
  The layout of a file is cut into parts, one for each constant, member or attribute,
  and `Rest(parts, i)` are the parts from the i-th on. For each constructor one lemma
  shows that, if what is left begins with the layout of an attribute, the constructor
  consumes exactly that and adds what the file has (`PlainRead`, `TableRead`,
  `MethodsRead`, `BytesRead`, `SkipRead`, `CodeRead`): `SkipRead` is the one that rests on
  the length field alone, for which units of the same width have to be the same units
  (`UnitsInAre`). The invariant says where the parser is in the file: in each phase, of
  what has been read so much is in `cf` and `pool`, and what is left in the stream
  is the rest of the parts (`Parsing`: `AtHeader` to `AtEnd`); within attributes,
  between which two of them or within which code (`InAttributes`).
  The constructors need a second invariant (`Building`), in two halves that follow
  each other through the steps: what has been moved to the class is what the file
  says (`Moved`), and what later steps look at has not been moved yet (`NotMoved`).
  That an attribute is found whichever way it is searched, the first, the last or
  the one of the kind (`Told`), is where one attribute of each kind is needed; sorting
  is any permutation (`SortedHas`).
  The slots of fields need a third invariant, on the library as a whole (`Shelved`):
  what is in it has come from an earlier file, each class has the slots `SlotsAreDistinct`
  says, and its chain of superclasses is one sequence and no other (`ChainIs`),
  which a class built later does not change, because nobody above it has its name
  (`ShelvedMore`). That a table of types is filled without gaps or overlaps is counting: a
  field's slot is the number of fields of its kind before it (`Below`, `BelowCounts`),
  on top of the slots of the superclass, so that the fields of all classes of the chain fill
  the table one to one (`SlottedFills`, `FieldsJoined`).
  `TypesIn` reads a descriptor like a stream: the grammar says where each type starts and
  ends, whichever way a descriptor is cut; that the first type found in what is left
  ends there is a case for each kind (`TypeTaken`), and that the name taken from it says
  the same tokens again needs that no class is named like a primitive type
  (`NameTakes`). By induction over the types read, what has been read so far is what the
  names so far say, and the slots counted one by one are those of the names (`WalkedTo`,
  `WalkStep`, `WalkEnds`).

* `LinkingProofs`: `TypesAreDecided` (`TypesDecide`), `MostDerivedRuns`
  (`MostDerivedIsLinked`), `CacheKeepsWhatIsFound` (`CacheIsTransparent`), for any
  programs, any hierarchy and any number of instructions. They rest on the
  invariants of `ClassFileProofs`: what the frame links against is what the parser and
  the constructors have made of the files, chains and slots included.
  The walks up the hierarchy are recursive functions on the classes, so the first thing
  to show is that they exist (`ReachedIs`, `SearchIs`): the place of a class in the order of the
  files is its rank, every supertype has a lower one (`Hierarchy`, `HierarchyIs`), and
  what holds of a class if it holds of all of lower rank holds of all (`RankInduction`).
  The supertypes of a class are its chain of superclasses and the interfaces each of
  them reaches (`ClassSupertypes`); the four loops of `isAssignableFrom` come to
  the same set (`AssignableIs`).
  `getMethod` looks in the class, then in the superclass, then in the interfaces, and may
  stop at an abstract method of an interface. `linkVirtualMethod` asks each class of the
  chain again until an answer is not abstract. That this ends at the most derived class
  that declares the method concretely is `SearchToFirst`: below that class every search
  answers with an abstract method or with the right one; and where no class declares
  it, what is found is in an interface (`ClassLinks`, `ArrayLinks`). A class that
  has no two methods alike is needed here (`NoTwins`).
  That a field is at its slot in a subclass is because the fields of the superclass are
  among those of the subclass (`FieldsOfChain`), whose table has each at its slot
  (`SlotsAreDistinct`). For the handler and the line, which are searched with the address of
  the last byte of the instruction, no row of a table begins inside an instruction
  (`InstructionEnds`, `HandlerIs`, `LineIs`).
  The invariant `LInv` adds to all this what the entries of the map are: each is of the
  kind its index refers to and what that kind of search finds now (`EntriesFit`);
  a Methodref has the entry of one of its two users, which is why `CacheIsTransparent`
  excepts those that have both.

Before they were proved, the `IInv` of `ClassInitProofs`, `FrameStackProofs`, `ThreadsProofs` and
`ReflectionProofs` and `EntriesFit` of `LinkingProofs` were checked by TLC on the instances
of their runs.

Every invariant of a passing run is a theorem. Only model-checked: liveness, which is beyond the prover (`StopAttemptEnds`,
`ParkedResumes`, `FinalizerServes`, `ShutdownEnds`, `EnterSucceeds`, `EveryUseEnds`,
`JoinEnds`, `VMEnds`, `CallsEnd`); and `ImplementsJavaOperands`, because the values of a
stack are `SelectSeq` of its slots, of which the provers know nothing.

## 5. What is not modelled

* Bootstrap: `Safepoint` and `Threads` start with the main thread registered or
  started. Before that the VM loads classes and allocates the arguments of `main`,
  which are kept in `runMethods` and in no frame until `main` is called. The main
  class is not initialised before its `main` runs (`bootstrap_helper.cpp:62`).
* The end: `collectAll` deletes every object while daemons may still run
  (`garbage_collect.cpp:413`); the models end with the exit of the GC thread.
* `Threads`: interruption (`isInterrupted(true)` clears the flag before it reads it,
  `java_lang_thread.hpp:92`), priorities, sleep. A thread that has been started and
  is still NEW counts as not alive, so that `join` returns at once (`thread.cpp:143`);
  `JoinEnds` does not speak of it.
* `FrameStack`: wide values occupy one slot (`Interpreter` has both);
  synchronized methods, the construction of a Throwable by `throwAssignException`
  and the overflow of the 16,384 slots are left out, and so is what a program
  does after a frame has been laid over another.
* `Collector`: an address is reused for an object of the same kind only, and a
  thread's slots are one set for all threads.
* `Monitor`: the header word it shares with the flags and the hash, written by
  read-modify-write (`composite_ptr.hpp:71`): that a write is lost follows from the
  lines themselves. The timeout of `wait` has the wrong unit (`oop.cpp:88`); there is
  no clock, a timeout may expire at any time.
* `Interpreter`: the results of floating-point arithmetic, `monitorenter`,
  `monitorexit`, `multianewarray`. `jsr` and `ret` panic.
* `ClassFile` to `Linking`: the contents of annotations and of what the parser skips,
  the binary search over sorted members, signature-polymorphic methods,
  access checks (the code has none). `overrideFinalize` is looked up in the class
  itself and not inherited (`class.cpp:363`); the model has that.
* `ClassInit`: a `<clinit>` that throws leaves its class INITED, where Java has an
  erroneous class; the model has it, no property excludes it. What is lost when two
  threads meet in a class is not said: `UsedInitialised`, `RunsOnce` and `WritesLast` except
  such classes.
* `Reflection`: what results hold, answers on null, Java exceptions other than
  `forName0`'s. `mirOop` is published before the mirror's fields are set
  (`mirror_base.cpp:19`), and a second thread may read it then: the steps are in the
  model, the property that nobody does fails and is not stated anywhere in the
  repository. `invokeBasic` and `linkTo*` are left out.
* Unsafe operations: plain loads, stores and `compareAndSwap` on raw addresses are
  a matter of the C++ memory model.
* The unused trigger `GarbageCollect::notify` (its wait is commented out), printing,
  zip files, streams, the tables of native methods.

## 6. Plan

Built, in this order: `StopTheWorld`, `Safepoint`, `Collector`, `JavaFrames`,
`FrameStack`, `Monitor`, `JavaTypes`, `JavaOperands`, `Interpreter`, `Finalizer`,
`Threads`, `ClassInit`, `JavaClassFile`, `ClassFile`, `Descriptors`, `ClassBuild`,
`Linking`, `NativeCalls`, `ClassLoader`, `StringPool`, `Mirrors`, `CoreNatives`,
`Reflection`, with proofs for the protocol, the collector, the monitor, class
initialisation, frames, threads, the natives, the halves of wide values, the parser of
class files, the construction of classes and linking.

Next, by weight:

1. Proofs: `ImplementsJavaOperands`, for which `JavaOperands` would have to take the values of
   a stack by a function on its boundaries and not by `SelectSeq`.
2. `HeaderWord`: monitor pointer, flags and hash in one word, composed with
   `Monitor` and `Collector`.
3. The end of the VM: `collectAll` against daemons, the deletion of the components.
4. Interruption and timed waits, with a clock; method handles (`invokeBasic`,
   `linkTo*`), the construction of exceptions with their stack traces.
