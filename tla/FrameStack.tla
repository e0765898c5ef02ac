------------------------------ MODULE FrameStack ------------------------------
(***************************************************************************)
(* The frames of one VM thread: frame.cpp, utils/stack.cpp, execute.cpp    *)
(* and VMThread::getCollectRoots.  All frames share one array of slots; a  *)
(* frame's locals begin right above its caller's operands, which is how    *)
(* arguments are passed without copying.  A popped slot keeps its value.   *)
(*                                                                         *)
(* A collection can happen while the thread is in checkStopForCollect,     *)
(* that is on entry to a method.  Objects have no fields here and nothing  *)
(* but this stack refers to them.  Wide values are two slots in the code   *)
(* and one value here.                                                     *)
(***************************************************************************)
EXTENDS Integers, Sequences, SequencesExt

CONSTANTS Oops,       \* objects
          Prim,       \* a slot that is no reference (NONE, I4, ..., null)
          None,       \* no oop
          Undefined,  \* see JavaFrames
          Size,       \* bound: slots (THREAD_STACK_SLOT_SIZE, not checked)
          Methods,    \* the methods: see Method
          MaxFrames,  \* bound: frames
          MaxLocals,  \* bound: locals of a method
          MaxOperands \* bound: operands of a frame

\* paramSlotSize, maxLocals (of a native method paramSlotSize), whether
\* slotType is not NONE, isNative().
Method == [params : 0 .. MaxLocals, locals : 0 .. MaxLocals,
           returns : BOOLEAN, native : BOOLEAN]

ASSUME FrameStackAssumption ==
    /\ Prim \notin Oops /\ None \notin Oops
    /\ Undefined \notin Oops \cup {Prim}
    /\ Methods \subseteq {m \in Method : /\ m.params <= m.locals
                                         /\ m.native => m.params = m.locals}
    /\ {Size, MaxFrames, MaxLocals, MaxOperands} \subseteq Nat

VARIABLES slots,      \* VMThread::stackMemory with stackMemoryType
          frames,     \* Frame objects, the last one is currentFrame
          polling,    \* the current frame is in checkStopForCollect
          allocated,  \* the oops that exist
          crashed,    \* a deleted oop was used: behaviour is undefined
          overlaid    \* history: see Overlap

vars == <<slots, frames, polling, allocated, crashed, overlaid>>

Values == Oops \cup {Prim}

\* thrown is markThrow with throwObject.  next is what the C++ code that
\* runs for the frame does after a callee threw into it:
\*   stop    return to executeFrame, which handles the exception
\*   clinit  go on: clinit() of the superclass threw, the class's own
\*           <clinit> is run, and after it the method of the invokestatic
\*   invoke  that method has been called
\*   more    go on: the callee's result has been popped and markThrow was
\*           not looked at, so another method may be run
\*   last    it has been (bound: code that looks no more often than this
\*           runs one more method and not several)
\*   report  the thread's first frame did not catch it, and
\*           printStackTrace is run in its place
\* local is a reference in a local variable of a native method; defined,
\* the locals that were stored to, is known to the bytecode verifier only.
Frames == [method : Methods, manual : BOOLEAN,
           base : 0 .. Size, sp : -3 .. MaxOperands - 1,
           thrown : Oops \cup {None},
           next : {"stop", "clinit", "invoke", "more", "last", "report"},
           local : Oops \cup {None}, defined : SUBSET (0 .. MaxLocals - 1)]

Top == Last(frames)
Callers == Front(frames)

\* operandStackContext.memory: the slot of a frame's operand 0.
Memory(f) == f.base + f.method.locals
TopSlot(f) == Memory(f) + f.sp

Init == /\ slots = [i \in 0 .. Size - 1 |-> Prim]
        /\ frames = <<>>
        /\ polling = FALSE
        /\ allocated = {}
        /\ crashed = FALSE
        /\ overlaid = FALSE

-----------------------------------------------------------------------------
(* Instructions and what a native method does by itself *)

Active == frames # <<>> /\ ~polling /\ ~crashed
Executing == Active /\ Top.thrown = None
Bytecode == Executing /\ ~Top.method.native
Native == Executing /\ Top.method.native

Becomes(f) == frames' = Append(Callers, f)

\* StackContext::push, within the bounds.
PushSlot(v) == /\ Top.sp < MaxOperands - 1
               /\ TopSlot(Top) + 1 < Size
               /\ slots' = [slots EXCEPT ![TopSlot(Top) + 1] = v]
               /\ Becomes([Top EXCEPT !.sp = @ + 1])

\* Frame::pushRef of a new object.
New(o) == /\ Bytecode
          /\ o \notin allocated
          /\ allocated' = allocated \cup {o}
          /\ PushSlot(o)
          /\ UNCHANGED <<polling, crashed, overlaid>>

\* Frame::pushI4 and the like, null.
PushPrim == /\ Bytecode
            /\ PushSlot(Prim)
            /\ UNCHANGED <<polling, allocated, crashed, overlaid>>

Pop == /\ Bytecode
       /\ Top.sp >= 0
       /\ Becomes([Top EXCEPT !.sp = @ - 1])
       /\ UNCHANGED <<slots, polling, allocated, crashed, overlaid>>

\* A verified method reads only what it has stored.
PushLocal(i) == /\ Bytecode
                /\ i \in Top.defined
                /\ PushSlot(slots[Top.base + i])
                /\ UNCHANGED <<polling, allocated, crashed, overlaid>>

PopLocal(i) == /\ Bytecode
               /\ i < Top.method.locals
               /\ Top.sp >= 0
               /\ slots' = [slots EXCEPT ![Top.base + i] = slots[TopSlot(Top)]]
               /\ Becomes([Top EXCEPT !.sp = @ - 1, !.defined = @ \cup {i}])
               /\ UNCHANGED <<polling, allocated, crashed, overlaid>>

\* A native method keeps a new object in a C++ variable.
NativeNew(o) == /\ Native
                /\ o \notin allocated
                /\ allocated' = allocated \cup {o}
                /\ Becomes([Top EXCEPT !.local = o])
                /\ UNCHANGED <<slots, polling, crashed, overlaid>>

-----------------------------------------------------------------------------
(* Calls *)

\* Mutant: the locals begin at the caller's top operand.
NewFrameTooLow(previous, m, manual) ==
    [method |-> m, manual |-> manual,
     base |-> IF previous = <<>> THEN 0 ELSE TopSlot(Last(previous)),
     sp |-> -1, thrown |-> None, next |-> "stop", local |-> None,
     defined |-> 0 .. m.params - 1]

\* Frame::Frame.
NewFrame(previous, m, manual) ==
    [method |-> m, manual |-> manual,
     base |-> IF previous = <<>> THEN 0 ELSE TopSlot(Last(previous)) + 1,
     sp |-> -1, thrown |-> None, next |-> "stop", local |-> None,
     defined |-> 0 .. m.params - 1]

\* Pops have left the caller's sp below its operands: the locals of what it
\* calls are also its own, or its caller's operands.
Overlap(previous) == previous # <<>> /\ Last(previous).sp < -1

\* The new frame is currentFrame, and the first thing it does is to poll.
\* A frame that begins below the array is left out.
Enter(previous, f) == /\ Len(previous) < MaxFrames
                      /\ f.base >= 0
                      /\ Memory(f) <= Size
                      /\ frames' = Append(previous, f)
                      /\ polling' = TRUE
                      /\ overlaid' = (overlaid \/ Overlap(previous))

\* Frame::runMethodInner: the popped arguments are the callee's locals.
Invoke(m) ==
    /\ Active
    /\ ~Top.method.native
    /\ Top.thrown = None \/ Top.next = "clinit"
    /\ m.params <= Top.sp + 1
    /\ LET caller == [Top EXCEPT !.sp = @ - m.params,
                                 !.next = IF Top.thrown = None THEN @ ELSE "invoke"]
           previous == Append(Callers, caller)
       IN  Enter(previous, NewFrame(previous, m, FALSE))
    /\ UNCHANGED <<slots, allocated, crashed>>

\* createFrameAndRunMethod: the parameters are copied into the locals.
RunWith(previous, m, params) ==
    LET f == NewFrame(previous, m, TRUE)
    IN  /\ Len(params) = m.params
        /\ Enter(previous, f)
        /\ slots' = [i \in DOMAIN slots |->
                        IF i \in f.base .. f.base + m.params - 1
                        THEN params[i - f.base + 1] ELSE slots[i]]
        /\ crashed' = ~(Range(params) \subseteq allocated \cup {Prim})
        /\ UNCHANGED allocated

\* VMThread::run starts its method without a previous frame.
RunThread(m) == /\ frames = <<>>
                /\ ~crashed
                /\ ~m.returns /\ ~m.native
                /\ RunWith(frames, m, [i \in 1 .. m.params |-> Prim])

\* What a native method can pass along: its parameters and its variable.
AtHand == {slots[Top.base + i] : i \in Top.defined} \cup ({Top.local} \ {None})

\* Frame::runMethodManual: by a native method, or for <clinit>, which can
\* follow the <clinit> of a superclass that threw.
IsClinit(m) == m.params = 0 /\ ~m.returns /\ ~m.native

\* The frame goes on to another call although the one before threw.
Further(f) == IF f.next = "more" THEN [f EXCEPT !.next = "last"] ELSE f

RunMethodManual(m, params) ==
    /\ Active
    /\ IF Top.method.native THEN Top.thrown = None \/ Top.next = "more"
       ELSE IsClinit(m) /\ (Top.thrown = None \/ Top.next = "clinit")
    /\ Range(params) \subseteq AtHand
    /\ RunWith(Append(Callers, Further(Top)), m, params)

\* The Java code of invokedynamic: makeImpl, linkMethodHandleConstant and
\* linkCallSiteImpl.  createMethodHandle and createCallSite go on when the
\* makeImpl of createMethodType has thrown.  The arguments are mirrors,
\* pooled strings, earlier results and objects made for the call.
InvokeDynamic(m, params) ==
    /\ Active
    /\ ~Top.method.native
    /\ Top.thrown = None \/ Top.next = "more"
    /\ m.returns /\ ~m.native
    /\ Range(params) \subseteq allocated \cup {Prim}
    /\ RunWith(Append(Callers, Further(Top)), m, params)

\* checkStopForCollect, no collection under way.
Poll == /\ polling
        /\ ~crashed /\ ~overlaid
        /\ polling' = FALSE
        /\ UNCHANGED <<slots, frames, allocated, crashed, overlaid>>

\* Mutant: the slot at sp is taken for the first free one.
ScannedBelowTop == {slots[i] : i \in 0 .. TopSlot(Top) - 1} \ {Prim}

\* getCollectRoots: every REF slot up to the current frame's sp.
Scanned == {slots[i] : i \in 0 .. TopSlot(Top)} \ {Prim}

\* A collection, to this thread: what its stack does not show is deleted.
Collect == /\ polling
           /\ ~crashed /\ ~overlaid
           /\ IF Scanned \subseteq allocated
              THEN allocated' = Scanned /\ UNCHANGED crashed
              ELSE crashed' = TRUE /\ UNCHANGED allocated
           /\ UNCHANGED <<slots, frames, polling, overlaid>>

-----------------------------------------------------------------------------
(* The end of a call *)

\* checkAndPassReturnValue of a method without a result.
ReturnVoid == /\ Executing
              /\ ~Top.method.returns
              /\ frames' = Callers
              /\ UNCHANGED <<slots, polling, allocated, crashed, overlaid>>

\* The result is pushed on the caller's operands; runMethodManual pops it.
\* xreturn pops it from the callee's, a native method has it at hand.
Result == IF Top.method.native THEN AtHand \cup {Prim}
          ELSE {slots[TopSlot(Top)] : i \in 0 .. Top.sp}

ReturnValue(v) ==
    /\ Executing
    /\ Top.method.returns
    /\ v \in Result
    /\ LET caller == Last(Callers)
           sp == IF Top.manual THEN caller.sp ELSE caller.sp + 1
       IN  /\ sp < MaxOperands
           /\ TopSlot(caller) + 1 < Size
           /\ slots' = [slots EXCEPT ![TopSlot(caller) + 1] = v]
           /\ frames' = Append(Front(Callers), [caller EXCEPT !.sp = sp])
           /\ crashed' = (v \notin allocated \cup {Prim})
    /\ UNCHANGED <<polling, allocated, overlaid>>

\* athrow pops the throwable; throwObject alone refers to it from here on.
Throw == /\ Bytecode
         /\ Top.sp >= 0
         /\ slots[TopSlot(Top)] # Prim
         /\ Becomes([Top EXCEPT !.sp = @ - 1, !.thrown = slots[TopSlot(Top)]])
         /\ UNCHANGED <<slots, polling, allocated, crashed, overlaid>>

\* A native method creates a throwable and throws it.
NativeThrow == /\ Native
               /\ Top.local # None
               /\ Becomes([Top EXCEPT !.thrown = Top.local])
               /\ UNCHANGED <<slots, polling, allocated, crashed, overlaid>>

\* handleThrowValue, which reads the class of the throwable first.
Handling == Active /\ Top.thrown # None /\ Top.next # "report"

HandleDeleted == /\ Handling
                 /\ Top.thrown \notin allocated
                 /\ crashed' = TRUE
                 /\ UNCHANGED <<slots, frames, polling, allocated, overlaid>>

\* It finds a handler in this method.
Catch == /\ Handling
         /\ Top.thrown \in allocated
         /\ ~Top.method.native
         /\ Memory(Top) < Size
         /\ MaxOperands > 0
         /\ slots' = [slots EXCEPT ![Memory(Top)] = Top.thrown]
         /\ Becomes([Top EXCEPT !.sp = 0, !.thrown = None, !.next = "stop"])
         /\ UNCHANGED <<polling, allocated, crashed, overlaid>>

\* It finds none and passes the throwable to the caller.  runMethodManual
\* then pops a result, as if the method had returned one.
PassException ==
    /\ Handling
    /\ Top.thrown \in allocated
    /\ Callers # <<>>
    /\ LET caller == Last(Callers)
           next == IF caller.next = "report" THEN "report"
                   ELSE IF ~Top.manual \/ caller.next = "last" THEN "stop"
                   ELSE IF caller.method.native \/ Top.method.returns THEN "more"
                   ELSE "clinit"
           sp == IF Top.manual /\ Top.method.returns
                 THEN caller.sp - 1 ELSE caller.sp
       IN  frames' = Append(Front(Callers),
                        [caller EXCEPT !.thrown = Top.thrown,
                                       !.next = next, !.sp = sp])
    /\ UNCHANGED <<slots, polling, allocated, crashed, overlaid>>

\* throwToTopFrame: there is no caller, m is printStackTrace.
ThrowToTopFrame(m) ==
    /\ Handling
    /\ Top.thrown \in allocated
    /\ Callers = <<>>
    /\ m.params = 1 /\ ~m.returns /\ ~m.native
    /\ RunWith(<<[Top EXCEPT !.next = "report"]>>, m, <<Top.thrown>>)

\* After it the frame ends, even if printStackTrace has thrown.
TopFrameEnds == /\ Active
                /\ Top.next = "report"
                /\ frames' = <<>>
                /\ UNCHANGED <<slots, polling, allocated, crashed, overlaid>>

-----------------------------------------------------------------------------
Instruction ==
    \/ \E o \in Oops : New(o) \/ NativeNew(o)
    \/ PushPrim
    \/ Pop
    \/ \E i \in 0 .. MaxLocals - 1 : PushLocal(i) \/ PopLocal(i)

Call == \E m \in Methods :
            \/ Invoke(m)
            \/ RunThread(m)
            \/ ThrowToTopFrame(m)
            \/ \E params \in BoundedSeq(Values, MaxLocals) :
                   RunMethodManual(m, params) \/ InvokeDynamic(m, params)

Next == \/ Instruction
        \/ Call
        \/ Poll
        \/ Collect
        \/ ReturnVoid
        \/ \E v \in Values : ReturnValue(v)
        \/ Throw
        \/ NativeThrow
        \/ HandleDeleted
        \/ Catch
        \/ PassException
        \/ TopFrameEnds

Spec == Init /\ [][Next]_vars

-----------------------------------------------------------------------------
(* Properties *)

\* The shared array implements frames that have locals and operands of
\* their own: an exception with nothing left to run discards the operands.
Locals(f) == [i \in 1 .. f.method.locals |->
                 IF i - 1 \in f.defined THEN slots[f.base + i - 1] ELSE Undefined]
Operands(f) == IF f.thrown # None /\ f.next \in {"stop", "more", "last", "report"}
               THEN <<>>
               ELSE [i \in 1 .. f.sp + 1 |-> slots[Memory(f) + i - 1]]

JavaStack == [k \in DOMAIN frames |-> [native |-> frames[k].method.native,
                                      locals |-> Locals(frames[k]),
                                      operands |-> Operands(frames[k])]]

Java == INSTANCE JavaFrames WITH stack <- JavaStack

\* frame.cpp:49: the locals of a frame begin at the slot after the last
\* operand of its caller.  Here they lie over its caller's locals, which has
\* gone on after an exception it has not looked at: when makeImpl has thrown, sp
\* is one too low as linkMethodHandleConstant is run (method_handle.cpp:93, 114).
LaidOver == \E k \in 1 .. Len(frames) - 1 :
                /\ frames[k + 1].base < Memory(frames[k])
                /\ frames[k].thrown # None /\ frames[k].next \in {"last", "report"}

\* Every step is one of frames of their own, up to the call by which a frame
\* is laid over its caller; and only a caller with a pending exception makes
\* such a call, never an instruction, a <clinit> or a handler.
ImplementsJavaFrames == Java!Init /\ [][LaidOver' \/ Java!Next]_JavaStack

\* Whatever a frame, at any depth, can still read was never collected, as
\* long as no frame has been laid over another.
Readable(f) == Range(Locals(f)) \cup Range(Operands(f))
ReadableIsAlive ==
    ~crashed /\ ~LaidOver => \A k \in DOMAIN frames :
        Readable(frames[k]) \subseteq allocated \cup {Prim, Undefined}
=============================================================================
