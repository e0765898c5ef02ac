----------------------------- MODULE Reflection -----------------------------
(***************************************************************************)
(* Threads that call the natives of CoreNatives, over the class map, the   *)
(* mirrors and the string pool they share, with a collector.  It runs when *)
(* every thread is in Java code, that of its own frames or that which a    *)
(* native has called, and gcSafe; the objects a native keeps in C++        *)
(* variables are no roots.                                                 *)
(***************************************************************************)
EXTENDS CoreNatives

CONSTANT Calls    \* the natives called: [native, of, arg]

\* The arguments of natives: they are called on classes and members that
\* exist, and with names of classes that exist, but for forName0.
OfClass == {"getName0", "getSuperclass", "getComponentType", "getEnclosingMethod0",
            "getDeclaredFields0", "getDeclaredMethods0", "getDeclaredConstructors0",
            "getDeclaringClass0", "getInterfaces0", "getGenericSignature0",
            "getConstantPool", "getDeclaredClasses0"}
OfMember == {"getParameters0", "invoke0", "setMemberName"}

TakesWhatExists(call) ==
    \/ call.native \in OfClass /\ call.of \in DOMAIN ClassInfo
    \/ call.native \in OfMember /\ call.of \in Members
    \/ call.native \in {"findBootstrapClass", "findLoadedClass0"} /\ call.of \in Loadable
    \/ call.native \in {"defineClass", "defineAnonymousClass"} /\ call.of \in ClassFiles
    \/ call.native = "getCallerClass" /\ call.of \in ClassNames
    \/ call.native = "getClassAt0" /\ call.arg \in Loadable
    \/ call.native \in {"getUTF8At0", "intern"} /\ call.arg \in Bytes
    \/ call.native \in {"forName0", "resolveClass0"}
    \/ call.native = "invokedynamic" /\ call.of \in DOMAIN SiteInfo

ASSUME ReflectionAssumption == \A call \in Calls : TakesWhatExists(call)

VARIABLES gcSafe,    \* VMThread::gcSafe
          lapsed     \* history: natives in a guard while another guard ended

guardVars == <<gcSafe, lapsed>>
vars == <<callVars, loaderVars, poolVars, mirrorVars, guardVars>>

Init == /\ CallInit /\ LoaderInit /\ PoolInit /\ MirrorInit
        /\ gcSafe = [p \in Threads |-> TRUE]
        /\ lapsed = {}

HasGuard(body) == \E i \in DOMAIN body : body[i].do = "leave"
Guarded(t) == HasGuard(todo[t])

\* The class of the object that a native is called on.
Receiver(call) ==
    IF call.native \in {"forName0", "findBootstrapClass", "intern", "defineClass", "defineAnonymousClass"}
    THEN {}
    ELSE IF call.native = "invokedynamic" THEN {SiteInfo[call.of].caller}
    ELSE IF call.of \in DOMAIN MemberInfo THEN {MemberInfo[call.of].klass}
    ELSE {call.of}

\* ThreadSafeGuard begins a native that has one.
CallNative(t) ==
    \E call \in Calls :
        /\ Call(t, Append(Body(call), ReturnRef))
        /\ \A c \in Receiver(call) : Named(c) # {}
        /\ gcSafe' = [gcSafe EXCEPT ![t[1]] = @ /\ ~ HasGuard(Body(call))]
        /\ lapsed' = lapsed \ {t}
        /\ UNCHANGED <<loaderVars, poolVars, mirrorVars>>

\* ~ThreadSafeGuard, also when the native has others around it.
LeaveGuard(t) == /\ Next1(t, "leave")
                 /\ Continue(t, <<>>)
                 /\ gcSafe' = [gcSafe EXCEPT ![t[1]] = TRUE]
                 /\ lapsed' = lapsed \cup {o \in Levels : o[1] = t[1] /\ HasGuard(todo'[o])}
                 /\ UNCHANGED <<found, got, held, heap, refs, calls, loaderVars, poolVars, mirrorVars>>

\* The native ends here if Java code it has run has thrown.
EndIfThrown(t) ==
    /\ Next1(t, "tested")
    /\ \/ Continue(t, <<>>) /\ got' = got
       \/ /\ todo' = [todo EXCEPT ![t] = IF Guarded(t) THEN <<Leave, ReturnRef>> ELSE <<ReturnRef>>]
          /\ got' = [got EXCEPT ![t] = {}]
    /\ UNCHANGED <<found, held, heap, refs, calls, loaderVars, poolVars, mirrorVars>>

\* forName0: throwClassNotFoundException when there is no such class.
NotFound(t) == /\ Next1(t, "notFound")
               /\ todo' = [todo EXCEPT ![t] = IF found[t] = NoEntity THEN <<ReturnRef>> ELSE Tail(@)]
               /\ UNCHANGED <<found, got, held, heap, refs, calls, loaderVars, poolVars, mirrorVars>>

-----------------------------------------------------------------------------
(* The collector *)

InJava(t) == todo[t] = <<>> \/ Next1(t, "java")

\* getClassStaticRef: the mirrors of classes; getThreadRef: the Java frames.
Roots == {mirOop[c] : c \in classMap \cap DOMAIN mirOop} \cup UNION {held[t] : t \in Levels}
Reached == Roots \cup UNION {refs[o] : o \in Roots \cap DOMAIN refs}
Garbage == heap \ Reached

\* collectOopHolder, with the world stopped.
Collect == /\ \A t \in Levels : InJava(t)
           /\ \A p \in Threads : gcSafe[p]
           /\ Garbage # {}
           /\ heap' = heap \ Garbage
           /\ refs' = [o \in DOMAIN refs \ Garbage |-> refs[o]]
           /\ GcStringOops(Garbage)
           /\ ClearHolders(Garbage)
           /\ UNCHANGED <<todo, found, got, held, calls, loaderVars, poolOwner, spinOwner, guardVars>>

-----------------------------------------------------------------------------

CallStep(t) == /\ Return(t) \/ RunJava(t) \/ Forget(t)
               /\ UNCHANGED <<loaderVars, poolVars, mirrorVars, guardVars>>

PoolStep(t) == /\ FindString(t, mirOop) \/ InsertString(t, mirOop)
               /\ UNCHANGED <<loaderVars, mirrorVars>>

ThreadStep(t) == \/ /\ \/ LoaderStep(t) /\ UNCHANGED <<poolVars, mirrorVars>>
                       \/ MirrorStep(t) /\ UNCHANGED <<loaderVars, poolVars>>
                       \/ PoolStep(t)
                       \/ NotFound(t)
                       \/ EndIfThrown(t)
                    /\ UNCHANGED guardVars
                 \/ LeaveGuard(t)

\* A C++ variable points to what has been deleted.
Dangling == \E t \in Levels : ~ got[t] \subseteq heap

\* What follows on a torn map or a dangling variable is undefined.
Next == /\ ~ torn /\ ~ Dangling
        /\ \/ \E t \in Levels : CallNative(t) \/ CallStep(t) \/ ThreadStep(t)
           \/ Collect

\* A thread of the operating system keeps running; one that waits for a lock
\* gets it when nobody takes it for ever.
Fairness == \A p \in Threads :
               WF_vars(/\ ~ torn /\ ~ Dangling
                       /\ \E t \in Levels : /\ t[1] = p /\ todo[t] # <<>>
                                            /\ ThreadStep(t) \/ CallStep(t))

Spec == Init /\ [][Next]_vars
FairSpec == Spec /\ Fairness

-----------------------------------------------------------------------------

\* What one thread gets from a native is what any other has: no two live
\* objects mirror the same class, member or constant pool, and no two strings
\* of the pool come from the same bytes, or have the same text in one bucket
\* (getBaseMirror, getInternString).  The same text in two encodings may be in
\* two buckets: then equal strings are different objects.
OneObject ==
    \A a, b \in heap :
        /\ a.of = b.of => a = b
        /\ (a.of.name \in Bytes /\ b.of.name \in Bytes
             /\ TextOf[a.of.name] = TextOf[b.of.name]
             /\ BucketOf[a.of.name] = BucketOf[b.of.name]) => a = b

\* Nothing points to an object that has been deleted: not the classes and
\* members, not the string table, not another mirror, not a thread, in Java or
\* in C++ (clearHolder, gcStringOop, the ThreadSafeGuard of invokeDynamic).
\* Only the C++ variables of a guarded native may, once a native with a guard
\* of its own has ended inside it.
PointsToLiving ==
    /\ \A e \in DOMAIN mirOop : mirOop[e] \in heap
    /\ \A b \in Buckets : table[b] \subseteq heap
    /\ \A t \in Levels : held[t] \subseteq heap /\ (t \notin lapsed => got[t] \subseteq heap)
    /\ \A o \in DOMAIN refs : refs[o] \subseteq heap

\* clMutex keeps a name from being loaded twice, and the map from being read
\* while it changes, unless a class is defined from bytes (getClass against
\* loadInstanceClass).
OneClassPerName ==
    /\ \A c, d \in classMap : c.name = d.name => c = d \/ c.name \in defined \cup {AnonymousName}
    /\ torn => defined # {}

\* No native waits for ever: the locks of members, classes, strings and the
\* class map are taken in one order.  The outermost native of a thread ends
\* only after those nested in it.
CallsEnd == \A p \in Threads :
               todo[<<p, 1>>] # <<>> ~> (todo[<<p, 1>>] = <<>> \/ torn \/ Dangling)
=============================================================================
