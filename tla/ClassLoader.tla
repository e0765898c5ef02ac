----------------------------- MODULE ClassLoader -----------------------------
(***************************************************************************)
(* The class map of class_loader.cpp.  getClass holds the recursive mutex  *)
(* clMutex while it looks a name up and, when it is new, loads the class   *)
(* and everything above it.  The natives that define a class from bytes    *)
(* use the same map without the mutex.                                     *)
(***************************************************************************)
EXTENDS NativeCalls, FiniteSets

CONSTANTS ClassFiles,   \* names with a file on the class path
          ArrayNames,   \* names that begin with [
          Above,        \* the names of the interfaces and the superclass of a class file
          Booted        \* sets of names, one of which is loaded in the initial state

\* What getClass finds; no file is above itself, and the class path has what
\* its files refer to.
Loadable == ClassFiles \cup ArrayNames
AnonymousName == "ANONYMOUS"

ASSUME LoaderAssumption ==
    /\ "" \notin Loadable /\ AnonymousName \notin Loadable
    /\ IsFiniteSet(ClassFiles)
    /\ Above \in [ClassFiles -> Seq(ClassFiles)]
    /\ \E depth \in [ClassFiles -> 0 .. Cardinality(ClassFiles)] :
           \A n \in ClassFiles : \A i \in DOMAIN Above[n] : depth[Above[n][i]] < depth[n]
    /\ \A names \in Booted : names \subseteq Loadable /\ IsFiniteSet(names)

VARIABLES
    classMap,    \* the classes in ClassLoader::classMap
    clOwner,     \* the thread that holds clMutex
    clDepth,     \* how many times
    emplacing,   \* threads that are inside classMap.emplace_unique
    anonymous,   \* anonymousClassIndex
    torn,        \* the map was used by one thread while another changed it
    defined      \* history: names of classes defined from bytes

loaderVars == <<classMap, clOwner, clDepth, emplacing, anonymous, torn, defined>>

LoaderInit == /\ \E names \in Booted : classMap = {Entity(n) : n \in names}
              /\ clOwner = None
              /\ clDepth = 0
              /\ emplacing = {}
              /\ anonymous = 0
              /\ torn = FALSE
              /\ defined = {}

Named(name) == {c \in classMap : c.name = name}

\* The calls of this module.
Find(name) == Step("find", Entity(name), NoEntity)
FindAll(names) == [i \in DOMAIN names |-> Find(names[i])]
Define(name) == Step("define", Entity(name), NoEntity)
DefineAnonymous(name) == Step("anonymous", Entity(name), NoEntity)

\* What a thread does to the map while another is changing it is undefined.
Touches(t) == torn' = (torn \/ emplacing \ {t} # {})

-----------------------------------------------------------------------------

\* a mutant: getClass without its lock_guard
GetClassUnlocked(t) ==
    /\ Next1(t, "find")
    /\ Continue(t, <<Step("look", Here(t).of, NoEntity)>>)
    /\ UNCHANGED <<found, got, held, heap, refs, calls, loaderVars>>

\* ClassLoader::getClass locks clMutex; a lock_guard unlocks it at the end.
GetClass(t) == /\ Next1(t, "find")
               /\ clOwner \in {None, t}
               /\ clOwner' = t
               /\ clDepth' = clDepth + 1
               /\ Continue(t, <<Step("look", Here(t).of, NoEntity),
                                Step("unlock", NoEntity, NoEntity)>>)
               /\ UNCHANGED <<found, got, held, heap, refs, calls, classMap,
                              emplacing, anonymous, torn, defined>>

\* The name is in the map: one of its classes, the code does not say which.
LookFinds(t) == /\ Next1(t, "look")
                /\ Touches(t)
                /\ \E c \in Named(Here(t).of.name) : found' = [found EXCEPT ![t] = c]
                /\ Continue(t, <<>>)
                /\ UNCHANGED <<got, held, heap, refs, calls, classMap, clOwner,
                               clDepth, emplacing, anonymous, defined>>

\* loadArrayClass finds no element class; the constructor of InstanceClass
\* finds the interfaces and the superclass; without a file there is no class.
LookMisses(t) ==
    LET e == Here(t).of
    IN /\ Next1(t, "look")
       /\ Named(e.name) = {}
       /\ Touches(t)
       /\ Continue(t, IF e.name \in ArrayNames THEN <<Step("emplace", e, NoEntity)>>
                      ELSE IF e.name \in ClassFiles
                      THEN Append(FindAll(Above[e.name]), Step("emplace", e, NoEntity))
                      ELSE <<>>)
       /\ found' = [found EXCEPT ![t] = NoEntity]
       /\ UNCHANGED <<got, held, heap, refs, calls, classMap, clOwner, clDepth,
                      emplacing, anonymous, defined>>

Unlock(t) == /\ Next1(t, "unlock")
             /\ clDepth' = clDepth - 1
             /\ clOwner' = IF clDepth = 1 THEN None ELSE clOwner
             /\ Continue(t, <<>>)
             /\ UNCHANGED <<found, got, held, heap, refs, calls, classMap,
                            emplacing, anonymous, torn, defined>>

\* loadInstanceClass(ptr, length, notAnonymous), from a native that defines
\* a class: the same constructor, nobody asks whether the class is there.
DefineClass(t) ==
    LET e == Here(t).of
    IN /\ Next1(t, "define")
       /\ defined' = defined \cup {e.name}
       /\ Continue(t, Append(FindAll(Above[e.name]), Step("emplace", e, NoEntity)))
       /\ UNCHANGED <<found, got, held, heap, refs, calls, classMap, clOwner,
                      clDepth, emplacing, anonymous, torn>>

DefineAnonymousClass(t) ==
    LET e == Here(t).of
    IN /\ Next1(t, "anonymous")
       /\ defined' = defined \cup {e.name}
       /\ Continue(t, Append(FindAll(Above[e.name]), Step("rename", e, NoEntity)))
       /\ UNCHANGED <<found, got, held, heap, refs, calls, classMap, clOwner,
                      clDepth, emplacing, anonymous, torn>>

\* An anonymous class whose name is taken gets another that nobody has.
Rename(t) ==
    LET e == Here(t).of
    IN /\ Next1(t, "rename")
       /\ Touches(t)
       /\ IF Named(e.name) = {}
          THEN /\ anonymous' = anonymous
               /\ Continue(t, <<Step("emplace", e, NoEntity)>>)
          ELSE /\ anonymous' = anonymous + 1
               /\ Continue(t, <<Step("emplace", [name |-> AnonymousName, copy |-> anonymous + 1],
                                     NoEntity)>>)
       /\ UNCHANGED <<found, got, held, heap, refs, calls, classMap, clOwner,
                      clDepth, emplacing, defined>>

\* classMap.emplace_unique does not look for the name either.
BeginEmplace(t) == /\ Next1(t, "emplace")
                   /\ t \notin emplacing
                   /\ Touches(t)
                   /\ emplacing' = emplacing \cup {t}
                   /\ UNCHANGED <<callVars, classMap, clOwner, clDepth, anonymous, defined>>

EndEmplace(t) ==
    LET e == Here(t).of
        c == IF e.name = AnonymousName THEN e
             ELSE [e EXCEPT !.copy = Cardinality(Named(e.name)) + 1]
    IN /\ t \in emplacing
       /\ emplacing' = emplacing \ {t}
       /\ classMap' = classMap \cup {c}
       /\ found' = [found EXCEPT ![t] = c]
       /\ Continue(t, <<>>)
       /\ UNCHANGED <<got, held, heap, refs, calls, clOwner, clDepth,
                      anonymous, torn, defined>>

LoaderStep(t) == \/ GetClass(t) \/ LookFinds(t) \/ LookMisses(t) \/ Unlock(t)
                 \/ DefineClass(t) \/ DefineAnonymousClass(t) \/ Rename(t)
                 \/ BeginEmplace(t) \/ EndEmplace(t)
=============================================================================
