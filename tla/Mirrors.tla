------------------------------- MODULE Mirrors -------------------------------
(***************************************************************************)
(* The Class, Field, Method, Constructor and ConstantPool objects of       *)
(* mirror_base.cpp: made when they are first asked for, one for each class *)
(* or member, under a spin lock for each kind; the mirror of a member is   *)
(* filled in under the lock and already visible to others.  A mirror that  *)
(* is deleted clears the pointer to it.                                    *)
(*                                                                         *)
(* The types of members are classes that nobody defines from bytes.        *)
(***************************************************************************)
EXTENDS StringPool, SequencesExt

CONSTANTS KindOf,       \* of a name: class, field, method, constructor, cp
          MemberInfo    \* klass, params, throws, type and label of a member

\* Names of classes, and of what has a type and parameters.
ClassNames == {n \in DOMAIN KindOf : KindOf[n] = "class"}
Members == {n \in DOMAIN KindOf : KindOf[n] \in {"field", "method", "constructor"}}

\* A string and a class may have one name in Java; here names tell them apart.
ASSUME MirrorsAssumption ==
    /\ DOMAIN KindOf \cap Bytes = {} /\ "" \notin DOMAIN KindOf
    /\ \A n \in DOMAIN KindOf : KindOf[n] \in {"class", "field", "method", "constructor", "cp"}
    /\ Loadable \cup {AnonymousName} \subseteq ClassNames
    /\ \A m \in Members :
           /\ MemberInfo[m].klass \in ClassNames
           /\ MemberInfo[m].params \in Seq(Loadable) /\ MemberInfo[m].throws \in Seq(Loadable)
           /\ MemberInfo[m].type \in Loadable \cup {""}
           /\ KindOf[m] # "constructor" => /\ MemberInfo[m].type \in Loadable
                                           /\ MemberInfo[m].label \in Bytes

VARIABLES mirOop,       \* MirrorBase::mirOop, where it is not null
          spinOwner     \* the thread that holds the spin lock of each kind

mirrorVars == <<mirOop, spinOwner>>

\* a mutant: one lock for all kinds, as in a base class
OneLock(e) == "class"

\* Class::getMirror, ClassMember::getMirror and getConstantPoolMirror have a
\* static lock each, ClassMember's one for fields and one for the rest.
Locks == {"class", "field", "member", "cp"}
LockOf(e) == CASE KindOf[e.name] \in {"method", "constructor"} -> "member"
               [] OTHER -> KindOf[e.name]

MirrorInit == /\ mirOop = <<>>
              /\ spinOwner = [l \in Locks |-> None]

Mirror(name, into) == Step("mirror", Entity(name), into)
MirrorFound(into) == Step("mirror", NoEntity, into)    \* of the class just found

-----------------------------------------------------------------------------

\* initMethodMirrorOop and initFieldMirrorOop, in the order of the code: every
\* call stores what it returns in the mirror.
InitMirror(e) ==
    LET kind == KindOf[e.name]
        info == MemberInfo[e.name]
        Types(names) == [i \in DOMAIN names |-> Mirror(names[i], e)]
        FindThem(names) == FlattenSeq([i \in DOMAIN names |-> <<Find(names[i]), MirrorFound(e)>>])
        returned == <<Intern(info.label, e), Find(info.type), MirrorFound(e)>>
    IN CASE kind \in {"class", "cp"} -> <<>>
         [] kind = "field" -> <<Mirror(info.klass, e)>> \o returned
         [] OTHER -> FindAll(info.params) \o Types(info.params) \o FindThem(info.throws)
                     \o <<Mirror(info.klass, e)>>
                     \o (IF kind = "method" THEN returned ELSE <<>>)

\* getBaseMirror reads the pointer without the lock.
ReadMirror(t) ==
    LET e == IF Here(t).of = NoEntity THEN found[t] ELSE Here(t).of
    IN /\ Next1(t, "mirror")
       /\ IF e \in DOMAIN mirOop
          THEN Returns(t, mirOop, mirOop[e]) /\ Continue(t, <<>>)
          ELSE /\ Continue(t, <<Step("lockMirror", e, Here(t).into)>>)
               /\ UNCHANGED <<got, refs>>
       /\ UNCHANGED <<found, held, heap, calls, mirrorVars>>

LockMirror(t) ==
    LET e == Here(t).of
    IN /\ Next1(t, "lockMirror")
       /\ spinOwner[LockOf(e)] = None
       /\ spinOwner' = [spinOwner EXCEPT ![LockOf(e)] = t]
       /\ Continue(t, <<Step("make", e, NoEntity), Step("unlockMirror", e, Here(t).into)>>)
       /\ UNCHANGED <<found, got, held, heap, refs, calls, mirOop>>

\* a mutant: it does not ask again
MakeMirrorAnyway(t) ==
    LET e == Here(t).of
        o == FreshOop(e)
    IN /\ Next1(t, "make")
       /\ mirOop' = Extend(mirOop, e, o)
       /\ heap' = heap \cup {o}
       /\ refs' = Extend(refs, o, {})
       /\ Continue(t, InitMirror(e))
       /\ UNCHANGED <<found, got, held, calls, spinOwner>>

\* It asks again under the lock; the pointer is set before the mirror is filled in.
MakeMirror(t) ==
    LET e == Here(t).of
        o == FreshOop(e)
    IN /\ Next1(t, "make")
       /\ IF e \in DOMAIN mirOop
          THEN Continue(t, <<>>) /\ UNCHANGED <<heap, refs, mirOop>>
          ELSE /\ mirOop' = Extend(mirOop, e, o)
               /\ heap' = heap \cup {o}
               /\ refs' = Extend(refs, o, {})
               /\ Continue(t, InitMirror(e))
       /\ UNCHANGED <<found, got, held, calls, spinOwner>>

UnlockMirror(t) ==
    LET e == Here(t).of
    IN /\ Next1(t, "unlockMirror")
       /\ spinOwner' = [spinOwner EXCEPT ![LockOf(e)] = None]
       /\ Returns(t, mirOop, mirOop[e])
       /\ Continue(t, <<>>)
       /\ UNCHANGED <<found, held, heap, calls, mirOop>>

MirrorStep(t) == ReadMirror(t) \/ LockMirror(t) \/ MakeMirror(t) \/ UnlockMirror(t)

\* MirOop::~MirOop, clearHolder
ClearHolders(dead) ==
    mirOop' = [e \in {m \in DOMAIN mirOop : mirOop[m] \notin dead} |-> mirOop[e]]
=============================================================================
