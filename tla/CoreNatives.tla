----------------------------- MODULE CoreNatives -----------------------------
(***************************************************************************)
(* What the natives of java.lang.Class, ClassLoader, String, Executable    *)
(* and ConstantPool, and the instruction invokedynamic, ask of the class   *)
(* map, the mirrors and the string pool, call by call in the order of the  *)
(* C++.  They get arguments that are not null, and the names of classes    *)
(* that exist; only forName0 gets any name.                                *)
(***************************************************************************)
EXTENDS Mirrors

CONSTANTS ClassInfo,     \* what the attributes of a class say
          SiteInfo,      \* what the constants of an invokedynamic say
          FieldArray,    \* the name [Ljava/lang/reflect/Field;
          MethodArray, ClassArray, ObjectArray,    \* likewise
          Parameter, ParameterArray, Arg0,    \* Parameter, its array, the string arg0
          MethodType, MethodHandleNatives

\* What the attributes of a class say, and an argument of a bootstrap method.
Infos == [javaName : Bytes, super : Seq(ClassNames), interfaces : Seq(ClassNames),
          members : Seq(Members), component : Seq(Loadable), pool : Seq(DOMAIN KindOf),
          outer : Seq(Loadable), inner : Seq(Loadable), enclosing : Seq(Bytes),
          signature : Seq(Bytes)]
Handles == [kind : {"MethodHandle"}, field : BOOLEAN, klass : Loadable, type : Loadable,
            params : Seq(Loadable), name : Bytes]
Arguments == Handles \cup [kind : {"MethodType"}, params : Seq(Loadable), type : Loadable]
                     \cup [kind : {"String"}, name : Bytes] \cup [kind : {"Class"}, klass : Loadable]
Sites == [caller : ClassNames, name : Bytes, params : Seq(Loadable), type : Loadable,
          bootstrap : Handles, arguments : Seq(Arguments)]

ASSUME NativesAssumption ==
    /\ {FieldArray, MethodArray, ClassArray, ObjectArray, Parameter, ParameterArray,
        MethodType, MethodHandleNatives} \subseteq Loadable
    /\ Arg0 \in Bytes
    /\ \A c \in DOMAIN ClassInfo : ClassInfo[c] \in Infos
    /\ \A s \in DOMAIN SiteInfo : SiteInfo[s] \in Sites

Mirrorsof(names) == [i \in DOMAIN names |-> Mirror(names[i], NoEntity)]
Strings(bytes) == [i \in DOMAIN bytes |-> Intern(bytes[i], NoEntity)]

\* frame.mem.getClass(name)->getMirror(&frame)
FoundMirror(name) == <<Find(name), MirrorFound(NoEntity)>>
FoundMirrors(names) == FlattenSeq([i \in DOMAIN names |-> FoundMirror(names[i])])

Run == Step("java", NoEntity, NoEntity)
Throws == Step("notFound", NoEntity, NoEntity)
ReturnRef == Step("return", NoEntity, NoEntity)

\* if (frame.markThrow) return nullptr
Tested == Step("tested", NoEntity, NoEntity)
Leave == Step("leave", NoEntity, NoEntity)

-----------------------------------------------------------------------------
(* java.lang.Class *)

GetName0(c) == <<Intern(ClassInfo[c].javaName, NoEntity)>>

\* clinit runs between the class and its mirror.
ForName0(name, initialize) ==
    <<Find(name), Throws>> \o (IF initialize THEN <<Run>> ELSE <<>>) \o <<MirrorFound(NoEntity)>>

GetSuperclass(c) == Mirrorsof(ClassInfo[c].super)
GetComponentType(c) == FoundMirrors(ClassInfo[c].component)

GetEnclosingMethod0(c) ==
    FoundMirrors(ClassInfo[c].outer)
    \o (IF ClassInfo[c].outer = <<>> THEN <<>> ELSE <<Find(ObjectArray)>> \o Strings(ClassInfo[c].enclosing))

\* The mirrors of the members that fit, one after another.
Declared(c, kind, publicOnly) ==
    LET members == ClassInfo[c].members
        Fits(m) == KindOf[m] = kind /\ (publicOnly => MemberInfo[m].public)
    IN FlattenSeq([i \in DOMAIN members |->
                      IF Fits(members[i]) THEN <<Mirror(members[i], NoEntity)>> ELSE <<>>])

GetDeclaredFields0(c, publicOnly) == <<Find(FieldArray)>> \o Declared(c, "field", publicOnly)
GetDeclaredCommons0(c, kind, publicOnly) == <<Find(MethodArray)>> \o Declared(c, kind, publicOnly)
GetDeclaringClass0(c) == FoundMirrors(ClassInfo[c].outer)
GetInterfaces0(c) == <<Find(ClassArray)>> \o Mirrorsof(ClassInfo[c].interfaces)
GetGenericSignature0(c) == Strings(ClassInfo[c].signature)
GetConstantPool(c) == Mirrorsof(ClassInfo[c].pool)
GetDeclaredClasses0(c) == <<Find(ClassArray)>> \o FoundMirrors(ClassInfo[c].inner)

\* Methods that fit: the parameters of m, named arg0 and so on.
GetParameters0(m) == <<Find(Parameter), Find(ParameterArray)>>
                     \o [i \in DOMAIN MemberInfo[m].params |-> Intern(Arg0, NoEntity)]

Invoke0(m) == FindAll(MemberInfo[m].params) \o <<Run, Find(MemberInfo[m].type)>>
GetClassAt0(name) == FoundMirror(name)
GetUTF8At0(bytes) == <<Intern(bytes, NoEntity)>>
GetCallerClass(c) == <<Mirror(c, NoEntity)>>

-----------------------------------------------------------------------------
(* java.lang.String, java.lang.ClassLoader, Proxy, Unsafe *)

InternNative(bytes) == <<Intern(bytes, NoEntity)>>
ResolveClass0 == <<Run>>
FindBootstrapClass(name) == FoundMirror(name)
FindLoadedClass0(name) == FoundMirror(name)
DefineClassCommon(name) == <<Define(name), MirrorFound(NoEntity)>>
UnsafeDefineAnonymousClass(name) == <<DefineAnonymous(name), MirrorFound(NoEntity)>>

\* MethodHandleNatives.init of a method: the mirror becomes its clazz.
SetMemberName(m) == <<Mirror(MemberInfo[m].klass, NoEntity)>>

-----------------------------------------------------------------------------
(* invokedynamic.  Its own test after createMethodType serves only one of  *)
(* the three callers: createMethodHandle and createCallSite go on.         *)

CreateMethodType(params, type) ==
    FoundMirror(type) \o <<Find(ClassArray)>> \o FoundMirrors(params) \o <<Find(MethodType), Run>>

CreateMethodHandle(h, caller) ==
    <<Find(MethodHandleNatives)>>
    \o (IF h.field THEN FoundMirror(h.type) ELSE CreateMethodType(h.params, h.type))
    \o FoundMirror(h.klass)
    \o <<Intern(h.name, NoEntity), Mirror(caller, NoEntity), Run, Tested>>

\* An argument of the bootstrap method is made in a loop that keeps those
\* before it in a std::vector.
CreateArgument(a, caller) ==
    CASE a.kind = "MethodHandle" -> CreateMethodHandle(a, caller)
      [] a.kind = "MethodType" -> CreateMethodType(a.params, a.type) \o <<Tested>>
      [] a.kind = "String" -> <<Intern(a.name, NoEntity)>>
      [] a.kind = "Class" -> FoundMirror(a.klass)

\* The last two are linkCallSiteImpl and invoke.
CreateCallSite(site) ==
    <<Find(MethodHandleNatives)>>
    \o FlattenSeq([i \in DOMAIN site.arguments |-> CreateArgument(site.arguments[i], site.caller)])
    \o <<Find(ObjectArray), Find(ObjectArray), Mirror(site.caller, NoEntity), Intern(site.name, NoEntity)>>
    \o CreateMethodType(site.params, site.type)
    \o <<Run, Tested, Run>>

\* a mutant: without the ThreadSafeGuard
InvokeDynamicUnguarded(site) == CreateMethodHandle(site.bootstrap, site.caller) \o CreateCallSite(site)

\* In a ThreadSafeGuard, until the last step.
InvokeDynamic(site) == CreateMethodHandle(site.bootstrap, site.caller) \o CreateCallSite(site) \o <<Leave>>

-----------------------------------------------------------------------------

\* The native, its class or member, its argument.
Body(call) ==
    LET c == call.of
        arg == call.arg
    IN CASE call.native = "getName0" -> GetName0(c)
         [] call.native = "forName0" -> ForName0(c, arg = "initialize")
         [] call.native = "getSuperclass" -> GetSuperclass(c)
         [] call.native = "getComponentType" -> GetComponentType(c)
         [] call.native = "getEnclosingMethod0" -> GetEnclosingMethod0(c)
         [] call.native = "getDeclaredFields0" -> GetDeclaredFields0(c, arg = "public")
         [] call.native = "getDeclaredMethods0" -> GetDeclaredCommons0(c, "method", arg = "public")
         [] call.native = "getDeclaredConstructors0" -> GetDeclaredCommons0(c, "constructor", arg = "public")
         [] call.native = "getDeclaringClass0" -> GetDeclaringClass0(c)
         [] call.native = "getInterfaces0" -> GetInterfaces0(c)
         [] call.native = "getGenericSignature0" -> GetGenericSignature0(c)
         [] call.native = "getConstantPool" -> GetConstantPool(c)
         [] call.native = "getDeclaredClasses0" -> GetDeclaredClasses0(c)
         [] call.native = "getParameters0" -> GetParameters0(c)
         [] call.native = "invoke0" -> Invoke0(c)
         [] call.native = "getClassAt0" -> GetClassAt0(arg)
         [] call.native = "getUTF8At0" -> GetUTF8At0(arg)
         [] call.native = "getCallerClass" -> GetCallerClass(c)
         [] call.native = "intern" -> InternNative(arg)
         [] call.native = "resolveClass0" -> ResolveClass0
         [] call.native = "findBootstrapClass" -> FindBootstrapClass(c)
         [] call.native = "findLoadedClass0" -> FindLoadedClass0(c)
         [] call.native = "defineClass" -> DefineClassCommon(c)
         [] call.native = "defineAnonymousClass" -> UnsafeDefineAnonymousClass(c)
         [] call.native = "setMemberName" -> SetMemberName(c)
         [] call.native = "invokedynamic" -> InvokeDynamic(SiteInfo[c])
=============================================================================
