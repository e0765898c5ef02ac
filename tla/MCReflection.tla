---------------------------- MODULE MCReflection ----------------------------
(* A class with an interface, a field, a method and a constructor, for TLC. *)
EXTENDS Reflection
CONSTANTS t1, t2

Native(native, of, arg) == [native |-> native, of |-> of, arg |-> arg]

\* Natives that load classes, and natives of a class that is loaded; but not
\* findLoadedClass0 and getDeclaringClass0, which make the calls of others.
Loaders == { Native("forName0", "A", "initialize"), Native("forName0", "absent", ""),
              Native("findBootstrapClass", "A", ""),
              Native("defineClass", "A", ""), Native("defineAnonymousClass", "A", ""),
              Native("resolveClass0", "A", "") }
Others == { Native(n, "A", "") :
               n \in {"getName0", "getSuperclass", "getEnclosingMethod0", "getDeclaredMethods0",
                      "getDeclaredConstructors0", "getInterfaces0",
                      "getGenericSignature0", "getConstantPool", "getDeclaredClasses0",
                      "getCallerClass"} }
           \cup { Native("getDeclaredFields0", "A", "public"), Native("getComponentType", "[A", ""),
                  Native("getClassAt0", "A", "[A"), Native("getUTF8At0", "A", "smile6"),
                  Native("intern", "", "smile4"), Native("getParameters0", "A.m", ""),
                  Native("invoke0", "A.m", ""), Native("setMemberName", "A.m", ""),
                  Native("invokedynamic", "site", "") }
AllCalls == Loaders \cup Others

Info(super, interfaces, members, component, pool, outer) ==
    [javaName |-> "text", super |-> super, interfaces |-> interfaces, members |-> members,
     component |-> component, pool |-> pool, outer |-> outer, enclosing |-> <<"text", "smile6">>,
     signature |-> <<"text">>, inner |-> <<"A">>]

Classes == "Object" :> Info(<<>>, <<>>, <<>>, <<>>, <<>>, <<>>)
        @@ "I" :> Info(<<>>, <<>>, <<>>, <<>>, <<>>, <<>>)
        @@ "A" :> Info(<<"Object">>, <<"I">>, <<"A.f", "A.m", "A.i">>, <<>>, <<"A#">>, <<"I">>)
        @@ "[A" :> Info(<<"Object">>, <<>>, <<>>, <<"A">>, <<>>, <<>>)

Member(params, type, label) ==
    [klass |-> "A", params |-> params, throws |-> <<>>, type |-> type, label |-> label, public |-> TRUE]

MembersOfA == "A.f" :> Member(<<>>, "I", "smile6")
        @@ "A.m" :> Member(<<"I">>, "[A", "text")
        @@ "A.i" :> Member(<<"[A">>, "", "")

Files == {"Object", "I", "A"}
AboveOf == "Object" :> <<>> @@ "I" :> <<>> @@ "A" :> <<"I", "Object">>
Boot == {"Object", "[C", "[Object"}
BootedNames == {Boot, Boot \cup {"I", "A"}}

\* A lambda: a method handle and a string for its bootstrap method.
Handle(name) == [kind |-> "MethodHandle", field |-> FALSE, klass |-> "A", params |-> <<>>,
                 type |-> "Object", name |-> name]
OneSite == "site" :> [caller |-> "A", name |-> "text", params |-> <<>>, type |-> "I",
                    bootstrap |-> Handle("text"),
                    arguments |-> <<[kind |-> "String", name |-> "smile6"], Handle("text")>>]
Kinds == "Object" :> "class" @@ "[C" :> "class" @@ "[Object" :> "class"
      @@ "I" :> "class" @@ "A" :> "class" @@ "[A" :> "class"
      @@ "ANONYMOUS" :> "class" @@ "A.f" :> "field" @@ "A.m" :> "method"
      @@ "A.i" :> "constructor" @@ "A#" :> "cp"

\* The text smile in four and in six bytes that have one hash.
ByteStrings == {"text", "smile4", "smile6"}
Texts == "text" :> "text" @@ "smile4" :> "smile" @@ "smile6" :> "smile"
HashOf == "text" :> 1 @@ "smile4" :> 1 @@ "smile6" :> 1
=============================================================================
