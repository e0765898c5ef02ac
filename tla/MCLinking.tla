------------------------------ MODULE MCLinking ------------------------------
(***************************************************************************)
(* Class files for TLC: each kind of constant and of attribute, wherever a *)
(* compiler puts it, alone and next to others; fields and methods of every *)
(* type in classes, subclasses and interfaces; families of classes whose   *)
(* last class calls, tests, throws and catches.                            *)
(***************************************************************************)
EXTENDS Linking

\* The pool all files share: a long and its unusable second place come
\* first, the names of the attributes next, then the names of the members.
AttributeNames ==
    <<"ConstantValue", "Deprecated", "Synthetic", "EnclosingMethod", "Signature",
      "SourceFile", "Exceptions", "InnerClasses", "LineNumberTable", "LocalVariableTable",
      "LocalVariableTypeTable", "MethodParameters", "RuntimeVisibleAnnotations",
      "RuntimeVisibleParameterAnnotations", "RuntimeVisibleTypeAnnotations",
      "AnnotationDefault", "StackMapTable", "SourceDebugExtension",
      "RuntimeInvisibleAnnotations", "RuntimeInvisibleParameterAnnotations",
      "RuntimeInvisibleTypeAnnotations", "NestMembers", "NestHost", "Code",
      "BootstrapMethods">>
Descriptions ==
    <<<<"I">>, <<"J">>, <<"L", "A", ";">>, <<"[", "[", "D">>, <<"[", "L", "A", "B", ";">>,
      <<"(", ")", "V">>>>
Words == [i \in DOMAIN AttributeNames |-> <<AttributeNames[i]>>]
         \o <<<<"finalize">>, <<"x">>, <<"y">>, <<>>>> \o Descriptions

\* Three classes, two places each; then a double and all other constants.
Names(this, super) ==
    <<Constant(5, <<7>>), NoConstant,
      Utf8(this), Constant(7, <<3>>), Utf8(super), Constant(7, <<5>>),
      Utf8(<<"Shape">>), Constant(7, <<7>>)>>
First == 8
Pool(this, super, more) ==
    Names(this, super) \o [i \in DOMAIN Words |-> Utf8(Words[i])] \o more
WordAt(word) == First + CHOOSE i \in DOMAIN Words : Words[i] = word
Free == First + Len(Words) + 1   \* where "more" begins

EveryConstant ==
    <<Constant(6, <<1>>), NoConstant, Constant(3, <<2>>), Constant(4, <<3>>),
      Constant(8, <<3>>), Constant(12, <<9, 10>>), Constant(9, <<4, 9>>),
      Constant(10, <<4, 9>>), Constant(11, <<4, 9>>), Constant(15, <<6, 9>>),
      Constant(16, <<9>>), Constant(18, <<0, 9>>), Constant(5, <<4>>), NoConstant>>

-----------------------------------------------------------------------------
Named_(kind) == Attribute(kind, WordAt(<<kind>>))
Numbers(kind, ns) == [Named_(kind) EXCEPT !.fixed = ns]
Listed(kind, rows) == [Named_(kind) EXCEPT !.rows = rows]
Opaque(kind, bytes) == [Named_(kind) EXCEPT !.bytes = bytes]
CodeWith(as) == [Named_("Code") EXCEPT !.fixed = <<1, 2>>, !.bytes = <<"nop", "return">>,
                     !.rows = <<<<0, 1, 1, 0>>, <<0, 1, 1, 4>>>>, !.attributes = as]

OfClass == {Numbers("SourceFile", <<3>>), Numbers("Signature", <<5>>),
            Numbers("EnclosingMethod", <<4, 0>>),
            Listed("InnerClasses", <<<<4, 6, 3, 8>>, <<6, 0, 0, 1>>>>),
            Listed("BootstrapMethods", <<<<2, 3, 4>>, <<5>>>>),
            Opaque("RuntimeVisibleAnnotations", <<"a", "b">>),
            Opaque("RuntimeVisibleTypeAnnotations", <<"c">>)}
OfClassAlone == {Numbers("Deprecated", <<>>), Opaque("SourceDebugExtension", <<>>),
                 Opaque("SourceDebugExtension", <<"s">>),
                 Opaque("RuntimeInvisibleAnnotations", <<"d">>),
                 Opaque("RuntimeInvisibleTypeAnnotations", <<"d">>),
                 [Numbers("NestMembers", <<1, 4>>) EXCEPT !.bytes = <<"n">>],
                 Numbers("NestHost", <<4>>)}
OfField == {Numbers("ConstantValue", <<1>>), Numbers("Synthetic", <<>>),
            Numbers("Signature", <<3>>), Opaque("RuntimeVisibleAnnotations", <<"e">>),
            Opaque("RuntimeVisibleTypeAnnotations", <<"f">>)}
OfMethod == {Listed("Exceptions", <<<<4>>, <<6>>>>), Numbers("Signature", <<5>>),
             Listed("MethodParameters", <<<<3, 0>>, <<5, 0>>>>),
             Opaque("RuntimeVisibleParameterAnnotations", <<"p">>),
             Opaque("RuntimeInvisibleParameterAnnotations", <<"q">>),
             Opaque("AnnotationDefault", <<"r", "s">>), CodeWith(<<>>)}
OfCode == {Listed("LineNumberTable", <<<<0, 10>>, <<1, 11>>>>),
           Listed("LocalVariableTable", <<<<0, 2, 3, 5, 0>>>>),
           Listed("LocalVariableTypeTable", <<<<0, 2, 3, 5, 1>>>>),
           [Numbers("StackMapTable", <<1>>) EXCEPT !.bytes = <<"x">>]}

\* None, one, or two attributes, in either order.
Lists(as) == {<<>>} \cup {<<a>> : a \in as} \cup {<<a, b>> : a, b \in as}
Distinct(as) == {list \in Lists(as) : Len(list) = 2 => list[1] # list[2]}

-----------------------------------------------------------------------------
Field(access, name, type, as) ==
    [fixed |-> <<access, WordAt(name), WordAt(type)>>, attributes |-> as]
Method(access, name, as) ==
    [fixed |-> <<access, WordAt(name), WordAt(<<"(", ")", "V">>)>>, attributes |-> as]

Class(this, super, fields, methods, as) ==
    [EmptyClassFile EXCEPT !.access = 1, !.this = 4, !.super = IF super = <<>> THEN 0 ELSE 6,
         !.interfaces = <<8>>, !.fields = fields, !.methods = methods, !.attributes = as]
    @@ [pool |-> Pool(this, super, <<>>)]
Object == [Class(JAVA_LANG_OBJECT_NAME, <<>>, <<>>, <<Method(1, <<"finalize">>, <<>>)>>, <<>>)
               EXCEPT !.interfaces = <<>>]
Plain1 == Class(<<"A">>, <<"Object">>, <<>>, <<>>, <<>>)


\* A program is named by what varies in it: attributes, members, a descriptor.
Program(group, as, bs, descriptor, access) ==
    [group |-> group, as |-> as, bs |-> bs, descriptor |-> descriptor, access |-> access]

\* A class, its superclass and its interface, with fields of two types.
FieldLists ==
    {[i \in DOMAIN fs |-> Field(fs[i][1], fs[i][2], fs[i][3], <<>>)] :
        fs \in {<<>>} \cup {<<<<a, <<"x">>, t>>>> : a \in {0, 8}, t \in {<<"I">>, <<"J">>}}
          \cup {<<<<a, <<"x">>, <<"L", "A", ";">>>>, <<b, <<"y">>, <<"I">>>>,
                  <<c, <<"finalize">>, <<"[", "[", "D">>>>>> : a, b, c \in {0, 8}}}

\* Methods of every descriptor with at most two parameters.
Types == {<<"I">>, <<"J">>, <<"L", "A", ";">>, <<"L", "A", "B", ";">>, <<"[", "D">>,
          <<"[", "[", "L", "A", ";">>}
Parameters == {<<>>} \cup Types \cup {s \o t : s, t \in Types}

\* A family to link in: Cloneable is above Shape, Shape above A, A above B.  Each
\* of the last three declares x()V, declares it abstract, or does not; A is
\* abstract if its x()V is.  B refers to A.x()V and B.x()V, to its classes, to an array and a method of it.
Absent == 0
Ways == {Method(way, <<"x">>, <<>>) : way \in {Absent, 1, 1025}}
AccessOfA(m) == IF m.fixed[1] = 1025 THEN 1025 ELSE 1
DeclaredX(m) == IF m.fixed[1] = Absent THEN <<>> ELSE <<m>>
RefsOfB == <<Constant(12, <<WordAt(<<"x">>), WordAt(<<"(", ")", "V">>)>>),   \* Free
             Constant(10, <<6, Free>>), Constant(10, <<4, Free>>),
             Constant(12, <<WordAt(<<"y">>), WordAt(<<"I">>)>>),             \* Free + 3
             Constant(9, <<4, Free + 3>>),
             Utf8(<<"Cloneable">>), Constant(7, <<Free + 5>>),
             Constant(7, <<WordAt(<<"[", "L", "A", "B", ";">>)>>),           \* Free + 7
             Constant(12, <<WordAt(<<"finalize">>), WordAt(<<"(", ")", "V">>)>>),
             Constant(10, <<Free + 7, Free + 8>>)>>
CodeOfB == [CodeWith(<<Listed("LineNumberTable", <<<<0, 10>>, <<3, 11>>, <<4, 12>>>>)>>)
               EXCEPT !.rows = <<<<0, 3, 21, 4>>, <<0, 4, 22, 6>>, <<3, 6, 23, 4>>, <<4, 6, 24, 0>>>>]
FileOfB(way) ==
    [Class(<<"B">>, <<"A">>, <<Field(0, <<"x">>, <<"I">>, <<>>)>>,
           DeclaredX(way) \o <<Method(1, <<"y">>, <<CodeOfB>>)>>, <<>>)
        EXCEPT !.pool = Pool(<<"B">>, <<"A">>, RefsOfB)]
ThreeWords == {<<0, 3>>, <<3, 1>>, <<4, 2>>}
ArraysAndClasses == {<<"A">>, <<"B">>, <<"[", "L", "A", "B", ";">>}
CallerOf(p) == IF p.group = "linking" THEN <<"B">> ELSE <<>>   \* no class

AllPrograms ==
    {Program("class", as, <<>>, <<>>, 1) : as \in Distinct(OfClass) \cup {<<a>> : a \in OfClassAlone}}
    \cup {Program("field", as, <<>>, <<>>, 24) : as \in Distinct(OfField)}
    \cup {Program("method", as, <<>>, <<>>, 1) :
              as \in Distinct(OfMethod) \cup {<<CodeWith(as)>> : as \in Distinct(OfCode)}}
    \cup {Program("constants", <<>>, <<>>, <<>>, i) : i \in 1 .. 3}
    \cup {Program("family", as, bs, <<>>, 1) : as, bs \in FieldLists}
    \cup {Program("linking", <<shape, a, b>>, <<>>, <<>>, AccessOfA(a)) : shape, a, b \in Ways}
    \cup {Program("descriptor", <<>>, <<>>, <<"(">> \o p \o <<")">> \o r, access) :
              p \in Parameters, access \in {1, 9},
              r \in {<<"V">>, <<"J">>, <<"[", "[", "L", "A", ";">>}}

\* All constants, a constant of Java 11, and an attribute of Java 16.
ConstantFiles ==
    <<[Plain1 EXCEPT !.pool = Pool(<<"A">>, <<"Object">>, EveryConstant)],
      [Plain1 EXCEPT !.pool = Pool(<<"A">>, <<"Object">>, <<Constant(17, <<0, 9>>)>>)],
      [Plain1 EXCEPT !.pool = Pool(<<"A">>, <<"Object">>, <<Utf8(<<"Record">>)>>),
                     !.attributes = <<[Attribute("Record", Free) EXCEPT !.bytes = <<"x">>]>>]>>

Shape == [Class(<<"Shape">>, <<"Object">>, <<Field(8, <<"x">>, <<"I">>, <<>>)>>, <<>>, <<>>)
              EXCEPT !.access = 513, !.interfaces = <<>>]

Files(p) ==
    CASE p.group = "class" -> <<[Plain1 EXCEPT !.attributes = p.as]>>
      [] p.group = "field" ->
             <<[Plain1 EXCEPT !.fields = <<Field(p.access, <<"x">>, <<"J">>, p.as),
                                           Field(0, <<"y">>, <<"I">>, <<>>)>>]>>
      [] p.group = "method" ->
             <<[Plain1 EXCEPT !.methods =
                   <<Method(1, <<"x">>, p.as),
                     Method(257, <<"y">>, SelectSeq(p.as, LAMBDA a : a.kind # "Code"))>>]>>
      [] p.group = "constants" -> <<ConstantFiles[p.access]>>
      [] p.group = "family" ->
             <<Object, Shape, Class(<<"A">>, <<"Object">>, p.as, <<>>, <<>>),
               Class(<<"B">>, <<"A">>, p.bs, <<Method(1, <<"finalize">>, <<>>)>>, <<>>)>>
      [] p.group = "linking" ->
             <<Object,
               [Class(<<"Cloneable">>, <<"Object">>, <<>>, <<>>, <<>>)
                    EXCEPT !.access = 513, !.interfaces = <<>>],
               [Class(<<"Shape">>, <<"Object">>, <<>>, DeclaredX(p.as[1]), <<>>)
                    EXCEPT !.access = 513, !.interfaces = <<Free + 1>>,
                           !.pool = Pool(<<"Shape">>, <<"Object">>,
                                         <<Utf8(<<"Cloneable">>), Constant(7, <<Free>>)>>)],
               [Class(<<"A">>, <<"Object">>, <<Field(0, <<"y">>, <<"I">>, <<>>)>>,
                      DeclaredX(p.as[2]), <<>>) EXCEPT !.access = p.access],
               FileOfB(p.as[3])>>
      [] p.group = "descriptor" ->
             <<[Plain1 EXCEPT !.pool = Pool(<<"A">>, <<"Object">>, <<Utf8(p.descriptor)>>),
                              !.methods = <<[fixed |-> <<p.access, WordAt(<<"x">>), Free>>,
                                             attributes |-> <<>>]>>]>>
=============================================================================
