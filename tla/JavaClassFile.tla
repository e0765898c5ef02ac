---------------------------- MODULE JavaClassFile ----------------------------
(***************************************************************************)
(* The class file format: what a class file is, and the bytes that stand   *)
(* for it.  This is the input of the parser, written by compilers and not  *)
(* by this program.                                                        *)
(*                                                                         *)
(* A file is a record of a constant pool and the numbers, indices and      *)
(* attributes that refer to it.  Its bytes are a sequence of units: a      *)
(* number of 1, 2, 4 or 8 bytes, or a block of bytes nobody looks into.    *)
(* A name or a descriptor is a sequence of tokens, each of one byte.       *)
(***************************************************************************)
EXTENDS Naturals, Sequences, SequencesExt

Unit(w, n) == [w |-> w, n |-> n, bytes |-> <<>>]
U1(n) == <<Unit(1, n)>>
U2(n) == <<Unit(2, n)>>
U4(n) == <<Unit(4, n)>>
Block(b) == IF b = <<>> THEN <<>> ELSE <<[w |-> Len(b), n |-> 0, bytes |-> b]>>

Width(units) ==
    LET sum[i \in 0 .. Len(units)] == IF i = 0 THEN 0 ELSE sum[i - 1] + units[i].w
    IN sum[Len(units)]

EachU2(numbers) == [i \in DOMAIN numbers |-> Unit(2, numbers[i])]
Rows(rows) == FlattenSeq([i \in DOMAIN rows |-> EachU2(rows[i])])

-----------------------------------------------------------------------------
(* Constants.  A long or a double takes two places of the pool: the second *)
(* is unusable, and nothing in the file stands for it.                     *)

NoConstant == [tag |-> 0, fixed |-> <<>>, bytes |-> <<>>]
Constant(tag, fixed) == [tag |-> tag, fixed |-> fixed, bytes |-> <<>>]
Utf8(text) == [tag |-> 1, fixed |-> <<>>, bytes |-> text]

\* The widths of what follows a tag.
Item(tag) == CASE tag \in {3, 4} -> <<4>>
               [] tag \in {5, 6} -> <<8>>
               [] tag \in {7, 8, 16} -> <<2>>
               [] tag \in {9, 10, 11, 12, 17, 18} -> <<2, 2>>
               [] tag = 15 -> <<1, 2>>

ConstantLayout(c) ==
    IF c.tag = 0 THEN <<>>
    ELSE IF c.tag = 1 THEN U1(1) \o U2(Len(c.bytes)) \o Block(c.bytes)
    ELSE U1(c.tag) \o [i \in DOMAIN c.fixed |-> Unit(Item(c.tag)[i], c.fixed[i])]

-----------------------------------------------------------------------------
(* Attributes: the index of the name, numbers, rows of a table, bytes, and *)
(* the attributes inside of it.                                            *)

TableKinds == {"Exceptions", "InnerClasses", "LineNumberTable",
               "LocalVariableTable", "LocalVariableTypeTable"}

\* Only Code has attributes inside of it, and there is no Code among them.
List(layouts) == U2(Len(layouts)) \o FlattenSeq(layouts)
WithHeader(a, contents) == U2(a.name) \o U4(Width(contents)) \o contents
Contents(a, inside) ==
    IF a.kind = "Code"
    THEN EachU2(a.fixed) \o U4(Len(a.bytes)) \o Block(a.bytes)
         \o U2(Len(a.rows)) \o Rows(a.rows) \o inside
    ELSE IF a.kind \in TableKinds THEN U2(Len(a.rows)) \o Rows(a.rows)
    ELSE IF a.kind = "MethodParameters" THEN U1(Len(a.rows)) \o Rows(a.rows)
    ELSE IF a.kind = "BootstrapMethods"
    THEN List([i \in DOMAIN a.rows |->
             U2(a.rows[i][1]) \o U2(Len(a.rows[i]) - 1) \o EachU2(Tail(a.rows[i]))])
    ELSE EachU2(a.fixed) \o Block(a.bytes)
InnerLayout(a) == WithHeader(a, Contents(a, <<>>))
AttributeLayout(a) ==
    WithHeader(a, Contents(a, List([i \in DOMAIN a.attributes |-> InnerLayout(a.attributes[i])])))
AttributesLayout(as) == List([i \in DOMAIN as |-> AttributeLayout(as[i])])

-----------------------------------------------------------------------------
MemberLayout(m) == EachU2(m.fixed) \o AttributesLayout(m.attributes)
MembersLayout(ms) == List([i \in DOMAIN ms |-> MemberLayout(ms[i])])
TablesLayout(f) == MembersLayout(f.fields) \o (MembersLayout(f.methods)
                                               \o AttributesLayout(f.attributes))
ClassLayout(f) == U2(f.access) \o U2(f.this) \o U2(f.super)
                  \o (U2(Len(f.interfaces)) \o EachU2(f.interfaces) \o TablesLayout(f))

Magic == 51966
Layout(f) ==
    U4(Magic) \o U2(0) \o U2(52) \o U2(Len(f.pool) + 1)
    \o (FlattenSeq([i \in DOMAIN f.pool |-> ConstantLayout(f.pool[i])]) \o ClassLayout(f))

-----------------------------------------------------------------------------
(* What a compiler writes *)

Constants == [tag : Nat, fixed : Seq(Nat), bytes : Seq(STRING)]
\* The second place of a long or a double is unusable, and no other.
IsConstant(p, i) ==
    /\ p[i].tag \in {0, 1} \cup (3 .. 12) \cup (15 .. 18)
    /\ p[i].tag = 0 => p[i] = NoConstant
    /\ p[i].tag = 0 <=> i > 1 /\ p[i - 1].tag \in {5, 6}
    /\ p[i].tag \in {5, 6} => i < Len(p)
    /\ p[i].tag = 1 => p[i].fixed = <<>>
    /\ p[i].tag > 1 => p[i].bytes = <<>> /\ Len(p[i].fixed) = Len(Item(p[i].tag))

InnerAttributes == [kind : STRING, name : Nat, fixed : Seq(Nat), rows : Seq(Seq(Nat)),
                    bytes : Seq(STRING), attributes : {<<>>}]
Attributes == [kind : STRING, name : Nat, fixed : Seq(Nat), rows : Seq(Seq(Nat)),
               bytes : Seq(STRING), attributes : Seq(InnerAttributes)]

\* How many numbers an attribute has, and how many columns its table.
NumbersOf == [ConstantValue |-> 1, Deprecated |-> 0, Synthetic |-> 0, EnclosingMethod |-> 2,
              Signature |-> 1, SourceFile |-> 1]
ColumnsOf == [Exceptions |-> 1, InnerClasses |-> 4, LineNumberTable |-> 2,
              LocalVariableTable |-> 5, LocalVariableTypeTable |-> 5, MethodParameters |-> 2]
AnnotationKinds ==
    {"RuntimeVisibleAnnotations", "RuntimeInvisibleAnnotations",
     "RuntimeVisibleParameterAnnotations", "RuntimeInvisibleParameterAnnotations",
     "RuntimeVisibleTypeAnnotations", "RuntimeInvisibleTypeAnnotations", "AnnotationDefault"}
HasColumns(a, n) == \A i \in DOMAIN a.rows : Len(a.rows[i]) = n
IsContent(a) ==
    /\ a.kind \in DOMAIN NumbersOf =>
           Len(a.fixed) = NumbersOf[a.kind] /\ a.rows = <<>> /\ a.bytes = <<>>
    /\ a.kind \in DOMAIN ColumnsOf =>
           HasColumns(a, ColumnsOf[a.kind]) /\ a.fixed = <<>> /\ a.bytes = <<>>
    /\ a.kind = "BootstrapMethods" =>
           (\A i \in DOMAIN a.rows : a.rows[i] # <<>>) /\ a.fixed = <<>> /\ a.bytes = <<>>
    /\ a.kind \in AnnotationKinds => a.fixed = <<>> /\ a.rows = <<>>
    /\ a.kind = "Code" => Len(a.fixed) = 2 /\ HasColumns(a, 4)
    /\ a.kind # "Code" => a.attributes = <<>>

\* What the indices of names, descriptors and classes mean.
IsText(p, i) == i \in DOMAIN p /\ p[i].tag = 1
IsClassName(p, i) == i \in DOMAIN p /\ p[i].tag = 7 /\ IsText(p, p[i].fixed[1])
TextIn(f, i) == IF i = 0 THEN <<>> ELSE f.pool[i].bytes
NameIn(f, i) == IF i = 0 THEN <<>> ELSE TextIn(f, f.pool[i].fixed[1])

\* The tokens of d from the i-th to the k-th are a type: behind brackets, if any,
\* a letter or the name of a class, which no primitive type has.
BaseTypes == {"B", "C", "D", "F", "I", "J", "S", "Z"}
PrimitiveTypes == {"boolean", "byte", "char", "short", "int", "long", "float", "double", "void"}
IsType(d, i, k) ==
    \E e \in i .. k :
        /\ \A j \in i .. e - 1 : d[j] = "["
        /\ \/ e = k /\ d[e] \in BaseTypes
           \/ /\ e + 1 < k /\ d[e] = "L" /\ d[k] = ";"
              /\ \A j \in e + 1 .. k - 1 : d[j] \notin {";", "[", "(", ")"}
              /\ e + 2 = k => d[e + 1] \notin PrimitiveTypes
IsFieldDescriptor(d) == IsType(d, 1, Len(d))

\* Where each parameter starts: at the next one's start, or at the end, it ends.
AreTypes(d, starts, end) ==
    \A i \in starts : \E k \in i .. end - 1 : IsType(d, i, k) /\ k + 1 \in starts \cup {end}
IsMethodDescriptor(d) ==
    \E end \in 2 .. Len(d) - 1 :
        /\ d[1] = "(" /\ d[end] = ")"
        /\ \E starts \in SUBSET (2 .. end - 1) :
               2 \in starts \cup {end} /\ AreTypes(d, starts, end)
        /\ IsType(d, end + 1, Len(d)) \/ (end + 1 = Len(d) /\ d[end + 1] = "V")

\* An attribute is called by its kind, and there is one of each.
IsNamed(a, p) == a.name \in DOMAIN p /\ p[a.name] = Utf8(<<a.kind>>)
OneOfEach(as) == \A i, k \in DOMAIN as : as[i].kind = as[k].kind => i = k
AreAttributes(as, p) ==
    /\ as \in Seq(Attributes) /\ OneOfEach(as)
    /\ \A i \in DOMAIN as :
           /\ IsNamed(as[i], p) /\ IsContent(as[i]) /\ OneOfEach(as[i].attributes)
           /\ \A k \in DOMAIN as[i].attributes :
                  LET a == as[i].attributes[k]
                  IN IsNamed(a, p) /\ IsContent(a) /\ a.kind # "Code"
\* A native method has no code.
IsNative(m) == (m.fixed[1] \div 256) % 2 = 1
AreMembers(ms, p) ==
    /\ ms \in Seq([fixed : Seq(Nat), attributes : Seq(Attributes)])
    /\ \A i \in DOMAIN ms : /\ Len(ms[i].fixed) = 3
                            /\ IsText(p, ms[i].fixed[2]) /\ IsText(p, ms[i].fixed[3])
                            /\ AreAttributes(ms[i].attributes, p)
                            /\ IsNative(ms[i]) => \A k \in DOMAIN ms[i].attributes :
                                                      ms[i].attributes[k].kind # "Code"

IsFile(f) ==
    /\ f.pool \in Seq(Constants) /\ \A i \in DOMAIN f.pool : IsConstant(f.pool, i)
    /\ f.access \in Nat /\ f.this \in Nat /\ f.super \in Nat /\ f.interfaces \in Seq(Nat)
    /\ IsClassName(f.pool, f.this)
    /\ f.super = 0 \/ IsClassName(f.pool, f.super)
    /\ \A i \in DOMAIN f.interfaces : IsClassName(f.pool, f.interfaces[i])
    /\ AreMembers(f.fields, f.pool)
    /\ AreMembers(f.methods, f.pool)
    /\ AreAttributes(f.attributes, f.pool)
    /\ \A i \in DOMAIN f.fields : IsFieldDescriptor(TextIn(f, f.fields[i].fixed[3]))
    /\ \A i \in DOMAIN f.methods : IsMethodDescriptor(TextIn(f, f.methods[i].fixed[3]))

\* Every class has a name of its own, and none comes before its superclass.
InOrder(files) ==
    \A k \in DOMAIN files :
        /\ NameIn(files[k], files[k].this) # <<>>
        /\ \A i \in 1 .. k : NameIn(files[i], files[i].super) # NameIn(files[k], files[k].this)
        /\ \A i \in 1 .. k - 1 : NameIn(files[i], files[i].this) # NameIn(files[k], files[k].this)
=============================================================================
