------------------------------ MODULE ClassFile ------------------------------
(***************************************************************************)
(* The class file parser: ClassFile::parserAll of class_file.cpp with the  *)
(* constructors of constant_info.hpp and attribute_info.hpp it calls, each *)
(* of which reads its own bytes from the stream.                           *)
(*                                                                         *)
(* A read whose width is not the width of what stands next in the file     *)
(* would return bytes of something else: no action is enabled then.        *)
(***************************************************************************)
EXTENDS JavaClassFile

CONSTANTS Programs,     \* names of programs
          FilesOf(_)    \* their class files, in the order they are loaded

ASSUME FilesAssumption ==
    \A p \in Programs : /\ Len(FilesOf(p)) \in Nat \ {0}
                        /\ \A i \in 1 .. Len(FilesOf(p)) : IsFile(FilesOf(p)[i])
                        /\ InOrder(FilesOf(p))

VARIABLES program,    \* which of the programs is being loaded
          at,         \* which of its files
          phase,      \* the function of parserAll that runs, or what follows
          rest,       \* what is left of the stream
          left,       \* items of the table being read that are still missing
          pool,       \* ClassFile::constantPool, from index 1
          cf,         \* the rest of the ClassFile
          open        \* constructors that are waiting for their attributes

fileVars == <<program, at>>
parserVars == <<program, at, phase, rest, left, pool, cf, open>>

File == FilesOf(program)[at]

EmptyClassFile == [access |-> 0, this |-> 0, super |-> 0, interfaces |-> <<>>,
                   fields |-> <<>>, methods |-> <<>>, attributes |-> <<>>]

-----------------------------------------------------------------------------
(* The stream *)

\* The next units are numbers of these widths.
Comes(ws) == /\ Len(ws) <= Len(rest)
             /\ \A i \in DOMAIN ws : rest[i].w = ws[i] /\ rest[i].bytes = <<>>
Value(i) == rest[i].n
Values(i, n) == [k \in 1 .. n |-> rest[i + k - 1].n]

\* n rows of a table, from unit i on.
Repeated(ws, n) == [k \in 1 .. n * Len(ws) |-> ws[((k - 1) % Len(ws)) + 1]]
RowsAt(i, ws, n) == [k \in 1 .. n |-> Values(i + (k - 1) * Len(ws), Len(ws))]

\* readBuffer
BlockComes(i, length) == length = 0 \/ (i <= Len(rest) /\ rest[i].w = length)
BlockAt(i, length) == IF length = 0 THEN <<>> ELSE rest[i].bytes
BlockUnits(length) == IF length = 0 THEN 0 ELSE 1

\* seekg
UnitsIn(i, length) ==
    CHOOSE n \in 0 .. Len(rest) - i + 1 : Width(SubSeq(rest, i, i + n - 1)) = length

Consume(n) == rest' = SubSeq(rest, n + 1, Len(rest))

-----------------------------------------------------------------------------
(* Constants *)

Constant1IndexInfo == <<2>>
ConstantClassNameTypeIndexInfo == <<2, 2>>
ConstantNumberInfo == <<4>>
ConstantWideNumberInfo == <<8>>
ConstantNameAndTypeInfo == <<2, 2>>
ConstantMethodHandleInfo == <<1, 2>>
ConstantMethodTypeInfo == <<2>>
ConstantInvokeDynamicInfo == <<2, 2>>
ConstantUTF8Info == <<2>>

\* What is read after the tag; no constructor is called for another tag.
ConstantInfo(tag) == CASE tag \in {7, 8} -> Constant1IndexInfo
                       [] tag \in {9, 10, 11} -> ConstantClassNameTypeIndexInfo
                       [] tag \in {3, 4} -> ConstantNumberInfo
                       [] tag \in {5, 6} -> ConstantWideNumberInfo
                       [] tag = 12 -> ConstantNameAndTypeInfo
                       [] tag = 15 -> ConstantMethodHandleInfo
                       [] tag = 16 -> ConstantMethodTypeInfo
                       [] tag = 18 -> ConstantInvokeDynamicInfo
Wide == {5, 6}
Tags == {1, 3, 4, 5, 6, 7, 8, 9, 10, 11, 12, 15, 16, 18}

\* getConstantStringFromPool
StringAt(p, i) == p[i].bytes

-----------------------------------------------------------------------------
(* Attributes: what their constructors read after the name and the length. *)

AttributeInfo == <<2, 4>>

ConstantValueAttribute == <<2>>
DeprecatedAttribute == <<>>
SyntheticAttribute == <<>>
EnclosingMethodAttribute == <<2, 2>>
SignatureAttribute == <<2>>
SourceFileAttribute == <<2>>

ExceptionTable == <<2, 2, 2, 2>>
CodeAttribute == <<2, 2, 4>>   \* then the code, the handlers and attributes

ExceptionsAttribute == [count |-> 2, row |-> <<2>>]
InnerClassesAttribute == [count |-> 2, row |-> <<2, 2, 2, 2>>]
LineNumberTableAttribute == [count |-> 2, row |-> <<2, 2>>]
LocalVariableTableAttribute == [count |-> 2, row |-> <<2, 2, 2, 2, 2>>]
LocalVariableTypeTableAttribute == [count |-> 2, row |-> <<2, 2, 2, 2, 2>>]
MethodParametersAttribute == [count |-> 1, row |-> <<2, 2>>]

Plain == [ConstantValue |-> ConstantValueAttribute,
          Deprecated |-> DeprecatedAttribute,
          Synthetic |-> SyntheticAttribute,
          EnclosingMethod |-> EnclosingMethodAttribute,
          Signature |-> SignatureAttribute,
          SourceFile |-> SourceFileAttribute]
Tables == [Exceptions |-> ExceptionsAttribute,
           InnerClasses |-> InnerClassesAttribute,
           LineNumberTable |-> LineNumberTableAttribute,
           LocalVariableTable |-> LocalVariableTableAttribute,
           LocalVariableTypeTable |-> LocalVariableTypeTableAttribute,
           MethodParameters |-> MethodParametersAttribute]
ByteStreams == {"RuntimeVisibleAnnotations", "RuntimeVisibleParameterAnnotations",
                "RuntimeVisibleTypeAnnotations", "AnnotationDefault"}
Skipped == {"StackMapTable", "SourceDebugExtension", "RuntimeInvisibleAnnotations",
            "RuntimeInvisibleParameterAnnotations", "RuntimeInvisibleTypeAnnotations",
            "NestMembers", "NestHost"}
ATTRIBUTE_NAME_TAG_MAP == DOMAIN Plain \cup DOMAIN Tables \cup ByteStreams \cup Skipped
                          \cup {"Code", "BootstrapMethods"}

\* The kind parseAttribute finds by peeking at the index of the name.
Named(p, i) == /\ i \in DOMAIN p
               /\ p[i].tag = 1
               /\ Len(p[i].bytes) = 1
KindAt(p, i) == StringAt(p, i)[1]

Attribute(kind, name) == [kind |-> kind, name |-> name, fixed |-> <<>>, rows |-> <<>>,
                          bytes |-> <<>>, attributes |-> <<>>]

-----------------------------------------------------------------------------
Begins(p, n) == /\ program = p
                /\ at = n
                /\ phase = "header"
                /\ rest = Layout(FilesOf(p)[n])
                /\ left = 0
                /\ pool = <<>>
                /\ cf = EmptyClassFile
                /\ open = <<>>

\* parseHeader, and the count of constants.
ParseHeader ==
    /\ phase = "header"
    /\ Comes(<<4, 2, 2, 2>>)
    /\ left' = Value(4) - 1
    /\ phase' = "constants"
    /\ Consume(4)
    /\ UNCHANGED <<fileVars, pool, cf, open>>

Adds(constants) ==
    /\ pool' = pool \o constants
    /\ left' = left - Len(constants)
    /\ UNCHANGED <<fileVars, phase, cf, open>>

\* parseConstantPool: a long or a double takes two entries.
EntriesShifted(c) == IF c.tag \in Wide THEN <<NoConstant, c>> ELSE <<c>>   \* a mutant
Entries(c) == IF c.tag \in Wide THEN <<c, NoConstant>> ELSE <<c>>

ParseConstant ==
    /\ phase = "constants"
    /\ left > 0
    /\ Comes(<<1>>)
    /\ LET tag == Value(1) IN
         /\ tag \in Tags \ {1}
         /\ Comes(<<1>> \o ConstantInfo(tag))
         /\ LET n == Len(ConstantInfo(tag))
                c == Constant(tag, Values(2, n))
            IN /\ Adds(Entries(c))
               /\ Consume(n + 1)

ParseUTF8 ==
    /\ phase = "constants"
    /\ left > 0
    /\ Comes(<<1>> \o ConstantUTF8Info)
    /\ Value(1) = 1
    /\ BlockComes(3, Value(2))
    /\ Adds(<<Utf8(BlockAt(3, Value(2)))>>)
    /\ Consume(2 + BlockUnits(Value(2)))

\* The tags of Java 9 and later are unknown.
PanicAtTag ==
    /\ phase = "constants"
    /\ left > 0
    /\ Comes(<<1>>)
    /\ Value(1) \notin Tags
    /\ phase' = "panic"
    /\ UNCHANGED <<fileVars, rest, left, pool, cf, open>>

ParseClassInfo ==
    /\ phase = "constants"
    /\ left <= 0
    /\ Comes(<<2, 2, 2>>)
    /\ cf' = [cf EXCEPT !.access = Value(1), !.this = Value(2), !.super = Value(3)]
    /\ phase' = "interfaces"
    /\ Consume(3)
    /\ UNCHANGED <<fileVars, left, pool, open>>

ParseInterfaces ==
    /\ phase = "interfaces"
    /\ Comes(<<2>>)
    /\ Comes(<<2>> \o Repeated(<<2>>, Value(1)))
    /\ cf' = [cf EXCEPT !.interfaces = Values(2, Value(1))]
    /\ phase' = "fieldCount"
    /\ Consume(1 + Value(1))
    /\ UNCHANGED <<fileVars, left, pool, open>>

-----------------------------------------------------------------------------
(* Members *)

Opened(what, name, fixed, rows, bytes, n) ==
    [what |-> what, name |-> name, fixed |-> fixed, rows |-> rows, bytes |-> bytes,
     left |-> n, attributes |-> <<>>]

\* parseFields, parseMethods and parseClassAttributes read their count.
ParseCount ==
    /\ Comes(<<2>>)
    /\ \/ /\ phase = "fieldCount"
          /\ phase' = "fields"
          /\ left' = Value(1)
          /\ open' = open
       \/ /\ phase = "fields"
          /\ open = <<>> /\ left = 0
          /\ phase' = "methods"
          /\ left' = Value(1)
          /\ open' = open
       \/ /\ phase = "methods"
          /\ open = <<>> /\ left = 0
          /\ phase' = "attributes"
          /\ left' = 0
          /\ open' = <<Opened("class", 0, <<>>, <<>>, <<>>, Value(1))>>
    /\ Consume(1)
    /\ UNCHANGED <<fileVars, pool, cf>>

\* FMBaseInfo
BeginMember ==
    /\ phase \in {"fields", "methods"}
    /\ open = <<>>
    /\ left > 0
    /\ Comes(<<2, 2, 2, 2>>)
    /\ open' = <<Opened("member", 0, Values(1, 3), <<>>, <<>>, Value(4))>>
    /\ left' = left - 1
    /\ Consume(4)
    /\ UNCHANGED <<fileVars, phase, pool, cf>>

Top == open[Len(open)]
Member == [fixed |-> Top.fixed, attributes |-> Top.attributes]

EndMember ==
    /\ open # <<>>
    /\ Top.what = "member"
    /\ Top.left = 0
    /\ cf' = IF phase = "fields" THEN [cf EXCEPT !.fields = Append(@, Member)]
                                 ELSE [cf EXCEPT !.methods = Append(@, Member)]
    /\ open' = <<>>
    /\ UNCHANGED <<fileVars, rest, phase, left, pool>>

EndFile ==
    /\ open # <<>>
    /\ Top.what = "class"
    /\ Top.left = 0
    /\ cf' = [cf EXCEPT !.attributes = Top.attributes]
    /\ open' = <<>>
    /\ phase' = "parsed"
    /\ UNCHANGED <<fileVars, rest, left, pool>>

-----------------------------------------------------------------------------
(* parseAttribute *)

AttributeComes == /\ open # <<>>
                  /\ Top.left > 0
                  /\ Comes(AttributeInfo)
                  /\ Named(pool, Value(1))
Kind == KindAt(pool, Value(1))
Length == Value(2)

WithAttribute(opened, a) == [opened EXCEPT !.left = @ - 1, !.attributes = Append(@, a)]

AddAttribute(a, units) ==
    /\ open' = [open EXCEPT ![Len(open)] = WithAttribute(Top, a)]
    /\ Consume(units)
    /\ UNCHANGED <<fileVars, phase, left, pool, cf>>

ParsePlain ==
    /\ AttributeComes
    /\ Kind \in DOMAIN Plain
    /\ Comes(AttributeInfo \o Plain[Kind])
    /\ LET n == Len(Plain[Kind])
       IN AddAttribute([Attribute(Kind, Value(1)) EXCEPT !.fixed = Values(3, n)], 2 + n)

ParseTable ==
    /\ AttributeComes
    /\ Kind \in DOMAIN Tables
    /\ LET table == Tables[Kind]
           header == AttributeInfo \o <<table.count>>
       IN /\ Comes(header)
          /\ Comes(header \o Repeated(table.row, Value(3)))
          /\ AddAttribute([Attribute(Kind, Value(1)) EXCEPT
                               !.rows = RowsAt(4, table.row, Value(3))],
                          3 + Value(3) * Len(table.row))

\* Where each of n methods begins, from unit i on, and where the last ends: a
\* method is followed by the number of its arguments, and these.
BootstrapMethodsAt(i, n) ==
    LET begin[k \in 1 .. n + 1] ==
            IF k = 1 THEN i
            ELSE LET previous == begin[k - 1] IN previous + 2 + Value(previous + 1)
    IN begin

ParseBootstrapMethods ==
    /\ AttributeComes
    /\ Kind = "BootstrapMethods"
    /\ Comes(AttributeInfo \o <<2>>)
    /\ LET begin == BootstrapMethodsAt(4, Value(3))
           units == begin[Value(3) + 1] - 1
           rows == [k \in 1 .. Value(3) |->
                        Values(begin[k], 1) \o Values(begin[k] + 2, Value(begin[k] + 1))]
       IN /\ Comes(AttributeInfo \o Repeated(<<2>>, units - 2))
          /\ AddAttribute([Attribute(Kind, Value(1)) EXCEPT !.rows = rows], units)

ParseByteStream ==
    /\ AttributeComes
    /\ Kind \in ByteStreams
    /\ BlockComes(3, Length)
    /\ AddAttribute([Attribute(Kind, Value(1)) EXCEPT !.bytes = BlockAt(3, Length)],
                    2 + BlockUnits(Length))

SkipAttribute ==
    /\ AttributeComes
    /\ Kind \in Skipped
    /\ AddAttribute(Attribute(Kind, Value(1)), 2 + UnitsIn(3, Length))

BeginCode ==
    /\ AttributeComes
    /\ Kind = "Code"
    /\ Comes(AttributeInfo \o CodeAttribute)
    /\ BlockComes(6, Value(5))
    /\ LET i == 6 + BlockUnits(Value(5))
           n == Value(i)
           j == i + 1 + n * Len(ExceptionTable)
       IN /\ rest[i].w = 2
          /\ \A k \in i .. j : rest[k].w = 2
          /\ open' = Append(open, Opened("code", Value(1), Values(3, 2),
                                         RowsAt(i + 1, ExceptionTable, n),
                                         BlockAt(6, Value(5)), Value(j)))
          /\ Consume(j)
    /\ UNCHANGED <<fileVars, phase, left, pool, cf>>

Code == [Attribute("Code", Top.name) EXCEPT !.fixed = Top.fixed, !.rows = Top.rows,
             !.bytes = Top.bytes, !.attributes = Top.attributes]

EndCode ==
    /\ open # <<>>
    /\ Top.what = "code"
    /\ Top.left = 0
    /\ open' = SubSeq(open, 1, Len(open) - 2)
               \o <<WithAttribute(open[Len(open) - 1], Code)>>
    /\ UNCHANGED <<fileVars, rest, phase, left, pool, cf>>

\* An attribute the map does not know ends the program.
PanicAtAttribute ==
    /\ AttributeComes
    /\ Kind \notin ATTRIBUTE_NAME_TAG_MAP
    /\ phase' = "panic"
    /\ UNCHANGED <<fileVars, rest, left, pool, cf, open>>

ParseStep == \/ ParseHeader
             \/ ParseConstant
             \/ ParseUTF8
             \/ PanicAtTag
             \/ ParseClassInfo
             \/ ParseInterfaces
             \/ ParseCount
             \/ BeginMember
             \/ EndMember
             \/ EndFile
             \/ ParsePlain
             \/ ParseTable
             \/ ParseBootstrapMethods
             \/ ParseByteStream
             \/ SkipAttribute
             \/ BeginCode
             \/ EndCode
             \/ PanicAtAttribute
=============================================================================
