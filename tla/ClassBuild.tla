----------------------------- MODULE ClassBuild ------------------------------
(***************************************************************************)
(* From a class file to a class: the constructors of InstanceClass (in     *)
(* class.cpp), Field and Method (in class_member.cpp).  They do not copy   *)
(* what the parser has read, they move it out of the ClassFile, step by    *)
(* step: whatever was moved is null for the steps that follow.             *)
(*                                                                         *)
(* The superclass and the interfaces of a file come before it in the       *)
(* program, as ClassLoader loads them while the class is constructed.      *)
(***************************************************************************)
EXTENDS ClassFile, Descriptors, FiniteSets

CONSTANT SortThreshold   \* CLASS_MEMBER_SORT_THREAHOLD

VARIABLES klass,     \* the InstanceClass under construction
          library    \* the classes of the program that are ready

vars == <<parserVars, klass, library>>

-----------------------------------------------------------------------------
(* Access flags *)

ACC_STATIC == 8
ACC_FINAL == 16
ACC_NATIVE == 256
ACC_INTERFACE == 512
Has(access, flag) == (access \div flag) % 2 = 1

JAVA_LANG_OBJECT_NAME == <<"Object">>
Finalize == [name |-> <<"finalize">>, descriptor |-> <<"(", ")", "V">>]

-----------------------------------------------------------------------------
(* What is left of the class file *)

NullAttribute == Attribute("null", 0)
NullConstant == [NoConstant EXCEPT !.tag = 255]

\* getAssignAttributeByConstantPool looks at every attribute up to the one
\* it wants; a null among them, or in the pool, is dereferenced.
Before(as, kind, i) == \A k \in 1 .. i - 1 : as[k].kind # kind
Visited(as, kind) == {i \in DOMAIN as : Before(as, kind, i)}
CanSearch(as, kind) ==
    \A i \in Visited(as, kind) : as[i] # NullAttribute /\ pool[as[i].name] # NullConstant
AssignAttribute(as, kind) ==
    IF \E i \in DOMAIN as : as[i].kind = kind
    THEN as[CHOOSE i \in DOMAIN as : as[i].kind = kind /\ Before(as, kind, i)]
    ELSE NullAttribute

\* Indices of null attributes and of the pool's first entry are 0.
Index(a) == IF a.fixed = <<>> THEN 0 ELSE a.fixed[1]
Text(i) == IF i = 0 THEN <<>> ELSE StringAt(pool, i)
CanName(i) == i = 0 \/ (pool[i] # NullConstant /\ pool[Index(pool[i])] # NullConstant)
ClassName(i) == IF i = 0 THEN <<>> ELSE Text(Index(pool[i]))

-----------------------------------------------------------------------------
(* Members *)

\* An object of a derived class: what the base has, and what is its own.
Derived(base, own) == [x \in DOMAIN base \cup DOMAIN own |->
                          IF x \in DOMAIN base THEN base[x] ELSE own[x]]

\* ClassMember
MemberOf(m) ==
    [access |-> m.fixed[1], name |-> Text(m.fixed[2]), descriptor |-> Text(m.fixed[3]),
     signature |-> Index(AssignAttribute(m.attributes, "Signature")),
     annotations |-> AssignAttribute(m.attributes, "RuntimeVisibleAnnotations").bytes,
     typeAnnotations |-> AssignAttribute(m.attributes, "RuntimeVisibleTypeAnnotations").bytes]

\* Field; calcFieldSlotId fills in the slot and its type.
FieldOf(m) ==
    Derived(MemberOf(m),
            [constant |-> Index(AssignAttribute(m.attributes, "ConstantValue")),
             slot |-> 0, slotType |-> "NONE"])

\* initParamSlotSize: a long or a double counts, and is listed, twice.
ParamSlotTypesOnce(access, params) ==   \* a mutant
    (IF Has(access, ACC_STATIC) THEN <<>> ELSE <<"REF">>)
    \o [i \in DOMAIN params |-> SlotTypeOfClass(params[i])]
ParamSlotTypes(access, params) ==
    (IF Has(access, ACC_STATIC) THEN <<>> ELSE <<"REF">>)
    \o FlattenSeq([i \in DOMAIN params |->
           LET type == SlotTypeOfClass(params[i])
           IN IF type \in WideSlot THEN <<type, type>> ELSE <<type>>])

\* initCode
NoCode == [maxLocals |-> 0, bytes |-> <<>>, catches |-> <<>>, lines |-> <<>>]
CodeOfForeignLines(m) ==   \* a mutant
    LET code == AssignAttribute(m.attributes, "Code")
    IN IF Has(m.fixed[1], ACC_NATIVE) \/ code = NullAttribute THEN NoCode
       ELSE [maxLocals |-> code.fixed[2], bytes |-> code.bytes, catches |-> code.rows,
             lines |-> AssignAttribute(m.attributes, "LineNumberTable").rows]
CodeOf(m) ==
    LET code == AssignAttribute(m.attributes, "Code")
    IN IF Has(m.fixed[1], ACC_NATIVE) \/ code = NullAttribute THEN NoCode
       ELSE [maxLocals |-> code.fixed[2], bytes |-> code.bytes, catches |-> code.rows,
             lines |-> AssignAttribute(code.attributes, "LineNumberTable").rows]

\* initExceptions
ExceptionsOf(m) ==
    LET rows == AssignAttribute(m.attributes, "Exceptions").rows
    IN [i \in DOMAIN rows |-> rows[i][1]]

\* Method; initAnnotations among its steps.
MethodOf(m) ==
    LET type == ParseMethodDescriptor(Text(m.fixed[3]))
        slots == ParamSlotTypes(m.fixed[1], type.params)
    IN Derived(MemberOf(m),
       [paramType |-> type.params, returnType |-> type.returns,
        paramSlotType |-> slots, paramSlotSize |-> Len(slots),
        slotType |-> SlotTypeOfClass(type.returns),
        parameterAnnotations |->
            AssignAttribute(m.attributes, "RuntimeVisibleParameterAnnotations").bytes,
        annotationDefault |-> AssignAttribute(m.attributes, "AnnotationDefault").bytes,
        code |-> CodeOf(m), exceptions |-> ExceptionsOf(m), slot |-> 0])

IsFinalize(m) == /\ m.name = Finalize.name
                 /\ m.descriptor = Finalize.descriptor

\* std::sort; the order depends on the bytes of the names, and nothing said
\* here depends on the order.
Sorted(ms) == IF Len(ms) > SortThreshold
              THEN {[i \in DOMAIN ms |-> ms[p[i]]] :
                        p \in {q \in [DOMAIN ms -> DOMAIN ms] :
                                   Cardinality({q[i] : i \in DOMAIN ms}) = Len(ms)}}
              ELSE {ms}

-----------------------------------------------------------------------------
(* The constructor of InstanceClass *)

EmptyClass ==
    [name |-> <<>>, access |-> 0, sourceFile |-> <<>>, signature |-> 0,
     bootstrapMethods |-> <<>>, enclosingMethod |-> <<>>, innerClasses |-> <<>>,
     annotations |-> <<>>, typeAnnotations |-> <<>>,
     fields |-> <<>>, methods |-> <<>>, overrideFinalize |-> FALSE,
     interfaces |-> <<>>, superClass |-> <<>>, pool |-> <<>>,
     instanceSlotCount |-> 0, staticSlotCount |-> 0,
     instanceDataType |-> <<>>, staticDataType |-> <<>>]

\* The steps of the constructor, in their order.
StepsPoolFirst == <<"parsed", "attributesStep", "fieldsStep", "methodsStep", "poolStep",
                    "supersStep", "slotsStep", "built">>   \* a mutant
Steps == <<"parsed", "attributesStep", "fieldsStep", "methodsStep", "supersStep",
           "poolStep", "slotsStep", "built">>
After(step) == Steps[1 + CHOOSE i \in DOMAIN Steps : Steps[i] = step]

\* A step that would dereference null ends the program.
StepTo(step, canRun, k, file, entries) ==
    IF canRun THEN /\ klass' = k
                   /\ cf' = file
                   /\ pool' = entries
                   /\ phase' = After(step)
    ELSE /\ phase' = "crashed"
         /\ UNCHANGED <<klass, cf, pool>>
Unparsed == <<fileVars, rest, left, open, library>>

BeginClass ==
    /\ phase = "parsed"
    /\ StepTo("parsed", CanSearch(cf.attributes, "SourceFile") /\ CanName(cf.this),
              [EmptyClass EXCEPT !.name = ClassName(cf.this), !.access = cf.access,
                  !.sourceFile = Text(Index(AssignAttribute(cf.attributes, "SourceFile")))],
              cf, pool)
    /\ UNCHANGED Unparsed

\* The class keeps three attributes as they are; of the annotations it takes
\* the bytes.
KeptWhole == {"BootstrapMethods", "EnclosingMethod", "InnerClasses"}
WithoutMoved(as) == [i \in DOMAIN as |->
                        IF as[i].kind \in KeptWhole THEN NullAttribute
                        ELSE IF as[i].kind \in ByteStreams THEN [as[i] EXCEPT !.bytes = <<>>]
                        ELSE as[i]]
\* A method takes the code and the bytes, and clears the tables it has copied.
Drained(ms) == [i \in DOMAIN ms |->
                   [ms[i] EXCEPT !.attributes =
                       [k \in DOMAIN @ |-> [@[k] EXCEPT !.bytes = <<>>, !.rows = <<>>]]]]
\* A later attribute of the same kind replaces an earlier one.
LastAttribute(as, kind) ==
    IF \E i \in DOMAIN as : as[i].kind = kind
    THEN as[CHOOSE i \in DOMAIN as :
                as[i].kind = kind /\ \A k \in i + 1 .. Len(as) : as[k].kind # kind]
    ELSE NullAttribute

InitAttributes ==
    /\ phase = "attributesStep"
    /\ LET as == cf.attributes
           last(kind) == LastAttribute(as, kind)
       IN StepTo("attributesStep", CanSearch(as, "none"),
              [klass EXCEPT !.bootstrapMethods = last("BootstrapMethods").rows,
                  !.enclosingMethod = last("EnclosingMethod").fixed,
                  !.innerClasses = last("InnerClasses").rows,
                  !.annotations = last("RuntimeVisibleAnnotations").bytes,
                  !.typeAnnotations = last("RuntimeVisibleTypeAnnotations").bytes,
                  !.signature = Index(last("Signature"))],
              [cf EXCEPT !.attributes = WithoutMoved(as)], pool)
    /\ UNCHANGED Unparsed

CanBuild(m) == /\ CanSearch(m.attributes, "none")
               /\ pool[m.fixed[2]] # NullConstant
               /\ pool[m.fixed[3]] # NullConstant

InitFields ==
    /\ phase = "fieldsStep"
    /\ \E fs \in Sorted([i \in DOMAIN cf.fields |-> FieldOf(cf.fields[i])]) :
           StepTo("fieldsStep", \A i \in DOMAIN cf.fields : CanBuild(cf.fields[i]),
                  [klass EXCEPT !.fields = fs],
                  [cf EXCEPT !.fields = Drained(@)], pool)
    /\ UNCHANGED Unparsed

\* The method's place, after sorting, is its slot.
Numbered(ms) == [i \in DOMAIN ms |-> [ms[i] EXCEPT !.slot = i - 1]]

InitMethods ==
    /\ phase = "methodsStep"
    /\ \E ms \in Sorted([i \in DOMAIN cf.methods |-> MethodOf(cf.methods[i])]) :
           StepTo("methodsStep", \A i \in DOMAIN cf.methods : CanBuild(cf.methods[i]),
                  [klass EXCEPT !.methods = Numbered(ms),
                      !.overrideFinalize = /\ klass.name # JAVA_LANG_OBJECT_NAME
                                           /\ \E i \in DOMAIN ms : IsFinalize(ms[i])],
                  [cf EXCEPT !.methods = Drained(@)], pool)
    /\ UNCHANGED Unparsed

InitInterfaceAndSuperClass ==
    /\ phase = "supersStep"
    /\ StepTo("supersStep",
              /\ \A i \in DOMAIN cf.interfaces : CanName(cf.interfaces[i])
              /\ Has(klass.access, ACC_INTERFACE) \/ CanName(cf.super),
              [klass EXCEPT
                  !.interfaces = [i \in DOMAIN cf.interfaces |-> ClassName(cf.interfaces[i])],
                  !.superClass = IF Has(klass.access, ACC_INTERFACE) THEN <<>>
                                 ELSE ClassName(cf.super)],
              cf, pool)
    /\ UNCHANGED Unparsed

MoveConstantPool ==
    /\ phase = "poolStep"
    /\ StepTo("poolStep", TRUE, [klass EXCEPT !.pool = pool], cf,
              [i \in DOMAIN pool |-> NullConstant])
    /\ UNCHANGED Unparsed

-----------------------------------------------------------------------------
(* calcFieldSlotId *)

IsStatic(f) == Has(f.access, ACC_STATIC)
Super(k) == IF k.superClass \in DOMAIN library THEN <<library[k.superClass]>> ELSE <<>>
SuperClasses(k) ==
    LET above[n \in DOMAIN library] ==
            LET super == Super(library[n])
            IN super \o (IF super = <<>> THEN <<>> ELSE above[super[1].name])
    IN Super(k) \o (IF Super(k) = <<>> THEN <<>> ELSE above[Super(k)[1].name])
Inherited(k) == LET supers == SuperClasses(k)
                IN FlattenSeq([i \in DOMAIN supers |-> supers[i].fields])

\* How many fields before the i-th are static like it, or not static like it.
RankAmongAll(fs, i) == i - 1   \* a mutant
Rank(fs, i) == Cardinality({k \in 1 .. i - 1 : IsStatic(fs[k]) = IsStatic(fs[i])})
FirstSlot(k) == IF Super(k) = <<>> THEN 0 ELSE Super(k)[1].instanceSlotCount

Slotted(k) ==
    [i \in DOMAIN k.fields |->
        [k.fields[i] EXCEPT
            !.slot = Rank(k.fields, i) + IF IsStatic(k.fields[i]) THEN 0 ELSE FirstSlot(k),
            !.slotType = SlotTypeOfDescriptor(k.fields[i].descriptor[1])]]
Count(fs, static) == Cardinality({i \in DOMAIN fs : IsStatic(fs[i]) = static})

\* The last class to write the type of a slot is the highest.
TypeTable(n, fs, static) ==
    [s \in 1 .. n |->
        LET here == {i \in DOMAIN fs : IsStatic(fs[i]) = static /\ fs[i].slot = s - 1}
        IN IF here = {} THEN "NONE"
           ELSE fs[CHOOSE i \in here : \A j \in here : j <= i].slotType]

CalcFieldSlotId ==
    /\ phase = "slotsStep"
    /\ LET fs == Slotted(klass)
           all == fs \o Inherited(klass)
           instance == FirstSlot(klass) + Count(fs, FALSE)
       IN StepTo("slotsStep", TRUE,
                 [klass EXCEPT !.fields = fs,
                     !.instanceSlotCount = instance,
                     !.staticSlotCount = Count(fs, TRUE),
                     !.instanceDataType = TypeTable(instance, all, FALSE),
                     !.staticDataType = TypeTable(Count(fs, TRUE), fs, TRUE)],
                 cf, pool)
    /\ UNCHANGED Unparsed

-----------------------------------------------------------------------------
\* The class is ready; the loader goes on with the next file.
NextFile ==
    /\ phase = "built"
    /\ library' = [name \in DOMAIN library \cup {klass.name} |->
                       IF name = klass.name THEN klass ELSE library[name]]
    /\ klass' = EmptyClass
    /\ at' = at + 1
    /\ program' = program
    /\ IF at < Len(FilesOf(program))
       THEN /\ rest' = Layout(FilesOf(program)[at + 1])
            /\ phase' = "header"
       ELSE /\ rest' = <<>>
            /\ phase' = "loaded"
    /\ left' = 0
    /\ pool' = <<>>
    /\ cf' = EmptyClassFile
    /\ open' = <<>>

BuildStep == \/ BeginClass
             \/ InitAttributes
             \/ InitFields
             \/ InitMethods
             \/ InitInterfaceAndSuperClass
             \/ MoveConstantPool
             \/ CalcFieldSlotId
             \/ NextFile

Init == /\ \E p \in Programs : Begins(p, 1)
        /\ klass = EmptyClass
        /\ library = <<>>

Ended == phase \in {"loaded", "panic"} /\ UNCHANGED vars

Next == \/ ParseStep /\ UNCHANGED <<klass, library>>
        \/ BuildStep
        \/ Ended

Spec == Init /\ [][Next]_vars
-----------------------------------------------------------------------------
(* Properties *)

\* What the program keeps of a file: everything but the contents of the
\* attributes it has no use for.
KeptAlone(a) == IF a.kind \in Skipped THEN Attribute(a.kind, a.name) ELSE a
Kept(a) == [KeptAlone(a) EXCEPT !.attributes = [i \in DOMAIN @ |-> KeptAlone(@[i])]]
KeptOf(as) == [i \in DOMAIN as |-> Kept(as[i])]
KeptMembers(ms) == [i \in DOMAIN ms |-> [ms[i] EXCEPT !.attributes = KeptOf(@)]]

\* The parser understands the file: it has read all of it, every index of the
\* pool means the constant it means in the file, also behind a long or a
\* double, and every attribute of the class, a member or a method's code is
\* there with its contents and in its place.
ParsedFaithfully ==
    phase = "parsed" =>
        /\ rest = <<>>
        /\ pool = File.pool
        /\ cf = [access |-> File.access, this |-> File.this, super |-> File.super,
                 interfaces |-> File.interfaces, fields |-> KeptMembers(File.fields),
                 methods |-> KeptMembers(File.methods), attributes |-> KeptOf(File.attributes)]

\* A file no version of this program can read: of a tag or an attribute that
\* it does not know, be it of the class, of a member or in a method's code.
UnknownIn(as) ==
    \E i \in DOMAIN as :
        \/ as[i].kind \notin ATTRIBUTE_NAME_TAG_MAP
        \/ \E k \in DOMAIN as[i].attributes : as[i].attributes[k].kind \notin ATTRIBUTE_NAME_TAG_MAP
Unknown(f) == \/ \E i \in DOMAIN f.pool : f.pool[i].tag \notin Tags \cup {0}
              \/ UnknownIn(f.attributes)
              \/ \E i \in DOMAIN f.fields : UnknownIn(f.fields[i].attributes)
              \/ \E i \in DOMAIN f.methods : UnknownIn(f.methods[i].attributes)

\* Every program whose files are known gets loaded: no step of a constructor
\* looks at what an earlier step has moved out of the class file.  (That the
\* parser reads no number where another one stands is absence of deadlock.)
NothingMovedIsRead == /\ phase # "crashed"
                      /\ phase = "panic" => Unknown(File)

\* What a file says of itself and of its members.
Said(as, kind) == IF \E i \in DOMAIN as : as[i].kind = kind
                  THEN CHOOSE a \in {as[i] : i \in DOMAIN as} : a.kind = kind
                  ELSE Attribute(kind, 0)
Number(as, kind) == IF Said(as, kind).fixed = <<>> THEN 0 ELSE Said(as, kind).fixed[1]

SaysOf(f, m, member) ==
    /\ member.access = m.fixed[1]
    /\ member.name = TextIn(f, m.fixed[2])
    /\ member.descriptor = TextIn(f, m.fixed[3])
    /\ member.signature = Number(m.attributes, "Signature")
    /\ member.annotations = Said(m.attributes, "RuntimeVisibleAnnotations").bytes
    /\ member.typeAnnotations = Said(m.attributes, "RuntimeVisibleTypeAnnotations").bytes
SaysOfMethod(f, m, method) ==
    LET code == Said(m.attributes, "Code") IN
    /\ SaysOf(f, m, method)
    /\ method.code.bytes = code.bytes
    /\ method.code.catches = code.rows
    /\ method.code.lines = Said(code.attributes, "LineNumberTable").rows
    /\ method.exceptions = FlattenSeq(Said(m.attributes, "Exceptions").rows)
    /\ method.annotationDefault = Said(m.attributes, "AnnotationDefault").bytes
    /\ method.parameterAnnotations =
           Said(m.attributes, "RuntimeVisibleParameterAnnotations").bytes

\* The class is what the file says: every member is there once, with its own
\* attributes, after all the moving and sorting; what the class still refers
\* to by index is in the pool it has got; a method is found at its slot.
BuiltFaithfully ==
    phase = "built" =>
        /\ klass.name = NameIn(File, File.this)
        /\ klass.sourceFile = TextIn(File, Number(File.attributes, "SourceFile"))
        /\ klass.signature = Number(File.attributes, "Signature")
        /\ klass.bootstrapMethods = Said(File.attributes, "BootstrapMethods").rows
        /\ klass.enclosingMethod = Said(File.attributes, "EnclosingMethod").fixed
        /\ klass.innerClasses = Said(File.attributes, "InnerClasses").rows
        /\ klass.annotations = Said(File.attributes, "RuntimeVisibleAnnotations").bytes
        /\ klass.pool = File.pool
        /\ Len(klass.fields) = Len(File.fields)
        /\ \A i \in DOMAIN File.fields : \E k \in DOMAIN klass.fields :
               /\ SaysOf(File, File.fields[i], klass.fields[k])
               /\ klass.fields[k].constant = Number(File.fields[i].attributes, "ConstantValue")
        /\ Len(klass.methods) = Len(File.methods)
        /\ \A i \in DOMAIN File.methods : \E k \in DOMAIN klass.methods :
               SaysOfMethod(File, File.methods[i], klass.methods[k])
        /\ \A k \in DOMAIN klass.methods : klass.methods[k].slot = k - 1

\* No two fields of an object share a slot, the inherited ones included, no
\* slot is without a field, and the table the collector and Unsafe go by has
\* the type of each; a subclass goes on with the table of its superclass.
OneToOne(fs, static, types) ==
    LET own == {i \in DOMAIN fs : IsStatic(fs[i]) = static} IN
    /\ \A i, k \in own : fs[i].slot = fs[k].slot => i = k
    /\ \A i \in own :
           /\ fs[i].slot \in 0 .. Len(types) - 1
           /\ types[fs[i].slot + 1] =
                  SlotTypeOfClass(ClassNameByFieldDescriptor(fs[i].descriptor))
    /\ \A s \in DOMAIN types : \E i \in own : fs[i].slot = s - 1
SlotsAreDistinct ==
    phase = "built" =>
        /\ OneToOne(klass.fields \o Inherited(klass), FALSE, klass.instanceDataType)
        /\ OneToOne(klass.fields, TRUE, klass.staticDataType)
        /\ Super(klass) # <<>> =>
               IsPrefix(Super(klass)[1].instanceDataType, klass.instanceDataType)

\* The two ways to count the slots of a method's parameters agree: the one a
\* call finds its receiver by (from the descriptor) and the one it pops them
\* by (from the Method); and the types parsed are those of the descriptor.
DescriptorOf(name) ==
    IF \E c \in DOMAIN PrimitiveName : name = <<PrimitiveName[c]>>
    THEN <<CHOOSE c \in DOMAIN PrimitiveName : name = <<PrimitiveName[c]>>>>
    ELSE IF name[1] = "[" THEN name
    ELSE <<"L">> \o name \o <<";">>
ParametersAgree ==
    phase = "built" =>
        \A i \in DOMAIN klass.methods :
            LET m == klass.methods[i] IN
            /\ m.paramSlotSize = ParamSlotSizeFromDescriptor(m.descriptor, IsStatic(m))
            /\ m.descriptor = <<"(">> \o FlattenSeq([k \in DOMAIN m.paramType |->
                                                        DescriptorOf(m.paramType[k])])
                              \o <<")">> \o DescriptorOf(m.returnType)
=============================================================================
