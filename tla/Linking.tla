------------------------------- MODULE Linking -------------------------------
(***************************************************************************)
(* A frame that runs in a class of ClassBuild's library and links what it  *)
(* refers to: fields, methods and classes by their index in the constant   *)
(* pool of its class, virtual methods by the class of the receiver as well *)
(* (FrameMemoryHandler of frame_memory_handler.cpp, the lookups and type   *)
(* tests of class.cpp, the handler search of class_member.cpp).  Whatever  *)
(* it has found it keeps in one map, executeClassMemberCache.              *)
(*                                                                         *)
(* The code of the frame is any a compiler produces of consistent classes: *)
(* what an instruction names exists, receivers are of the class named.     *)
(* Method handles are left out.                                            *)
(***************************************************************************)
EXTENDS ClassBuild

CONSTANTS Caller(_),      \* the class whose code runs, of a program
          Receivers,      \* classes of objects: names, of arrays as well
          Instructions,   \* pairs of first byte and length, of a method's code
          MaxUses         \* bounds the uses of the map in the frame

ASSUME InstructionsAssumption == Instructions \subseteq Nat \X (Nat \ {0})

VARIABLES cache,    \* executeClassMemberCache
          last,     \* the last instruction and what it has found
          uses      \* history: the pairs of instruction and index so far

linkVars == <<cache, last, uses>>

ACC_ABSTRACT == 1024
JAVA_LANG_CLONEABLE_NAME == <<"Cloneable">>
JAVA_IO_SERIALIZABLE_NAME == <<"Serializable">>

-----------------------------------------------------------------------------
(* Classes, by name *)

IsArray(n) == n[1] = "["
IsInstanceClass(n) == n \in DOMAIN library
IsInterface(n) == IsInstanceClass(n) /\ Has(library[n].access, ACC_INTERFACE)
IsAbstract(m) == Has(m.access, ACC_ABSTRACT)

\* A class of the library and its superclasses, the nearest first.
SuperChain(n) ==
    IF IsArray(n) THEN <<JAVA_LANG_OBJECT_NAME>>
    ELSE LET supers == SuperClasses(library[n]) IN [i \in DOMAIN supers |-> supers[i].name]
Chain(n) == <<n>> \o SuperChain(n)

IsSubClassOf(s, t) == t \in Range(SuperChain(s))

\* What each class comes to by one step or more, of those that direct names.
Reached(direct) ==
    LET reached[n \in DOMAIN direct] ==
            direct[n] \cup UNION {reached[d] : d \in direct[n] \cap DOMAIN direct}
    IN reached

Interfaces(n) == Range(library[n].interfaces)
IsDirectInterface(s, t) == IsInstanceClass(s) /\ t \in Interfaces(s)   \* a mutant
IsSubInterfaceOf(s, t) ==
    /\ IsInstanceClass(s)
    /\ IsInstanceClass(t)
    /\ t \in Reached([n \in DOMAIN library |-> Interfaces(n)])[s]

IsImplements(s, t) ==
    /\ IsInstanceClass(s)
    /\ \E c \in Range(Chain(s)) : IsSubInterfaceOf(c, t)

\* Class::isAssignableFrom: of two arrays the component type of one is
\* compared with itself.
IsAssignableFrom(t, s) ==
    IF s = t THEN TRUE
    ELSE IF IsArray(s)
    THEN \/ IsArray(t)
         \/ t \in {JAVA_LANG_OBJECT_NAME, JAVA_LANG_CLONEABLE_NAME, JAVA_IO_SERIALIZABLE_NAME}
    ELSE IF IsInterface(s)
    THEN IF IsInterface(t) THEN IsSubInterfaceOf(s, t) ELSE t = JAVA_LANG_OBJECT_NAME
    ELSE IF IsInterface(t) THEN IsImplements(s, t) ELSE IsSubClassOf(s, t)

-----------------------------------------------------------------------------
(* Members *)

\* A member found: the class that declares it, and the member.
FoundMember(n, m) == [class |-> n, member |-> m]
NoMember == FoundMember(<<>>, <<>>)
Exists(m) == m.class # <<>>

\* Large lists are sorted and searched by name and descriptor only.
Is(m, id, static) == m.name = id.name /\ m.descriptor = id.descriptor /\ IsStatic(m) = static
MemberSelf(n, ms, id, static) ==
    LET found == {i \in DOMAIN ms : Is(ms[i], id, IF Len(ms) > SortThreshold
                                                  THEN IsStatic(ms[i]) ELSE static)}
    IN IF found = {} THEN NoMember ELSE FoundMember(n, ms[CHOOSE i \in found : TRUE])
GetFieldSelf(n, id, static) == MemberSelf(n, library[n].fields, id, static)
GetMethodSelf(n, id, static) == MemberSelf(n, library[n].methods, id, static)

\* The first that finds one.
FirstFound(found) ==
    LET there == {i \in DOMAIN found : Exists(found[i])}
    IN IF there = {} THEN NoMember ELSE found[Min(there)]

\* What each class finds, given what it has itself: that; else what its
\* superclass finds; else what the first of its interfaces finds.
InterfacesFirst(self) ==   \* a mutant
    LET found[n \in DOMAIN library] ==
            LET k == library[n]
                below == FirstFound([i \in DOMAIN k.interfaces |-> found[k.interfaces[i]]])
            IN IF Exists(self[n]) THEN self[n]
               ELSE IF Exists(below) \/ k.superClass = <<>> THEN below
               ELSE found[k.superClass]
    IN found
Search(self) ==
    LET found[n \in DOMAIN library] ==
            LET k == library[n]
            IN IF Exists(self[n]) THEN self[n]
               ELSE IF k.superClass # <<>> /\ Exists(found[k.superClass]) THEN found[k.superClass]
               ELSE FirstFound([i \in DOMAIN k.interfaces |-> found[k.interfaces[i]]])
    IN found
GetField(n, id, static) == Search([c \in DOMAIN library |-> GetFieldSelf(c, id, static)])[n]
GetMethod(n, id, static) == Search([c \in DOMAIN library |-> GetMethodSelf(c, id, static)])[n]

\* What a Fieldref or Methodref names; members of arrays are Object's.
RefPool == library[Caller(program)].pool
NameAt(i) == StringAt(RefPool, RefPool[i].fixed[1])
IdAt(i) == LET nat == RefPool[RefPool[i].fixed[2]].fixed
           IN [name |-> StringAt(RefPool, nat[1]), descriptor |-> StringAt(RefPool, nat[2])]
ClassAt(i) == LET n == NameAt(RefPool[i].fixed[1])
              IN IF IsArray(n) THEN JAVA_LANG_OBJECT_NAME ELSE n

-----------------------------------------------------------------------------
(* The reference: subtypes of the Java language *)

DirectSupers(n) ==
    IF IsArray(n) THEN {JAVA_LANG_OBJECT_NAME, JAVA_LANG_CLONEABLE_NAME, JAVA_IO_SERIALIZABLE_NAME}
    ELSE IF ~IsInstanceClass(n) \/ n = JAVA_LANG_OBJECT_NAME THEN {}
    ELSE Interfaces(n)
         \cup {IF IsInterface(n) THEN JAVA_LANG_OBJECT_NAME ELSE library[n].superClass}
Supertypes(n) ==
    {n} \cup Reached([c \in DOMAIN library \cup {n} |-> DirectSupers(c)])[n]

\* The classes that have objects.
Concrete(n) == \/ IsArray(n)
               \/ /\ IsInstanceClass(n)
                  /\ ~Has(library[n].access, ACC_INTERFACE)
                  /\ ~Has(library[n].access, ACC_ABSTRACT)
Objects == {s \in Receivers : Concrete(s)}

-----------------------------------------------------------------------------
(* Consistent classes: what a compiler and the loader see to *)

\* The names of the classes, in the order of the files.
NamesInOrder == LET files == FilesOf(program)
                IN [i \in DOMAIN files |-> NameIn(files[i], files[i].this)]
Earlier(d, n, names) ==
    \E i, j \in DOMAIN names : i < j /\ names[i] = d /\ names[j] = n

\* Supertypes come first.  An interface does not look at its superclass, which
\* is Object, and has no fields of objects; no class has two methods of one
\* name and descriptor.
IsConsistent(n, names) ==
    LET k == library[n] IN
    /\ n # <<>> /\ ~IsArray(n)
    /\ k.interfaces \in Seq({t \in DOMAIN library : Earlier(t, n, names) /\ IsInterface(t)})
    /\ IF IsInterface(n) \/ n = JAVA_LANG_OBJECT_NAME THEN k.superClass = <<>>
       ELSE /\ Earlier(k.superClass, n, names)
            /\ IsInstanceClass(k.superClass) /\ ~IsInterface(k.superClass)
    /\ IsInterface(n) => \A i \in DOMAIN k.fields : IsStatic(k.fields[i])
    /\ \A i, j \in DOMAIN k.methods :
           (/\ k.methods[i].name = k.methods[j].name
            /\ k.methods[i].descriptor = k.methods[j].descriptor) => i = j
AreConsistent ==
    /\ LET names == NamesInOrder IN \A n \in DOMAIN library : IsConsistent(n, names)
    /\ IsInstanceClass(JAVA_LANG_OBJECT_NAME) /\ ~IsInterface(JAVA_LANG_OBJECT_NAME)
    /\ \A i \in DOMAIN library[JAVA_LANG_OBJECT_NAME].methods :
           ~IsAbstract(library[JAVA_LANG_OBJECT_NAME].methods[i])
    /\ \A n \in {JAVA_LANG_CLONEABLE_NAME, JAVA_IO_SERIALIZABLE_NAME} \cap DOMAIN library :
           IsInterface(n)
    /\ \A n \in {JAVA_LANG_OBJECT_NAME, JAVA_LANG_CLONEABLE_NAME, JAVA_IO_SERIALIZABLE_NAME}
              \cap DOMAIN library : Interfaces(n) = {}

-----------------------------------------------------------------------------
(* The frame *)

\* What an instruction finds: that there is nothing ends the program; or it
\* takes an entry of the map for what it is not, or runs a wild pointer.
Finds(x) == [outcome |-> "found", found |-> x]
Panic == [outcome |-> "panic", found |-> NoMember]
Confused == [outcome |-> "confused", found |-> NoMember]
Wild == [outcome |-> "wild", found |-> NoMember]

\* The last instruction: what it was, its operands, what it has found.
Linked(op, index, class, result) ==
    [op |-> op, index |-> index, class |-> class,
     outcome |-> result.outcome, found |-> result.found]
Ready == /\ phase = "loaded"
         /\ AreConsistent
         /\ Caller(program) \in DOMAIN library
         /\ last.outcome = "found"
Does(op, index, class, result) ==
    /\ last' = Linked(op, index, class, result)
    /\ uses' = uses \cup {<<op, index>>}
    /\ Cardinality(uses') <= MaxUses

\* try_get and emplace_unique: a hit is cast to what the caller expects.
Entry(kind, found) == [kind |-> kind, found |-> found]
With(map, key, entry) == [k \in DOMAIN map \cup {key} |-> IF k = key THEN entry ELSE map[k]]
Cached(key, kind, found) ==
    IF key \notin DOMAIN cache THEN Finds(found)
    ELSE IF cache[key].kind # kind THEN Confused
    ELSE Finds(cache[key].found)
Caches(key, kind, found) ==
    cache' = IF key \in DOMAIN cache THEN cache ELSE With(cache, key, Entry(kind, found))

Refs(tag) == {i \in DOMAIN RefPool : RefPool[i].tag = tag}

\* getRefField, of getfield, putfield, getstatic and putstatic
GetRefField(i, static) ==
    LET found == GetField(ClassAt(i), IdAt(i), static)
    IN /\ IsInstanceClass(ClassAt(i)) /\ Exists(found)
       /\ Does("field", i, ClassAt(i), Cached(<<i>>, "field", found))
       /\ Caches(<<i>>, "field", found)

\* getRefMethod, of invokespecial and invokestatic
GetRefMethod(i, static) ==
    LET found == GetMethod(ClassAt(i), IdAt(i), static)
    IN /\ IsInstanceClass(ClassAt(i)) /\ Exists(found)
       /\ Does("method", i, ClassAt(i), Cached(<<i>>, "method", found))
       /\ Caches(<<i>>, "method", found)

\* getRefClass, of checkcast and instanceof: may an object of class s be
\* taken for one of the class named?
TypeTest(i, s) ==
    /\ Does("test", i, s, Finds(IsAssignableFrom(Cached(<<i>>, "class", NameAt(i)).found, s)))
    /\ Caches(<<i>>, "class", NameAt(i))

\* linkVirtualMethod: up the superclasses until a lookup finds one that is
\* not abstract.
ConcreteOf(n, id) == LET m == GetMethod(n, id, FALSE)
                     IN IF Exists(m) /\ ~IsAbstract(m.member) THEN m ELSE NoMember
FirstConcrete(n, id) ==
    LET classes == Chain(n) IN FirstFound([k \in DOMAIN classes |-> ConcreteOf(classes[k], id)])
LinkVirtualMethod(id, s) ==
    IF IsArray(s) THEN GetMethod(JAVA_LANG_OBJECT_NAME, id, FALSE)
    ELSE FirstConcrete(s, id)

KeyOfIndex(i, s) == <<i, <<>>>>   \* a mutant
KeyOf(i, s) == <<i, s>>
\* A new ExecuteVirutalMethodCache does not set its mhMethod: unless the
\* allocator returns zeroed memory, invokevirtual runs what it finds there.
ReadsWild(i, s) == /\ <<i>> \notin DOMAIN cache
                   /\ Does("virtual", i, s, Wild)
                   /\ UNCHANGED cache

\* A method that is called on an object is static in none of its supertypes.
HasNoStatic(id, s) ==
    \A n \in Supertypes(s) \cap DOMAIN library :
        \A i \in DOMAIN library[n].methods : ~Is(library[n].methods[i], id, TRUE)

\* resolveInvokeVirtualIndex, then linkVirtualMethod; a Methodref that was
\* linked as a Method * is taken for an ExecuteVirutalMethodCache.
InvokeVirtual(i, s) ==
    LET id == IdAt(i)
        key == KeyOf(i, s)
        found == LinkVirtualMethod(id, s)
    IN IF Cached(<<i>>, "virtual", id).outcome = "confused"
       THEN /\ Does("virtual", i, s, Confused)
            /\ UNCHANGED cache
       ELSE IF ~Exists(found)
       THEN /\ Does("virtual", i, s, Panic)
            /\ UNCHANGED cache
       ELSE /\ Does("virtual", i, s, Cached(key, "method", found))
            /\ cache' = With(With(cache, <<i>>, Entry("virtual", id)), key, Entry("method", found))

-----------------------------------------------------------------------------
(* Exceptions *)

\* findExceptionHandler: the first entry that covers the pc and catches all,
\* or names the class or a superclass of the exception.
Catches(type, s) == type = s \/ IsSubClassOf(s, type)
FindExceptionHandler(rows, s, pc) ==
    LET fits == {r \in DOMAIN rows : /\ rows[r][1] <= pc /\ pc < rows[r][2]
                                     /\ (rows[r][4] = 0 \/ Catches(NameAt(rows[r][4]), s))}
    IN IF fits = {} THEN 0 ELSE rows[Min(fits)][3]

\* getLineNumber, from the end of the table.
GetLineNumber(lines, pc) ==
    LET fits == {r \in DOMAIN lines : pc > lines[r][1]}
    IN IF fits = {} THEN 0 ELSE lines[Max(fits)][2]

\* Frame::pc: the last byte of the instruction that has thrown.
PC(instruction) == instruction[1] + instruction[2] - 1

\* No row of a table begins or ends inside an instruction, lines come in
\* their order, and what is caught is no interface.
Inside(instruction) == instruction[1] + 1 .. PC(instruction)
IsAligned(code, instruction) ==
    /\ {code.catches, code.lines} \subseteq Seq(Seq(Nat))
    /\ \A r \in DOMAIN code.catches :
           /\ {code.catches[r][1], code.catches[r][2]} \subseteq Nat \ Inside(instruction)
           /\ code.catches[r][4] # 0 => ~IsInterface(NameAt(code.catches[r][4]))
    /\ \A r \in DOMAIN code.lines :
           /\ code.lines[r][1] \in Nat \ Inside(instruction)
           /\ \A q \in DOMAIN code.lines : q < r => code.lines[q][1] < code.lines[r][1]

\* An instruction of one of the caller's methods throws; the table of
\* handlers is searched and the line goes into the stack trace.
Throw(m, instruction, s) ==
    LET code == library[Caller(program)].methods[m].code
        handler == FindExceptionHandler(code.catches, s, PC(instruction))
    IN /\ code.catches # <<>> /\ IsAligned(code, instruction)
       /\ last' = Linked("throw", m, s,
                       Finds([at |-> instruction, handler |-> handler,
                              line |-> GetLineNumber(code.lines, PC(instruction))]))
       /\ UNCHANGED <<cache, uses>>

-----------------------------------------------------------------------------
LinkStep ==
    /\ Ready
    /\ \/ \E i \in Refs(9), static \in BOOLEAN : GetRefField(i, static)
       \/ \E i \in Refs(10), static \in BOOLEAN : GetRefMethod(i, static)
       \/ \E i \in Refs(7), s \in Objects : TypeTest(i, s)
       \/ \E i \in Refs(10), s \in Objects :
              /\ ClassAt(i) \in Supertypes(s)
              /\ HasNoStatic(IdAt(i), s)
              /\ InvokeVirtual(i, s) \/ ReadsWild(i, s)
       \/ \E m \in DOMAIN library[Caller(program)].methods, instruction \in Instructions,
             s \in Objects : ~IsArray(s) /\ Throw(m, instruction, s)
    /\ UNCHANGED vars

LInit == /\ Init
         /\ cache = <<>>
         /\ last = Linked("none", 0, <<>>, Finds(NoMember))
         /\ uses = {}

LNext == \/ Next /\ UNCHANGED linkVars
         \/ LinkStep

LSpec == LInit /\ [][LNext]_<<vars, linkVars>>

-----------------------------------------------------------------------------
(* Properties *)

\* checkcast, instanceof and the search for a handler go by the subtypes of
\* the Java language, of two arrays excepted, at whatever distance and over
\* superclasses and interfaces alike; the handler and the line are those of
\* the instruction, by its first byte, a line that begins with a one-byte
\* instruction that throws excepted.
Covers(row, start) == row[1] <= start /\ start < row[2]
Greatest(lines, start) ==
    {r \in DOMAIN lines : /\ lines[r][1] <= start
                          /\ \A q \in DOMAIN lines : lines[q][1] <= start => lines[q][1] <= lines[r][1]}
TypesDecide ==
    /\ last.op = "test" =>
           \/ IsArray(last.class) /\ IsArray(NameAt(last.index))
           \/ last.found = (NameAt(last.index) \in Supertypes(last.class))
    /\ last.op = "throw" =>
           LET code == library[Caller(program)].methods[last.index].code
               start == last.found.at[1]
               right == {r \in DOMAIN code.catches :
                            LET row == code.catches[r]
                            IN /\ Covers(row, start)
                               /\ row[4] = 0 \/ NameAt(row[4]) \in Supertypes(last.class)}
           IN /\ last.found.handler = IF right = {} THEN 0 ELSE code.catches[Min(right)][3]
              /\ \A r \in Greatest(code.lines, start) :
                     \/ last.found.line = code.lines[r][2]
                     \/ last.found.at[2] = 1 /\ code.lines[r][1] = start

\* What a virtual call runs is the method of the most derived class of the
\* receiver that has one which is not abstract; only if none has, it is a
\* default method of an interface.
MostDerivedIsLinked ==
    last.op = "virtual" /\ last.outcome = "found" =>
        LET id == IdAt(last.index)
            classes == IF IsArray(last.class) THEN SuperChain(last.class) ELSE Chain(last.class)
            Declares(n) == \E i \in DOMAIN library[n].methods :
                               LET m == library[n].methods[i]
                               IN Is(m, id, FALSE) /\ ~IsAbstract(m)
            declaring == {k \in DOMAIN classes : Declares(classes[k])}
        IN /\ IF declaring = {} THEN IsInterface(last.found.class)
              ELSE last.found.class = classes[Min(declaring)]
           /\ last.found.class \in Supertypes(last.class)
           /\ Is(last.found.member, id, FALSE) /\ ~IsAbstract(last.found.member)

\* The map never changes what an instruction finds, unless a Methodref is
\* used by invokespecial and by invokevirtual in one frame; what mhMethod
\* was not set to matters on the first call only; and a field is at its slot
\* in every object it is looked up in.
Mixed(i) == <<"method", i>> \in uses /\ <<"virtual", i>> \in uses
CacheIsTransparent ==
    /\ last.outcome = "confused" => Mixed(last.index)
    /\ last.outcome = "wild" => <<last.index>> \notin DOMAIN cache
    /\ last.op = "method" /\ last.outcome = "found" =>
           last.found \in {GetMethod(last.class, IdAt(last.index), static) : static \in BOOLEAN}
    /\ last.op = "virtual" /\ last.outcome = "found" =>
           last.found = LinkVirtualMethod(IdAt(last.index), last.class)
    /\ last.op = "field" /\ last.outcome = "found" =>
           /\ last.found \in {GetField(last.class, IdAt(last.index), static) : static \in BOOLEAN}
           /\ ~IsStatic(last.found.member) =>
                  \A n \in DOMAIN library : last.class \in Supertypes(n) /\ ~IsInterface(n) =>
                      library[n].instanceDataType[last.found.member.slot + 1]
                          = last.found.member.slotType
=============================================================================
