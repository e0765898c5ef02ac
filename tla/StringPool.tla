------------------------------ MODULE StringPool ------------------------------
(***************************************************************************)
(* The table of interned strings of string_pool.cpp.  A string comes as    *)
(* bytes: UTF-8 made by utf16ToUtf8 when it comes from a String object,    *)
(* the modified UTF-8 of the class file when it comes from a constant.     *)
(* The bucket is the hash of the bytes and the strings in a bucket are     *)
(* compared as UTF-16.  Both encodings are the same except for U+0000 and  *)
(* what lies above U+FFFF.                                                 *)
(***************************************************************************)
EXTENDS ClassLoader

CONSTANTS Bytes,       \* byte strings given to getInternString
          TextOf,      \* utf8ToUtf16Vec of each
          BucketOf,    \* VMStringHelper::getKeyIndex of each
          CharArray    \* the name [C

ASSUME PoolAssumption == /\ DOMAIN TextOf = Bytes /\ DOMAIN BucketOf = Bytes
                         /\ CharArray \in ArrayNames

VARIABLES table,       \* StringTable::table, the strings chained in each bucket
          poolOwner    \* the thread that holds StringPool::lock

poolVars == <<table, poolOwner>>

Buckets == {BucketOf[b] : b \in Bytes}

PoolInit == table = [b \in Buckets |-> {}] /\ poolOwner = None

Intern(bytes, into) == Step("intern", Entity(bytes), into)

\* VMStringHelper::equalJavaString
EqualJavaString(o, bytes) == TextOf[o.of.name] = TextOf[bytes]

Matches(bytes) == {o \in table[BucketOf[bytes]] : EqualJavaString(o, bytes)}

-----------------------------------------------------------------------------

\* StringPool::getInternString: lock, find.
FindString(t, mirOop) ==
    LET bytes == Here(t).of.name
    IN /\ Next1(t, "intern")
       /\ poolOwner = None
       /\ IF Matches(bytes) # {}
          THEN /\ \E o \in Matches(bytes) : Returns(t, mirOop, o)
               /\ Continue(t, <<>>)
               /\ poolOwner' = None
          ELSE /\ Continue(t, <<Find(CharArray), Step("insert", Here(t).of, Here(t).into)>>)
               /\ poolOwner' = t
               /\ UNCHANGED <<got, refs>>
       /\ UNCHANGED <<found, held, heap, calls, table>>

\* createJavaString has made the char array; insert; unlock.
InsertString(t, mirOop) ==
    LET o == FreshOop(Here(t).of)
        b == BucketOf[Here(t).of.name]
    IN /\ Next1(t, "insert")
       /\ heap' = heap \cup {o}
       /\ table' = [table EXCEPT ![b] = @ \cup {o}]
       /\ poolOwner' = None
       /\ Returns(t, mirOop, o)
       /\ Continue(t, <<>>)
       /\ UNCHANGED <<found, held, calls>>

\* gcStringOop of every deleted string: erase looks in the bucket of its hash
\* for the object itself.
GcStringOops(dead) ==
    table' = [b \in Buckets |->
                {o \in table[b] : ~ (o \in dead /\ BucketOf[o.of.name] = b)}]
=============================================================================
