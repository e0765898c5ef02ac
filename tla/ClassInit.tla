------------------------------ MODULE ClassInit ------------------------------
(***************************************************************************)
(* Class initialisation: InstanceClass::clinit of class.cpp and those who  *)
(* call it.  It takes no lock: the status of a class is an atomic word     *)
(* that is read, and written, at different times, and clinit goes on to    *)
(* the superclass, the static fields, <clinit> and the special type, all   *)
(* in the thread that uses the class.  What <clinit> does is up to the     *)
(* program: it uses any class, itself and its subclasses included, and     *)
(* ends, or throws.                                                        *)
(***************************************************************************)
EXTENDS Naturals, Sequences, SequencesExt

CONSTANTS Threads, Classes,
          Root,           \* java.lang.Object
          Super,          \* the superclass of every class but Root
          Initialisers,   \* the classes that declare a <clinit>
          ThreadClasses,  \* java.lang.Thread and its subclasses
          MaxUses         \* bounds the uses of classes by one thread

ASSUME SuperAssumption == /\ Root \in Classes
                          /\ Super \in [Classes \ {Root} -> Classes]
                          /\ Initialisers \subseteq Classes
                          /\ ThreadClasses \subseteq Classes
                          /\ MaxUses \in Nat
                          /\ Threads \cap {"zeros", "cleared", "written"} = {}

VARIABLES
    status,   \* Class::initStatus
    statics,  \* staticData: the "zeros" of the constructor, or the thread
              \* that has written to that array; "cleared" by
              \* initStaticField, "written" by the program since
    special,  \* specialClassType # NONE
    stack,    \* the C++ stack of each thread: calls of clinit and their users
    uses,     \* how often a thread has used a class
    runs,     \* history: how often <clinit> has been run
    met       \* history: a thread came to the class while another one was in
              \* its clinit

vars == <<status, statics, special, stack, uses, runs, met>>

Fresh == {"zeros"} \cup Threads   \* statics before initStaticField
Kinds == {"read", "write"}   \* a call and new read the class
Steps == {"check", "set", "super", "static", "run", "body", "special", "done"}
Entry(class, step) == [class |-> class, step |-> step, thrown |-> FALSE]

Top(t) == stack[t][Len(stack[t])]
At(t, step) == stack[t] # <<>> /\ Top(t).step = step
Below(t) == Front(stack[t])
Goto(t, step) == [stack EXCEPT ![t] = Below(t) \o <<[Top(t) EXCEPT !.step = step]>>]
Pops(t) == [stack EXCEPT ![t] = Below(t)]

\* t is in clinit of c, beyond its check if begun.
Calls(t, c, from) == \E i \in DOMAIN stack[t] :
                        stack[t][i].class = c /\ stack[t][i].step \in from
Initialising(t, c) == Calls(t, c, Steps \ {"check"})

-----------------------------------------------------------------------------
TypeOK ==
    /\ status \in [Classes -> {"LOADED", "INIT", "INITED"}]
    /\ statics \in [Classes -> Fresh \cup {"cleared", "written"}]
    /\ special \in [Classes -> BOOLEAN]
    /\ stack \in [Threads -> Seq([class : Classes, step : Steps \cup Kinds,
                                  thrown : BOOLEAN])]
    /\ uses \in [Threads -> Nat]
    /\ runs \in [Classes -> Nat]
    /\ met \in [Classes -> BOOLEAN]

Init == /\ status = [c \in Classes |-> "LOADED"]
        /\ statics = [c \in Classes |-> "zeros"]
        /\ special = [c \in Classes |-> FALSE]
        /\ stack = [t \in Threads |-> <<>>]
        /\ uses = [t \in Threads |-> 0]
        /\ runs = [c \in Classes |-> 0]
        /\ met = [c \in Classes |-> FALSE]

\* getRefField and getRefMethod of a static member, new, resolveClass0,
\* ensureClassInitialized, forName0, throwAssignException: they call clinit
\* and then use the class.
Use(t, c, kind) ==
    /\ stack[t] # <<>> => At(t, "body")
    /\ uses[t] < MaxUses
    /\ uses' = [uses EXCEPT ![t] = @ + 1]
    /\ stack' = [stack EXCEPT ![t] = @ \o <<Entry(c, kind), Entry(c, "check")>>]
    /\ UNCHANGED <<status, statics, special, runs, met>>

\* notInitialize: one atomic read
NotInited(c) == status[c] # "INITED"   \* a mutant
NotInitialize(c) == status[c] = "LOADED"

CheckWaits(t) ==   \* a mutant: waits for an initialisation to end
    /\ At(t, "check")
    /\ status[Top(t).class] # "INIT"
    /\ stack' = IF NotInitialize(Top(t).class) THEN Goto(t, "set") ELSE Pops(t)
    /\ UNCHANGED <<status, statics, special, uses, runs, met>>
Check(t) ==
    /\ At(t, "check")
    /\ LET c == Top(t).class
       IN /\ stack' = IF NotInitialize(c) THEN Goto(t, "set") ELSE Pops(t)
          /\ met' = [met EXCEPT ![c] = @ \/ \E u \in Threads \ {t} : Initialising(u, c)]
    /\ UNCHANGED <<status, statics, special, uses, runs>>

SetLate(t) ==   \* a mutant: the status is not set before all is done
    /\ At(t, "set")
    /\ stack' = Goto(t, "super")
    /\ UNCHANGED <<status, statics, special, uses, runs, met>>
Set(t) ==
    /\ At(t, "set")
    /\ status' = [status EXCEPT ![Top(t).class] = "INIT"]
    /\ stack' = Goto(t, "super")
    /\ UNCHANGED <<statics, special, uses, runs, met>>

InitSuper(t) ==
    /\ At(t, "super")
    /\ stack' = IF Top(t).class = Root THEN Goto(t, "static")
                ELSE [stack EXCEPT ![t] = Goto(t, "static")[t]
                                          \o <<Entry(Super[Top(t).class], "check")>>]
    /\ UNCHANGED <<status, statics, special, uses, runs, met>>

\* A new array replaces the one of the constructor, with what was written
\* to it.
InitStaticField(t) ==
    /\ At(t, "static")
    /\ statics' = [statics EXCEPT ![Top(t).class] = "cleared"]
    /\ stack' = Goto(t, "run")
    /\ UNCHANGED <<status, special, uses, runs, met>>

\* getMethod finds the <clinit> of a superclass as well; it is not run.
DeclaresClinit(c) == c \in Initialisers

RunClinit(t) ==
    /\ At(t, "run")
    /\ LET c == Top(t).class
       IN IF DeclaresClinit(c) THEN /\ stack' = Goto(t, "body")
                                    /\ runs' = [runs EXCEPT ![c] = @ + 1]
          ELSE /\ stack' = Goto(t, "special")
               /\ runs' = runs
    /\ UNCHANGED <<status, statics, special, uses, met>>

EndBody(t) ==
    /\ At(t, "body")
    /\ stack' = Goto(t, "special")
    /\ UNCHANGED <<status, statics, special, uses, runs, met>>

\* A <clinit> that throws: the exception becomes that of the frame that uses
\* the class, and clinit goes on, the one of a subclass included.
IsUser(e) == e.step \in Kinds
ThrownTo(s) == LET user == CHOOSE i \in DOMAIN s :
                               IsUser(s[i]) /\ \A k \in i + 1 .. Len(s) : ~IsUser(s[k])
               IN [s EXCEPT ![user].thrown = TRUE]
Throw(t) ==
    /\ At(t, "body")
    /\ stack' = [stack EXCEPT ![t] = ThrownTo(Goto(t, "special")[t])]
    /\ UNCHANGED <<status, statics, special, uses, runs, met>>

SetSpecialType(t) ==   \* a mutant: subclasses of Thread are forgotten
    /\ At(t, "special")
    /\ stack' = Goto(t, "done")
    /\ UNCHANGED <<status, statics, special, uses, runs, met>>
InitSpecialType(t) ==
    /\ At(t, "special")
    /\ special' = [special EXCEPT ![Top(t).class] = @ \/ Top(t).class \in ThreadClasses]
    /\ stack' = Goto(t, "done")
    /\ UNCHANGED <<status, statics, uses, runs, met>>

Finish(t) ==
    /\ At(t, "done")
    /\ status' = [status EXCEPT ![Top(t).class] = "INITED"]
    /\ stack' = Pops(t)
    /\ UNCHANGED <<statics, special, uses, runs, met>>

\* What the user does with the class; a pending exception is looked at after
\* that.  It ends the <clinit> the use is in, unless that catches it.
Written(t, c) == IF statics[c] \in Fresh THEN t ELSE "written"
Access(t) ==
    /\ \E kind \in Kinds : At(t, kind)
    /\ LET c == Top(t).class
           user == Below(t)
       IN /\ statics' = IF Top(t).step = "write"
                        THEN [statics EXCEPT ![c] = Written(t, c)] ELSE statics
          /\ \/ stack' = Pops(t)
             \/ /\ Top(t).thrown
                /\ user # <<>>
                /\ stack' = [stack EXCEPT ![t] =
                      ThrownTo(Front(user) \o <<[Last(user) EXCEPT !.step = "special"]>>)]
    /\ UNCHANGED <<status, special, uses, runs, met>>

Step(t) == \/ Check(t)
           \/ Set(t)
           \/ InitSuper(t)
           \/ InitStaticField(t)
           \/ RunClinit(t)
           \/ EndBody(t)
           \/ Throw(t)
           \/ InitSpecialType(t)
           \/ Finish(t)
           \/ Access(t)

Next == \E t \in Threads : \/ Step(t)
                           \/ \E c \in Classes, kind \in Kinds : Use(t, c, kind)

Spec == Init /\ [][Next]_vars
\* Threads run; that <clinit> methods end is MaxUses.
FairSpec == Spec /\ \A t \in Threads : WF_vars(Step(t))

-----------------------------------------------------------------------------
(* Properties *)

\* Whoever goes on to use a class finds it initialised, with its static
\* fields and its special type: the program after clinit, and clinit itself,
\* which has called it for the superclass before it runs a <clinit>.  Excepted
\* are the thread that is initialising the class, as Java has it, and classes
\* where two threads have met in clinit.
Ready(c) == /\ status[c] = "INITED"
            /\ statics[c] \in {"cleared", "written"}
            /\ special[c] = (c \in ThreadClasses)
Relies(t) == (IF \E kind \in Kinds : At(t, kind) THEN {Top(t).class} ELSE {})
             \cup (IF At(t, "run") /\ Top(t).class # Root THEN {Super[Top(t).class]} ELSE {})
UsedInitialised ==
    \A t \in Threads : \A c \in Relies(t) : Ready(c) \/ Initialising(t, c) \/ met[c]

\* <clinit> is run once, unless two threads have met in clinit.
RunsOnce == \A c \in Classes : met[c] \/ runs[c] <= 1

\* A status of INIT has an owner: nobody finds a class that is being
\* initialised by no one.
InitHasOwner == \A c \in Classes : status[c] = "INIT" => \E t \in Threads : Initialising(t, c)

\* A write to a static field is lost only to initStaticField of its class
\* (class.cpp:442), and then it was made by the very thread that runs this,
\* on its way there: by the <clinit> of a superclass.  Nothing is lost that
\* was written later, or by another thread, unless two threads have met.
Resetting(t, c) == At(t, "static") /\ Top(t).class = c
Values == Threads \cup {"written"}
WritesLast == [][\A c \in Classes :
                    statics[c] \in Values /\ statics'[c] \notin Values
                    => met[c] \/ (statics[c] \in Threads /\ Resetting(statics[c], c))]_vars

\* Nobody waits for a lock or for another thread: every use of a class comes
\* to an end, even when two classes use each other in two threads.
EveryUseEnds == \A t \in Threads : stack[t] # <<>> ~> stack[t] = <<>>
=============================================================================
