----------------------------- MODULE ReturnCode -----------------------------
(***************************************************************************)
(* $Components::returnCode: one global Perl scalar that carries the result *)
(* of every call in both directions.                                       *)
(*                                                                         *)
(* Perl code reaches XPCOM through XS functions (bindings), which store    *)
(* the nsresult of the call in the scalar.  XPCOM reaches components       *)
(* written in Perl through stubs (plPerlXPTCStub, plPerlFactory and        *)
(* plPerlModule), which run a Perl method and then read the scalar.  Calls *)
(* nest: the stack holds bodies of Perl code, the bindings they have       *)
(* called, and stubs that wait for a body or are about to read the scalar. *)
(* The native code between a binding and a stub is external: it calls      *)
(* what it likes and answers what it likes.                                *)
(***************************************************************************)
EXTENDS Naturals, Sequences, SequencesExt

CONSTANTS
  Binding,          \* the XS functions that Perl code uses
  MayDie,           \* Perl methods may die
  Undisciplined,    \* methods may return without setting the scalar, or set
                    \* NS_OK and return no value
  DestructorsCall,  \* objects that Perl code or a returning method gives up
                    \* may call Perl methods from their destructors
  MaxDepth,         \* bound: frames on the stack
  None

\* Answer without native calls, or with none that reaches Perl.
Immediate == {"Manager", "WrapObject", "ClassesByID", "Interfaces"}

\* Have the component manager create an object.
Creating == {"Classes", "GetService", "Constructor"}

XS == Immediate \cup Creating \cup {"callXPCOMMethod", "QueryInterface"}

\* The bindings that do not report every result they return.
Silent == {"Interfaces", "Constructor"}

\* The stubs; InstanceQI is CreateInstance once it queries its new object.
Stubbed == {"CallMethod", "QueryInterface", "CreateInstance", "InstanceQI",
            "GetClassObject", "RegisterSelf", "UnregisterSelf", "LockFactory"}

Failure == {"NO_INTERFACE", "FAILURE"}
Code    == {"OK"} \cup Failure

\* How a body stands with the scalar: what it was last told by a binding or has
\* stored itself.  For a stub, where its method stood at the end, or that it died.
LastCode == Code \cup {"DIED", None}

ASSUME ReturnCodeAssumption ==
  /\ Binding \subseteq XS
  /\ MayDie \in BOOLEAN /\ Undisciplined \in BOOLEAN /\ DestructorsCall \in BOOLEAN
  /\ MaxDepth \in Nat
  /\ None \notin Code \cup {"DIED"}

VARIABLES
  code,      \* $Components::returnCode
  stack,     \* the calls in progress, the last one on top
  answered   \* what a stub has just answered

vars == <<code, stack, answered>>

FrameType ==
  [kind : {"body", "binding", "stub"}, op : XS \cup Stubbed \cup {None},
   over : BOOLEAN, last : LastCode, value : BOOLEAN]

Answer == [op : Stubbed, rv : Code, obj : BOOLEAN, last : LastCode]

Frame(k, o) ==
  [kind |-> k, op |-> o, over |-> FALSE, last |-> None, value |-> FALSE]

Top == stack[Len(stack)]

TopIs(k) == stack # <<>> /\ Top.kind = k

\* f may be right below g.
MayBeBelow(f, g) ==
  \/ g.kind = "body" /\ f.kind = "stub" /\ ~f.over
  \/ g.kind = "binding" /\ f.kind = "body" /\ g.op \in Binding
  \/ g.kind = "stub" /\ f.kind = "binding"
  \/ g.kind = "stub" /\ DestructorsCall /\ (f.kind = "stub" => f.over)

\* The calls s nest.
Nested(s) ==
  /\ s # <<>> => s[1].kind # "binding"
  /\ \A k \in 1 .. Len(s) : s[k].kind = "stub" => s[k].op \in Stubbed
  /\ \A k \in 2 .. Len(s) : MayBeBelow(s[k - 1], s[k])

TypeOK ==
  /\ code \in Code
  /\ stack \in Seq(FrameType)
  /\ answered \in Answer \cup {None}
  /\ Nested(stack)
  /\ TopIs("stub") => Top.over

Init == code = "OK" /\ stack = <<>> /\ answered = None

-----------------------------------------------------------------------------
(* Bindings.                                                               *)

\* Mutant: an error exit without VP_SET_RETCODE.
ReportsSuccess(b, at, c) == c = "OK"

\* VP_SET_RETCODE is reached with the result c, found when the binding checks
\* its first argument, any other argument, or has made its call.  Constructor
\* reports only an unknown contract ID, Interfaces nothing.  (The value of a
\* constant, read in the syntax of a method, is not a call.)
Reports(b, at, c) == b \in Silent => b = "Constructor" /\ at = "contract ID"

\* Mutant: the body is gone with the binding.
DropBody(s, d) == Front(Front(s))

\* The body on top of s is told d.
Tell(s, d) == [s EXCEPT ![Len(s)] = [@ EXCEPT !.last = d]]

\* The binding on top of s returns d to the body below it.
ReturnToBody(s, d) == Tell(Front(s), d)

Told(b, at, c) == code' = IF Reports(b, at, c) THEN c ELSE code

\* A binding that needs nothing of others, or is given bad arguments, or an
\* unknown name.
BindingAnswers(b) ==
  /\ TopIs("body")
  /\ \E at \in {"contract ID", "arguments"}, c \in Code :
       /\ c = "OK" => b \in Immediate
       /\ Told(b, at, c)
       /\ stack' = Tell(stack, c)
  /\ answered' = None

BindingCalls(b) ==
  /\ TopIs("body") /\ b \notin Immediate /\ Len(stack) < MaxDepth
  /\ stack' = Append(stack, Frame("binding", b))
  /\ answered' = None
  /\ UNCHANGED code

\* The outputs of a method that succeeded may still not convert.
Outcome(b, c) ==
  IF b = "callXPCOMMethod" /\ c = "OK" THEN {"OK", "NO_INTERFACE"} ELSE {c}

NativeAnswers ==
  /\ TopIs("binding")
  /\ \E c \in Code : \E d \in Outcome(Top.op, c) :
       /\ Told(Top.op, "call", d)
       /\ stack' = ReturnToBody(stack, d)
  /\ answered' = None

-----------------------------------------------------------------------------
(* Calls of Perl methods.                                                  *)

\* CallPerlMethod for the stub m on the calls s; a stub that has no Perl object
\* returns before this.
CallPerlMethod(s, m) ==
  /\ stack' = Append(Append(s, Frame("stub", m)), Frame("body", None))
  /\ answered' = None
  /\ UNCHANGED code

HostCalls(m) == stack = <<>> /\ CallPerlMethod(<<>>, m)

BindingReachesPerl(m) ==
  TopIs("binding") /\ Len(stack) < MaxDepth /\ CallPerlMethod(stack, m)

\* A body drops an object, or the temporaries of a method that is over are
\* freed (FREETMPS) before the scalar is read.
DestructorCalls ==
  /\ DestructorsCall /\ Len(stack) < MaxDepth
  /\ TopIs("body") \/ TopIs("stub")
  /\ CallPerlMethod(stack, "CallMethod")

ScriptStarts ==
  /\ stack = <<>>
  /\ stack' = <<Frame("body", None)>>
  /\ answered' = None
  /\ UNCHANGED code

ScriptEnds ==
  /\ TopIs("body") /\ Len(stack) = 1
  /\ stack' = <<>>
  /\ answered' = None
  /\ UNCHANGED code

SetReturnCode(c) ==
  /\ TopIs("body")
  /\ code' = c
  /\ stack' = Tell(stack, c)
  /\ answered' = None

\* The stub on top of s has its method's outcome.
EndMethod(s, l, v) ==
  [s EXCEPT ![Len(s)] = [@ EXCEPT !.over = TRUE, !.last = l, !.value = v]]

\* call_method has come back, with or without a value.
MethodOver(l, v) ==
  /\ Len(stack) > 1
  /\ stack' = EndMethod(Front(stack), l, v)
  /\ answered' = None
  /\ UNCHANGED code

MethodReturns ==
  \E v \in BOOLEAN :
    /\ TopIs("body")
    /\ Undisciplined \/ Top.last \in Failure \/ (Top.last = "OK" /\ v)
    /\ MethodOver(Top.last, v)

\* G_EVAL: no value, and nothing looks at $@.
MethodDies == MayDie /\ TopIs("body") /\ MethodOver("DIED", FALSE)

-----------------------------------------------------------------------------
(* What the stubs make of the scalar and the value.                        *)

GotValue == Top.value

\* Mutant: a value is taken for success.
ValueMeansOK == IF GotValue THEN "OK" ELSE code

GetRetcode == code

\* A Perl QueryInterface that is happy must have returned something.
HappyResult ==
  IF GotValue THEN [rv |-> "OK", obj |-> TRUE] ELSE [rv |-> "FAILURE", obj |-> FALSE]

\* If it is not, the native check knows nsISupports.
NativeResults ==
  {[rv |-> "OK", obj |-> TRUE], [rv |-> "NO_INTERFACE", obj |-> FALSE]}

\* CallMethod takes the outputs of a method that succeeded: for an array it may
\* find no interface description, or no array that converts.
ArrayFailures ==
  IF Top.op = "CallMethod" /\ GetRetcode = "OK"
    THEN {[rv |-> f, obj |-> FALSE] : f \in Failure}
    ELSE {}

Results ==
  IF Top.op \in {"QueryInterface", "InstanceQI"}
    THEN IF GetRetcode = "OK" THEN {HappyResult} ELSE NativeResults
    ELSE {[rv |-> GetRetcode, obj |-> GetRetcode = "OK" /\ GotValue]} \cup ArrayFailures

\* CreateInstance wraps the value and queries it for the interface.
MustQuery == Top.op = "CreateInstance" /\ GetRetcode = "OK" /\ GotValue

CreateInstanceQueries ==
  TopIs("stub") /\ MustQuery /\ CallPerlMethod(Front(stack), "InstanceQI")

StubReturns ==
  /\ TopIs("stub") /\ ~MustQuery
  /\ \E r \in Results :
       answered' = [op |-> Top.op, rv |-> r.rv, obj |-> r.obj, last |-> Top.last]
  /\ stack' = Front(stack)
  /\ UNCHANGED code

Next ==
  \/ ScriptStarts \/ ScriptEnds
  \/ \E m \in Stubbed \ {"InstanceQI"} : HostCalls(m) \/ BindingReachesPerl(m)
  \/ \E c \in Code : SetReturnCode(c)
  \/ \E b \in Binding : BindingAnswers(b) \/ BindingCalls(b)
  \/ NativeAnswers
  \/ MethodReturns \/ MethodDies \/ DestructorCalls
  \/ CreateInstanceQueries \/ StubReturns

Spec == Init /\ [][Next]_vars

-----------------------------------------------------------------------------
(* Properties.                                                             *)

\* "The return code of all calls to the Components package and the return code
\* of any method of an XPCOM object goes into $Components::returnCode and is
\* valid until the next call to another XPCOM method" (doc/xpcom-perl.xml): the
\* scalar holds what the running Perl code was told or has stored last, whatever
\* the methods of Perl components that ran in between stored in it.
CodeIsOwn ==
  TopIs("body") /\ Top.last # None => code = Top.last

\* Except for QueryInterface, which has its own fallback, a stub answers with
\* the code its own method was told or stored last, and not with one that
\* another method, above or below it on the stack, left in the scalar.  Only
\* CallMethod may answer a success with a failure, when an array output does not
\* convert; a method's failure is never answered with another code.
ResultIsMethods ==
  answered # None /\ answered.op \notin {"QueryInterface", "InstanceQI"}
                  /\ answered.last \in Code
    => \/ answered.rv = answered.last
       \/ answered.op = "CallMethod" /\ answered.last = "OK"

\* "a standardized means of reporting the success or failure of an action"
\* (doc/xpcom-perl.xml): a method that died is not reported as a success.
DiedReported ==
  answered # None /\ answered.last = "DIED" => answered.rv # "OK"

\* The stubs whose result is an object.
Yielding == {"GetClassObject", "CreateInstance", "InstanceQI", "QueryInterface"}

\* NS_OK from a factory, a module or QueryInterface comes with an object, which
\* the caller uses unseen: if Perl methods set NS_OK only with a value.
ObjectOrError ==
  answered # None /\ answered.rv = "OK" /\ answered.op \in Yielding => answered.obj

=============================================================================
