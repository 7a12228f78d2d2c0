------------------------------ MODULE StubCall ------------------------------
(***************************************************************************)
(* plPerlXPTCStub::CallMethod: native code calls a method that is written  *)
(* in Perl.  A first loop sorts the parameters into inputs and outputs and *)
(* makes Perl values of the objects and arrays among the inputs.           *)
(* CallPerlMethod passes the inputs, runs the method and converts what it  *)
(* returned.  A second loop copies the outputs to the caller's variables   *)
(* and gives up the values that the first loop made.  The loops use        *)
(* different tests to tell inputs from outputs.                            *)
(*                                                                         *)
(* Parameters, the slots inputs and outputs, and returned values are       *)
(* numbered from 0 as in the code.  A value is known by its place among    *)
(* the values the method returned.                                         *)
(***************************************************************************)
EXTENDS Integers, Sequences, FiniteSets, SequencesExt, PerlScalars

CONSTANTS
  Kind,        \* the kinds of parameter that signatures use
  Direction,   \* and their directions
  MaxParams,   \* bound: parameters of a signature
  MaxValues    \* bound: values that a method returns

\* A kind stands for the type tags that the switches treat alike: number for
\* integers, floats and booleans, char also for wchar, char_str for char*, string for
\* wide strings and those whose size is another parameter, domstring for string
\* objects of wide characters, cstring for those of bytes, interface_is for any
\* interface whose ID is another parameter, other for the tags no switch knows.
Kinds == {"number", "char", "char_str", "string", "domstring", "cstring", "iid",
          "interface", "interface_is", "array", "other"}
StringObjects == {"domstring", "cstring"}

ASSUME StubCallAssumption ==
  /\ Kind \subseteq Kinds
  /\ Direction \subseteq {"in", "out", "inout", "retval"}
  /\ MaxParams \in Nat /\ MaxValues \in Nat

VARIABLES
  pc,        \* the point the call has reached
  params,    \* the method's signature
  x,         \* the loop index
  made,      \* the Perl values made for each parameter
  returned,  \* how many values the method returned
  out,       \* outputs: the value in each slot
  var,       \* the caller's variable behind each parameter
  rv         \* what the call answers

vars == <<pc, params, x, made, returned, out, var, rv>>

\* lost: undefined behaviour, a wild read or write.
Points == {"idle", "split", "method", "copy", "done", "lost"}

\* What a variable or a slot holds when it is no value of the method's.
Untouched == -1    \* what it held before
Address   == -2    \* the bits of the caller's pointer, put there by Init
Garbage   == -3    \* what happens to be in the memory that is read
Unended   == -4    \* the bytes of a value, without the NUL that ends a char*

Content == {Untouched, Address, Garbage, Unended} \cup Nat

\* How many scalars of an input have one owner too many does not depend on the
\* number of elements of an array: elem stands for each of them.
Values == [sv : Scalar, av : Scalar, elem : Scalar]
Nothing == [sv |-> NoScalar, av |-> NoScalar, elem |-> NoScalar]

Param == [dir : Direction, kind : Kind]

pCount == Len(params)
Index  == 0 .. (pCount - 1)
P(i)   == params[i + 1]

\* The typelib marks a string object as an input also when it is an output.
IsIn(i)     == P(i).dir \in {"in", "inout"} \/ P(i).kind \in StringObjects
IsOut(i)    == P(i).dir # "in" /\ P(i).kind \notin StringObjects
IsRetval(i) == P(i).dir = "retval"

\* The first loop's test.
IsInput(i) == IsIn(i) /\ ~IsRetval(i)

Inputs  == {i \in Index : IsInput(i)}
Outputs == Index \ Inputs
intot   == Cardinality(Inputs)
outtot  == Cardinality(Outputs)

\* The slot of inputs or outputs that the first loop gives to i.
Slot(i) == IF IsInput(i) THEN Cardinality({j \in Inputs : j < i})
                         ELSE Cardinality({j \in Outputs : j < i})

\* Mutant: only objects are counted.
zObjects(i) ==
  Cardinality({j \in Index : j < i /\ ~IsOut(j) /\ P(j).kind \in {"interface", "array"}})

\* Mutant: inputs are counted.
yInputs(i) == Cardinality({j \in Index : j < i /\ IsIn(j)})

\* The counters of the second loop when it comes to i.
y(i) == Cardinality({j \in Index : j < i /\ IsOut(j)})
z(i) == Cardinality({j \in Index : j < i /\ ~IsOut(j)})

\* What the interface compiler emits: the result comes last.
Signature ==
  {s \in SeqOf(Param, MaxParams) :
     \A i \in DOMAIN s :
       /\ s[i].dir = "retval" => i = Len(s)
       /\ s[i].kind \in StringObjects => s[i].dir # "inout"}

TypeOK ==
  /\ pc \in Points
  /\ params \in Seq(Param)
  /\ x \in Nat /\ x <= pCount
  /\ made \in [Index -> Values]
  /\ returned \in Nat
  /\ out \in [0 .. (outtot - 1) -> Content]
  /\ var \in [Index -> Content]
  /\ rv \in {"none", "OK", "FAILED"}

Init ==
  /\ pc = "idle" /\ params = <<>> /\ x = 0
  /\ made = [i \in {} |-> Nothing]
  /\ returned = 0
  /\ out = [k \in {} |-> Address] /\ var = [i \in {} |-> Untouched]
  /\ rv = "none"

-----------------------------------------------------------------------------
(* The first loop. *)

CallMethod ==
  /\ pc = "idle"
  /\ pc' = "split" /\ params' \in Signature /\ x' = 0
  /\ made' = [i \in Index' |-> Nothing]
  /\ returned' = 0
  /\ out' = [k \in 0 .. (outtot' - 1) |-> Address]
  /\ var' = [i \in Index' |-> Untouched]
  /\ rv' = "none"

Return(r) == pc' = "done" /\ rv' = r

\* Mutant: a parameter is passed over.
GoesOn == x' = x + 2 /\ UNCHANGED <<pc, rv>>

\* The call goes on with the next parameter.
Goes == x' = x + 1 /\ UNCHANGED <<pc, rv>>

AtInput(kinds) ==
  pc = "split" /\ x < pCount /\ IsInput(x) /\ P(x).kind \in kinds

\* The interface has been looked up for a parameter in S.
IFaceKnown(S) == \E j \in S : j < x /\ P(j).kind \in {"interface", "array"}

\* The slot is a copy of the parameter; the value is made by CallPerlMethod.
PlainInput ==
  /\ AtInput({"number", "char", "char_str", "string", "domstring", "cstring",
               "iid", "other"})
  /\ Goes
  /\ UNCHANGED <<params, made, returned, out, var>>

\* Mutant: makeXPObject does what its comment says.
UnownedWrapper == [Nothing EXCEPT !.sv = NewScalar]

\* makeXPObject returns a mortal.
Wrapper == [Nothing EXCEPT !.sv = NewMortal]

\* Without an object, or its interface ID, the method gets undef.  (The copy of
\* the ID that GetIIDForParam makes is never freed.)
InterfaceInput ==
  /\ AtInput({"interface"})
  /\ Goes
  /\ \/ UNCHANGED made
     \/ P(x).dir = "in" /\ made' = [made EXCEPT ![x] = Wrapper]
  /\ UNCHANGED <<params, returned, out, var>>

\* A dependent interface ID is not looked at: undef.
InterfaceIsInput ==
  /\ AtInput({"interface_is"})
  /\ Goes
  /\ UNCHANGED <<params, made, returned, out, var>>

\* The array, its elements and the mortal reference to it: newRV counts a
\* reference to the array beside the one newAV made.
Array(element) ==
  [sv |-> NewMortal, av |-> Own(Inc(NewScalar)), elem |-> element]

\* Every Convert...ToSV returns a mortal, which av_store is given a reference to;
\* booleans are not counted.  (The caller's elements, if they are strings or
\* interfaces, are freed as if they were results.)
ArrayInput ==
  /\ AtInput({"array"}) /\ P(x).dir = "in"
  /\ Goes
  /\ \E element \in {Own(Inc(NewMortal)), NoScalar} :
       made' = [made EXCEPT ![x] = Array(element)]
  /\ UNCHANGED <<params, returned, out, var>>

\* The interface is unknown; an array has no length, is null, or the type of its
\* elements is unknown.
InputFails ==
  /\ AtInput({"interface", "array"})
  /\ P(x).kind = "interface" => ~IFaceKnown(Inputs)
  /\ Return("FAILED")
  /\ \/ UNCHANGED made
     \/ P(x).kind = "array" /\ made' = [made EXCEPT ![x].av = NewScalar]
  /\ UNCHANGED <<params, x, returned, out, var>>

\* The parameter is the address of the caller's variable, and is taken for the
\* object or the array itself.
WildInput ==
  /\ AtInput({"interface", "array"}) /\ P(x).dir = "inout"
  /\ pc' = "lost"
  /\ UNCHANGED <<params, x, made, returned, out, var, rv>>

OutputSlot ==
  /\ pc = "split" /\ x < pCount /\ ~IsInput(x)
  /\ Goes
  /\ UNCHANGED <<params, made, returned, out, var>>

-----------------------------------------------------------------------------
(* CallPerlMethod. *)

RunMethod ==
  /\ pc = "split" /\ x = pCount
  /\ pc' = "method" /\ x' = 0
  /\ UNCHANGED <<params, made, returned, out, var, rv>>

\* The values that CallPerlMethod writes to the caller's variable itself; it
\* leaves the others in outputs for the second loop.
Direct == {"char_str", "string", "domstring", "cstring", "interface", "interface_is"}

\* ST(k), of n values on the stack.
Value(k, n) == IF k < n THEN k ELSE Garbage

\* The parameter whose slot is outputs[k].
OutParam(k) == CHOOSE i \in Outputs : Slot(i) = k

\* What is left in outputs[k]; for an array the address of a scalar.
Stored(k, n) ==
  CASE n = 0 \/ P(OutParam(k)).kind \notin {"number", "char", "array"} -> Address
    [] n > 0 /\ P(OutParam(k)).kind = "array" -> Garbage
    [] OTHER -> Value(k, n)

\* The outputs of string objects of bytes.
ByteStrings == {i \in Outputs : P(i).kind = "cstring"}

\* What CallPerlMethod writes to the variable of i.  ConvertSVToString copies the
\* bytes of a value, which are assumed to hold no NUL, and adds none; a string
\* object of bytes is assigned from such a copy, and ends where memory happens to
\* hold a zero: right after the copy, if i is in ended, or after other bytes.
Written(i, n, ended) ==
  CASE Slot(i) >= n                               -> Garbage
    [] Slot(i) < n /\ P(i).kind = "char_str"      -> Unended
    [] Slot(i) < n /\ i \in ByteStrings \ ended   -> Garbage
    [] OTHER                                      -> Slot(i)

\* Mutant: numbers are written to the caller's variable too.
ConvertedDirectly(n) ==
  /\ out' = [k \in DOMAIN out |-> Stored(k, n)]
  /\ \E ended \in SUBSET ByteStrings :
       var' = [i \in Index |-> IF n > 0 /\ i \in Outputs
                                 THEN Written(i, n, ended) ELSE var[i]]

\* Outputs are filled if the method returned anything at all.
Converted(n) ==
  /\ out' = [k \in DOMAIN out |-> Stored(k, n)]
  /\ \E ended \in SUBSET ByteStrings :
       var' = [i \in Index |-> IF n > 0 /\ i \in Outputs /\ P(i).kind \in Direct
                                 THEN Written(i, n, ended) ELSE var[i]]

\* The result code is what the method left in $Components::returnCode.  If that is
\* a failure, nothing more is done.
MethodReturns ==
  /\ pc = "method"
  /\ \E n \in 0 .. MaxValues : returned' = n /\ Converted(n)
  /\ \/ Return("FAILED")
     \/ pc' = "copy" /\ UNCHANGED rv
  /\ UNCHANGED <<params, x, made>>

\* An interface is returned as a hash without an interface ID, as objects
\* written in Perl are: VP_ConvertSVToISupports, given no ID, reads a null
\* pointer.  An interface ID is written where the caller has a pointer to one.
\* Reading on after the copy of a byte string may leave its memory.  Values past
\* those returned need not be scalars.
WildResult ==
  /\ pc = "method"
  /\ pc' = "lost"
  /\ returned' \in 1 .. MaxValues
  /\ \/ \E i \in Outputs : P(i).kind \in {"interface", "interface_is", "iid", "cstring"}
     \/ returned' < outtot
  /\ UNCHANGED <<params, x, made, out, var, rv>>

-----------------------------------------------------------------------------
(* The second loop. *)

AtOutput(kinds) == pc = "copy" /\ x < pCount /\ IsOut(x) /\ P(x).kind \in kinds

\* In/out parameters have no slot in outputs, but the counter counts them.
CopyNumber ==
  /\ AtOutput({"number"})
  /\ var' = [var EXCEPT ![x] = IF y(x) < outtot THEN out[y(x)] ELSE Garbage]
  /\ Goes
  /\ UNCHANGED <<params, made, returned, out>>

\* The pointer itself is copied.
CopyDirect ==
  /\ AtOutput(Direct \cup {"iid", "other"})
  /\ Goes
  /\ UNCHANGED <<params, made, returned, out, var>>

\* A character is written to the address that the parameter's first byte makes.
\* The array that a method returned has been freed by FREETMPS.
WildOutput ==
  /\ AtOutput({"char", "array"})
  /\ pc' = "lost"
  /\ UNCHANGED <<params, x, made, returned, out, var, rv>>

ArrayOutputFails ==
  /\ AtOutput({"array"})
  /\ ~IFaceKnown(Inputs) /\ ~IFaceKnown({j \in Outputs : P(j).kind = "array"})
  /\ Return("FAILED")
  /\ UNCHANGED <<params, x, made, returned, out, var>>

AtRelease(kinds) == pc = "copy" /\ x < pCount /\ ~IsOut(x) /\ P(x).kind \in kinds

\* The parameter whose value is in inputs[z].
Released == CHOOSE i \in Inputs : Slot(i) = z(x)

NothingToRelease ==
  /\ AtRelease(Kinds \ {"interface", "array"})
  /\ Goes
  /\ UNCHANGED <<params, made, returned, out, var>>

\* undef is not counted.
MortalUnlessUndef(s) == IF s = NoScalar THEN s ELSE Mortal(s)

ReleaseInterface ==
  /\ AtRelease({"interface"}) /\ P(Released).kind \in {"interface", "interface_is", "array"}
  /\ made' = [made EXCEPT ![Released].sv = MortalUnlessUndef(@)]
  /\ Goes
  /\ UNCHANGED <<params, returned, out, var>>

DecUnlessUndef(s) == IF s = NoScalar THEN s ELSE Dec(s)

ArrayReleased(v) ==
  [sv |-> v.sv, av |-> Mortal(v.av), elem |-> DecUnlessUndef(v.elem)]

ReleaseArray ==
  /\ AtRelease({"array"}) /\ P(Released).kind = "array"
  /\ made' = [made EXCEPT ![Released] = ArrayReleased(@)]
  /\ Goes
  /\ UNCHANGED <<params, returned, out, var>>

\* inputs[z] is no Perl value, or none that refers to an array; or an element of
\* the array could not be converted.
WildRelease ==
  /\ AtRelease({"interface", "array"})
  /\ \/ P(Released).kind \notin {"interface", "interface_is", "array"}
     \/ P(x).kind = "array"
  /\ pc' = "lost"
  /\ UNCHANGED <<params, x, made, returned, out, var, rv>>

CallMethodReturns ==
  /\ pc = "copy" /\ x = pCount
  /\ Return("OK")
  /\ UNCHANGED <<params, x, made, returned, out, var>>

\* All of the state is local to the call.
FrameGone ==
  /\ pc = "done" /\ pc' = "idle" /\ params' = <<>> /\ x' = 0
  /\ made' = [i \in {} |-> Nothing]
  /\ returned' = 0
  /\ out' = [k \in {} |-> Address] /\ var' = [i \in {} |-> Untouched]
  /\ rv' = "none"

\* The process has crashed, or writes where it should not.
Lost == pc = "lost" /\ UNCHANGED vars

Next ==
  \/ CallMethod
  \/ PlainInput \/ InterfaceInput \/ InterfaceIsInput \/ ArrayInput
  \/ InputFails \/ WildInput \/ OutputSlot
  \/ RunMethod \/ MethodReturns \/ WildResult
  \/ CopyNumber \/ CopyDirect \/ WildOutput \/ ArrayOutputFails
  \/ NothingToRelease \/ ReleaseInterface \/ ReleaseArray \/ WildRelease
  \/ CallMethodReturns \/ FrameGone
  \/ Lost

Spec == Init /\ [][Next]_vars

-----------------------------------------------------------------------------
(* Properties.                                                             *)

\* The method returned a value for every output.
EnoughReturned == returned >= outtot

InOutBefore(i) == \E j \in Index : j < i /\ P(j).dir = "inout"

\* Native callers find in the variable of each output the value that the method
\* returned in that place, but a char* never comes with its end.  An in/out
\* parameter has no place, but shifts the numbers after it; characters, arrays,
\* interface IDs and string objects of bytes do not come through.
ResultsReachCaller ==
  pc = "done" /\ rv = "OK" /\ EnoughReturned =>
    \A i \in Outputs :
      /\ P(i).kind \in Direct \ {"char_str", "cstring"}
           \/ (P(i).kind = "number" /\ ~InOutBefore(i)) => var[i] = Slot(i)
      /\ P(i).kind = "char_str" => var[i] = Unended

\* Signatures that the two loops agree on: no in/out parameter, and no output
\* that is more than a number, a string or a string object of wide characters.
Supported ==
  \A i \in Index :
    /\ P(i).dir # "inout"
    /\ P(i).kind \in {"char", "iid", "interface", "interface_is", "cstring"} =>
         P(i).dir = "in"
    /\ P(i).kind # "array"

\* A call of a supported signature whose method returns nothing, or enough, never
\* reads or writes where it should not before it returns: each slot is found again
\* by the second loop, with what the first loop and CallPerlMethod put there.  (A
\* caller that reads a char* to its end then does: see ResultsReachCaller.)
SupportedCallsAreSafe ==
  pc = "lost" => ~Supported \/ ~EnoughReturned

\* The values made for objects and arrays are mortal already when the second loop
\* makes them mortal again, and elements of arrays are given up twice: after a
\* success these, and no others, are freed once too often.
ReleasedTwice ==
  pc = "done" /\ (\A i \in Index : P(i).dir # "inout") =>
    \A i \in Index :
      /\ OverReleased(made[i].sv) <=>
           rv = "OK" /\ P(i).kind = "interface" /\ made[i].sv # NoScalar
      /\ OverReleased(made[i].elem) <=> rv = "OK" /\ made[i].elem # NoScalar
      /\ ~OverReleased(made[i].av)

\* A failed call frees nothing twice; but it leaves its arrays behind, whose
\* surplus reference only the second loop gives up.
FailuresOnlyLeak ==
  pc = "done" /\ rv = "FAILED" /\ (\A o \in Outputs : P(o).kind # "array") =>
    \A i \in Index :
      /\ Balanced(made[i].sv) /\ Balanced(made[i].elem)
      /\ Leaked(made[i].av) <=> made[i].av # NoScalar

\* A call that fails leaves the caller's numbers alone, unless it fails after the
\* method, at an array.
FailuresKeepNumbers ==
  pc = "done" /\ rv = "FAILED" =>
    \A i \in Index :
      P(i).kind = "number" /\ var[i] # Untouched =>
        \E j \in Outputs : P(j).kind = "array" /\ j > i

=============================================================================
