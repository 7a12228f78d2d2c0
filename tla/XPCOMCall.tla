------------------------------ MODULE XPCOMCall ------------------------------
(***************************************************************************)
(* XPCOM::nsISupports::callXPCOMMethod: Perl code calls a method of an     *)
(* XPCOM object.  The function finds the method, compares the number of    *)
(* arguments with the signature, fills one slot per parameter, calls the   *)
(* native method, turns the outputs into Perl values and frees what it     *)
(* allocated.  It has more than twenty exits, each of which must report    *)
(* and clean up.  While the native method runs, Perl code can run again    *)
(* and change the variables that were passed.                              *)
(*                                                                         *)
(* Parameters and arguments are numbered from 0 as in the code.  A value   *)
(* is known by the number of the argument it was read from, memory by the  *)
(* slot that points to it.                                                 *)
(***************************************************************************)
EXTENDS Integers, Sequences, FiniteSets, SequencesExt

CONSTANTS
  Kind,         \* the kinds of parameter that signatures use
  Direction,    \* and their directions
  MaxParams,    \* bound: parameters of a signature
  Given,        \* how many arguments scripts pass
  MAX_XPTC_ARG_COUNT

\* A kind stands for the type tags that the three switches treat alike: number
\* for what is copied, astring also for CSTRING and UTF8STRING, sized_str and
\* sized_wstr for PSTRING_SIZE_IS and PWSTRING_SIZE_IS, other for the rest.
Kinds == {"number", "iid", "domstring", "astring", "char_str", "wchar_str",
          "sized_str", "sized_wstr", "interface", "interface_is", "array", "other"}

\* An input string in UTF-16 is a converted copy.
Copied == {"domstring", "wchar_str", "sized_wstr"}

\* The native method makes the result, and the caller owns it.
Made == {"iid", "char_str", "wchar_str", "interface", "interface_is", "array"}

\* Output strings are objects that the native method fills.
Filled == {"domstring", "astring"}

Interfaces == {"interface", "interface_is"}

ASSUME XPCOMCallAssumption ==
  /\ Kind \subseteq Kinds
  /\ Direction \subseteq {"in", "out", "inout", "retval"}
  /\ MaxParams \in Nat /\ Given \subseteq Nat
  /\ MAX_XPTC_ARG_COUNT \in Nat

\* arg is the parameter that gives the size or the interface ID.
Param ==
  {p \in [dir : Direction, kind : Kind, arg : 0..(MaxParams - 1)] :
     p.kind \in {"array", "interface_is"} \/ p.arg = 0}

None    == -1
Missing == -2    \* the null pointer in place of a value

VARIABLES
  pc,        \* the point the function has reached
  params,    \* the method's signature
  iCount,    \* the number of arguments
  x,         \* the loop index
  slot,      \* vars, one entry per parameter
  held,      \* the references the function holds
  argObj,    \* the parameter whose object the function holds a reference to
  kept,      \* the parameters whose slot points to what a Perl variable holds
  rc,        \* what the call has stored in $Components::returnCode
  ret        \* what it returns: the parameter of each value, in order, or None
             \* for undef

vars == <<pc, params, iCount, x, slot, held, argObj, kept, rc, ret>>

Points == {"idle", "lookup", "count", "inputs", "native", "outputs", "cleanup",
           "done", "lost"}

\* old: the call has stored nothing.
Codes == {"old", "OK", "ABORT", "INTERFACE", "NOT_AVAILABLE", "UNEXPECTED",
          "NULL_POINTER", "FAILURE", "NOT_IMPLEMENTED", "OUT_OF_MEMORY",
          "NATIVE", "NO_INTERFACE"}

Undef == <<None>>

\* from is the argument read, size the argument read for the length; by says
\* what was made of it; mem is the memory the slot points to: none, live or freed
\* memory of the call's own, somebody else's, memory that was freed wrongly, or
\* the characters of a string object that is itself gone; tiface is a reference
\* to an interface description, in a pointer that has left its scope.
Memory == {"none", "live", "freed", "theirs", "broken", "buffer"}

Slot == [from : Nat \cup {None}, size : Nat \cup {None},
         by : {"value", "name", "id", "null"}, mem : Memory, tiface : BOOLEAN]

Empty ==
  [from |-> None, size |-> None, by |-> "value", mem |-> "none", tiface |-> FALSE]

pCount == Len(params)
Index  == 0..(pCount - 1)
P(i)   == params[i + 1]

\* The typelib marks an output that is a string object as an input, as the
\* native method gets the object to fill.
IsIn(i)     == P(i).dir \in {"in", "inout"} \/ P(i).kind \in Filled
IsOut(i)    == P(i).dir # "in" /\ P(i).kind \notin Filled
IsRetval(i) == P(i).dir = "retval"

TakesArgument(i) == IsIn(i) /\ ~IsRetval(i)
GivesValue(i)    == IsOut(i) \/ IsRetval(i)

Inputs  == {i \in Index : TakesArgument(i)}
Outputs == {i \in Index : GivesValue(i)}
oCount  == Cardinality(Outputs)

\* What the interface compiler emits: the result comes last, sizes are numbers
\* that go with their array, interface IDs are interface IDs.
Short ==
  {s \in SeqOf(Param, MaxParams) :
     \A i \in DOMAIN s :
       /\ s[i].dir = "retval" => i = Len(s)
       /\ s[i].kind \in Filled => s[i].dir # "inout"
       /\ s[i].kind \in {"array", "interface_is"} =>
            /\ s[i].arg < Len(s)
            /\ s[s[i].arg + 1].kind = IF s[i].kind = "array" THEN "number" ELSE "iid"
       /\ s[i].kind = "array" /\ s[i].dir = "in" => s[s[i].arg + 1].dir = "in"}

\* Nothing is looked at in a signature that is too long: one stands for all.
Long ==
  [1..(MAX_XPTC_ARG_COUNT + 1) -> [dir : {"in"}, kind : {"number"}, arg : {0}]]

Signature == Short \cup Long

TypeOK ==
  /\ pc \in Points
  /\ params \in Seq(Param) \cup Long /\ iCount \in Nat
  /\ x \in Nat /\ x <= pCount
  /\ slot \in [Index -> Slot]
  /\ held \subseteq {"theObject", "iim", "theIFace"}
  /\ argObj \in Index \cup {None}
  /\ kept \subseteq Index
  /\ rc \in Codes
  /\ ret \in Seq(Int)

Init ==
  /\ pc = "idle" /\ params = <<>> /\ iCount = 0 /\ x = 0
  /\ slot = [i \in {} |-> Empty]
  /\ held = {} /\ argObj = None /\ kept = {}
  /\ rc = "old" /\ ret = <<>>

-----------------------------------------------------------------------------
(* Leaving the function. *)

call == <<params, iCount>>

\* Mutant: the interface is not released.
ReleaseMost == held' = held \cap {"theIFace"} /\ argObj' = None

\* NS_IF_RELEASE sets the pointer to null.
Release == held' = {} /\ argObj' = None

\* VP_SET_RETCODE, VP_RETURN_UNDEF.
Fail(code) ==
  /\ pc' = "done" /\ Release
  /\ rc' = code /\ ret' = Undef
  /\ UNCHANGED <<call, x, kept>>

\* The slot gives up its memory, of which m stays.
GiveUp(s, m) == [s EXCEPT !.mem = CASE @ = "live" -> m
                                    [] @ = "none" -> "none"
                                    [] OTHER      -> "broken"]

FreeSlot(s) == GiveUp(s, "freed")

\* delete of a void pointer: the string object goes without its destructor, which
\* would have freed its characters.  (A string without any has nothing to lose.)
DeleteSlot(s) == GiveUp(s, "buffer")

-----------------------------------------------------------------------------
(* Finding the method. *)

\* Mutant: the slots are those of the last call.
CallAgain ==
  /\ pc \in {"idle", "done"}
  /\ pc' = "lookup" /\ held' = {"iim"}
  /\ params' = <<>> /\ kept' = {}
  /\ x' = 0 /\ argObj' = None /\ rc' = "old" /\ ret' = <<>>
  /\ \E n \in Given : iCount' = n % 256
  /\ UNCHANGED slot

Call ==
  /\ pc \in {"idle", "done"}
  /\ pc' = "lookup" /\ held' = {"iim"}
  /\ params' = <<>> /\ slot' = [i \in {} |-> Empty] /\ kept' = {}
  /\ x' = 0 /\ argObj' = None /\ rc' = "old" /\ ret' = <<>>
  /\ \E n \in Given : iCount' = n % 256

\* The object is not a wrapper, or its interface is unknown, or none of its
\* interfaces has the method.
LookupFails ==
  /\ pc = "lookup"
  /\ \E code \in {"ABORT", "INTERFACE", "NOT_AVAILABLE"} : Fail(code)
  /\ UNCHANGED slot

\* The name is that of a constant; not every type of constant has a value.
Constant ==
  /\ pc = "lookup"
  /\ pc' = "done" /\ Release /\ ret' \in {Undef, <<0>>}
  /\ UNCHANGED <<call, x, slot, kept, rc>>

\* GetInterfaceList succeeds with an empty list, methodInfo is null.
NoMethodInfo ==
  /\ pc = "lookup"
  /\ pc' = "lost"
  /\ UNCHANGED <<call, x, slot, held, argObj, kept, rc, ret>>

Found ==
  /\ pc = "lookup"
  /\ pc' = "count"
  /\ params' \in Signature
  /\ slot' = [i \in 0..(Len(params') - 1) |-> Empty]
  /\ held' = held \cup {"theObject", "theIFace"}
  /\ UNCHANGED <<iCount, x, argObj, kept, rc, ret>>

WrongCount ==
  /\ pc = "count"
  /\ UNCHANGED slot
  /\ \/ pCount > MAX_XPTC_ARG_COUNT /\ Fail("UNEXPECTED")
     \/ /\ pCount <= MAX_XPTC_ARG_COUNT
        /\ \/ iCount < pCount - oCount /\ Fail("NULL_POINTER")
           \/ iCount > pCount - oCount /\ Fail("UNEXPECTED")

\* Mutant: missing arguments are not noticed.
RightOrFewer ==
  /\ pc = "count"
  /\ pCount <= MAX_XPTC_ARG_COUNT /\ iCount <= pCount - oCount
  /\ pc' = "inputs"
  /\ UNCHANGED <<call, x, slot, held, argObj, kept, rc, ret>>

RightCount ==
  /\ pc = "count"
  /\ pCount <= MAX_XPTC_ARG_COUNT /\ iCount = pCount - oCount
  /\ pc' = "inputs"
  /\ UNCHANGED <<call, x, slot, held, argObj, kept, rc, ret>>

-----------------------------------------------------------------------------
(* Filling the slots. *)

AtParam(p) == pc = p /\ x < pCount

\* The slot of the parameter at hand becomes s, which reads argument x.
Fill(s) ==
  /\ slot' = [slot EXCEPT ![x] = s]
  /\ x' = x + 1
  /\ UNCHANGED <<call, pc, held, rc, ret>>

Read     == [Empty EXCEPT !.from = x]
Borrowed == [Read EXCEPT !.mem = "theirs"]

AtInput(kinds) == AtParam("inputs") /\ TakesArgument(x) /\ P(x).kind \in kinds

\* The value is copied, or the slot points into the script's own variable.
PlainInput ==
  /\ AtInput({"number", "char_str", "sized_str"})
  /\ IF P(x).kind = "number"
     THEN Fill(Read) /\ UNCHANGED kept
     ELSE Fill(Borrowed) /\ kept' = kept \cup {x}
  /\ UNCHANGED argObj

CopiedInput ==
  /\ AtInput(Copied)
  /\ Fill([Read EXCEPT !.mem = "live"])
  /\ UNCHANGED <<argObj, kept>>

\* An interface ID is an nsID object, a text, or neither.  A text that is not the
\* name of an interface is parsed as an ID, and looked up (GetInfoForIID), which
\* leaves a reference in tiface if it is found.  The ID is put in a local of this
\* block, and the slot is left pointing there.
IIDInput ==
  /\ AtInput({"iid"})
  /\ \/ Fill(Borrowed) /\ kept' = kept \cup {x}
     \/ /\ \/ Fill([Borrowed EXCEPT !.by = "name"])
           \/ Fill([Borrowed EXCEPT !.by = "id", !.tiface = TRUE])
           \/ Fill([Read EXCEPT !.by = "null"])
        /\ UNCHANGED kept
  /\ UNCHANGED argObj

\* argObj takes a reference to the new object and drops its former one.
InterfaceInput ==
  /\ AtInput(Interfaces)
  /\ \/ Fill(Borrowed) /\ argObj' = x /\ kept' = kept \cup {x}
     \/ Fill([Read EXCEPT !.by = "null"]) /\ argObj' = None /\ UNCHANGED kept

\* ConvertSVToArray makes the array, or nothing for one without elements.
ArrayInput ==
  /\ AtInput({"array"}) /\ P(x).arg # 0
  /\ \E m \in {"none", "live"} :
       Fill([Read EXCEPT !.size = P(x).arg, !.mem = m])
  /\ UNCHANGED <<argObj, kept>>

\* A size argument of 0 counts as none.
ArrayInputFails ==
  /\ AtInput({"array"})
  /\ Fail("FAILURE")
  /\ UNCHANGED slot

UnsupportedInput ==
  /\ AtInput({"astring", "other"})
  /\ Fail("NOT_IMPLEMENTED")
  /\ UNCHANGED slot

AtOutputSlot(kinds) == AtParam("inputs") /\ ~TakesArgument(x) /\ P(x).kind \in kinds

OutputSlot ==
  /\ AtOutputSlot(Kinds \ {"sized_str", "sized_wstr", "other"})
  /\ Fill([Empty EXCEPT !.mem = IF P(x).kind \in Filled THEN "live" ELSE "none"])
  /\ UNCHANGED <<argObj, kept>>

NoMemory ==
  /\ AtOutputSlot(Filled)
  /\ Fail("OUT_OF_MEMORY")
  /\ UNCHANGED slot

UnsupportedOutput ==
  /\ AtOutputSlot({"sized_str", "sized_wstr", "other"})
  /\ Fail("NOT_IMPLEMENTED")
  /\ UNCHANGED slot

SlotsFilled ==
  /\ pc = "inputs" /\ x = pCount
  /\ pc' = "native"
  /\ UNCHANGED <<call, x, slot, held, argObj, kept, rc, ret>>

-----------------------------------------------------------------------------
(* The native method. *)

\* Perl code that the method calls gives up a variable that was passed.
ScriptChanges ==
  /\ pc = "native"
  /\ \E i \in kept : kept' = kept \ {i}
  /\ UNCHANGED <<pc, call, x, slot, held, argObj, rc, ret>>

\* The slot of an in/out parameter is filled as that of an input: the method
\* takes the value for the address to write to.
WildWrite ==
  /\ pc = "native" /\ Inputs \cap Outputs # {}
  /\ pc' = "lost"
  /\ UNCHANGED <<call, x, slot, held, argObj, kept, rc, ret>>

MethodFails ==
  /\ pc = "native"
  /\ Fail("NATIVE")
  /\ UNCHANGED slot

\* Results that the method makes may also be null.
MethodSucceeds ==
  /\ pc = "native" /\ Inputs \cap Outputs = {}
  /\ \E null \in SUBSET {i \in Outputs : P(i).kind \in Made} :
       slot' = [i \in Index |->
                  IF i \in Outputs \ null /\ P(i).kind \in Made
                  THEN [slot[i] EXCEPT !.mem = "live"] ELSE slot[i]]
  /\ rc' = "OK" /\ x' = 0
  /\ pc' = IF oCount = 0 THEN "cleanup" ELSE "outputs"
  /\ UNCHANGED <<call, held, argObj, kept, ret>>

-----------------------------------------------------------------------------
(* Results. *)

AtOutput(kinds) == AtParam("outputs") /\ GivesValue(x) /\ P(x).kind \in kinds

\* Element y of the list is v.  After the last one the function returns.
Pop(v, s) ==
  /\ slot' = [slot EXCEPT ![x] = s]
  /\ ret' = Append(ret, v)
  /\ IF Len(ret') = oCount
     THEN pc' = "done" /\ Release /\ x' = x
     ELSE x' = x + 1 /\ UNCHANGED <<pc, held, argObj>>
  /\ UNCHANGED <<call, kept, rc>>

\* Mutant: without VP_SET_RETCODE.
PopFailsSilently(code) ==
  /\ slot' = [slot EXCEPT ![x] = FreeSlot(@)]
  /\ Fail(rc)

PopFails(code) ==
  /\ slot' = [slot EXCEPT ![x] = FreeSlot(@)]
  /\ Fail(code)

PopPlain == AtOutput({"number"}) /\ Pop(x, slot[x])

\* A null ID and a null char* become undef, a null PRUnichar* an empty string, a
\* null interface an object that wraps nothing.
NullResult(o) == P(o).kind \in {"iid", "char_str"} /\ slot[o].mem = "none"

Result(o) == IF NullResult(o) THEN None ELSE o

\* The object that wraps the ID owns it.
PopIID ==
  AtOutput({"iid"})
    /\ Pop(Result(x), [slot[x] EXCEPT !.mem = IF @ = "live" THEN "theirs" ELSE @])

\* Mutant: the string is not freed.
PopStringOnly ==
  AtOutput(Filled \cup {"char_str", "wchar_str"}) /\ Pop(Result(x), slot[x])

PopString ==
  AtOutput(Filled \cup {"char_str", "wchar_str"})
    /\ Pop(Result(x), IF P(x).kind \in Filled THEN DeleteSlot(slot[x]) ELSE FreeSlot(slot[x]))

PopInterface ==
  /\ AtOutput({"interface"})
  /\ Pop(x, FreeSlot(slot[x])) \/ PopFails("NO_INTERFACE")

\* The slot has no ID to return the object with.
NullIID(i) == IF TakesArgument(i) THEN slot[i].by = "null" ELSE slot[i].mem = "none"

PopInterfaceIs ==
  /\ AtOutput({"interface_is"})
  /\ IF P(P(x).arg).kind = "iid" /\ ~NullIID(P(x).arg)
     THEN Pop(x, FreeSlot(slot[x]))
     ELSE PopFails("NO_INTERFACE")

\* Whether ConvertArrayToSV failed is not looked at: its null is returned.
PopArray ==
  /\ AtOutput({"array"}) /\ P(x).arg # 0
  /\ \E v \in {x, Missing} : Pop(v, FreeSlot(slot[x]))

PopArrayFails ==
  /\ AtOutput({"array"}) /\ P(x).arg = 0
  /\ Fail("FAILURE")
  /\ UNCHANGED slot

SkipInput ==
  /\ AtParam("outputs") /\ ~GivesValue(x)
  /\ x' = x + 1
  /\ UNCHANGED <<pc, call, slot, held, argObj, kept, rc, ret>>

\* Mutant: arrays are forgotten.
CleanedStrings(i) ==
  CASE P(i).kind = "domstring" -> DeleteSlot(slot[i])
    [] P(i).kind \in {"wchar_str", "sized_wstr"} -> FreeSlot(slot[i])
    [] OTHER -> slot[i]

\* Mutant: strings that belong to Perl variables are freed too.
CleanedAll(i) ==
  CASE P(i).kind = "domstring" -> DeleteSlot(slot[i])
    [] P(i).kind \in {"wchar_str", "sized_wstr", "array", "char_str"} -> FreeSlot(slot[i])
    [] OTHER -> slot[i]

\* The slot of an input after the final loop.
Cleaned(i) ==
  CASE P(i).kind = "domstring" -> DeleteSlot(slot[i])
    [] P(i).kind \in {"wchar_str", "sized_wstr", "array"} -> FreeSlot(slot[i])
    [] OTHER -> slot[i]

\* Only a call without outputs comes here.
Cleanup ==
  /\ pc = "cleanup"
  /\ slot' = [i \in Index |-> IF i \in Inputs THEN Cleaned(i) ELSE slot[i]]
  /\ pc' = "done" /\ Release
  /\ UNCHANGED <<call, x, kept, rc, ret>>

\* The process has crashed, or writes where it should not.
Lost == pc = "lost" /\ UNCHANGED vars

Next ==
  \/ Call
  \/ LookupFails \/ Constant \/ NoMethodInfo \/ Found
  \/ WrongCount \/ RightCount
  \/ PlainInput \/ CopiedInput \/ IIDInput \/ InterfaceInput
  \/ ArrayInput \/ ArrayInputFails \/ UnsupportedInput
  \/ OutputSlot \/ NoMemory \/ UnsupportedOutput
  \/ SlotsFilled
  \/ ScriptChanges \/ WildWrite \/ MethodFails \/ MethodSucceeds
  \/ PopPlain \/ PopIID \/ PopString \/ PopInterface \/ PopInterfaceIs
  \/ PopArray \/ PopArrayFails \/ SkipInput
  \/ Cleanup
  \/ Lost

Spec == Init /\ [][Next]_vars

-----------------------------------------------------------------------------
(* Properties. *)

Failed == rc \notin {"old", "OK"}

Declared(dirs) == {i \in Index : P(i).dir \in dirs}

\* The native method gets each argument that the script gave, in the script's
\* order, at its input parameters, and every length is one of these arguments.
ArgumentsMatch ==
  pc \in {"native", "outputs", "cleanup"} =>
    LET ins == Declared({"in", "inout"})
    IN  /\ iCount = Cardinality(ins)
        /\ \A i \in ins :
             /\ slot[i].from = Cardinality({j \in ins : j < i})
             /\ slot[i].size # None => slot[i].size \in 0..(iCount - 1)

\* This is so for signatures with all inputs first and no in/out parameter or
\* output string before the result.  The code tells arguments by the position of
\* the parameter, and counts as inputs the parameters that are not outputs.
LeadingInputsMatch ==
  (/\ \A i \in Declared({"in"}), o \in Outputs : i < o
   /\ Outputs = Declared({"out", "retval"}) /\ Declared({"inout"}) = {}) =>
    ArgumentsMatch

\* Each of the exits drops the references to the object, the interface manager,
\* the interface and the last argument object.  (The interface descriptions that
\* were looked up for an ID are another matter: see QuietCallsCleanUp.)
ReferencesDropped == pc = "done" => held = {} /\ argObj = None

\* Memory is freed at most once, and only what the call owns: an argument that
\* points into a Perl variable, or an ID that Perl has taken over, is not.
FreedOnce == \A i \in DOMAIN slot : slot[i].mem # "broken"

\* A call that got as far as choosing a method returns undef exactly if
\* $Components::returnCode tells of a failure, also when results are half done,
\* or if its only result is a null ID or a null char*, under NS_OK.
FailureIsTold ==
  pc = "done" =>
    \/ ret = Undef <=> (Failed \/ (oCount = 1 /\ \E o \in Outputs : NullResult(o)))
    \/ rc = "old" /\ params = <<>>

\* A call that succeeds returns its outputs in the order of the signature, with
\* undef for a null ID or char* and for these only.  An array can be missing.
\* Of the memory of its outputs it leaves behind the characters of those that are
\* string objects, and nothing else.
ResultsInOrder ==
  pc = "done" /\ rc = "OK" =>
    /\ Len(ret) = oCount
    /\ \A o \in Outputs :
         LET k == Cardinality({j \in Outputs : j <= o})
         IN  ret[k] = Result(o) \/ (ret[k] = Missing /\ P(o).kind = "array")
    /\ \A o \in Outputs :
         slot[o].mem # "live" /\ (slot[o].mem = "buffer" <=> P(o).kind \in Filled)

\* What a call that is over has left behind for input i.
LeftBehind(i) == slot[i].mem \in {"live", "buffer"} \/ slot[i].tiface

\* A call that succeeds and has no outputs frees all that its inputs took but the
\* characters of its DOMSTRINGs, and drops all references but those to the
\* descriptions of interfaces given by the text of their ID.
QuietCallsCleanUp ==
  pc = "done" /\ rc = "OK" /\ oCount = 0 =>
    \A i \in Index :
      LeftBehind(i) <=> P(i).kind = "domstring" \/ slot[i].by = "id"

\* An object passed to the native method stays alive during the call: a Perl
\* variable still holds it, or the function does.
ObjectsLive ==
  pc = "native" =>
    \A i \in Inputs :
      P(i).kind \in Interfaces /\ slot[i].by = "value" => i \in kept \/ argObj = i

=============================================================================
