--------------------------- MODULE StubCallProofs ---------------------------
(***************************************************************************)
(* Proofs about StubCall, for signatures of any length and any number of   *)
(* returned values.  The invariant says what Perl values the first loop    *)
(* has made and the second has given up, and what the caller's variables   *)
(* and the slots of the outputs hold.  What the second loop does rests on  *)
(* its counters agreeing with the slots that the first loop gave out,      *)
(* which they do only without in/out parameters.                           *)
(***************************************************************************)
EXTENDS StubCall, SequenceTheorems, FiniteSetTheorems, TLAPS

-----------------------------------------------------------------------------
(* The invariant. *)

NoInOut == \A i \in Index : P(i).dir # "inout"

PointsReached ==
  /\ pc = "idle" => params = <<>>
  /\ pc \in {"split", "method", "copy"} => rv = "none" /\ params \in Signature
  /\ pc = "split" =>
       \A i \in Index : i < x /\ P(i).kind = "array" => P(i).dir # "inout"
  /\ pc = "method" => x = 0
  /\ pc \in {"method", "copy"} =>
       \A i \in Index : P(i).kind = "array" => P(i).dir # "inout"

Element == Own(Inc(NewMortal))

\* What the first loop makes for parameter i.
MadeFor(i) ==
  IF IsInput(i) /\ P(i).kind = "interface" THEN {Nothing, Wrapper}
  ELSE IF IsInput(i) /\ P(i).kind = "array" THEN {Array(Element), Array(NoScalar)}
  ELSE {Nothing}

\* What the second loop makes of that.
GivenUpWrapper == [Nothing EXCEPT !.sv = Mortal(NewMortal)]
GivenUpArray(e) ==
  [sv |-> NewMortal, av |-> Mortal(Own(Inc(NewScalar))), elem |-> e]

GivenUpFor(i) ==
  IF IsInput(i) /\ P(i).kind = "interface" THEN {Nothing, GivenUpWrapper}
  ELSE IF IsInput(i) /\ P(i).kind = "array"
  THEN {GivenUpArray(Dec(Element)), GivenUpArray(NoScalar)}
  ELSE {Nothing}

MadeRight ==
  /\ pc = "split" =>
       \A i \in Index : IF i < x THEN made[i] \in MadeFor(i) ELSE made[i] = Nothing
  /\ pc = "method" => \A i \in Index : made[i] \in MadeFor(i)
  /\ pc = "copy" /\ NoInOut =>
       \A i \in Index : made[i] \in IF i < x THEN GivenUpFor(i) ELSE MadeFor(i)
  /\ ReleasedTwice /\ FailuresOnlyLeak

\* The second loop has copied output i, or need not.
Arrived(i) ==
  /\ P(i).kind \in Direct \ {"char_str", "cstring"}
       \/ (P(i).kind = "number" /\ ~InOutBefore(i) /\ i < x) => var[i] = Slot(i)
  /\ P(i).kind = "char_str" => var[i] = Unended

VariablesRight ==
  /\ pc \in {"split", "method"} => \A i \in Index : var[i] = Untouched
  /\ pc = "copy" =>
       /\ \A i \in Index : P(i).kind = "number" /\ i >= x => var[i] = Untouched
       /\ EnoughReturned => \A i \in Outputs : Arrived(i)
       /\ returned > 0 =>
            \A k \in 0 .. (outtot - 1) :
              P(OutParam(k)).kind = "number" => out[k] = Value(k, returned)
  /\ ResultsReachCaller /\ FailuresKeepNumbers /\ SupportedCallsAreSafe

IInv == TypeOK /\ PointsReached /\ MadeRight /\ VariablesRight

-----------------------------------------------------------------------------
(* Signatures and counters. *)

LEMMA SignatureTypes == Signature \subseteq Seq(Param)
BY SeqDef DEF Signature, SeqOf

LEMMA Lengths ==
  ASSUME TypeOK
  PROVE  /\ pCount \in Nat /\ Index = 0 .. (pCount - 1) /\ IsFiniteSet(Index)
         /\ Inputs \subseteq Index /\ Outputs = Index \ Inputs
         /\ IsFiniteSet(Inputs) /\ IsFiniteSet(Outputs)
         /\ intot \in Nat /\ outtot \in Nat
<1>1. pCount \in Nat BY LenProperties DEF TypeOK, pCount
<1>2. Index = 0 .. (pCount - 1) BY DEF Index
<1>3. IsFiniteSet(Index) BY <1>1, <1>2, FS_Interval
<1>4. Inputs \subseteq Index /\ Outputs = Index \ Inputs BY DEF Inputs, Outputs
<1>5. IsFiniteSet(Inputs) /\ IsFiniteSet(Outputs) BY <1>3, <1>4, FS_Subset
<1>6. intot \in Nat /\ outtot \in Nat
  BY <1>5, FS_CardinalityType DEF intot, outtot
<1>. QED BY <1>1, <1>2, <1>3, <1>4, <1>5, <1>6

LEMMA Fields ==
  ASSUME TypeOK, NEW i \in Index
  PROVE  P(i).dir \in {"in", "out", "inout", "retval"} /\ P(i).kind \in Kinds
<1>1. i + 1 \in 1 .. Len(params) BY Lengths DEF Index, pCount
<1>2. params[i + 1] \in Param BY <1>1, ElementOfSeq DEF TypeOK
<1>. QED BY <1>2, StubCallAssumption DEF P, Param

LEMMA SameSignature ==
  ASSUME UNCHANGED params
  PROVE  /\ pCount' = pCount /\ Index' = Index
         /\ Inputs' = Inputs /\ Outputs' = Outputs /\ outtot' = outtot
         /\ \A i : P(i)' = P(i) /\ IsInput(i)' = IsInput(i)
         /\ \A i : Slot(i)' = Slot(i) /\ InOutBefore(i)' = InOutBefore(i)
         /\ \A i : MadeFor(i)' = MadeFor(i) /\ GivenUpFor(i)' = GivenUpFor(i)
         /\ \A k : OutParam(k)' = OutParam(k)
         /\ NoInOut' = NoInOut /\ Supported' = Supported /\ Signature' = Signature
<1>1. pCount' = pCount BY DEF pCount
<1>2. Index' = Index BY <1>1 DEF Index
<1>3. \A i : P(i)' = P(i) BY DEF P
<1>4. \A i : IsInput(i)' = IsInput(i) BY <1>3 DEF IsInput, IsIn, IsRetval
<1>5. Inputs' = Inputs /\ Outputs' = Outputs BY <1>2, <1>4 DEF Inputs, Outputs
<1>6. outtot' = outtot BY <1>5 DEF outtot
<1>7. \A i : Slot(i)' = Slot(i) BY <1>4, <1>5 DEF Slot
<1>8. \A i : InOutBefore(i)' = InOutBefore(i) BY <1>2, <1>3 DEF InOutBefore
<1>9. \A i : MadeFor(i)' = MadeFor(i) BY <1>3, <1>4 DEF MadeFor
<1>10. \A i : GivenUpFor(i)' = GivenUpFor(i) BY <1>3, <1>4 DEF GivenUpFor
<1>11. \A k : OutParam(k)' = OutParam(k) BY <1>5, <1>7 DEF OutParam
<1>12. NoInOut' = NoInOut BY <1>2, <1>3 DEF NoInOut
<1>13. Supported' = Supported BY <1>2, <1>3 DEF Supported
<1>. QED
  BY <1>1, <1>2, <1>3, <1>4, <1>5, <1>6, <1>7, <1>8, <1>9, <1>10, <1>11, <1>12, <1>13
  DEF Signature

\* The number of elements below i grows when i is one of them.
Below(S, i) == {k \in S : k < i}

LEMMA CountBelow ==
  ASSUME NEW S \in SUBSET Nat, IsFiniteSet(S), NEW i \in S, NEW j \in Nat, i < j
  PROVE  /\ Cardinality(Below(S, i)) \in Nat /\ Cardinality(Below(S, j)) \in Nat
         /\ Cardinality(Below(S, i)) < Cardinality(Below(S, j))
         /\ Cardinality(Below(S, i)) < Cardinality(S)
<1>. DEFINE A == Below(S, i)
            B == Below(S, j)
<1>1. A \subseteq S /\ B \subseteq S BY DEF Below
<1>2. \A k \in S : k \in Nat /\ (k < i => k < j) OBVIOUS
<1>3. A \cup {i} \subseteq B BY <1>2 DEF Below
<1>4. i \notin A BY <1>2 DEF Below
<1>5. A \cup {i} \subseteq S BY <1>1
<1>. HIDE DEF A, B
<1>6. IsFiniteSet(A) /\ IsFiniteSet(B) /\ Cardinality(A) \in Nat /\ Cardinality(B) \in Nat
  BY <1>1, FS_Subset, FS_CardinalityType
<1>7. Cardinality(A \cup {i}) = Cardinality(A) + 1 BY <1>4, <1>6, FS_AddElement
<1>8. Cardinality(A \cup {i}) <= Cardinality(B) BY <1>3, <1>6, FS_Subset
<1>9. Cardinality(A \cup {i}) <= Cardinality(S) /\ Cardinality(S) \in Nat
  BY <1>5, FS_Subset, FS_CardinalityType
<1>10. Cardinality(A) < Cardinality(B) BY <1>6, <1>7, <1>8
<1>11. Cardinality(A) < Cardinality(S) BY <1>6, <1>7, <1>9
<1>. QED BY <1>6, <1>10, <1>11 DEF A, B

\* No two inputs, and no two outputs, share a slot.
LEMMA SlotsDiffer ==
  ASSUME TypeOK, NEW i \in Index
  PROVE  /\ Slot(i) \in Nat
         /\ i \in Outputs => Slot(i) < outtot
         /\ \A j \in Index :
              (i \in Inputs <=> j \in Inputs) /\ Slot(i) = Slot(j) => i = j
<1>0. /\ Inputs \in SUBSET Nat /\ Outputs \in SUBSET Nat
      /\ IsFiniteSet(Inputs) /\ IsFiniteSet(Outputs)
      /\ \A j \in Index : j \in Nat /\ j + 1 \in Nat /\ j < j + 1
      /\ \A j \in Index : j \in Inputs <=> IsInput(j)
      /\ \A j \in Index : j \in Outputs <=> ~IsInput(j)
  BY Lengths DEF Index, Inputs, Outputs
<1>s. /\ \A j \in Inputs : Slot(j) = Cardinality(Below(Inputs, j))
      /\ \A j \in Outputs : Slot(j) = Cardinality(Below(Outputs, j))
  BY DEF Slot, Below, Inputs, Outputs
<1>1. ASSUME NEW j \in Inputs, NEW k \in Inputs, j < k PROVE Slot(j) # Slot(k)
  <2>1. j \in Nat /\ k \in Nat BY <1>0
  <2>2. /\ Cardinality(Below(Inputs, j)) < Cardinality(Below(Inputs, k))
        /\ Cardinality(Below(Inputs, j)) \in Nat /\ Cardinality(Below(Inputs, k)) \in Nat
    BY <2>1, <1>0, <1>1, CountBelow
  <2>. QED BY <2>2, <1>s
<1>2. ASSUME NEW j \in Outputs, NEW k \in Outputs, j < k PROVE Slot(j) # Slot(k)
  <2>1. j \in Nat /\ k \in Nat BY <1>0
  <2>2. /\ Cardinality(Below(Outputs, j)) < Cardinality(Below(Outputs, k))
        /\ Cardinality(Below(Outputs, j)) \in Nat /\ Cardinality(Below(Outputs, k)) \in Nat
    BY <2>1, <1>0, <1>2, CountBelow
  <2>. QED BY <2>2, <1>s
<1>3. CASE i \in Inputs
  <2>1. Slot(i) \in Nat BY <1>s, <1>0, <1>3, CountBelow
  <2>. QED BY <2>1, <1>0, <1>1, <1>3
<1>4. CASE i \in Outputs
  <2>1. Slot(i) \in Nat /\ Slot(i) < outtot
    BY <1>s, <1>0, <1>4, CountBelow DEF outtot
  <2>. QED BY <2>1, <1>0, <1>2, <1>4
<1>. QED BY <1>3, <1>4, <1>0

\* The parameter of a slot is found again.
LEMMA SlotFound ==
  ASSUME TypeOK, NEW i \in Outputs
  PROVE  OutParam(Slot(i)) = i
<1>1. i \in Index /\ \A j \in Outputs : j \in Index /\ j \notin Inputs BY DEF Outputs
<1>2. \A j \in Outputs : Slot(j) = Slot(i) => j = i BY <1>1, SlotsDiffer
<1>. QED BY <1>2 DEF OutParam

\* The result comes last.
LEMMA ResultIsLast ==
  ASSUME TypeOK, params \in Signature, NEW i \in Index, P(i).dir = "retval"
  PROVE  \A j \in Index : j <= i
<1>1. pCount \in Nat /\ Index = 0 .. (pCount - 1) BY Lengths
<1>2. i + 1 \in DOMAIN params
  BY <1>1, LenProperties DEF TypeOK, pCount
<1>3. i + 1 = Len(params) BY <1>2 DEF Signature, P
<1>. QED BY <1>1, <1>3 DEF pCount

\* Without in/out parameters the second loop gives up the values of the input it
\* has come to.
LEMMA ReleasesItsOwn ==
  ASSUME TypeOK, params \in Signature, NoInOut, x \in Index, ~IsOut(x),
         P(x).kind \in {"interface", "array"}
  PROVE  x \in Inputs /\ Released = x
<1>1. \A i \in Index : P(i).dir \in {"in", "out", "retval"}
  BY Fields DEF NoInOut
<1>2. \A i \in Index : IsInput(i) => ~IsOut(i)
  BY <1>1 DEF IsInput, IsIn, IsOut, IsRetval
<1>3. P(x).dir = "in" BY <1>1 DEF IsOut, StringObjects
<1>4. x \in Inputs BY <1>3 DEF Inputs, IsInput, IsIn, IsRetval
<1>5. \A j \in Index : j < x => P(j).dir # "retval"
  BY ResultIsLast, Lengths DEF Index
<1>6. \A j \in Index : j < x => (~IsOut(j) <=> IsInput(j))
  BY <1>1, <1>5 DEF IsInput, IsIn, IsOut, IsRetval
<1>7. {j \in Index : j < x /\ ~IsOut(j)} = {j \in Inputs : j < x}
  BY <1>6 DEF Inputs
<1>8. Slot(x) = z(x) BY <1>4, <1>7 DEF Slot, z, Inputs
<1>9. \A i \in Inputs : Slot(i) = Slot(x) => i = x BY <1>4, SlotsDiffer DEF Inputs
<1>. QED BY <1>4, <1>8, <1>9 DEF Released

\* An output that no in/out parameter comes before is taken from its own slot.
LEMMA CopiesItsOwn ==
  ASSUME TypeOK, params \in Signature, x \in Outputs, ~InOutBefore(x)
  PROVE  y(x) = Slot(x)
<1>0. x \in Index BY DEF Outputs
<1>1. \A j \in Index : j < x => P(j).dir \in {"in", "out"}
  BY <1>0, Fields, ResultIsLast, Lengths DEF InOutBefore, Index
<1>2. \A j \in Index : j < x => (IsOut(j) <=> ~IsInput(j))
  BY <1>1 DEF IsInput, IsIn, IsOut, IsRetval
<1>3. {j \in Index : j < x /\ IsOut(j)} = {j \in Outputs : j < x}
  BY <1>2 DEF Inputs, Outputs
<1>. QED BY <1>0, <1>3 DEF Slot, y, Inputs, Outputs

-----------------------------------------------------------------------------
(* Perl values. *)

LEMMA Scalars ==
  /\ NoScalar = [refs |-> 0, owners |-> 0] /\ NewScalar = [refs |-> 1, owners |-> 0]
  /\ NewMortal = [refs |-> 1, owners |-> 1]
  /\ Mortal(NewMortal) = [refs |-> 1, owners |-> 2]
  /\ Own(Inc(NewScalar)) = [refs |-> 2, owners |-> 1]
  /\ Mortal(Own(Inc(NewScalar))) = [refs |-> 2, owners |-> 2]
  /\ Element = [refs |-> 2, owners |-> 2]
  /\ Dec(Element) = [refs |-> 1, owners |-> 2]
<1>1. NewMortal = [refs |-> 1, owners |-> 1] BY DEF NewMortal, Mortal, Own, NewScalar
<1>2. Inc(NewScalar) = [refs |-> 2, owners |-> 0] BY DEF Inc, NewScalar
<1>3. Own(Inc(NewScalar)) = [refs |-> 2, owners |-> 1] BY <1>2 DEF Own
<1>4. Inc(NewMortal) = [refs |-> 2, owners |-> 1] BY <1>1 DEF Inc
<1>5. Element = [refs |-> 2, owners |-> 2] BY <1>4 DEF Element, Own
<1>6. Dec(Element) = [refs |-> 1, owners |-> 2] BY <1>5 DEF Dec
<1>7. Mortal(NewMortal) = [refs |-> 1, owners |-> 2] BY <1>1 DEF Mortal, Own
<1>8. Mortal(Own(Inc(NewScalar))) = [refs |-> 2, owners |-> 2]
  <2>. DEFINE s == Own(Inc(NewScalar))
  <2>1. s = [refs |-> 2, owners |-> 1] BY <1>3
  <2>. HIDE DEF s
  <2>2. Mortal(s) = [refs |-> 2, owners |-> 2] BY <2>1 DEF Mortal, Own
  <2>. QED BY <2>2 DEF s
<1>. QED BY <1>1, <1>3, <1>5, <1>6, <1>7, <1>8 DEF NoScalar, NewScalar

\* A value of the first loop: the mortals have their owner, an array has one too
\* few.
Fresh(v) ==
  /\ v \in Values
  /\ Balanced(v.sv) /\ Balanced(v.elem)
  /\ (Leaked(v.av) <=> v.av # NoScalar) /\ ~OverReleased(v.av)

\* A value that the second loop is through with.
Spent(v, kind) ==
  /\ v \in Values
  /\ OverReleased(v.sv) <=> kind = "interface" /\ v.sv # NoScalar
  /\ OverReleased(v.elem) <=> v.elem # NoScalar
  /\ ~OverReleased(v.av)

LEMMA ScalarTypes ==
  /\ NoScalar \in Scalar /\ NewScalar \in Scalar /\ NewMortal \in Scalar
  /\ Mortal(NewMortal) \in Scalar /\ Own(Inc(NewScalar)) \in Scalar
  /\ Mortal(Own(Inc(NewScalar))) \in Scalar
  /\ Element \in Scalar /\ Dec(Element) \in Scalar
BY Scalars DEF Scalar

LEMMA NothingFresh ==
  Fresh(Nothing) /\ Nothing \in Values
    /\ \A kind : Spent(Nothing, kind)
<1>1. Nothing \in Values /\ Nothing.sv = NoScalar /\ Nothing.av = NoScalar /\ Nothing.elem = NoScalar
  BY ScalarTypes DEF Nothing, Values
<1>. QED BY <1>1, Scalars DEF Fresh, Spent, Balanced, Leaked, OverReleased

LEMMA WrapperFresh == Fresh(Wrapper) /\ Spent(GivenUpWrapper, "interface")
<1>1. /\ Wrapper \in Values /\ Wrapper.sv = NewMortal
      /\ Wrapper.av = NoScalar /\ Wrapper.elem = NoScalar
  BY ScalarTypes DEF Wrapper, Nothing, Values
<1>2. /\ GivenUpWrapper \in Values /\ GivenUpWrapper.sv = Mortal(NewMortal)
      /\ GivenUpWrapper.av = NoScalar /\ GivenUpWrapper.elem = NoScalar
  BY ScalarTypes DEF GivenUpWrapper, Nothing, Values
<1>. QED BY <1>1, <1>2, Scalars DEF Fresh, Spent, Balanced, Leaked, OverReleased

LEMMA ArrayFresh ==
  /\ \A e \in {Element, NoScalar} : Fresh(Array(e))
  /\ \A e \in {Dec(Element), NoScalar} : Spent(GivenUpArray(e), "array")
<1>1. ASSUME NEW e \in {Element, NoScalar} PROVE Fresh(Array(e))
  <2>1. /\ Array(e) \in Values /\ Array(e).sv = NewMortal
        /\ Array(e).av = Own(Inc(NewScalar)) /\ Array(e).elem = e
    BY ScalarTypes DEF Array, Values
  <2>2. Balanced(e) BY Scalars DEF Balanced
  <2>. QED BY <2>1, <2>2, Scalars DEF Fresh, Balanced, Leaked, OverReleased
<1>2. ASSUME NEW e \in {Dec(Element), NoScalar} PROVE Spent(GivenUpArray(e), "array")
  <2>1. /\ GivenUpArray(e) \in Values /\ GivenUpArray(e).sv = NewMortal
        /\ GivenUpArray(e).av = Mortal(Own(Inc(NewScalar))) /\ GivenUpArray(e).elem = e
    BY ScalarTypes DEF GivenUpArray, Values
  <2>2. OverReleased(e) <=> e # NoScalar BY Scalars DEF OverReleased
  <2>. QED BY <2>1, <2>2, Scalars DEF Spent, OverReleased
<1>. QED BY <1>1, <1>2

LEMMA MadeFresh ==
  ASSUME NEW i PROVE \A v \in MadeFor(i) : Fresh(v)
BY NothingFresh, WrapperFresh, ArrayFresh DEF MadeFor

LEMMA GivenUpSpent ==
  ASSUME NEW i PROVE \A v \in GivenUpFor(i) : Spent(v, P(i).kind)
BY NothingFresh, WrapperFresh, ArrayFresh DEF GivenUpFor

\* An array that could not be filled.
LEMMA UnfilledArray ==
  ASSUME NEW v, v = [Nothing EXCEPT !.av = NewScalar] PROVE Fresh(v)
<1>1. v \in Values /\ v.sv = NoScalar /\ v.av = NewScalar /\ v.elem = NoScalar
  BY ScalarTypes DEF Nothing, Values
<1>. QED BY <1>1, Scalars DEF Fresh, Balanced, Leaked, OverReleased

-----------------------------------------------------------------------------
(* Kinds of step. *)

\* The first loop goes on.
LEMMA SplitKeeps ==
  ASSUME IInv, pc = "split", x < pCount, Goes, UNCHANGED <<params, returned, out, var>>,
         P(x).kind = "array" => P(x).dir # "inout",
         made' \in [Index -> Values], made'[x] \in MadeFor(x),
         \A i \in Index : i # x => made'[i] = made[i]
  PROVE  IInv'
<1>0. pc' = "split" /\ x' = x + 1 /\ rv' = rv BY DEF Goes
<1>s. /\ pCount' = pCount /\ Index' = Index /\ outtot' = outtot /\ Signature' = Signature
      /\ \A i : P(i)' = P(i) /\ MadeFor(i)' = MadeFor(i)
  BY SameSignature
<1>1. x \in Nat /\ pCount \in Nat /\ x \in Index /\ \A i \in Index : i < x + 1 <=> (i < x \/ i = x)
  BY Lengths DEF IInv, TypeOK, Index
<1>2. TypeOK' BY <1>0, <1>1, <1>s DEF IInv, TypeOK
<1>3. PointsReached' BY <1>0, <1>1, <1>s DEF IInv, PointsReached
<1>4. \A i \in Index : IF i < x THEN made[i] \in MadeFor(i) ELSE made[i] = Nothing
  BY DEF IInv, MadeRight
<1>5. \A i \in Index : IF i < x + 1 THEN made'[i] \in MadeFor(i) ELSE made'[i] = Nothing
  BY <1>1, <1>4
<1>6. MadeRight' BY <1>0, <1>5, <1>s DEF MadeRight, ReleasedTwice, FailuresOnlyLeak
<1>7. VariablesRight'
  BY <1>0, <1>s DEF IInv, VariablesRight, ResultsReachCaller, FailuresKeepNumbers,
    SupportedCallsAreSafe
<1>. QED BY <1>2, <1>3, <1>6, <1>7 DEF IInv

\* So does the second.
LEMMA CopyKeeps ==
  ASSUME IInv, pc = "copy", x < pCount, Goes, UNCHANGED <<params, returned, out>>,
         made' \in [Index -> Values], var' \in [Index -> Content],
         NoInOut => /\ made'[x] \in GivenUpFor(x)
                    /\ \A i \in Index : i # x => made'[i] = made[i],
         \A i \in Index : i # x => var'[i] = var[i],
         P(x).kind # "number" => var'[x] = var[x],
         x \in Outputs /\ P(x).kind = "number" /\ ~InOutBefore(x) /\ EnoughReturned =>
           var'[x] = Slot(x)
  PROVE  IInv'
<1>0. pc' = "copy" /\ x' = x + 1 /\ rv' = rv BY DEF Goes
<1>s. /\ pCount' = pCount /\ Index' = Index /\ outtot' = outtot /\ Signature' = Signature
      /\ Outputs' = Outputs /\ NoInOut' = NoInOut /\ EnoughReturned' = EnoughReturned
      /\ \A i : P(i)' = P(i) /\ Slot(i)' = Slot(i) /\ InOutBefore(i)' = InOutBefore(i)
      /\ \A i : MadeFor(i)' = MadeFor(i) /\ GivenUpFor(i)' = GivenUpFor(i)
      /\ \A k : OutParam(k)' = OutParam(k)
  BY SameSignature DEF EnoughReturned
<1>1. /\ x \in Nat /\ pCount \in Nat /\ x \in Index
      /\ \A i \in Index : i < x + 1 <=> (i < x \/ i = x)
      /\ \A i \in Index : i >= x + 1 => (i >= x /\ i # x)
  BY Lengths DEF IInv, TypeOK, Index
<1>2. TypeOK' BY <1>0, <1>1, <1>s DEF IInv, TypeOK
<1>3. PointsReached' BY <1>0, <1>s DEF IInv, PointsReached
<1>4. MadeRight'
  <2>1. ASSUME NoInOut
        PROVE  \A i \in Index : made'[i] \in IF i < x + 1 THEN GivenUpFor(i) ELSE MadeFor(i)
    <3>1. \A i \in Index : made[i] \in IF i < x THEN GivenUpFor(i) ELSE MadeFor(i)
      BY <2>1 DEF IInv, MadeRight
    <3>. QED BY <3>1, <2>1, <1>1
  <2>. QED BY <2>1, <1>0, <1>s DEF MadeRight, ReleasedTwice, FailuresOnlyLeak
<1>5. VariablesRight'
  <2>1. \A i \in Index : P(i).kind = "number" /\ i >= x + 1 => var'[i] = Untouched
    BY <1>1 DEF IInv, VariablesRight
  <2>2. ASSUME EnoughReturned, NEW i \in Outputs PROVE Arrived(i)'
    <3>1. Arrived(i) /\ i \in Index BY <2>2 DEF IInv, VariablesRight, Outputs
    <3>2. CASE i # x BY <3>1, <3>2, <1>0, <1>1, <1>s DEF Arrived
    <3>3. CASE i = x
      <4>1. "number" \notin Direct BY DEF Direct
      <4>. QED BY <4>1, <3>1, <3>3, <2>2, <1>s DEF Arrived
    <3>. QED BY <3>2, <3>3
  <2>3. \A k : Value(k, returned)' = Value(k, returned) BY DEF Value
  <2>4. returned > 0 =>
          \A k \in 0 .. (outtot - 1) :
            P(OutParam(k)).kind = "number" => out[k] = Value(k, returned)
    BY DEF IInv, VariablesRight
  <2>5. (returned > 0 =>
          \A k \in 0 .. (outtot - 1) :
            P(OutParam(k)).kind = "number" => out[k] = Value(k, returned))'
    BY <2>3, <2>4, <1>s
  <2>. QED BY <2>1, <2>2, <2>5, <1>0, <1>s
    DEF VariablesRight, ResultsReachCaller, FailuresKeepNumbers, SupportedCallsAreSafe
<1>. QED BY <1>2, <1>3, <1>4, <1>5 DEF IInv

LEMMA FailKeeps ==
  ASSUME IInv, Return("FAILED"), UNCHANGED params,
         TypeOK', ReleasedTwice', FailuresOnlyLeak', FailuresKeepNumbers'
  PROVE  IInv'
<1>0. pc' = "done" /\ rv' = "FAILED" BY DEF Return
<1>1. PointsReached' BY <1>0 DEF PointsReached
<1>2. MadeRight' BY <1>0 DEF MadeRight
<1>3. VariablesRight'
  BY <1>0 DEF VariablesRight, ResultsReachCaller, SupportedCallsAreSafe
<1>. QED BY <1>1, <1>2, <1>3 DEF IInv

LEMMA LostKeeps ==
  ASSUME IInv, pc' = "lost", UNCHANGED <<params, x, made, out, var, rv>>,
         returned' \in Nat, ~Supported \/ returned' < outtot
  PROVE  IInv'
<1>s. /\ pCount' = pCount /\ Index' = Index /\ outtot' = outtot
      /\ Supported' = Supported
  BY SameSignature
<1>1. TypeOK' BY <1>s DEF IInv, TypeOK, Points
<1>2. PointsReached' BY DEF PointsReached
<1>3. MadeRight' BY DEF MadeRight, ReleasedTwice, FailuresOnlyLeak
<1>4. SupportedCallsAreSafe'
  BY <1>s, Lengths DEF SupportedCallsAreSafe, EnoughReturned, IInv
<1>5. VariablesRight'
  BY <1>4 DEF VariablesRight, ResultsReachCaller, FailuresKeepNumbers
<1>. QED BY <1>1, <1>2, <1>3, <1>5 DEF IInv

-----------------------------------------------------------------------------
(* The first loop. *)

LEMMA InitRight == Init => IInv
<1>. SUFFICES ASSUME Init PROVE IInv OBVIOUS
<1>. USE DEF Init
<1>1. pCount = 0 BY DEF pCount
<1>2. Index = {} BY <1>1 DEF Index
<1>3. Outputs = {} /\ outtot = 0 BY <1>2, FS_EmptySet DEF Outputs, outtot
<1>4. TypeOK
  <2>1. params \in Seq(Param) BY EmptySeq
  <2>. QED BY <1>1, <1>2, <1>3, <2>1 DEF TypeOK, Points
<1>5. PointsReached BY DEF PointsReached
<1>6. MadeRight BY DEF MadeRight, ReleasedTwice, FailuresOnlyLeak
<1>7. VariablesRight
  BY DEF VariablesRight, ResultsReachCaller, FailuresKeepNumbers, SupportedCallsAreSafe
<1>. QED BY <1>4, <1>5, <1>6, <1>7 DEF IInv

LEMMA FrameGoneKeeps == IInv /\ FrameGone => IInv'
<1>. SUFFICES ASSUME FrameGone PROVE IInv' OBVIOUS
<1>. USE DEF FrameGone
<1>1. pCount' = 0 BY DEF pCount
<1>2. Index' = {} BY <1>1 DEF Index
<1>3. Outputs' = {} /\ outtot' = 0 BY <1>2, FS_EmptySet DEF Outputs, outtot
<1>4. TypeOK'
  <2>1. params' \in Seq(Param) BY EmptySeq
  <2>. QED BY <1>1, <1>2, <1>3, <2>1 DEF TypeOK, Points
<1>5. PointsReached' BY DEF PointsReached
<1>6. MadeRight' BY DEF MadeRight, ReleasedTwice, FailuresOnlyLeak
<1>7. VariablesRight'
  BY DEF VariablesRight, ResultsReachCaller, FailuresKeepNumbers, SupportedCallsAreSafe
<1>. QED BY <1>4, <1>5, <1>6, <1>7 DEF IInv

LEMMA CallMethodKeeps == IInv /\ CallMethod => IInv'
<1>. SUFFICES ASSUME CallMethod PROVE IInv' OBVIOUS
<1>. USE DEF CallMethod
<1>1. params' \in Seq(Param) /\ params' \in Signature' BY SignatureTypes DEF Signature
<1>2. pCount' \in Nat BY <1>1, LenProperties DEF pCount
<1>3. \A i \in Index' : ~(i < x') BY <1>2 DEF Index
<1>4. TypeOK' BY <1>1, <1>2, NothingFresh DEF TypeOK, Points, Content
<1>5. PointsReached' BY <1>1, <1>3 DEF PointsReached
<1>6. MadeRight' BY <1>3 DEF MadeRight, ReleasedTwice, FailuresOnlyLeak
<1>7. VariablesRight'
  BY DEF VariablesRight, ResultsReachCaller, FailuresKeepNumbers, SupportedCallsAreSafe
<1>. QED BY <1>4, <1>5, <1>6, <1>7 DEF IInv

\* What the first loop finds at parameter x.
LEMMA AtParameter ==
  ASSUME IInv, pc = "split", x < pCount
  PROVE  /\ x \in Index /\ x \in Nat /\ rv = "none"
         /\ made \in [Index -> Values] /\ made[x] = Nothing
         /\ \A i \in Index : Fresh(made[i]) /\ var[i] = Untouched
<1>1. x \in Index /\ x \in Nat BY Lengths DEF IInv, TypeOK, Index
<1>2. \A i \in Index : IF i < x THEN made[i] \in MadeFor(i) ELSE made[i] = Nothing
  BY DEF IInv, MadeRight
<1>3. \A i \in Index : Fresh(made[i]) BY <1>2, MadeFresh, NothingFresh
<1>. QED BY <1>1, <1>2, <1>3 DEF IInv, TypeOK, PointsReached, VariablesRight

\* A step that makes nothing.
LEMMA MadeNothing ==
  ASSUME IInv, pc = "split", x < pCount, Goes,
         UNCHANGED <<params, made, returned, out, var>>,
         P(x).kind = "array" => P(x).dir # "inout",
         Nothing \in MadeFor(x)
  PROVE  IInv'
BY AtParameter, SplitKeeps

LEMMA PlainInputKeeps == IInv /\ PlainInput => IInv'
BY MadeNothing DEF PlainInput, AtInput, MadeFor

LEMMA InterfaceIsInputKeeps == IInv /\ InterfaceIsInput => IInv'
BY MadeNothing DEF InterfaceIsInput, AtInput, MadeFor

LEMMA OutputSlotKeeps == IInv /\ OutputSlot => IInv'
BY MadeNothing DEF OutputSlot, MadeFor, IsInput, IsIn, IsRetval

LEMMA InterfaceInputKeeps == IInv /\ InterfaceInput => IInv'
<1>. SUFFICES ASSUME IInv, InterfaceInput PROVE IInv' OBVIOUS
<1>1. /\ pc = "split" /\ x < pCount /\ IsInput(x) /\ P(x).kind = "interface" /\ Goes
      /\ UNCHANGED <<params, returned, out, var>>
  BY DEF InterfaceInput, AtInput
<1>2. MadeFor(x) = {Nothing, Wrapper} BY <1>1 DEF MadeFor
<1>3. CASE UNCHANGED made BY <1>1, <1>2, <1>3, MadeNothing
<1>4. CASE made' = [made EXCEPT ![x] = Wrapper]
  <2>1. /\ made' \in [Index -> Values] /\ made'[x] = Wrapper
        /\ \A i \in Index : i # x => made'[i] = made[i]
    BY <1>1, <1>4, AtParameter, WrapperFresh DEF Fresh
  <2>. QED BY <1>1, <1>2, <2>1, SplitKeeps
<1>. QED BY <1>3, <1>4 DEF InterfaceInput

LEMMA ArrayInputKeeps == IInv /\ ArrayInput => IInv'
<1>. SUFFICES ASSUME IInv, ArrayInput PROVE IInv' OBVIOUS
<1>1. /\ pc = "split" /\ x < pCount /\ IsInput(x) /\ P(x).kind = "array" /\ Goes
      /\ P(x).dir = "in" /\ UNCHANGED <<params, returned, out, var>>
  BY DEF ArrayInput, AtInput
<1>2. MadeFor(x) = {Array(Element), Array(NoScalar)} BY <1>1 DEF MadeFor
<1>3. PICK e \in {Element, NoScalar} : made' = [made EXCEPT ![x] = Array(e)]
  BY DEF ArrayInput, Element
<1>4. Array(e) \in Values /\ Array(e) \in MadeFor(x)
  BY <1>2, ArrayFresh DEF Fresh
<1>5. /\ made' \in [Index -> Values] /\ made'[x] = Array(e)
      /\ \A i \in Index : i # x => made'[i] = made[i]
  BY <1>1, <1>3, <1>4, AtParameter
<1>. QED BY <1>1, <1>4, <1>5, SplitKeeps

LEMMA InputFailsKeeps == IInv /\ InputFails => IInv'
<1>. SUFFICES ASSUME IInv, InputFails PROVE IInv' OBVIOUS
<1>1. /\ pc = "split" /\ x < pCount /\ Return("FAILED")
      /\ UNCHANGED <<params, x, returned, out, var>>
  BY DEF InputFails, AtInput
<1>2. pc' = "done" /\ rv' = "FAILED" BY <1>1 DEF Return
<1>s. pCount' = pCount /\ Index' = Index /\ outtot' = outtot /\ \A i : P(i)' = P(i)
  BY <1>1, SameSignature
<1>3. made' \in [Index -> Values] /\ \A i \in Index : Fresh(made'[i])
  <2>1. CASE UNCHANGED made BY <1>1, <2>1, AtParameter
  <2>2. CASE made' = [made EXCEPT ![x].av = NewScalar]
    <3>. DEFINE v == [Nothing EXCEPT !.av = NewScalar]
    <3>1. Fresh(v) /\ v \in Values BY UnfilledArray DEF Fresh
    <3>2. made' = [made EXCEPT ![x] = v] BY <1>1, <2>2, AtParameter
    <3>. HIDE DEF v
    <3>. QED BY <1>1, <3>1, <3>2, AtParameter
  <2>. QED BY <2>1, <2>2 DEF InputFails
<1>4. TypeOK' BY <1>1, <1>2, <1>3, <1>s DEF IInv, TypeOK, Points
<1>5. FailuresOnlyLeak' BY <1>3, <1>s DEF FailuresOnlyLeak, Fresh
<1>6. \A i \in Index :
        ~OverReleased(made'[i].sv) /\ ~OverReleased(made'[i].elem) /\ ~OverReleased(made'[i].av)
  <2>1. \A i \in Index : made'[i].sv \in Scalar /\ made'[i].elem \in Scalar
    BY <1>3 DEF Values
  <2>. QED BY <1>3, <2>1 DEF Fresh, Balanced, OverReleased, Scalar
<1>7. ReleasedTwice' BY <1>2, <1>6, <1>s DEF ReleasedTwice
<1>8. FailuresKeepNumbers'
  BY <1>1, <1>s, AtParameter DEF FailuresKeepNumbers
<1>. QED BY <1>1, <1>4, <1>5, <1>7, <1>8, FailKeeps

LEMMA WildInputKeeps == IInv /\ WildInput => IInv'
<1>. SUFFICES ASSUME IInv, WildInput PROVE IInv' OBVIOUS
<1>1. ~Supported BY AtParameter DEF WildInput, AtInput, Supported
<1>2. returned' \in Nat BY DEF WildInput, IInv, TypeOK
<1>. QED BY <1>1, <1>2, LostKeeps DEF WildInput

-----------------------------------------------------------------------------
(* The method. *)

LEMMA RunMethodKeeps == IInv /\ RunMethod => IInv'
<1>. SUFFICES ASSUME IInv, RunMethod PROVE IInv' OBVIOUS
<1>0. /\ pc = "split" /\ x = pCount /\ pc' = "method" /\ x' = 0
      /\ UNCHANGED <<params, made, returned, out, var, rv>>
  BY DEF RunMethod
<1>s. /\ pCount' = pCount /\ Index' = Index /\ outtot' = outtot /\ Signature' = Signature
      /\ \A i : P(i)' = P(i) /\ MadeFor(i)' = MadeFor(i)
  BY <1>0, SameSignature
<1>1. pCount \in Nat /\ \A i \in Index : i < x
  BY <1>0, Lengths DEF IInv, Index
<1>2. TypeOK' BY <1>0, <1>1, <1>s DEF IInv, TypeOK, Points
<1>3. PointsReached' BY <1>0, <1>1, <1>s DEF IInv, PointsReached
<1>4. MadeRight'
  BY <1>0, <1>1, <1>s DEF IInv, MadeRight, ReleasedTwice, FailuresOnlyLeak
<1>5. VariablesRight'
  BY <1>0, <1>s DEF IInv, VariablesRight, ResultsReachCaller, FailuresKeepNumbers,
    SupportedCallsAreSafe
<1>. QED BY <1>2, <1>3, <1>4, <1>5 DEF IInv

\* What CallPerlMethod leaves in the slots and the variables.
LEMMA AfterMethod ==
  ASSUME IInv, pc = "method", NEW n \in Nat, Converted(n)
  PROVE  /\ out' \in [0 .. (outtot - 1) -> Content] /\ var' \in [Index -> Content]
         /\ \A i \in Index : P(i).kind = "number" => var'[i] = Untouched
         /\ n > 0 =>
              /\ \A k \in 0 .. (outtot - 1) :
                   P(OutParam(k)).kind = "number" => out'[k] = Value(k, n)
              /\ \A i \in Outputs : Slot(i) < n =>
                   /\ P(i).kind \in Direct \ {"char_str", "cstring"} => var'[i] = Slot(i)
                   /\ P(i).kind = "char_str" => var'[i] = Unended
<1>0. PICK ended \in SUBSET ByteStrings :
        var' = [i \in Index |-> IF n > 0 /\ i \in Outputs /\ P(i).kind \in Direct
                                  THEN Written(i, n, ended) ELSE var[i]]
  BY DEF Converted
<1>1. out' = [k \in 0 .. (outtot - 1) |-> Stored(k, n)]
  BY DEF Converted, IInv, TypeOK
<1>2. \A k \in Nat : Value(k, n) \in Content BY DEF Value, Content
<1>3. \A i \in Index : Slot(i) \in Nat BY SlotsDiffer DEF IInv
<1>4. \A i \in Index : var[i] = Untouched BY DEF IInv, VariablesRight
<1>5. "number" \notin Direct BY DEF Direct
<1>6. \A k \in 0 .. (outtot - 1) : Stored(k, n) \in Content
  <2>1. Address \in Content /\ Garbage \in Content BY DEF Content
  <2>2. \A k \in 0 .. (outtot - 1) : k \in Nat BY Lengths DEF IInv
  <2>. QED BY <1>2, <2>1, <2>2 DEF Stored
<1>7. Untouched \in Content BY DEF Content
<1>8. var' \in [Index -> Content]
  <2>1. \A i \in Index : Written(i, n, ended) \in Content
    BY <1>3 DEF Written, Content
  <2>. QED BY <1>0, <1>4, <1>7, <2>1
<1>9. \A i \in Index : P(i).kind = "number" => var'[i] = Untouched
  BY <1>0, <1>4, <1>5
<1>10. ASSUME n > 0, NEW k \in 0 .. (outtot - 1), P(OutParam(k)).kind = "number"
       PROVE  out'[k] = Value(k, n)
  BY <1>1, <1>10 DEF Stored
<1>11. ASSUME n > 0, NEW i \in Outputs, Slot(i) < n
       PROVE  /\ P(i).kind \in Direct \ {"char_str", "cstring"} => var'[i] = Slot(i)
              /\ P(i).kind = "char_str" => var'[i] = Unended
  <2>1. i \in Index /\ Slot(i) \in Nat /\ ~(Slot(i) >= n)
    BY <1>3, <1>11 DEF Outputs
  <2>2. P(i).kind \in Direct => var'[i] = Written(i, n, ended) BY <1>0, <1>11, <2>1
  <2>3. P(i).kind \in Direct \ {"char_str", "cstring"} => Written(i, n, ended) = Slot(i)
    BY <1>11, <2>1 DEF Written, ByteStrings
  <2>4. P(i).kind = "char_str" => Written(i, n, ended) = Unended
    BY <1>11, <2>1 DEF Written, ByteStrings
  <2>. QED BY <2>2, <2>3, <2>4 DEF Direct
<1>. QED BY <1>1, <1>6, <1>8, <1>9, <1>10, <1>11

LEMMA MethodReturnsKeeps == IInv /\ MethodReturns => IInv'
<1>. SUFFICES ASSUME IInv, MethodReturns PROVE IInv' OBVIOUS
<1>0. pc = "method" /\ UNCHANGED <<params, x, made>> /\ x = 0 /\ rv = "none"
  BY DEF MethodReturns, IInv, PointsReached
<1>1. PICK n \in 0 .. MaxValues : returned' = n /\ Converted(n)
  BY DEF MethodReturns
<1>s. /\ pCount' = pCount /\ Index' = Index /\ outtot' = outtot /\ Signature' = Signature
      /\ Outputs' = Outputs /\ NoInOut' = NoInOut
      /\ \A i : P(i)' = P(i) /\ Slot(i)' = Slot(i) /\ InOutBefore(i)' = InOutBefore(i)
      /\ \A i : MadeFor(i)' = MadeFor(i) /\ GivenUpFor(i)' = GivenUpFor(i)
      /\ \A k : OutParam(k)' = OutParam(k)
  BY <1>0, SameSignature
<1>2. n \in Nat BY StubCallAssumption
<1>3. /\ out' \in [0 .. (outtot - 1) -> Content] /\ var' \in [Index -> Content]
      /\ \A i \in Index : P(i).kind = "number" => var'[i] = Untouched
      /\ n > 0 =>
           /\ \A k \in 0 .. (outtot - 1) :
                P(OutParam(k)).kind = "number" => out'[k] = Value(k, n)
           /\ \A i \in Outputs : Slot(i) < n =>
                /\ P(i).kind \in Direct \ {"char_str", "cstring"} => var'[i] = Slot(i)
                /\ P(i).kind = "char_str" => var'[i] = Unended
  BY <1>0, <1>1, <1>2, AfterMethod
<1>4. \A i \in Index : made[i] \in MadeFor(i) /\ Fresh(made[i])
  BY <1>0, MadeFresh DEF IInv, MadeRight
<1>5. CASE Return("FAILED")
  <2>1. pc' = "done" /\ rv' = "FAILED" BY <1>5 DEF Return
  <2>2. TypeOK' BY <1>0, <1>1, <1>2, <1>3, <1>s, <2>1 DEF IInv, TypeOK, Points
  <2>3. FailuresOnlyLeak' BY <1>0, <1>4, <1>s DEF FailuresOnlyLeak, Fresh
  <2>4. \A i \in Index :
          ~OverReleased(made[i].sv) /\ ~OverReleased(made[i].elem) /\ ~OverReleased(made[i].av)
    <3>1. \A i \in Index : made[i].sv \in Scalar /\ made[i].elem \in Scalar
      BY <1>4 DEF Fresh, Values
    <3>. QED BY <1>4, <3>1 DEF Fresh, Balanced, OverReleased, Scalar
  <2>5. ReleasedTwice' BY <1>0, <2>1, <2>4, <1>s DEF ReleasedTwice
  <2>6. FailuresKeepNumbers' BY <1>3, <1>s DEF FailuresKeepNumbers
  <2>. QED BY <1>0, <1>5, <2>2, <2>3, <2>5, <2>6, FailKeeps
<1>6. CASE pc' = "copy" /\ UNCHANGED rv
  <2>1. TypeOK' BY <1>0, <1>1, <1>2, <1>3, <1>6, <1>s DEF IInv, TypeOK, Points
  <2>2. PointsReached' BY <1>0, <1>6, <1>s DEF IInv, PointsReached
  <2>3. \A i \in Index : ~(i < 0) BY Lengths DEF IInv, Index
  <2>4. MadeRight'
    BY <1>0, <1>4, <1>6, <2>3, <1>s DEF MadeRight, ReleasedTwice, FailuresOnlyLeak
  <2>5. ASSUME EnoughReturned', NEW i \in Outputs PROVE Arrived(i)'
    <3>1. i \in Index /\ Slot(i) \in Nat /\ Slot(i) < outtot /\ outtot \in Nat
      BY SlotsDiffer, Lengths DEF IInv, Outputs
    <3>2. outtot <= n BY <2>5, <1>1, <1>2, <1>s, <3>1 DEF EnoughReturned
    <3>3. n > 0 /\ Slot(i) < n BY <3>1, <3>2, <1>2
    <3>4. /\ P(i).kind \in Direct \ {"char_str", "cstring"} => var'[i] = Slot(i)
          /\ P(i).kind = "char_str" => var'[i] = Unended
      BY <3>3, <1>3
    <3>. QED BY <3>1, <3>4, <2>3, <1>0, <1>s DEF Arrived
  <2>6. \A k \in Nat : Value(k, returned)' = Value(k, n) BY <1>1 DEF Value
  <2>7. (returned > 0 =>
          \A k \in 0 .. (outtot - 1) :
            P(OutParam(k)).kind = "number" => out[k] = Value(k, returned))'
    BY <1>1, <1>3, <2>6, <1>s, Lengths DEF IInv
  <2>8. VariablesRight'
    BY <1>3, <1>6, <2>5, <2>7, <1>s DEF VariablesRight, ResultsReachCaller,
      FailuresKeepNumbers, SupportedCallsAreSafe
  <2>. QED BY <2>1, <2>2, <2>4, <2>8 DEF IInv
<1>. QED BY <1>5, <1>6 DEF MethodReturns

LEMMA WildResultKeeps == IInv /\ WildResult => IInv'
<1>. SUFFICES ASSUME IInv, WildResult PROVE IInv' OBVIOUS
<1>1. returned' \in Nat BY StubCallAssumption DEF WildResult
<1>2. CASE \E i \in Outputs :
             P(i).kind \in {"interface", "interface_is", "iid", "cstring"}
  <2>1. \A i \in Outputs : i \in Index /\ P(i).dir # "in"
    BY DEF Outputs, Inputs, IsInput, IsIn, IsRetval
  <2>2. ~Supported BY <1>2, <2>1 DEF Supported
  <2>. QED BY <1>1, <2>2, LostKeeps DEF WildResult
<1>3. CASE returned' < outtot BY <1>1, <1>3, LostKeeps DEF WildResult
<1>. QED BY <1>2, <1>3 DEF WildResult

-----------------------------------------------------------------------------
(* The second loop. *)

LEMMA AtCopy ==
  ASSUME IInv, pc = "copy", x < pCount
  PROVE  /\ x \in Index /\ x \in Nat /\ TypeOK /\ params \in Signature
         /\ made \in [Index -> Values] /\ var \in [Index -> Content]
         /\ P(x).kind = "array" => P(x).dir # "inout"
         /\ NoInOut => made[x] \in MadeFor(x)
BY Lengths DEF IInv, TypeOK, Index, PointsReached, MadeRight

\* A step that passes a parameter for which nothing was made.
LEMMA NothingHere ==
  ASSUME NEW i, ~IsInput(i) \/ P(i).kind \notin {"interface", "array"}
  PROVE  MadeFor(i) = {Nothing} /\ GivenUpFor(i) = {Nothing}
BY DEF MadeFor, GivenUpFor

LEMMA OutputIsNoInput ==
  ASSUME IInv, pc = "copy", x < pCount, NoInOut, IsOut(x)
  PROVE  ~IsInput(x)
<1>1. P(x).dir \in {"in", "out", "retval"} BY AtCopy, Fields DEF NoInOut
<1>. QED BY <1>1 DEF IsOut, IsInput, IsIn, IsRetval

LEMMA CopyNumberKeeps == IInv /\ CopyNumber => IInv'
<1>. SUFFICES ASSUME IInv, CopyNumber PROVE IInv' OBVIOUS
<1>1. /\ pc = "copy" /\ x < pCount /\ P(x).kind = "number" /\ IsOut(x) /\ Goes
      /\ var' = [var EXCEPT ![x] = IF y(x) < outtot THEN out[y(x)] ELSE Garbage]
      /\ UNCHANGED <<params, made, returned, out>>
  BY DEF CopyNumber, AtOutput
<1>2. y(x) \in Nat
  <2>1. {j \in Index : j < x /\ IsOut(j)} \subseteq Index OBVIOUS
  <2>2. IsFiniteSet({j \in Index : j < x /\ IsOut(j)})
    BY <2>1, Lengths, FS_Subset DEF IInv
  <2>. QED BY <2>2, FS_CardinalityType DEF y
<1>3. var' \in [Index -> Content]
  <2>1. y(x) < outtot => out[y(x)] \in Content
    BY <1>2, Lengths DEF IInv, TypeOK
  <2>2. Garbage \in Content BY DEF Content
  <2>. QED BY <1>1, <2>1, <2>2, AtCopy
<1>4. NoInOut => made'[x] \in GivenUpFor(x) /\ \A i \in Index : i # x => made'[i] = made[i]
  BY <1>1, AtCopy, NothingHere
<1>5. \A i \in Index : i # x => var'[i] = var[i] BY <1>1, AtCopy
<1>6. ASSUME x \in Outputs, ~InOutBefore(x), EnoughReturned PROVE var'[x] = Slot(x)
  <2>1. y(x) = Slot(x) BY <1>1, <1>6, AtCopy, CopiesItsOwn
  <2>2. Slot(x) \in Nat /\ Slot(x) < outtot /\ outtot \in Nat /\ returned \in Nat
    BY <1>1, <1>6, AtCopy, SlotsDiffer, Lengths DEF TypeOK
  <2>3. OutParam(Slot(x)) = x BY <1>1, <1>6, AtCopy, SlotFound
  <2>4. returned > 0 /\ Slot(x) < returned BY <1>6, <2>2 DEF EnoughReturned
  <2>5. Slot(x) \in 0 .. (outtot - 1) BY <2>2
  <2>6. out[Slot(x)] = Value(Slot(x), returned)
    BY <1>1, <2>3, <2>4, <2>5 DEF IInv, VariablesRight
  <2>7. Value(Slot(x), returned) = Slot(x) BY <2>4 DEF Value
  <2>8. var'[x] = out[Slot(x)] BY <1>1, <2>1, <2>2, AtCopy
  <2>. QED BY <2>6, <2>7, <2>8
<1>7. made' \in [Index -> Values] BY <1>1, AtCopy
<1>. QED BY <1>1, <1>3, <1>4, <1>5, <1>6, <1>7, CopyKeeps

LEMMA CopyDirectKeeps == IInv /\ CopyDirect => IInv'
<1>. SUFFICES ASSUME IInv, CopyDirect PROVE IInv' OBVIOUS
<1>1. /\ pc = "copy" /\ x < pCount /\ P(x).kind # "number" /\ IsOut(x) /\ Goes
      /\ UNCHANGED <<params, made, returned, out, var>>
  BY DEF CopyDirect, AtOutput, Direct
<1>2. NoInOut => made[x] \in GivenUpFor(x)
  BY <1>1, AtCopy, NothingHere, OutputIsNoInput
<1>. QED BY <1>1, <1>2, AtCopy, CopyKeeps

LEMMA NothingToReleaseKeeps == IInv /\ NothingToRelease => IInv'
<1>. SUFFICES ASSUME IInv, NothingToRelease PROVE IInv' OBVIOUS
<1>1. /\ pc = "copy" /\ x < pCount /\ ~IsOut(x) /\ P(x).kind \notin {"interface", "array"}
      /\ Goes /\ UNCHANGED <<params, made, returned, out, var>>
  BY DEF NothingToRelease, AtRelease
<1>2. NoInOut => made[x] \in GivenUpFor(x) BY <1>1, AtCopy, NothingHere
<1>3. x \in Outputs => P(x).kind # "number"
  BY <1>1, Fields, AtCopy DEF IsOut, Outputs, Inputs, IsInput, IsIn, IsRetval,
    StringObjects
<1>. QED BY <1>1, <1>2, <1>3, AtCopy, CopyKeeps

LEMMA ReleaseInterfaceKeeps == IInv /\ ReleaseInterface => IInv'
<1>. SUFFICES ASSUME IInv, ReleaseInterface PROVE IInv' OBVIOUS
<1>1. /\ pc = "copy" /\ x < pCount /\ ~IsOut(x) /\ P(x).kind = "interface" /\ Goes
      /\ made' = [made EXCEPT ![Released].sv = MortalUnlessUndef(@)]
      /\ UNCHANGED <<params, returned, out, var>>
  BY DEF ReleaseInterface, AtRelease
<1>. DEFINE With(v) == [v EXCEPT !.sv = MortalUnlessUndef(v.sv)]
<1>2. made \in [Index -> Values] BY <1>1, AtCopy
<1>3. \A v \in Values : With(v) \in Values
  <2>1. \A s \in Scalar : MortalUnlessUndef(s) \in Scalar
    BY DEF MortalUnlessUndef, Mortal, Own, Scalar
  <2>. QED BY <2>1 DEF Values
<1>4. \A i \in Index : made'[i] = IF i = Released THEN With(made[i]) ELSE made[i]
  BY <1>1, <1>2
<1>5. made' \in [Index -> Values] BY <1>1, <1>2, <1>3, <1>4
<1>6. ASSUME NoInOut
      PROVE  made'[x] \in GivenUpFor(x) /\ \A i \in Index : i # x => made'[i] = made[i]
  <2>1. x \in Inputs /\ Released = x /\ x \in Index BY <1>1, <1>6, AtCopy, ReleasesItsOwn
  <2>2. IsInput(x) BY <2>1 DEF Inputs
  <2>3. made[x] \in {Nothing, Wrapper}
    BY <1>1, <1>6, <2>2, AtCopy DEF MadeFor
  <2>4. With(Nothing) = Nothing BY DEF Nothing, MortalUnlessUndef
  <2>5. With(Wrapper) = GivenUpWrapper
    <3>1. /\ Wrapper.sv = NewMortal /\ NewMortal # NoScalar
          /\ Wrapper = [sv |-> NewMortal, av |-> NoScalar, elem |-> NoScalar]
      BY Scalars DEF Wrapper, Nothing
    <3>2. MortalUnlessUndef(Wrapper.sv) = Mortal(NewMortal)
      BY <3>1 DEF MortalUnlessUndef
    <3>3. GivenUpWrapper = [sv |-> Mortal(NewMortal), av |-> NoScalar, elem |-> NoScalar]
      BY DEF GivenUpWrapper, Nothing
    <3>. QED BY <3>1, <3>2, <3>3
  <2>6. made'[x] \in {Nothing, GivenUpWrapper} BY <2>1, <2>3, <2>4, <2>5, <1>4
  <2>. QED BY <1>1, <1>4, <2>1, <2>2, <2>6 DEF GivenUpFor
<1>. HIDE DEF With
<1>. QED BY <1>1, <1>5, <1>6, AtCopy, CopyKeeps

LEMMA ReleaseArrayKeeps == IInv /\ ReleaseArray => IInv'
<1>. SUFFICES ASSUME IInv, ReleaseArray PROVE IInv' OBVIOUS
<1>1. /\ pc = "copy" /\ x < pCount /\ ~IsOut(x) /\ P(x).kind = "array" /\ Goes
      /\ made' = [made EXCEPT ![Released] = ArrayReleased(@)]
      /\ UNCHANGED <<params, returned, out, var>>
  BY DEF ReleaseArray, AtRelease
<1>2. made \in [Index -> Values] BY <1>1, AtCopy
<1>3. \A v \in Values : ArrayReleased(v) \in Values
  <2>1. \A s \in Scalar : DecUnlessUndef(s) \in Scalar /\ Mortal(s) \in Scalar
    BY DEF DecUnlessUndef, Dec, Mortal, Own, Scalar
  <2>. QED BY <2>1 DEF ArrayReleased, Values
<1>4. \A i \in Index : made'[i] = IF i = Released THEN ArrayReleased(made[i]) ELSE made[i]
  BY <1>1, <1>2
<1>5. made' \in [Index -> Values] BY <1>1, <1>2, <1>3, <1>4
<1>6. ASSUME NoInOut
      PROVE  made'[x] \in GivenUpFor(x) /\ \A i \in Index : i # x => made'[i] = made[i]
  <2>1. x \in Inputs /\ Released = x /\ x \in Index BY <1>1, <1>6, AtCopy, ReleasesItsOwn
  <2>2. IsInput(x) BY <2>1 DEF Inputs
  <2>3. made[x] \in {Array(Element), Array(NoScalar)}
    BY <1>1, <1>6, <2>2, AtCopy DEF MadeFor
  <2>4. DecUnlessUndef(NoScalar) = NoScalar /\ DecUnlessUndef(Element) = Dec(Element)
    BY Scalars DEF DecUnlessUndef
  <2>5. \A e \in {Element, NoScalar} :
          ArrayReleased(Array(e)) = GivenUpArray(DecUnlessUndef(e))
    <3>. TAKE e \in {Element, NoScalar}
    <3>1. /\ Array(e).sv = NewMortal /\ Array(e).av = Own(Inc(NewScalar))
          /\ Array(e).elem = e
      BY DEF Array
    <3>. QED BY <3>1 DEF ArrayReleased, GivenUpArray
  <2>6. made'[x] = ArrayReleased(made[x]) BY <1>4, <2>1
  <2>7. made'[x] \in {GivenUpArray(Dec(Element)), GivenUpArray(NoScalar)}
    BY <2>3, <2>4, <2>5, <2>6
  <2>8. GivenUpFor(x) = {GivenUpArray(Dec(Element)), GivenUpArray(NoScalar)}
    BY <1>1, <2>2 DEF GivenUpFor
  <2>. QED BY <1>4, <2>1, <2>7, <2>8
<1>. QED BY <1>1, <1>5, <1>6, AtCopy, CopyKeeps

LEMMA WildOutputKeeps == IInv /\ WildOutput => IInv'
<1>. SUFFICES ASSUME IInv, WildOutput PROVE IInv' OBVIOUS
<1>1. ~Supported
  BY AtCopy DEF WildOutput, AtOutput, IsOut, Supported
<1>2. returned' \in Nat BY DEF WildOutput, IInv, TypeOK
<1>. QED BY <1>1, <1>2, LostKeeps DEF WildOutput

LEMMA WildReleaseKeeps == IInv /\ WildRelease => IInv'
<1>. SUFFICES ASSUME IInv, WildRelease PROVE IInv' OBVIOUS
<1>1. /\ pc = "copy" /\ x < pCount /\ ~IsOut(x) /\ P(x).kind \in {"interface", "array"}
      /\ P(Released).kind \notin {"interface", "interface_is", "array"} \/ P(x).kind = "array"
  BY DEF WildRelease, AtRelease
<1>2. ~Supported
  <2>. SUFFICES ASSUME Supported PROVE FALSE OBVIOUS
  <2>1. NoInOut /\ P(x).kind # "array" BY <1>1, AtCopy DEF Supported, NoInOut
  <2>2. Released = x BY <1>1, <2>1, AtCopy, ReleasesItsOwn
  <2>. QED BY <1>1, <2>1, <2>2
<1>3. returned' \in Nat BY DEF WildRelease, IInv, TypeOK
<1>. QED BY <1>2, <1>3, LostKeeps DEF WildRelease

LEMMA ArrayOutputFailsKeeps == IInv /\ ArrayOutputFails => IInv'
<1>. SUFFICES ASSUME IInv, ArrayOutputFails PROVE IInv' OBVIOUS
<1>1. /\ pc = "copy" /\ x < pCount /\ IsOut(x) /\ P(x).kind = "array"
      /\ ~IFaceKnown(Inputs) /\ Return("FAILED")
      /\ UNCHANGED <<params, x, made, returned, out, var>>
  BY DEF ArrayOutputFails, AtOutput
<1>2. pc' = "done" /\ rv' = "FAILED" BY <1>1 DEF Return
<1>s. /\ pCount' = pCount /\ Index' = Index /\ outtot' = outtot /\ Outputs' = Outputs
      /\ NoInOut' = NoInOut /\ \A i : P(i)' = P(i)
  BY <1>1, SameSignature
<1>3. TypeOK' BY <1>1, <1>2, <1>s DEF IInv, TypeOK, Points
<1>4. x \in Outputs /\ x \in Index /\ x \in Nat
  BY <1>1, AtCopy DEF Outputs, Inputs, IsInput, IsIn, IsRetval, IsOut
<1>5. FailuresOnlyLeak' BY <1>1, <1>4, <1>s DEF FailuresOnlyLeak
<1>6. FailuresKeepNumbers'
  <2>1. \A i \in Index : P(i).kind = "number" /\ i >= x => var[i] = Untouched
    BY <1>1 DEF IInv, VariablesRight
  <2>2. \A i \in Index : i >= x \/ x > i BY <1>4, Lengths DEF IInv, Index
  <2>. QED BY <1>1, <1>4, <2>1, <2>2, <1>s DEF FailuresKeepNumbers
<1>7. ReleasedTwice'
  <2>1. ASSUME NoInOut, NEW i \in Index PROVE Fresh(made[i])
    <3>1. made[i] \in IF i < x THEN GivenUpFor(i) ELSE MadeFor(i)
      BY <1>1, <2>1 DEF IInv, MadeRight
    <3>2. CASE i < x
      <4>1. ~IsInput(i) \/ P(i).kind \notin {"interface", "array"}
        BY <1>1, <2>1, <3>2 DEF IFaceKnown, Inputs
      <4>2. GivenUpFor(i) = {Nothing} BY <4>1, NothingHere
      <4>. QED BY <3>1, <3>2, <4>2, NothingFresh
    <3>3. CASE ~(i < x) BY <3>1, <3>3, MadeFresh
    <3>. QED BY <3>2, <3>3
  <2>2. \A v : Fresh(v) =>
          ~OverReleased(v.sv) /\ ~OverReleased(v.elem) /\ ~OverReleased(v.av)
    <3>1. \A v : Fresh(v) => v.sv \in Scalar /\ v.elem \in Scalar
      BY DEF Fresh, Values
    <3>. QED BY <3>1 DEF Fresh, Balanced, OverReleased, Scalar
  <2>. QED BY <1>1, <1>2, <2>1, <2>2, <1>s DEF ReleasedTwice, NoInOut
<1>. QED BY <1>1, <1>3, <1>5, <1>6, <1>7, FailKeeps

LEMMA CallMethodReturnsKeeps == IInv /\ CallMethodReturns => IInv'
<1>. SUFFICES ASSUME IInv, CallMethodReturns PROVE IInv' OBVIOUS
<1>1. /\ pc = "copy" /\ x = pCount /\ pc' = "done" /\ rv' = "OK"
      /\ UNCHANGED <<params, x, made, returned, out, var>>
  BY DEF CallMethodReturns, Return
<1>s. /\ pCount' = pCount /\ Index' = Index /\ outtot' = outtot /\ Outputs' = Outputs
      /\ NoInOut' = NoInOut /\ \A i : P(i)' = P(i) /\ Slot(i)' = Slot(i)
      /\ \A i : InOutBefore(i)' = InOutBefore(i)
  BY <1>1, SameSignature
<1>2. TypeOK' BY <1>1, <1>s DEF IInv, TypeOK, Points
<1>3. PointsReached' BY <1>1 DEF PointsReached
<1>4. \A i \in Index : i < x BY <1>1, Lengths DEF IInv, Index
<1>5. ReleasedTwice'
  <2>1. NoInOut => \A i \in Index : Spent(made[i], P(i).kind)
    BY <1>1, <1>4, GivenUpSpent DEF IInv, MadeRight
  <2>. QED BY <1>1, <2>1, <1>s DEF ReleasedTwice, NoInOut, Spent
<1>6. MadeRight' BY <1>1, <1>5 DEF MadeRight, FailuresOnlyLeak
<1>7. ResultsReachCaller'
  <2>1. EnoughReturned => \A i \in Outputs : Arrived(i)
    BY <1>1 DEF IInv, VariablesRight
  <2>2. EnoughReturned' = EnoughReturned BY <1>1, <1>s DEF EnoughReturned
  <2>. QED BY <1>1, <1>4, <2>1, <2>2, <1>s DEF ResultsReachCaller, Arrived, Outputs
<1>8. VariablesRight'
  BY <1>1, <1>7 DEF VariablesRight, FailuresKeepNumbers, SupportedCallsAreSafe
<1>. QED BY <1>2, <1>3, <1>6, <1>8 DEF IInv

-----------------------------------------------------------------------------
(* Every step keeps the invariant. *)

LEMMA Stutters == IInv /\ UNCHANGED vars => IInv'
<1>. SUFFICES ASSUME IInv, UNCHANGED vars PROVE IInv' OBVIOUS
<1>0. UNCHANGED <<pc, params, x, made, returned, out, var, rv>> BY DEF vars
<1>s. /\ pCount' = pCount /\ Index' = Index /\ outtot' = outtot /\ Outputs' = Outputs
      /\ NoInOut' = NoInOut /\ Supported' = Supported /\ Signature' = Signature
      /\ \A i : P(i)' = P(i) /\ Slot(i)' = Slot(i) /\ InOutBefore(i)' = InOutBefore(i)
      /\ \A i : MadeFor(i)' = MadeFor(i) /\ GivenUpFor(i)' = GivenUpFor(i)
      /\ \A k : OutParam(k)' = OutParam(k)
  BY <1>0, SameSignature
<1>1. TypeOK' BY <1>0, <1>s DEF IInv, TypeOK
<1>2. PointsReached' BY <1>0, <1>s DEF IInv, PointsReached
<1>3. ReleasedTwice' = ReleasedTwice /\ FailuresOnlyLeak' = FailuresOnlyLeak
  BY <1>0, <1>s DEF ReleasedTwice, FailuresOnlyLeak
<1>4. MadeRight' BY <1>0, <1>3, <1>s DEF IInv, MadeRight
<1>5. EnoughReturned' = EnoughReturned BY <1>0, <1>s DEF EnoughReturned
<1>6. /\ ResultsReachCaller' = ResultsReachCaller
      /\ FailuresKeepNumbers' = FailuresKeepNumbers
      /\ SupportedCallsAreSafe' = SupportedCallsAreSafe
  BY <1>0, <1>5, <1>s DEF ResultsReachCaller, FailuresKeepNumbers, SupportedCallsAreSafe
<1>7. \A i : Arrived(i)' = Arrived(i) BY <1>0, <1>s DEF Arrived
<1>8. \A k : Value(k, returned)' = Value(k, returned) BY <1>0 DEF Value
<1>9. VariablesRight' BY <1>0, <1>5, <1>6, <1>7, <1>8, <1>s DEF IInv, VariablesRight
<1>. QED BY <1>1, <1>2, <1>4, <1>9 DEF IInv

LEMMA Steps == IInv /\ [Next]_vars => IInv'
<1>. SUFFICES ASSUME IInv, [Next]_vars PROVE IInv' OBVIOUS
<1>1. CASE CallMethod BY <1>1, CallMethodKeeps
<1>2. CASE PlainInput BY <1>2, PlainInputKeeps
<1>3. CASE InterfaceInput BY <1>3, InterfaceInputKeeps
<1>4. CASE InterfaceIsInput BY <1>4, InterfaceIsInputKeeps
<1>5. CASE ArrayInput BY <1>5, ArrayInputKeeps
<1>6. CASE InputFails BY <1>6, InputFailsKeeps
<1>7. CASE WildInput BY <1>7, WildInputKeeps
<1>8. CASE OutputSlot BY <1>8, OutputSlotKeeps
<1>9. CASE RunMethod BY <1>9, RunMethodKeeps
<1>10. CASE MethodReturns BY <1>10, MethodReturnsKeeps
<1>11. CASE WildResult BY <1>11, WildResultKeeps
<1>12. CASE CopyNumber BY <1>12, CopyNumberKeeps
<1>13. CASE CopyDirect BY <1>13, CopyDirectKeeps
<1>14. CASE WildOutput BY <1>14, WildOutputKeeps
<1>15. CASE ArrayOutputFails BY <1>15, ArrayOutputFailsKeeps
<1>16. CASE NothingToRelease BY <1>16, NothingToReleaseKeeps
<1>17. CASE ReleaseInterface BY <1>17, ReleaseInterfaceKeeps
<1>18. CASE ReleaseArray BY <1>18, ReleaseArrayKeeps
<1>19. CASE WildRelease BY <1>19, WildReleaseKeeps
<1>20. CASE CallMethodReturns BY <1>20, CallMethodReturnsKeeps
<1>21. CASE FrameGone BY <1>21, FrameGoneKeeps
<1>22. CASE Lost BY <1>22, Stutters DEF Lost
<1>23. CASE UNCHANGED vars BY <1>23, Stutters
<1>. QED
  BY <1>1, <1>2, <1>3, <1>4, <1>5, <1>6, <1>7, <1>8, <1>9, <1>10, <1>11, <1>12, <1>13,
     <1>14, <1>15, <1>16, <1>17, <1>18, <1>19, <1>20, <1>21, <1>22, <1>23 DEF Next

LEMMA Invariance == Spec => []IInv
BY InitRight, Steps, PTL DEF Spec

-----------------------------------------------------------------------------
(* The theorems. *)

\* The variables keep their types: no step writes past the slots or parameters of
\* the signature.
THEOREM TypeCorrect == Spec => []TypeOK
<1>1. IInv => TypeOK BY DEF IInv
<1>. QED BY <1>1, Invariance, PTL

\* A native caller finds each wide string, object and number that the method
\* returned in the variable it belongs to, and a char* there without its end.
THEOREM ResultsArrive == Spec => []ResultsReachCaller
<1>1. IInv => ResultsReachCaller BY DEF IInv, VariablesRight
<1>. QED BY <1>1, Invariance, PTL

\* The two loops agree on the slots of a supported signature, which returns no
\* string object of bytes: no read or write of the call's own goes astray.
THEOREM SupportedSafe == Spec => []SupportedCallsAreSafe
<1>1. IInv => SupportedCallsAreSafe BY DEF IInv, VariablesRight
<1>. QED BY <1>1, Invariance, PTL

\* A successful call frees its objects and the elements of its arrays once too
\* often, and nothing else.
THEOREM TwiceExactly == Spec => []ReleasedTwice
<1>1. IInv => ReleasedTwice BY DEF IInv, MadeRight
<1>. QED BY <1>1, Invariance, PTL

\* A failed call frees nothing twice and leaves exactly its arrays behind.
THEOREM FailuresLeak == Spec => []FailuresOnlyLeak
<1>1. IInv => FailuresOnlyLeak BY DEF IInv, MadeRight
<1>. QED BY <1>1, Invariance, PTL

\* A failed call leaves the caller's numbers alone, but for a failure at an array.
THEOREM NumbersKept == Spec => []FailuresKeepNumbers
<1>1. IInv => FailuresKeepNumbers BY DEF IInv, VariablesRight
<1>. QED BY <1>1, Invariance, PTL

=============================================================================
