-------------------------- MODULE XPCOMCallProofs --------------------------
(***************************************************************************)
(* Proofs about XPCOMCall, for signatures and argument lists of any length *)
(* and any kinds of parameters.  The invariant has a part for the points   *)
(* of the function, one for the memory of the slots, one for the arguments *)
(* they were filled with and one for the results.                          *)
(***************************************************************************)
EXTENDS XPCOMCall, SequenceTheorems, FiniteSetTheorems, TLAPS

-----------------------------------------------------------------------------
(* The invariant. *)

\* What each point of the function has done.
PointsReached ==
  /\ pc \in {"idle", "lookup"} => params = <<>>
  /\ pc \in {"idle", "lookup", "count"} => x = 0
  /\ pc \in {"idle", "lookup", "count", "inputs", "native"} => rc = "old" /\ ret = <<>>
  /\ pc \in {"outputs", "cleanup"} => rc = "OK" /\ Inputs \cap Outputs = {}
  /\ rc = "OK" => ret \in Seq(Nat \cup {Missing, None})
  /\ pc = "cleanup" => ret = <<>> /\ oCount = 0
  /\ pc \in {"count", "inputs", "native", "outputs", "cleanup"} => params \in Signature
  /\ pc \in {"inputs", "native", "outputs", "cleanup"} =>
       pCount <= MAX_XPTC_ARG_COUNT /\ iCount = pCount - oCount
  /\ ReferencesDropped /\ FailureIsTold

\* Slots whose memory the call makes, or lets the native method make.
Owned(i) == ~TakesArgument(i) \/ P(i).kind \in Copied \cup {"array"}

\* Memory in the slot of an output has a kind for which the code frees it.
HoldsOutput(i) ==
  ~TakesArgument(i) /\ slot[i].mem = "live" => P(i).kind \in Made \cup Filled

\* A string object for the native method to fill is there.
StringReady(i) == P(i).kind \in Filled => slot[i].mem = "live"

MemoryRight ==
  /\ \A i \in Index : slot[i].mem # "broken"
  /\ pc \in {"count", "inputs"} => \A i \in Index : i >= x => slot[i] = Empty
  /\ pc \in {"count", "inputs", "native", "cleanup"} =>
       \A i \in Index : IF Owned(i) THEN slot[i].mem \in {"none", "live"}
                                    ELSE slot[i].mem \notin {"live", "buffer"}
  /\ pc = "inputs" => \A i \in Outputs : i < x => StringReady(i)
  /\ pc = "native" => \A i \in Outputs : StringReady(i)
  /\ pc = "outputs" => \A i \in Outputs : i >= x => StringReady(i)
  /\ pc = "outputs" => \A i \in Outputs : i >= x => slot[i].mem \in {"none", "live"}
  /\ pc \in {"count", "inputs", "native", "outputs"} =>
       \A i \in Index : HoldsOutput(i)

\* Slot i was filled with argument i, if it takes one.
FilledRight(i) ==
  /\ slot[i].from = i
  /\ slot[i].size # None => P(i).kind = "array" /\ slot[i].size = P(i).arg
  /\ P(i).kind = "domstring" => slot[i].mem = "live"
  /\ slot[i].tiface <=> slot[i].by = "id"

ArgumentsRight ==
  /\ pc = "inputs" => \A i \in Inputs : i < x => FilledRight(i)
  /\ pc \in {"native", "outputs", "cleanup"} => \A i \in Inputs : FilledRight(i)

Before(k) == {j \in Outputs : j < k}
UpTo(k)   == {j \in Outputs : j <= k}

ReturnedRight(o) ==
  /\ \/ ret[Cardinality(UpTo(o))] = Result(o)
     \/ ret[Cardinality(UpTo(o))] = Missing /\ P(o).kind = "array"
  /\ slot[o].mem # "live" /\ (slot[o].mem = "buffer" <=> P(o).kind \in Filled)

ResultsRight ==
  /\ pc = "outputs" =>
       /\ Len(ret) = Cardinality(Before(x))
       /\ \A o \in Outputs : o < x => ReturnedRight(o)
  /\ ResultsInOrder /\ QuietCallsCleanUp

IInv == TypeOK /\ PointsReached /\ MemoryRight /\ ArgumentsRight /\ ResultsRight

-----------------------------------------------------------------------------
(* Signatures. *)

\* A signature that is looked at is a sequence of parameters.
LEMMA SignatureTypes == Signature \subseteq Seq(Param) \cup Long
BY SeqDef DEF Signature, Short, SeqOf

LEMMA LongLength ==
  ASSUME NEW s \in Long
  PROVE  Len(s) = MAX_XPTC_ARG_COUNT + 1 /\ Len(s) \in Nat
BY XPCOMCallAssumption DEF Long

LEMMA Lengths ==
  ASSUME TypeOK
  PROVE  /\ pCount \in Nat /\ Index = 0 .. (pCount - 1)
         /\ IsFiniteSet(Index) /\ Cardinality(Index) = pCount
         /\ Outputs \subseteq Index /\ Inputs \subseteq Index
         /\ IsFiniteSet(Outputs) /\ oCount \in Nat /\ oCount <= pCount
<1>1. pCount \in Nat
  BY LongLength, LenProperties DEF TypeOK, pCount
<1>2. Index = 0 .. (pCount - 1) BY DEF Index
<1>3. IsFiniteSet(Index) /\ Cardinality(Index) = pCount
  BY <1>1, <1>2, FS_Interval
<1>4. Outputs \subseteq Index /\ Inputs \subseteq Index BY DEF Outputs, Inputs
<1>5. IsFiniteSet(Outputs) /\ Cardinality(Outputs) <= Cardinality(Index)
  BY <1>3, <1>4, FS_Subset
<1>6. oCount \in Nat BY <1>5, FS_CardinalityType DEF oCount
<1>. QED BY <1>1, <1>2, <1>3, <1>4, <1>5, <1>6 DEF oCount

\* A step that keeps the signature keeps what is said of it alone.
LEMMA SameSignature ==
  ASSUME UNCHANGED params
  PROVE  /\ pCount' = pCount /\ Index' = Index
         /\ \A i : P(i)' = P(i)
         /\ \A i : TakesArgument(i)' = TakesArgument(i) /\ GivesValue(i)' = GivesValue(i)
         /\ \A i : Owned(i)' = Owned(i)
         /\ Inputs' = Inputs /\ Outputs' = Outputs /\ oCount' = oCount
<1>1. pCount' = pCount BY DEF pCount
<1>2. Index' = Index BY <1>1 DEF Index
<1>3. \A i : P(i)' = P(i) BY DEF P
<1>4. \A i : IsIn(i)' = IsIn(i) /\ IsOut(i)' = IsOut(i) /\ IsRetval(i)' = IsRetval(i)
  BY <1>3 DEF IsIn, IsOut, IsRetval
<1>5. \A i : TakesArgument(i)' = TakesArgument(i) /\ GivesValue(i)' = GivesValue(i)
  BY <1>4 DEF TakesArgument, GivesValue
<1>6. \A i : Owned(i)' = Owned(i) BY <1>3, <1>5 DEF Owned
<1>7. Inputs' = Inputs /\ Outputs' = Outputs BY <1>2, <1>5 DEF Inputs, Outputs
<1>8. oCount' = oCount BY <1>7 DEF oCount
<1>. QED BY <1>1, <1>2, <1>3, <1>5, <1>6, <1>7, <1>8

LEMMA SameResults ==
  ASSUME UNCHANGED <<params, slot>>
  PROVE  \A o : NullResult(o)' = NullResult(o) /\ Result(o)' = Result(o)
<1>1. \A o : NullResult(o)' = NullResult(o) BY DEF NullResult, P
<1>. QED BY <1>1 DEF Result

\* A parameter without an argument is an output, and none other is required.
LEMMA EveryParameterServes ==
  ASSUME NEW i \in Index, ~TakesArgument(i)
  PROVE  i \in Outputs
BY DEF TakesArgument, IsIn, IsOut, IsRetval, Outputs, GivesValue

-----------------------------------------------------------------------------
(* Slots. *)

LEMMA EmptySlot ==
  Empty \in Slot /\ Empty.from = None /\ Empty.size = None
    /\ Empty.by = "value" /\ Empty.mem = "none" /\ ~Empty.tiface
BY DEF Empty, Slot, Memory, None

LEMMA WithMemory ==
  ASSUME NEW s \in Slot, NEW m \in Memory
  PROVE  /\ [s EXCEPT !.mem = m] \in Slot
         /\ [s EXCEPT !.mem = m].mem = m
         /\ [s EXCEPT !.mem = m].from = s.from
         /\ [s EXCEPT !.mem = m].size = s.size
         /\ [s EXCEPT !.mem = m].by = s.by
         /\ [s EXCEPT !.mem = m].tiface = s.tiface
BY DEF Slot

LEMMA ReadSlot ==
  ASSUME x \in Nat
  PROVE  /\ Read \in Slot /\ Read.from = x /\ Read.size = None /\ Read.mem = "none"
         /\ Read.by = "value" /\ ~Read.tiface
BY DEF Read, Empty, Slot, Memory, None

LEMMA BorrowedSlot ==
  ASSUME x \in Nat
  PROVE  /\ Borrowed \in Slot /\ Borrowed.from = x /\ Borrowed.size = None
         /\ Borrowed.mem = "theirs" /\ Borrowed.by = "value" /\ ~Borrowed.tiface
<1>1. "theirs" \in Memory BY DEF Memory
<1>. QED BY <1>1, ReadSlot, WithMemory DEF Borrowed

\* A slot gives up its memory.
LEMMA GivenUpSlot ==
  ASSUME NEW s \in Slot, NEW left \in {"freed", "buffer"}
  PROVE  /\ GiveUp(s, left) \in Slot
         /\ s.mem = "live" => GiveUp(s, left).mem = left
         /\ s.mem = "none" => GiveUp(s, left).mem = "none"
         /\ s.mem \notin {"live", "none"} => GiveUp(s, left).mem = "broken"
         /\ GiveUp(s, left).tiface = s.tiface /\ GiveUp(s, left).by = s.by
<1>. DEFINE m == CASE s.mem = "live" -> left
                   [] s.mem = "none" -> "none"
                   [] OTHER -> "broken"
<1>1. m \in Memory BY DEF Memory
<1>2. /\ s.mem = "live" => m = left
      /\ s.mem = "none" => m = "none"
      /\ s.mem \notin {"live", "none"} => m = "broken"
  OBVIOUS
<1>3. GiveUp(s, left) = [s EXCEPT !.mem = m] BY DEF GiveUp, Slot
<1>. HIDE DEF m
<1>4. /\ [s EXCEPT !.mem = m] \in Slot
      /\ [s EXCEPT !.mem = m].mem = m
      /\ [s EXCEPT !.mem = m].by = s.by
      /\ [s EXCEPT !.mem = m].tiface = s.tiface
  BY <1>1, WithMemory
<1>. QED BY <1>2, <1>3, <1>4

LEMMA FreedSlot ==
  ASSUME NEW s \in Slot
  PROVE  /\ FreeSlot(s) \in Slot
         /\ s.mem \in {"none", "live"} =>
              FreeSlot(s).mem \notin {"broken", "live", "buffer"}
         /\ s.mem = "none" <=> FreeSlot(s).mem = "none"
         /\ FreeSlot(s).tiface = s.tiface /\ FreeSlot(s).by = s.by
BY GivenUpSlot DEF FreeSlot

LEMMA DeletedSlot ==
  ASSUME NEW s \in Slot, s.mem = "live"
  PROVE  /\ DeleteSlot(s) \in Slot /\ DeleteSlot(s).mem = "buffer"
         /\ DeleteSlot(s).tiface = s.tiface /\ DeleteSlot(s).by = s.by
BY GivenUpSlot DEF DeleteSlot

-----------------------------------------------------------------------------
(* Leaving the function with a failure. *)

LEMMA FailKeeps ==
  ASSUME IInv, NEW code \in Codes \ {"old", "OK"}, Fail(code),
         slot' \in [Index -> Slot], \A i \in Index : slot'[i].mem # "broken"
  PROVE  IInv'
<1>. USE DEF Fail, Release, call
<1>s. /\ pCount' = pCount /\ Index' = Index /\ oCount' = oCount
      /\ Inputs' = Inputs /\ Outputs' = Outputs
  BY SameSignature
<1>0. /\ pc' = "done" /\ held' = {} /\ argObj' = None /\ rc' = code /\ ret' = Undef
      /\ UNCHANGED <<params, iCount, x, kept>>
  OBVIOUS
<1>1. TypeOK'
  <2>1. ret' \in Seq(Int) BY <1>s, <1>0 DEF Undef, None
  <2>. QED BY <1>s, <1>0, <2>1 DEF IInv, TypeOK, Points
<1>2. PointsReached'
  BY <1>s, <1>0 DEF PointsReached, ReferencesDropped, FailureIsTold, Failed
<1>3. MemoryRight' BY <1>s, <1>0 DEF MemoryRight
<1>4. ArgumentsRight' BY <1>s, <1>0 DEF ArgumentsRight
<1>5. ResultsRight' BY <1>s, <1>0 DEF ResultsRight, ResultsInOrder, QuietCallsCleanUp
<1>. QED BY <1>1, <1>2, <1>3, <1>4, <1>5 DEF IInv

-----------------------------------------------------------------------------
(* Filling a slot. *)

LEMMA FillKeeps ==
  ASSUME IInv, AtParam("inputs"), NEW s \in Slot, Fill(s),
         s.mem # "broken",
         IF Owned(x) THEN s.mem \in {"none", "live"} ELSE s.mem \notin {"live", "buffer"},
         ~TakesArgument(x) => /\ s.mem = "live" => P(x).kind \in Made \cup Filled
                              /\ P(x).kind \in Filled => s.mem = "live",
         TakesArgument(x) => /\ s.from = x /\ (s.tiface <=> s.by = "id")
                             /\ P(x).kind = "domstring" => s.mem = "live",
         s.size # None => P(x).kind = "array" /\ s.size = P(x).arg,
         argObj' \in Index \cup {None}, kept' \subseteq Index
  PROVE  IInv'
<1>0. /\ pc = "inputs" /\ pc' = "inputs" /\ x < pCount /\ x' = x + 1
      /\ UNCHANGED <<params, iCount, held, rc, ret>>
  BY DEF Fill, call, AtParam
<1>s. /\ pCount' = pCount /\ Index' = Index /\ Inputs' = Inputs /\ Outputs' = Outputs
      /\ \A i : P(i)' = P(i) /\ Owned(i)' = Owned(i) /\ TakesArgument(i)' = TakesArgument(i)
      /\ oCount' = oCount
  BY <1>0, SameSignature
<1>1. x \in Index /\ x \in Nat /\ pCount \in Nat
  BY <1>0, Lengths DEF IInv, TypeOK, Index
<1>2. /\ slot' \in [Index -> Slot] /\ slot'[x] = s
      /\ \A i \in Index : i # x => slot'[i] = slot[i]
  BY <1>1 DEF Fill, IInv, TypeOK
<1>3. TypeOK' BY <1>s, <1>0, <1>1, <1>2 DEF IInv, TypeOK
<1>4. PointsReached'
  BY <1>s, <1>0 DEF IInv, PointsReached, ReferencesDropped, FailureIsTold, Failed
<1>5. MemoryRight'
  <2>1. \A i \in Index : slot'[i].mem # "broken" BY <1>s, <1>2 DEF IInv, MemoryRight
  <2>2. \A i \in Index : i >= x' => slot'[i] = Empty
    BY <1>0, <1>1, <1>2 DEF IInv, MemoryRight, Index
  <2>3. \A i \in Index : IF Owned(i) THEN slot'[i].mem \in {"none", "live"}
                                     ELSE slot'[i].mem \notin {"live", "buffer"}
    <3>1. \A i \in Index : IF Owned(i) THEN slot[i].mem \in {"none", "live"}
                                       ELSE slot[i].mem \notin {"live", "buffer"}
      BY <1>0 DEF IInv, MemoryRight
    <3>. QED BY <3>1, <1>2
  <2>4. \A i \in Index : HoldsOutput(i)'
    <3>1. \A i \in Index : HoldsOutput(i) BY <1>0 DEF IInv, MemoryRight
    <3>2. \A i \in Index : i # x => HoldsOutput(i)'
      BY <3>1, <1>s, <1>2 DEF HoldsOutput
    <3>3. \A i \in Index : i = x => HoldsOutput(i)' BY <1>s, <1>2 DEF HoldsOutput
    <3>. QED BY <3>2, <3>3
  <2>5. \A i \in Outputs : i < x' => StringReady(i)'
    <3>1. \A i \in Outputs : i < x => StringReady(i) BY <1>0 DEF IInv, MemoryRight
    <3>2. \A i \in Outputs : i \in Index BY DEF Outputs
    <3>3. \A i \in Outputs : i < x => StringReady(i)'
      BY <3>1, <3>2, <1>1, <1>2, <1>s DEF StringReady, Index
    <3>4. P(x).kind \in Filled /\ x \in Outputs => ~TakesArgument(x)
      BY DEF Outputs, GivesValue, TakesArgument, IsOut
    <3>5. \A i \in Outputs : i = x => StringReady(i)' BY <3>4, <1>2, <1>s DEF StringReady
    <3>6. \A i \in Outputs : i < x' => i < x \/ i = x
      BY <3>2, <1>0, <1>1 DEF Index
    <3>. QED BY <3>3, <3>5, <3>6
  <2>. QED BY <1>s, <2>1, <2>2, <2>3, <2>4, <2>5, <1>0 DEF MemoryRight
<1>6. ArgumentsRight'
  <2>1. \A i \in Inputs : i < x => FilledRight(i)
    BY <1>0 DEF IInv, ArgumentsRight
  <2>2. \A i \in Inputs : i < x => FilledRight(i)'
    BY <1>s, <2>1, <1>1, <1>2 DEF FilledRight, Inputs, Index
  <2>3. \A i \in Inputs : i = x => FilledRight(i)'
    BY <1>s, <1>2 DEF FilledRight, Inputs
  <2>. QED BY <1>s, <2>2, <2>3, <1>0, <1>1 DEF ArgumentsRight, Inputs, Index
<1>7. ResultsRight'
  BY <1>s, <1>0 DEF IInv, ResultsRight, ResultsInOrder, QuietCallsCleanUp
<1>. QED BY <1>3, <1>4, <1>5, <1>6, <1>7 DEF IInv

-----------------------------------------------------------------------------
(* Taking results. *)

\* Outputs are counted one by one.
LEMMA Counting ==
  ASSUME TypeOK, NEW k \in Index
  PROVE  /\ UpTo(k) = Before(k + 1)
         /\ IsFiniteSet(UpTo(k)) /\ IsFiniteSet(Before(k))
         /\ Cardinality(UpTo(k)) \in Nat /\ Cardinality(Before(k)) \in Nat
         /\ k \in Outputs => Cardinality(UpTo(k)) = Cardinality(Before(k)) + 1
         /\ k \notin Outputs => UpTo(k) = Before(k)
         /\ k \in Outputs /\ Cardinality(UpTo(k)) = oCount => UpTo(k) = Outputs
         /\ \A j \in Index : j < k /\ j \in Outputs =>
              Cardinality(UpTo(j)) \in 1 .. Cardinality(Before(k))
<1>0. Outputs \subseteq Index /\ IsFiniteSet(Outputs)
  BY Lengths
<1>n. Index \subseteq Nat /\ k \in Nat /\ \A j \in Outputs : j \in Nat
  BY <1>0, Lengths DEF Index
<1>1. UpTo(k) \subseteq Outputs /\ Before(k) \subseteq Outputs
  BY DEF UpTo, Before
<1>2. IsFiniteSet(UpTo(k)) /\ IsFiniteSet(Before(k))
  BY <1>0, <1>1, FS_Subset
<1>3. Cardinality(UpTo(k)) \in Nat /\ Cardinality(Before(k)) \in Nat
  BY <1>2, FS_CardinalityType
<1>4. UpTo(k) = Before(k + 1) BY <1>n DEF UpTo, Before
<1>5. k \in Outputs => Cardinality(UpTo(k)) = Cardinality(Before(k)) + 1
  <2>1. \A j \in Outputs : j <= k <=> j < k \/ j = k BY <1>n
  <2>2. k \in Outputs => UpTo(k) = Before(k) \cup {k} BY <2>1 DEF UpTo, Before
  <2>3. k \notin Before(k) BY <1>n DEF Before
  <2>. QED BY <2>2, <2>3, <1>2, FS_AddElement
<1>6. k \notin Outputs => UpTo(k) = Before(k)
  BY <1>n DEF UpTo, Before
<1>7. Cardinality(UpTo(k)) = oCount => UpTo(k) = Outputs
  BY <1>0, <1>1, FS_Subset DEF oCount
<1>8. ASSUME NEW j \in Index, j < k, j \in Outputs
      PROVE  Cardinality(UpTo(j)) \in 1 .. Cardinality(Before(k))
  <2>0. j \in Nat /\ j <= j /\ \A i \in Outputs : i <= j => i < k
    BY <1>n, <1>8
  <2>1. UpTo(j) \subseteq Before(k) /\ j \in UpTo(j)
    BY <2>0, <1>8 DEF UpTo, Before
  <2>2. IsFiniteSet(UpTo(j)) /\ Cardinality(UpTo(j)) <= Cardinality(Before(k))
    BY <2>1, <1>2, FS_Subset
  <2>3. Cardinality(UpTo(j)) \in Nat /\ Cardinality(UpTo(j)) # 0
    BY <2>1, <2>2, FS_CardinalityType, FS_EmptySet
  <2>. QED BY <2>2, <2>3, <1>3
<1>. QED BY <1>2, <1>3, <1>4, <1>5, <1>6, <1>7, <1>8

LEMMA OneElement ==
  ASSUME NEW s \in Seq(Int), Len(s) = 1
  PROVE  s = <<s[1]>>
OBVIOUS

LEMMA PopKeeps ==
  ASSUME IInv, AtParam("outputs"), GivesValue(x),
         NEW v, NEW s \in Slot, Pop(v, s), s.mem \notin {"broken", "live"},
         s.mem = "buffer" <=> P(x).kind \in Filled,
         \/ v = IF P(x).kind \in {"iid", "char_str"} /\ s.mem = "none" THEN None ELSE x
         \/ v = Missing /\ P(x).kind = "array"
  PROVE  IInv'
<1>0. /\ pc = "outputs" /\ x < pCount /\ rc = "OK"
      /\ Inputs \cap Outputs = {} /\ params \in Signature
      /\ pCount <= MAX_XPTC_ARG_COUNT /\ iCount = pCount - oCount
      /\ UNCHANGED <<params, iCount, kept, rc>>
  BY DEF Pop, call, AtParam, IInv, PointsReached
<1>s. /\ pCount' = pCount /\ Index' = Index /\ Inputs' = Inputs /\ Outputs' = Outputs
      /\ \A i : P(i)' = P(i) /\ TakesArgument(i)' = TakesArgument(i)
      /\ oCount' = oCount /\ Signature' = Signature
      /\ \A k : Before(k)' = Before(k) /\ UpTo(k)' = UpTo(k)
  BY <1>0, SameSignature DEF Before, UpTo
<1>1. x \in Index /\ x \in Nat /\ pCount \in Nat /\ x \in Outputs /\ Index \subseteq Nat
  BY <1>0, Lengths DEF IInv, TypeOK, Index, Outputs
<1>2. /\ slot' \in [Index -> Slot] /\ slot'[x] = s
      /\ \A i \in Index : i # x => slot'[i] = slot[i]
  BY <1>1 DEF Pop, IInv, TypeOK
<1>3. v \in Nat \cup {Missing, None} BY <1>1
<1>r. /\ \A o \in Index : o = x => v = Result(o)' \/ (v = Missing /\ P(o).kind = "array")
      /\ \A o \in Index : o # x => Result(o)' = Result(o)
  <2>1. \A o \in Index : o # x => NullResult(o)' = NullResult(o)
    BY <1>2, <1>s DEF NullResult
  <2>2. \A o \in Index :
          o = x => (NullResult(o)' <=> P(x).kind \in {"iid", "char_str"} /\ s.mem = "none")
    BY <1>2, <1>s DEF NullResult
  <2>. QED BY <2>1, <2>2 DEF Result
<1>4. ret \in Seq(Nat \cup {Missing, None}) /\ Len(ret) = Cardinality(Before(x))
  BY <1>0 DEF IInv, PointsReached, ResultsRight
<1>5. ret' = Append(ret, v) BY DEF Pop
<1>6. /\ ret' \in Seq(Nat \cup {Missing, None})
      /\ Len(ret') = Len(ret) + 1 /\ ret'[Len(ret) + 1] = v
      /\ \A k \in 1 .. Len(ret) : ret'[k] = ret[k]
  BY <1>3, <1>4, <1>5, AppendProperties
<1>7. ret' \in Seq(Int) /\ Len(ret') # 0
  <2>1. Len(ret) \in Nat BY <1>4, LenProperties
  <2>4. Nat \cup {Missing, None} \subseteq Int BY DEF Missing, None
  <2>5. Seq(Nat \cup {Missing, None}) \subseteq Seq(Int) BY <2>4, SeqDef
  <2>. QED BY <1>6, <2>1, <2>5
<1>8. TypeOK BY DEF IInv
<1>9. Len(ret') = Cardinality(UpTo(x))
  BY <1>1, <1>4, <1>6, <1>8, Counting
<1>10. \A o \in Outputs : o <= x => ReturnedRight(o)'
  <2>1. ASSUME NEW o \in Outputs, o < x PROVE ReturnedRight(o)'
    <3>1. ReturnedRight(o) BY <1>0, <2>1 DEF IInv, ResultsRight
    <3>2. o \in Index BY DEF Outputs
    <3>3. Cardinality(UpTo(o)) \in 1 .. Len(ret)
      BY <3>2, <2>1, <1>1, <1>4, <1>8, Counting
    <3>4. ret'[Cardinality(UpTo(o))] = ret[Cardinality(UpTo(o))] BY <3>3, <1>6
    <3>5. slot'[o] = slot[o] BY <3>2, <2>1, <1>1, <1>2
    <3>6. Result(o)' = Result(o) BY <3>2, <2>1, <1>1, <1>r
    <3>. QED BY <3>1, <3>4, <3>5, <3>6, <1>s DEF ReturnedRight
  <2>2. ASSUME NEW o \in Outputs, o = x PROVE ReturnedRight(o)'
    <3>1. ret'[Cardinality(UpTo(o))] = v BY <2>2, <1>4, <1>6, <1>9
    <3>2. o \in Index BY DEF Outputs
    <3>3. v = Result(o)' \/ (v = Missing /\ P(o).kind = "array") BY <3>2, <2>2, <1>r
    <3>4. slot'[o] = s /\ P(o)' = P(o) /\ P(o) = P(x) /\ UpTo(o)' = UpTo(o)
      BY <2>2, <1>2, <1>s
    <3>5. slot'[o].mem # "live" /\ (slot'[o].mem = "buffer" <=> P(o).kind \in Filled)
      BY <3>4
    <3>. QED BY <3>1, <3>3, <3>4, <3>5 DEF ReturnedRight
  <2>. QED BY <2>1, <2>2, <1>1 DEF Outputs
<1>11. \A i \in Index : slot'[i].mem # "broken"
  BY <1>2 DEF IInv, MemoryRight
<1>12. CASE Len(ret') = oCount
  <2>0. pc' = "done" /\ held' = {} /\ argObj' = None /\ x' = x
    BY <1>12 DEF Pop, Release
  <2>1. TypeOK' BY <2>0, <1>0, <1>s, <1>2, <1>7 DEF IInv, TypeOK, Points
  <2>3. MemoryRight' BY <2>0, <1>s, <1>11 DEF MemoryRight
  <2>4. ArgumentsRight' BY <2>0 DEF ArgumentsRight
  <2>5. UpTo(x) = Outputs
    BY <1>12, <1>1, <1>8, <1>9, Counting
  <2>6. \A o \in Outputs : ReturnedRight(o)'
    BY <2>5, <1>10 DEF UpTo
  <2>f. FailureIsTold'
    <3>1. ~Failed' BY <1>0 DEF Failed
    <3>2. ASSUME ret' = Undef PROVE oCount = 1 /\ \E o \in Outputs : NullResult(o)'
      <4>1. Len(ret') = 1 /\ ret'[1] = None BY <3>2 DEF Undef
      <4>2. PICK o \in Outputs : o = x BY <1>1
      <4>3. o \in Index /\ o \in Nat BY <4>2, <1>1
      <4>4. Len(ret) = 0 BY <4>1, <1>4, <1>6, LenProperties
      <4>5. v = None BY <4>1, <4>4, <1>6
      <4>6. Result(o)' = None BY <4>2, <4>3, <4>5, <1>r DEF None, Missing
      <4>7. NullResult(o)' BY <4>3, <4>6 DEF Result, None
      <4>. QED BY <4>1, <4>7, <1>12
    <3>3. ASSUME oCount = 1, NEW o \in Outputs, NullResult(o)' PROVE ret' = Undef
      <4>1. o \in Index /\ o \in Nat /\ o <= x BY <2>5, <3>3, <1>1 DEF UpTo, Outputs
      <4>2. Cardinality(UpTo(o)) \in 1 .. 1
        <5>1. Cardinality(UpTo(o)) \in Nat /\ IsFiniteSet(UpTo(o)) BY <4>1, <1>8, Counting
        <5>2. o \in UpTo(o) BY <4>1 DEF UpTo
        <5>3. Cardinality(UpTo(o)) # 0 BY <5>1, <5>2, FS_EmptySet
        <5>4. UpTo(o) \subseteq Outputs BY DEF UpTo
        <5>5. Cardinality(UpTo(o)) <= 1
          BY <5>4, <1>8, <3>3, Lengths, FS_Subset DEF oCount
        <5>. QED BY <5>1, <5>3, <5>5
      <4>3. ret'[1] = None
        <5>1. ReturnedRight(o)' BY <2>6, <3>3
        <5>2. Result(o)' = None /\ P(o)'.kind # "array" BY <3>3 DEF Result, NullResult
        <5>3. Cardinality(UpTo(o)) = 1 BY <4>2
        <5>. QED BY <5>1, <5>2, <5>3, <1>s DEF ReturnedRight
      <4>4. Len(ret') = 1 BY <1>12, <3>3
      <4>. QED BY <4>3, <4>4, <1>7, OneElement DEF Undef
    <3>. QED BY <3>1, <3>2, <3>3, <1>1, <1>s DEF FailureIsTold
  <2>2. PointsReached'
    BY <2>0, <2>f, <1>0, <1>s, <1>6, <1>7 DEF PointsReached, ReferencesDropped
  <2>7. ResultsInOrder'
    BY <2>6, <1>12, <1>s DEF ResultsInOrder, ReturnedRight, UpTo
  <2>8. QuietCallsCleanUp' BY <1>12, <1>7, <1>s DEF QuietCallsCleanUp
  <2>9. ResultsRight' BY <2>0, <2>7, <2>8 DEF ResultsRight
  <2>. QED BY <2>1, <2>2, <2>3, <2>4, <2>9 DEF IInv
<1>13. CASE Len(ret') # oCount
  <2>0. pc' = "outputs" /\ x' = x + 1 /\ UNCHANGED <<held, argObj>>
    BY <1>13, <1>0 DEF Pop
  <2>1. TypeOK' BY <2>0, <1>0, <1>1, <1>s, <1>2, <1>7 DEF IInv, TypeOK
  <2>2. PointsReached'
    BY <2>0, <1>0, <1>s, <1>6 DEF PointsReached, ReferencesDropped, FailureIsTold, Failed
  <2>3. MemoryRight'
    <3>1. \A i \in Outputs : i >= x => slot[i].mem \in {"none", "live"}
      BY <1>0 DEF IInv, MemoryRight
    <3>2. ASSUME NEW i \in Outputs, i >= x + 1
          PROVE  slot'[i].mem \in {"none", "live"}
      <4>1. i \in Index BY DEF Outputs
      <4>2. i \in Int /\ i # x /\ i >= x BY <4>1, <3>2, <1>1
      <4>3. slot'[i] = slot[i] BY <4>1, <4>2, <1>2
      <4>. QED BY <3>1, <4>2, <4>3
    <3>3. \A i \in Index : HoldsOutput(i) BY <1>0 DEF IInv, MemoryRight
    <3>4. \A i \in Index : HoldsOutput(i)' BY <3>3, <1>2, <1>s DEF HoldsOutput
    <3>5. \A i \in Outputs : i >= x => StringReady(i) BY <1>0 DEF IInv, MemoryRight
    <3>6. ASSUME NEW i \in Outputs, i >= x + 1 PROVE StringReady(i)'
      <4>1. i \in Index BY DEF Outputs
      <4>2. i \in Int /\ i # x /\ i >= x BY <4>1, <3>6, <1>1
      <4>3. slot'[i] = slot[i] BY <4>1, <4>2, <1>2
      <4>. QED BY <3>5, <4>2, <4>3, <1>s DEF StringReady
    <3>. QED BY <3>2, <3>4, <3>6, <2>0, <1>s, <1>11 DEF MemoryRight
  <2>4. ArgumentsRight'
    <3>1. \A i \in Inputs : FilledRight(i) BY <1>0 DEF IInv, ArgumentsRight
    <3>2. \A i \in Inputs : slot'[i] = slot[i] BY <1>0, <1>1, <1>2 DEF Inputs
    <3>3. \A i \in Inputs : FilledRight(i)' BY <3>1, <3>2, <1>s DEF FilledRight
    <3>. QED BY <3>3, <2>0, <1>s DEF ArgumentsRight
  <2>5. Len(ret') = Cardinality(Before(x'))
    BY <2>0, <1>1, <1>8, <1>9, Counting
  <2>6. \A o \in Outputs : o < x' => ReturnedRight(o)'
    BY <2>0, <1>1, <1>10 DEF Outputs
  <2>7. Before(x)' = Before(x') BY <1>s DEF Before
  <2>8. ResultsRight'
    BY <2>0, <2>5, <2>6, <2>7, <1>s DEF ResultsRight, ResultsInOrder, QuietCallsCleanUp
  <2>. QED BY <2>1, <2>2, <2>3, <2>4, <2>8 DEF IInv
<1>. QED BY <1>12, <1>13

-----------------------------------------------------------------------------
(* The steps before the slots are filled. *)

\* Before a method is found there is no parameter.
LEMMA NoSignature ==
  ASSUME params = <<>>
  PROVE  pCount = 0 /\ Index = {} /\ Inputs = {} /\ Outputs = {}
<1>1. pCount = 0 BY DEF pCount
<1>2. Index = {} BY <1>1 DEF Index
<1>. QED BY <1>1, <1>2 DEF Inputs, Outputs

LEMMA InitRight == Init => IInv
<1>. SUFFICES ASSUME Init PROVE IInv OBVIOUS
<1>. USE DEF Init
<1>1. pCount = 0 /\ Index = {} /\ Inputs = {} /\ Outputs = {} BY NoSignature
<1>2. TypeOK
  <2>1. params \in Seq(Param) /\ ret \in Seq(Int) BY EmptySeq
  <2>. QED BY <1>1, <2>1 DEF TypeOK, Points, Codes
<1>3. PointsReached BY DEF PointsReached, ReferencesDropped, FailureIsTold
<1>4. MemoryRight BY <1>1 DEF MemoryRight
<1>5. ArgumentsRight BY DEF ArgumentsRight
<1>6. ResultsRight BY DEF ResultsRight, ResultsInOrder, QuietCallsCleanUp
<1>. QED BY <1>2, <1>3, <1>4, <1>5, <1>6 DEF IInv

LEMMA CallKeeps == IInv /\ Call => IInv'
<1>. SUFFICES ASSUME IInv, Call PROVE IInv' OBVIOUS
<1>0. /\ pc' = "lookup" /\ held' = {"iim"} /\ params' = <<>> /\ kept' = {}
      /\ x' = 0 /\ argObj' = None /\ rc' = "old" /\ ret' = <<>>
      /\ slot' = [i \in {} |-> Empty]
  BY DEF Call
<1>1. pCount' = 0 BY <1>0 DEF pCount
<1>2. Index' = {} BY <1>1 DEF Index
<1>3. Inputs' = {} /\ Outputs' = {} BY <1>2 DEF Inputs, Outputs
<1>4. iCount' \in Nat BY XPCOMCallAssumption DEF Call
<1>5. TypeOK'
  <2>1. params' \in Seq(Param) /\ ret' \in Seq(Int) BY <1>0, EmptySeq
  <2>. QED BY <1>0, <1>1, <1>2, <1>4, <2>1 DEF TypeOK, Points, Codes
<1>6. PointsReached' BY <1>0 DEF PointsReached, ReferencesDropped, FailureIsTold
<1>7. MemoryRight' BY <1>0, <1>2 DEF MemoryRight
<1>8. ArgumentsRight' BY <1>0 DEF ArgumentsRight
<1>9. ResultsRight' BY <1>0 DEF ResultsRight, ResultsInOrder, QuietCallsCleanUp
<1>. QED BY <1>5, <1>6, <1>7, <1>8, <1>9 DEF IInv

LEMMA FailedCodes ==
  {"ABORT", "INTERFACE", "NOT_AVAILABLE", "UNEXPECTED", "NULL_POINTER", "FAILURE",
   "NOT_IMPLEMENTED", "OUT_OF_MEMORY", "NATIVE", "NO_INTERFACE"} \subseteq Codes \ {"old", "OK"}
BY DEF Codes

\* A failure that leaves the slots as they are.
LEMMA FailAlone ==
  ASSUME IInv, NEW code \in Codes \ {"old", "OK"}, Fail(code), UNCHANGED slot
  PROVE  IInv'
<1>1. slot' \in [Index -> Slot] /\ \A i \in Index : slot'[i].mem # "broken"
  BY DEF IInv, TypeOK, MemoryRight
<1>. QED BY <1>1, FailKeeps

LEMMA ConstantKeeps == IInv /\ Constant => IInv'
<1>. SUFFICES ASSUME IInv, Constant PROVE IInv' OBVIOUS
<1>0. /\ pc = "lookup" /\ pc' = "done" /\ held' = {} /\ argObj' = None
      /\ ret' \in {Undef, <<0>>} /\ UNCHANGED <<params, iCount, x, slot, kept, rc>>
      /\ rc = "old" /\ params = <<>>
  BY DEF Constant, Release, call, IInv, PointsReached
<1>s. /\ pCount' = pCount /\ Index' = Index /\ oCount' = oCount
  BY <1>0, SameSignature
<1>1. TypeOK'
  <2>a. Undef \in Seq(Int) BY DEF Undef, None
  <2>b. <<0>> \in Seq(Int) OBVIOUS
  <2>1. ret' \in Seq(Int) BY <1>0, <2>a, <2>b
  <2>. QED BY <1>0, <1>s, <2>1 DEF IInv, TypeOK, Points
<1>2. PointsReached'
  BY <1>0 DEF PointsReached, ReferencesDropped, FailureIsTold
<1>3. MemoryRight' BY <1>0, <1>s DEF IInv, MemoryRight
<1>4. ArgumentsRight' BY <1>0 DEF ArgumentsRight
<1>5. ResultsRight' BY <1>0 DEF ResultsRight, ResultsInOrder, QuietCallsCleanUp
<1>. QED BY <1>1, <1>2, <1>3, <1>4, <1>5 DEF IInv

\* The process is lost: nothing is said of it any more but its type.
LEMMA LostKeeps ==
  ASSUME IInv, pc # "done", rc = "old", pc' = "lost",
         UNCHANGED <<call, x, slot, held, argObj, kept, rc, ret>>
  PROVE  IInv'
<1>0. UNCHANGED <<params, iCount, x, slot, held, argObj, kept, rc, ret>> BY DEF call
<1>s. pCount' = pCount /\ Index' = Index /\ oCount' = oCount
  BY <1>0, SameSignature
<1>1. TypeOK' BY <1>0, <1>s DEF IInv, TypeOK, Points
<1>2. PointsReached'
  BY <1>0 DEF PointsReached, ReferencesDropped, FailureIsTold
<1>3. MemoryRight' BY <1>0, <1>s DEF IInv, MemoryRight
<1>4. ArgumentsRight' BY DEF ArgumentsRight
<1>5. ResultsRight' BY DEF ResultsRight, ResultsInOrder, QuietCallsCleanUp
<1>. QED BY <1>1, <1>2, <1>3, <1>4, <1>5 DEF IInv

LEMMA FoundKeeps == IInv /\ Found => IInv'
<1>. SUFFICES ASSUME IInv, Found PROVE IInv' OBVIOUS
<1>0. /\ pc = "lookup" /\ pc' = "count" /\ params' \in Signature
      /\ slot' = [i \in 0..(Len(params') - 1) |-> Empty]
      /\ held' = held \cup {"theObject", "theIFace"}
      /\ UNCHANGED <<iCount, x, argObj, kept, rc, ret>>
      /\ params = <<>> /\ x = 0 /\ rc = "old" /\ ret = <<>>
  BY DEF Found, IInv, PointsReached
<1>1. params' \in Seq(Param) \cup Long BY <1>0, SignatureTypes
<1>2. Len(params') \in Nat BY <1>1, LongLength, LenProperties
<1>3. pCount' \in Nat /\ pCount' = Len(params') BY <1>2 DEF pCount
<1>4. Index' = 0..(Len(params') - 1) BY <1>3 DEF Index
<1>5. slot' \in [Index' -> Slot] /\ \A i \in Index' : slot'[i] = Empty
  BY <1>0, <1>4, EmptySlot
<1>6. kept = {} /\ argObj = None BY <1>0, NoSignature DEF IInv, TypeOK
<1>7. TypeOK' BY <1>0, <1>1, <1>3, <1>5, <1>6 DEF IInv, TypeOK, Points
<1>8. PointsReached' BY <1>0 DEF PointsReached, ReferencesDropped, FailureIsTold, Signature
<1>9. MemoryRight'
  <2>1. \A i \in Index' : slot'[i].mem = "none" BY <1>5, EmptySlot
  <2>. QED BY <1>0, <1>5, <2>1 DEF MemoryRight, HoldsOutput
<1>10. ArgumentsRight' BY <1>0 DEF ArgumentsRight
<1>11. ResultsRight' BY <1>0 DEF ResultsRight, ResultsInOrder, QuietCallsCleanUp
<1>. QED BY <1>7, <1>8, <1>9, <1>10, <1>11 DEF IInv

LEMMA RightCountKeeps == IInv /\ RightCount => IInv'
<1>. SUFFICES ASSUME IInv, RightCount PROVE IInv' OBVIOUS
<1>0. /\ pc = "count" /\ pc' = "inputs" /\ x = 0
      /\ pCount <= MAX_XPTC_ARG_COUNT /\ iCount = pCount - oCount
      /\ UNCHANGED <<params, iCount, x, slot, held, argObj, kept, rc, ret>>
  BY DEF RightCount, call, IInv, PointsReached
<1>s. /\ pCount' = pCount /\ Index' = Index /\ oCount' = oCount
      /\ Inputs' = Inputs /\ Outputs' = Outputs /\ Signature' = Signature
      /\ \A i : P(i)' = P(i) /\ Owned(i)' = Owned(i) /\ TakesArgument(i)' = TakesArgument(i)
  BY <1>0, SameSignature
<1>1. TypeOK' BY <1>0, <1>s DEF IInv, TypeOK, Points
<1>2. PointsReached'
  BY <1>0, <1>s DEF IInv, PointsReached, ReferencesDropped, FailureIsTold, Signature
<1>3. MemoryRight'
  <2>1. \A i \in Outputs : ~(i < 0) BY Lengths DEF IInv, Index
  <2>. QED BY <1>0, <1>s, <2>1 DEF IInv, MemoryRight, HoldsOutput
<1>4. ArgumentsRight'
  BY <1>0, <1>s DEF ArgumentsRight, Inputs, Index
<1>5. ResultsRight' BY <1>0 DEF ResultsRight, ResultsInOrder, QuietCallsCleanUp
<1>. QED BY <1>1, <1>2, <1>3, <1>4, <1>5 DEF IInv

-----------------------------------------------------------------------------
(* The steps that fill the slots. *)

LEMMA ArgumentNumbers ==
  ASSUME TypeOK, NEW i \in Index
  PROVE  P(i).arg \in Nat
<1>1. pCount \in Nat /\ i + 1 \in 1 .. Len(params)
  BY Lengths DEF Index, pCount
<1>2. CASE params \in Seq(Param)
  <2>1. params[i + 1] \in Param BY <1>1, <1>2, ElementOfSeq
  <2>2. params[i + 1].arg \in 0 .. (MaxParams - 1) BY <2>1 DEF Param
  <2>. QED BY <2>2 DEF P
<1>3. CASE params \in Long
  <2>1. Len(params) = MAX_XPTC_ARG_COUNT + 1 BY <1>3, LongLength
  <2>2. params[i + 1] \in [dir : {"in"}, kind : {"number"}, arg : {0}]
    BY <1>1, <1>3, <2>1 DEF Long
  <2>. QED BY <2>2 DEF P
<1>. QED BY <1>2, <1>3 DEF TypeOK

\* What each of the steps finds.
LEMMA AtSlot ==
  ASSUME IInv, AtParam("inputs")
  PROVE  /\ x \in Index /\ x \in Nat /\ pc = "inputs"
         /\ argObj \in Index \cup {None} /\ kept \subseteq Index
         /\ slot \in [Index -> Slot] /\ \A i \in Index : slot[i].mem # "broken"
BY Lengths DEF IInv, TypeOK, AtParam, Index, MemoryRight

LEMMA PlainInputKeeps == IInv /\ PlainInput => IInv'
<1>. SUFFICES ASSUME IInv, PlainInput PROVE IInv' OBVIOUS
<1>1. /\ AtParam("inputs") /\ TakesArgument(x) /\ UNCHANGED argObj
      /\ P(x).kind \in {"number", "char_str", "sized_str"} /\ ~Owned(x)
      /\ \/ Fill(Read) /\ UNCHANGED kept
         \/ Fill(Borrowed) /\ kept' = kept \cup {x}
  BY DEF PlainInput, AtInput, Owned, Copied
<1>2. argObj' \in Index \cup {None} /\ kept' \subseteq Index BY <1>1, AtSlot
<1>3. CASE Fill(Read) BY <1>1, <1>2, <1>3, AtSlot, ReadSlot, FillKeeps
<1>4. CASE Fill(Borrowed) BY <1>1, <1>2, <1>4, AtSlot, BorrowedSlot, FillKeeps
<1>. QED BY <1>1, <1>3, <1>4

LEMMA CopiedInputKeeps == IInv /\ CopiedInput => IInv'
<1>. SUFFICES ASSUME IInv, CopiedInput PROVE IInv' OBVIOUS
<1>. DEFINE s == [Read EXCEPT !.mem = "live"]
<1>1. /\ AtParam("inputs") /\ TakesArgument(x) /\ Fill(s)
      /\ UNCHANGED <<argObj, kept>> /\ Owned(x)
  BY DEF CopiedInput, AtInput, Owned
<1>2. argObj' \in Index \cup {None} /\ kept' \subseteq Index BY <1>1, AtSlot
<1>3. /\ s \in Slot /\ s.mem = "live" /\ s.from = x /\ s.size = None
      /\ s.by = "value" /\ ~s.tiface
  BY <1>1, AtSlot, ReadSlot, WithMemory DEF Memory
<1>. HIDE DEF s
<1>. QED BY <1>1, <1>2, <1>3, FillKeeps

LEMMA IIDInputKeeps == IInv /\ IIDInput => IInv'
<1>. SUFFICES ASSUME IInv, IIDInput PROVE IInv' OBVIOUS
<1>1. /\ AtParam("inputs") /\ TakesArgument(x) /\ UNCHANGED argObj
      /\ P(x).kind = "iid" /\ ~Owned(x)
  BY DEF IIDInput, AtInput, Owned, Copied
<1>2. x \in Nat BY <1>1, AtSlot
<1>3. ASSUME Fill(Borrowed), kept' = kept \cup {x} PROVE IInv'
  <2>1. argObj' \in Index \cup {None} /\ kept' \subseteq Index BY <1>1, <1>3, AtSlot
  <2>. QED BY <1>1, <1>2, <1>3, <2>1, BorrowedSlot, FillKeeps
<1>4. ASSUME NEW by \in {"name", "id", "null"}, UNCHANGED kept,
             NEW r \in {Read, Borrowed}, NEW t \in BOOLEAN, t <=> by = "id",
             Fill([r EXCEPT !.by = by, !.tiface = t])
      PROVE  IInv'
  <2>. DEFINE s == [r EXCEPT !.by = by, !.tiface = t]
  <2>1. argObj' \in Index \cup {None} /\ kept' \subseteq Index BY <1>1, <1>4, AtSlot
  <2>2. Fill(s) BY <1>4
  <2>3. r \in Slot /\ r.from = x /\ r.size = None /\ r.mem \in {"none", "theirs"}
    BY <1>2, ReadSlot, BorrowedSlot
  <2>4. /\ s \in Slot /\ s.from = x /\ s.size = None /\ s.mem \in {"none", "theirs"}
        /\ s.tiface <=> s.by = "id"
    BY <1>4, <2>3 DEF Slot
  <2>. HIDE DEF s
  <2>. QED BY <1>1, <2>1, <2>2, <2>4, FillKeeps
<1>5. \A r \in {Read, Borrowed}, by \in {"name", "null"} :
        [r EXCEPT !.by = by] = [r EXCEPT !.by = by, !.tiface = FALSE]
  BY <1>2, ReadSlot, BorrowedSlot DEF Slot
<1>6. CASE Fill([Borrowed EXCEPT !.by = "name"]) /\ UNCHANGED kept
  BY <1>4, <1>5, <1>6
<1>7. CASE Fill([Borrowed EXCEPT !.by = "id", !.tiface = TRUE]) /\ UNCHANGED kept
  BY <1>4, <1>7
<1>8. CASE Fill([Read EXCEPT !.by = "null"]) /\ UNCHANGED kept
  BY <1>4, <1>5, <1>8
<1>. QED BY <1>3, <1>6, <1>7, <1>8 DEF IIDInput

LEMMA InterfaceInputKeeps == IInv /\ InterfaceInput => IInv'
<1>. SUFFICES ASSUME IInv, InterfaceInput PROVE IInv' OBVIOUS
<1>1. /\ AtParam("inputs") /\ TakesArgument(x)
      /\ P(x).kind \in Interfaces /\ P(x).kind # "domstring" /\ ~Owned(x)
  BY DEF InterfaceInput, AtInput, Owned, Copied, Interfaces
<1>2. x \in Nat /\ x \in Index BY <1>1, AtSlot
<1>3. ASSUME Fill(Borrowed), argObj' = x, kept' = kept \cup {x} PROVE IInv'
  <2>1. argObj' \in Index \cup {None} /\ kept' \subseteq Index BY <1>1, <1>3, AtSlot
  <2>. QED BY <1>1, <1>2, <1>3, <2>1, BorrowedSlot, FillKeeps
<1>4. ASSUME Fill([Read EXCEPT !.by = "null"]), argObj' = None, UNCHANGED kept
      PROVE  IInv'
  <2>. DEFINE s == [Read EXCEPT !.by = "null"]
  <2>1. argObj' \in Index \cup {None} /\ kept' \subseteq Index BY <1>1, <1>4, AtSlot
  <2>2. Fill(s) BY <1>4
  <2>3. Read \in Slot /\ Read.from = x /\ Read.size = None /\ Read.mem = "none" /\ ~Read.tiface
    BY <1>2, ReadSlot
  <2>4. s \in Slot /\ s.from = x /\ s.size = None /\ s.mem = "none" /\ ~s.tiface /\ s.by = "null"
    BY <2>3 DEF Slot
  <2>. HIDE DEF s
  <2>. QED BY <1>1, <2>1, <2>2, <2>4, FillKeeps
<1>. QED BY <1>3, <1>4 DEF InterfaceInput

LEMMA ArrayInputKeeps == IInv /\ ArrayInput => IInv'
<1>. SUFFICES ASSUME IInv, ArrayInput PROVE IInv' OBVIOUS
<1>1. PICK m \in {"none", "live"} :
        Fill([Read EXCEPT !.size = P(x).arg, !.mem = m])
  BY DEF ArrayInput
<1>2. /\ AtParam("inputs") /\ TakesArgument(x) /\ P(x).kind = "array"
      /\ UNCHANGED <<argObj, kept>> /\ Owned(x)
  BY DEF ArrayInput, AtInput, Owned
<1>3. argObj' \in Index \cup {None} /\ kept' \subseteq Index /\ x \in Index /\ x \in Nat
  BY <1>2, AtSlot
<1>. DEFINE a == P(x).arg
            s == [Read EXCEPT !.size = a, !.mem = m]
<1>4. Fill(s) BY <1>1
<1>5. a \in Nat BY <1>3, ArgumentNumbers DEF IInv
<1>. HIDE DEF a
<1>6. Read \in Slot /\ Read.from = x /\ ~Read.tiface /\ Read.by = "value" BY <1>3, ReadSlot
<1>7. s \in Slot /\ s.from = x /\ s.size = a /\ s.mem = m /\ ~s.tiface /\ s.by = "value"
  BY <1>1, <1>5, <1>6 DEF Slot, Memory
<1>. HIDE DEF s
<1>8. s.size # None => P(x).kind = "array" /\ s.size = P(x).arg BY <1>2, <1>7 DEF a
<1>. QED BY <1>1, <1>2, <1>3, <1>4, <1>7, <1>8, FillKeeps

LEMMA OutputSlotKeeps == IInv /\ OutputSlot => IInv'
<1>. SUFFICES ASSUME IInv, OutputSlot PROVE IInv' OBVIOUS
<1>. DEFINE m == IF P(x).kind \in Filled THEN "live" ELSE "none"
            s == [Empty EXCEPT !.mem = m]
<1>1. /\ AtParam("inputs") /\ ~TakesArgument(x) /\ Fill(s)
      /\ UNCHANGED <<argObj, kept>> /\ Owned(x)
  BY DEF OutputSlot, AtOutputSlot, Owned
<1>2. argObj' \in Index \cup {None} /\ kept' \subseteq Index BY <1>1, AtSlot
<1>3. /\ m \in {"live", "none"}
      /\ m = "live" => P(x).kind \in Made \cup Filled
      /\ P(x).kind \in Filled => m = "live"
  OBVIOUS
<1>. HIDE DEF m
<1>4. s \in Slot /\ s.mem = m /\ s.size = None
  BY <1>3, EmptySlot DEF Slot, Memory
<1>. HIDE DEF s
<1>. QED BY <1>1, <1>2, <1>3, <1>4, FillKeeps

LEMMA SlotsFilledKeeps == IInv /\ SlotsFilled => IInv'
<1>. SUFFICES ASSUME IInv, SlotsFilled PROVE IInv' OBVIOUS
<1>0. /\ pc = "inputs" /\ pc' = "native" /\ x = pCount
      /\ UNCHANGED <<params, iCount, x, slot, held, argObj, kept, rc, ret>>
  BY DEF SlotsFilled, call
<1>s. /\ pCount' = pCount /\ Index' = Index /\ oCount' = oCount
      /\ Inputs' = Inputs /\ Outputs' = Outputs /\ Signature' = Signature
      /\ \A i : P(i)' = P(i) /\ Owned(i)' = Owned(i) /\ TakesArgument(i)' = TakesArgument(i)
  BY <1>0, SameSignature
<1>1. TypeOK' BY <1>0, <1>s DEF IInv, TypeOK, Points
<1>2. PointsReached'
  BY <1>0, <1>s DEF IInv, PointsReached, ReferencesDropped, FailureIsTold
<1>3. MemoryRight'
  <2>1. \A i \in Outputs : i < x BY <1>0, Lengths DEF IInv, Index
  <2>2. \A i \in Outputs : StringReady(i) BY <1>0, <2>1 DEF IInv, MemoryRight
  <2>3. \A i \in Outputs : StringReady(i)' BY <1>0, <1>s, <2>2 DEF StringReady
  <2>. QED BY <1>0, <1>s, <2>3 DEF IInv, MemoryRight, HoldsOutput
<1>4. ArgumentsRight'
  <2>1. \A i \in Inputs : i < x
    BY <1>0, Lengths DEF IInv, Inputs, Index
  <2>2. \A i \in Inputs : FilledRight(i) BY <1>0, <2>1 DEF IInv, ArgumentsRight
  <2>. QED BY <1>0, <1>s, <2>2 DEF ArgumentsRight, FilledRight
<1>5. ResultsRight' BY <1>0 DEF ResultsRight, ResultsInOrder, QuietCallsCleanUp
<1>. QED BY <1>1, <1>2, <1>3, <1>4, <1>5 DEF IInv

-----------------------------------------------------------------------------
(* The native method, and the end of a call without results. *)

LEMMA ScriptKeeps == IInv /\ ScriptChanges => IInv'
<1>. SUFFICES ASSUME IInv, ScriptChanges PROVE IInv' OBVIOUS
<1>0. /\ pc = "native" /\ pc' = "native" /\ kept' \subseteq kept
      /\ UNCHANGED <<params, iCount, x, slot, held, argObj, rc, ret>>
  BY DEF ScriptChanges, call
<1>s. /\ pCount' = pCount /\ Index' = Index /\ oCount' = oCount
      /\ Inputs' = Inputs /\ Outputs' = Outputs /\ Signature' = Signature
      /\ \A i : P(i)' = P(i) /\ Owned(i)' = Owned(i) /\ TakesArgument(i)' = TakesArgument(i)
  BY <1>0, SameSignature
<1>1. TypeOK' BY <1>0, <1>s DEF IInv, TypeOK, Points
<1>2. PointsReached'
  BY <1>0, <1>s DEF IInv, PointsReached, ReferencesDropped, FailureIsTold
<1>3. MemoryRight' BY <1>0, <1>s DEF IInv, MemoryRight, HoldsOutput, StringReady
<1>4. ArgumentsRight' BY <1>0, <1>s DEF IInv, ArgumentsRight, FilledRight
<1>5. ResultsRight' BY <1>0 DEF ResultsRight, ResultsInOrder, QuietCallsCleanUp
<1>. QED BY <1>1, <1>2, <1>3, <1>4, <1>5 DEF IInv

LEMMA MethodSucceedsKeeps == IInv /\ MethodSucceeds => IInv'
<1>. SUFFICES ASSUME IInv, MethodSucceeds PROVE IInv' OBVIOUS
<1>0. /\ pc = "native" /\ Inputs \cap Outputs = {}
      /\ rc' = "OK" /\ x' = 0 /\ pc' = IF oCount = 0 THEN "cleanup" ELSE "outputs"
      /\ ret = <<>> /\ UNCHANGED <<params, iCount, held, argObj, kept, ret>>
  BY DEF MethodSucceeds, call, IInv, PointsReached
<1>s. /\ pCount' = pCount /\ Index' = Index /\ oCount' = oCount
      /\ Inputs' = Inputs /\ Outputs' = Outputs /\ Signature' = Signature
      /\ \A i : P(i)' = P(i) /\ Owned(i)' = Owned(i) /\ TakesArgument(i)' = TakesArgument(i)
  BY <1>0, SameSignature
<1>1. PICK null \in SUBSET {i \in Outputs : P(i).kind \in Made} :
        slot' = [i \in Index |->
                   IF i \in Outputs \ null /\ P(i).kind \in Made
                   THEN [slot[i] EXCEPT !.mem = "live"] ELSE slot[i]]
  BY DEF MethodSucceeds
<1>2. pCount \in Nat /\ Outputs \subseteq Index /\ Inputs \subseteq Index /\ Index \subseteq Nat
  BY Lengths DEF IInv, Index
<1>3. \A i \in Index : slot[i] \in Slot BY DEF IInv, TypeOK
<1>4. \A i \in Index :
        /\ slot'[i] \in Slot
        /\ \/ slot'[i] = slot[i]
           \/ slot'[i].mem = "live" /\ i \in Outputs /\ P(i).kind \in Made
  <2>1. \A s \in Slot :
          [s EXCEPT !.mem = "live"] \in Slot /\ [s EXCEPT !.mem = "live"].mem = "live"
    BY WithMemory DEF Memory
  <2>. QED BY <1>1, <1>3, <2>1
<1>5. slot' \in [Index -> Slot] BY <1>1, <1>4
<1>6. TypeOK' BY <1>0, <1>2, <1>5, <1>s DEF IInv, TypeOK, Points, Codes
<1>7. PointsReached'
  <2>1. <<>> \in Seq(Nat \cup {Missing, None}) BY EmptySeq
  <2>. QED BY <1>0, <1>s, <2>1 DEF IInv, PointsReached, ReferencesDropped, FailureIsTold
<1>8. MemoryRight'
  <2>1. \A i \in Outputs : ~TakesArgument(i) /\ Owned(i)
    BY <1>0, <1>2 DEF Inputs, Owned
  <2>2. \A i \in Index : slot[i].mem # "broken" /\ HoldsOutput(i)
    BY <1>0 DEF IInv, MemoryRight
  <2>3. \A i \in Index : IF Owned(i) THEN slot[i].mem \in {"none", "live"}
                                     ELSE slot[i].mem \notin {"live", "buffer"}
    BY <1>0 DEF IInv, MemoryRight
  <2>4. \A i \in Index : slot'[i].mem # "broken" BY <1>4, <2>2
  <2>5. \A i \in Index : IF Owned(i) THEN slot'[i].mem \in {"none", "live"}
                                     ELSE slot'[i].mem \notin {"live", "buffer"}
    BY <1>4, <2>1, <2>3
  <2>6. \A i \in Outputs : slot'[i].mem \in {"none", "live"} BY <1>2, <2>1, <2>5
  <2>7. \A i \in Index : HoldsOutput(i)' BY <1>s, <1>4, <2>2 DEF HoldsOutput
  <2>8. \A i \in Outputs : StringReady(i)'
    <3>1. \A i \in Outputs : StringReady(i) BY <1>0 DEF IInv, MemoryRight
    <3>. QED BY <3>1, <1>2, <1>4, <1>s DEF StringReady
  <2>. QED BY <1>0, <1>s, <2>4, <2>5, <2>6, <2>7, <2>8 DEF MemoryRight
<1>9. ArgumentsRight'
  <2>1. \A i \in Inputs : FilledRight(i) BY <1>0 DEF IInv, ArgumentsRight
  <2>2. \A i \in Inputs : slot'[i] = slot[i] BY <1>0, <1>2, <1>4
  <2>3. \A i \in Inputs : FilledRight(i)' BY <2>1, <2>2, <1>s DEF FilledRight
  <2>. QED BY <1>0, <1>s, <2>3 DEF ArgumentsRight
<1>10. ResultsRight'
  <2>0. \A j \in Outputs : ~(j < 0) BY <1>2
  <2>1. Before(0) = {} BY <2>0 DEF Before
  <2>2. Len(ret') = Cardinality(Before(x)') BY <1>0, <1>s, <2>1, FS_EmptySet DEF Before
  <2>3. \A o \in Outputs' : ~(o < x') BY <1>0, <1>2, <1>s
  <2>. QED BY <1>0, <2>2, <2>3 DEF ResultsRight, ResultsInOrder, QuietCallsCleanUp
<1>. QED BY <1>6, <1>7, <1>8, <1>9, <1>10 DEF IInv

LEMMA CleanupKeeps == IInv /\ Cleanup => IInv'
<1>. SUFFICES ASSUME IInv, Cleanup PROVE IInv' OBVIOUS
<1>0. /\ pc = "cleanup" /\ pc' = "done" /\ held' = {} /\ argObj' = None
      /\ UNCHANGED <<params, iCount, x, kept, rc, ret>>
      /\ rc = "OK" /\ ret = <<>> /\ oCount = 0
      /\ slot' = [i \in Index |-> IF i \in Inputs THEN Cleaned(i) ELSE slot[i]]
  BY DEF Cleanup, Release, call, IInv, PointsReached
<1>s. /\ pCount' = pCount /\ Index' = Index /\ oCount' = oCount /\ Outputs' = Outputs
      /\ \A i : P(i)' = P(i)
  BY <1>0, SameSignature
<1>1. \A i \in Index : slot[i] \in Slot /\ slot[i].mem # "broken"
  BY DEF IInv, TypeOK, MemoryRight
<1>2. \A i \in Index : IF Owned(i) THEN slot[i].mem \in {"none", "live"}
                                   ELSE slot[i].mem \notin {"live", "buffer"}
  BY <1>0 DEF IInv, MemoryRight
<1>3. Outputs = {} BY <1>0, Lengths, FS_EmptySet DEF IInv, oCount
<1>4. Inputs = Index BY <1>3, EveryParameterServes DEF Inputs
<1>f. \A i \in Index : FilledRight(i) BY <1>0, <1>4 DEF IInv, ArgumentsRight
<1>5. ASSUME NEW i \in Index
      PROVE  /\ slot'[i] \in Slot /\ slot'[i].mem \notin {"broken", "live"}
             /\ slot'[i].by = slot[i].by
             /\ slot'[i].mem = "buffer" <=> P(i).kind = "domstring"
             /\ slot'[i].tiface <=> slot'[i].by = "id"
  <2>0. slot'[i] = Cleaned(i) /\ TakesArgument(i) BY <1>0, <1>4 DEF Inputs
  <2>1. CASE P(i).kind = "domstring"
    <3>1. slot'[i] = DeleteSlot(slot[i]) BY <2>0, <2>1 DEF Cleaned
    <3>2. slot[i].mem = "live" /\ (slot[i].tiface <=> slot[i].by = "id")
      BY <1>f, <2>1 DEF FilledRight
    <3>. QED BY <3>1, <3>2, <1>1, <2>1, DeletedSlot
  <2>2. CASE P(i).kind \in {"wchar_str", "sized_wstr", "array"}
    <3>1. slot'[i] = FreeSlot(slot[i]) BY <2>0, <2>2 DEF Cleaned
    <3>2. slot[i].mem \in {"none", "live"} BY <1>2, <2>2 DEF Owned, Copied
    <3>3. slot[i].tiface <=> slot[i].by = "id" BY <1>f DEF FilledRight
    <3>. QED BY <3>1, <3>2, <3>3, <1>1, <2>2, FreedSlot
  <2>3. CASE P(i).kind \notin {"domstring", "wchar_str", "sized_wstr", "array"}
    <3>1. slot'[i] = slot[i] BY <2>0, <2>3 DEF Cleaned
    <3>2. slot[i].mem \notin {"live", "buffer"} BY <1>2, <2>0, <2>3 DEF Owned, Copied
    <3>3. slot[i].tiface <=> slot[i].by = "id" BY <1>f DEF FilledRight
    <3>. QED BY <3>1, <3>2, <3>3, <1>1, <2>3
  <2>. QED BY <2>1, <2>2, <2>3
<1>6. slot' \in [Index -> Slot] BY <1>0, <1>5
<1>7. TypeOK' BY <1>0, <1>6, <1>s DEF IInv, TypeOK, Points
<1>8. PointsReached'
  <2>1. <<>> \in Seq(Nat \cup {Missing, None}) BY EmptySeq
  <2>2. <<>> # Undef BY DEF Undef
  <2>. QED BY <1>0, <1>s, <2>1, <2>2 DEF PointsReached, ReferencesDropped, FailureIsTold, Failed
<1>9. MemoryRight' BY <1>0, <1>5, <1>s DEF MemoryRight
<1>10. ArgumentsRight' BY <1>0 DEF ArgumentsRight
<1>11. ResultsRight'
  <2>1. ResultsInOrder' BY <1>0, <1>3, <1>s DEF ResultsInOrder
  <2>2. \A i \in Index :
          LeftBehind(i)' <=> (P(i)'.kind = "domstring" \/ slot'[i].by = "id")
    BY <1>5, <1>s DEF LeftBehind
  <2>3. QuietCallsCleanUp' BY <2>2, <1>s DEF QuietCallsCleanUp
  <2>. QED BY <1>0, <2>1, <2>3 DEF ResultsRight
<1>. QED BY <1>7, <1>8, <1>9, <1>10, <1>11 DEF IInv

-----------------------------------------------------------------------------
(* The steps that take results. *)

LEMMA AtResult ==
  ASSUME IInv, AtParam("outputs")
  PROVE  /\ x \in Index /\ x \in Nat /\ pc = "outputs"
         /\ slot \in [Index -> Slot] /\ slot[x] \in Slot
         /\ GivesValue(x) => slot[x].mem \in {"none", "live"} /\ HoldsOutput(x)
         /\ GivesValue(x) => ~TakesArgument(x) /\ StringReady(x)
<1>1. x \in Index /\ x \in Nat /\ pc = "outputs" /\ slot \in [Index -> Slot]
  BY Lengths DEF IInv, TypeOK, AtParam, Index
<1>2. ASSUME GivesValue(x)
      PROVE  /\ slot[x].mem \in {"none", "live"} /\ HoldsOutput(x) /\ ~TakesArgument(x)
             /\ StringReady(x)
  <2>1. x \in Outputs BY <1>1, <1>2 DEF Outputs
  <2>2. x \notin Inputs BY <1>1, <2>1 DEF IInv, PointsReached
  <2>. QED BY <1>1, <2>1, <2>2 DEF IInv, MemoryRight, Inputs
<1>. QED BY <1>1, <1>2

LEMMA PopFailsKeeps ==
  ASSUME IInv, AtParam("outputs"), GivesValue(x),
         NEW code \in Codes \ {"old", "OK"}, PopFails(code)
  PROVE  IInv'
<1>1. Fail(code) /\ slot' = [slot EXCEPT ![x] = FreeSlot(slot[x])]
  BY DEF PopFails
<1>2. FreeSlot(slot[x]) \in Slot /\ FreeSlot(slot[x]).mem # "broken"
  BY AtResult, FreedSlot
<1>3. \A i \in Index : slot[i].mem # "broken" BY DEF IInv, MemoryRight
<1>4. slot' \in [Index -> Slot] /\ \A i \in Index : slot'[i].mem # "broken"
  BY <1>1, <1>2, <1>3, AtResult
<1>. QED BY <1>1, <1>4, FailKeeps

LEMMA PopFreedKeeps ==
  ASSUME IInv, AtParam("outputs"), GivesValue(x), NEW v, Pop(v, FreeSlot(slot[x])),
         P(x).kind \notin Filled,
         v = Result(x) \/ (v = Missing /\ P(x).kind = "array")
  PROVE  IInv'
<1>1. /\ FreeSlot(slot[x]) \in Slot
      /\ FreeSlot(slot[x]).mem \notin {"broken", "live", "buffer"}
      /\ FreeSlot(slot[x]).mem = "none" <=> slot[x].mem = "none"
  BY AtResult, FreedSlot
<1>2. Result(x) = IF P(x).kind \in {"iid", "char_str"} /\ FreeSlot(slot[x]).mem = "none"
                  THEN None ELSE x
  BY <1>1 DEF Result, NullResult
<1>. QED BY <1>1, <1>2, PopKeeps

LEMMA PopPlainKeeps == IInv /\ PopPlain => IInv'
<1>. SUFFICES ASSUME IInv, PopPlain PROVE IInv' OBVIOUS
<1>1. /\ AtParam("outputs") /\ GivesValue(x) /\ P(x).kind = "number" /\ Pop(x, slot[x])
  BY DEF PopPlain, AtOutput
<1>2. slot[x] \in Slot /\ slot[x].mem \notin {"broken", "live", "buffer"}
  BY <1>1, AtResult DEF HoldsOutput, Made, Filled
<1>3. P(x).kind \notin Filled \cup {"iid", "char_str"} BY <1>1 DEF Filled
<1>. QED BY <1>1, <1>2, <1>3, PopKeeps

LEMMA PopIIDKeeps == IInv /\ PopIID => IInv'
<1>. SUFFICES ASSUME IInv, PopIID PROVE IInv' OBVIOUS
<1>. DEFINE m == IF slot[x].mem = "live" THEN "theirs" ELSE slot[x].mem
            s == [slot[x] EXCEPT !.mem = m]
<1>1. AtParam("outputs") /\ GivesValue(x) /\ P(x).kind = "iid" BY DEF PopIID, AtOutput
<1>2. /\ slot[x] \in Slot /\ m \in {"none", "theirs"} /\ m \in Memory
      /\ m = "none" <=> slot[x].mem = "none"
  BY <1>1, AtResult DEF Memory
<1>3. Pop(Result(x), s)
  <2>1. [slot[x] EXCEPT !.mem = IF @ = "live" THEN "theirs" ELSE @] = s
    BY <1>2 DEF Slot
  <2>. QED BY <2>1 DEF PopIID
<1>. HIDE DEF m
<1>4. s \in Slot /\ s.mem = m BY <1>2 DEF Slot
<1>. HIDE DEF s
<1>5. Result(x) = IF P(x).kind \in {"iid", "char_str"} /\ s.mem = "none" THEN None ELSE x
  BY <1>2, <1>4 DEF Result, NullResult
<1>6. P(x).kind \notin Filled BY <1>1 DEF Filled
<1>. QED BY <1>1, <1>2, <1>3, <1>4, <1>5, <1>6, PopKeeps

LEMMA PopStringKeeps == IInv /\ PopString => IInv'
<1>. SUFFICES ASSUME IInv, PopString PROVE IInv' OBVIOUS
<1>1. AtParam("outputs") /\ GivesValue(x) BY DEF PopString, AtOutput
<1>2. CASE P(x).kind \in Filled
  <2>1. slot[x] \in Slot /\ slot[x].mem = "live" BY <1>1, <1>2, AtResult DEF StringReady
  <2>2. /\ DeleteSlot(slot[x]) \in Slot /\ DeleteSlot(slot[x]).mem = "buffer"
        /\ Pop(Result(x), DeleteSlot(slot[x]))
    BY <1>2, <2>1, DeletedSlot DEF PopString
  <2>3. Result(x) = x /\ P(x).kind \notin {"iid", "char_str"}
    BY <1>2 DEF Result, NullResult, Filled
  <2>. QED BY <1>1, <1>2, <2>2, <2>3, PopKeeps
<1>3. CASE P(x).kind \notin Filled
  BY <1>1, <1>3, PopFreedKeeps DEF PopString
<1>. QED BY <1>2, <1>3

\* Interfaces and arrays always give a value.
LEMMA OtherResults ==
  ASSUME P(x).kind \in {"interface", "interface_is", "array"}
  PROVE  Result(x) = x /\ P(x).kind \notin Filled
BY DEF Result, NullResult, Filled

LEMMA PopInterfaceKeeps == IInv /\ PopInterface => IInv'
BY PopFreedKeeps, PopFailsKeeps, FailedCodes, OtherResults DEF PopInterface, AtOutput

LEMMA PopInterfaceIsKeeps == IInv /\ PopInterfaceIs => IInv'
BY PopFreedKeeps, PopFailsKeeps, FailedCodes, OtherResults DEF PopInterfaceIs, AtOutput

LEMMA PopArrayKeeps == IInv /\ PopArray => IInv'
<1>. SUFFICES ASSUME IInv, PopArray PROVE IInv' OBVIOUS
<1>1. PICK v \in {x, Missing} : Pop(v, FreeSlot(slot[x])) BY DEF PopArray
<1>2. AtParam("outputs") /\ GivesValue(x) /\ P(x).kind = "array"
  BY DEF PopArray, AtOutput
<1>. QED BY <1>1, <1>2, OtherResults, PopFreedKeeps

LEMMA SkipKeeps == IInv /\ SkipInput => IInv'
<1>. SUFFICES ASSUME IInv, SkipInput PROVE IInv' OBVIOUS
<1>0. /\ AtParam("outputs") /\ pc = "outputs" /\ pc' = "outputs" /\ x < pCount /\ x' = x + 1
      /\ UNCHANGED <<params, iCount, slot, held, argObj, kept, rc, ret>>
  BY DEF SkipInput, AtParam, call
<1>1. x \in Index /\ x \in Nat /\ pCount \in Nat BY <1>0, AtResult, Lengths DEF IInv
<1>2. x \notin Outputs BY DEF SkipInput, Outputs
<1>s. /\ pCount' = pCount /\ Index' = Index /\ oCount' = oCount
      /\ Inputs' = Inputs /\ Outputs' = Outputs /\ Signature' = Signature
      /\ \A i : P(i)' = P(i) /\ Owned(i)' = Owned(i) /\ TakesArgument(i)' = TakesArgument(i)
      /\ \A k : UpTo(k)' = UpTo(k)
  BY <1>0, SameSignature DEF UpTo
<1>3. TypeOK' BY <1>0, <1>1, <1>s DEF IInv, TypeOK
<1>4. PointsReached'
  BY <1>0, <1>s DEF IInv, PointsReached, ReferencesDropped, FailureIsTold
<1>5. \A o \in Outputs : o < x + 1 => o < x
  BY <1>1, <1>2, Lengths DEF IInv, Index
<1>6. \A o \in Outputs : o >= x + 1 => o >= x
  BY <1>1, Lengths DEF IInv, Index
<1>7. MemoryRight' BY <1>0, <1>s, <1>6 DEF IInv, MemoryRight, HoldsOutput, StringReady
<1>8. ArgumentsRight' BY <1>0, <1>s DEF IInv, ArgumentsRight, FilledRight
<1>9. ResultsRight'
  <2>1. UpTo(x) = Before(x + 1) /\ UpTo(x) = Before(x)
    BY <1>1, <1>2, Counting DEF IInv
  <2>2. Before(x)' = Before(x + 1) BY <1>0, <1>s DEF Before
  <2>3. Len(ret') = Cardinality(Before(x)') BY <2>1, <2>2, <1>0 DEF IInv, ResultsRight
  <2>4. \A o \in Outputs : o < x => ReturnedRight(o) BY <1>0 DEF IInv, ResultsRight
  <2>5. \A o \in Outputs : o < x => ReturnedRight(o)'
    BY <2>4, <1>0, <1>s, SameResults DEF ReturnedRight
  <2>. QED BY <2>3, <2>5, <1>0, <1>5, <1>s DEF ResultsRight, ResultsInOrder, QuietCallsCleanUp
<1>. QED BY <1>3, <1>4, <1>7, <1>8, <1>9 DEF IInv

-----------------------------------------------------------------------------
(* Every step keeps the invariant. *)

LEMMA Stutters == IInv /\ UNCHANGED vars => IInv'
<1>. SUFFICES ASSUME IInv, UNCHANGED vars PROVE IInv' OBVIOUS
<1>0. UNCHANGED <<pc, params, iCount, x, slot, held, argObj, kept, rc, ret>>
  BY DEF vars
<1>s. /\ pCount' = pCount /\ Index' = Index /\ oCount' = oCount
      /\ Inputs' = Inputs /\ Outputs' = Outputs
      /\ \A i : P(i)' = P(i) /\ Owned(i)' = Owned(i) /\ TakesArgument(i)' = TakesArgument(i)
      /\ \A k : UpTo(k)' = UpTo(k)
  BY <1>0, SameSignature DEF UpTo
<1>1. TypeOK' BY <1>0, <1>s DEF IInv, TypeOK
<1>2. PointsReached'
  BY <1>0, <1>s, SameResults
     DEF IInv, PointsReached, ReferencesDropped, FailureIsTold, Failed, Signature
<1>3. MemoryRight' BY <1>0, <1>s DEF IInv, MemoryRight, HoldsOutput, StringReady
<1>4. ArgumentsRight' BY <1>0, <1>s DEF IInv, ArgumentsRight, FilledRight
<1>5. ResultsRight'
  <2>1. Before(x)' = Before(x) BY <1>0, <1>s DEF Before
  <2>2. \A o : ReturnedRight(o)' = ReturnedRight(o)
    BY <1>0, <1>s, SameResults DEF ReturnedRight
  <2>3. ResultsInOrder' = ResultsInOrder BY <1>0, <1>s, SameResults DEF ResultsInOrder
  <2>4. QuietCallsCleanUp' = QuietCallsCleanUp
    BY <1>0, <1>s DEF QuietCallsCleanUp, LeftBehind
  <2>. QED BY <2>1, <2>2, <2>3, <2>4, <1>0, <1>s DEF IInv, ResultsRight
<1>. QED BY <1>1, <1>2, <1>3, <1>4, <1>5 DEF IInv

LEMMA Steps == IInv /\ [Next]_vars => IInv'
<1>. SUFFICES ASSUME IInv, [Next]_vars PROVE IInv' OBVIOUS
<1>. USE FailedCodes
<1>1. CASE Call BY <1>1, CallKeeps
<1>2. CASE LookupFails BY <1>2, FailAlone DEF LookupFails
<1>3. CASE Constant BY <1>3, ConstantKeeps
<1>4. CASE NoMethodInfo
  <2>1. rc = "old" BY <1>4 DEF NoMethodInfo, IInv, PointsReached
  <2>. QED BY <1>4, <2>1, LostKeeps DEF NoMethodInfo
<1>5. CASE Found BY <1>5, FoundKeeps
<1>6. CASE WrongCount BY <1>6, FailAlone DEF WrongCount
<1>7. CASE RightCount BY <1>7, RightCountKeeps
<1>8. CASE PlainInput BY <1>8, PlainInputKeeps
<1>9. CASE CopiedInput BY <1>9, CopiedInputKeeps
<1>10. CASE IIDInput BY <1>10, IIDInputKeeps
<1>11. CASE InterfaceInput BY <1>11, InterfaceInputKeeps
<1>12. CASE ArrayInput BY <1>12, ArrayInputKeeps
<1>13. CASE ArrayInputFails BY <1>13, FailAlone DEF ArrayInputFails
<1>14. CASE UnsupportedInput BY <1>14, FailAlone DEF UnsupportedInput
<1>15. CASE OutputSlot BY <1>15, OutputSlotKeeps
<1>16. CASE NoMemory BY <1>16, FailAlone DEF NoMemory
<1>17. CASE UnsupportedOutput BY <1>17, FailAlone DEF UnsupportedOutput
<1>18. CASE SlotsFilled BY <1>18, SlotsFilledKeeps
<1>19. CASE ScriptChanges BY <1>19, ScriptKeeps
<1>20. CASE WildWrite
  <2>1. rc = "old" BY <1>20 DEF WildWrite, IInv, PointsReached
  <2>. QED BY <1>20, <2>1, LostKeeps DEF WildWrite
<1>21. CASE MethodFails BY <1>21, FailAlone DEF MethodFails
<1>22. CASE MethodSucceeds BY <1>22, MethodSucceedsKeeps
<1>23. CASE PopPlain BY <1>23, PopPlainKeeps
<1>24. CASE PopIID BY <1>24, PopIIDKeeps
<1>25. CASE PopString BY <1>25, PopStringKeeps
<1>26. CASE PopInterface BY <1>26, PopInterfaceKeeps
<1>27. CASE PopInterfaceIs BY <1>27, PopInterfaceIsKeeps
<1>28. CASE PopArray BY <1>28, PopArrayKeeps
<1>29. CASE PopArrayFails BY <1>29, FailAlone DEF PopArrayFails
<1>30. CASE SkipInput BY <1>30, SkipKeeps
<1>31. CASE Cleanup BY <1>31, CleanupKeeps
<1>32. CASE Lost BY <1>32, Stutters DEF Lost
<1>33. CASE UNCHANGED vars BY <1>33, Stutters
<1>. QED
  BY <1>1, <1>2, <1>3, <1>4, <1>5, <1>6, <1>7, <1>8, <1>9, <1>10, <1>11, <1>12, <1>13,
     <1>14, <1>15, <1>16, <1>17, <1>18, <1>19, <1>20, <1>21, <1>22, <1>23, <1>24, <1>25,
     <1>26, <1>27, <1>28, <1>29, <1>30, <1>31, <1>32, <1>33 DEF Next

LEMMA Invariance == Spec => []IInv
BY InitRight, Steps, PTL DEF Spec

-----------------------------------------------------------------------------
(* Arguments. *)

LEMMA Directions ==
  ASSUME TypeOK, NEW i \in Index
  PROVE  P(i).dir \in {"in", "out", "inout", "retval"}
<1>1. i + 1 \in 1 .. Len(params) BY Lengths DEF Index, pCount
<1>2. CASE params \in Seq(Param)
  <2>1. params[i + 1] \in Param BY <1>1, <1>2, ElementOfSeq
  <2>2. params[i + 1].dir \in Direction BY <2>1 DEF Param
  <2>. QED BY <2>2, XPCOMCallAssumption DEF P
<1>3. CASE params \in Long
  <2>1. Len(params) = MAX_XPTC_ARG_COUNT + 1 BY <1>3, LongLength
  <2>2. params[i + 1] \in [dir : {"in"}, kind : {"number"}, arg : {0}]
    BY <1>1, <1>3, <2>1 DEF Long
  <2>. QED BY <2>2 DEF P
<1>. QED BY <1>2, <1>3 DEF TypeOK

\* With its inputs first, a signature gives input i the argument i, as the code
\* assumes.
LEMMA LeadingInputs ==
  ASSUME IInv PROVE LeadingInputsMatch
<1>. DEFINE ins == Declared({"in", "inout"})
<1>. SUFFICES ASSUME \A i \in Declared({"in"}), o \in Outputs : i < o,
                     Outputs = Declared({"out", "retval"}), Declared({"inout"}) = {},
                     pc \in {"native", "outputs", "cleanup"}
              PROVE  /\ iCount = Cardinality(ins)
                     /\ \A i \in ins :
                          /\ slot[i].from = Cardinality({j \in ins : j < i})
                          /\ slot[i].size # None => slot[i].size \in 0..(iCount - 1)
  BY DEF LeadingInputsMatch, ArgumentsMatch
<1>0. TypeOK /\ pCount \in Nat /\ Index = 0 .. (pCount - 1)
      /\ IsFiniteSet(Index) /\ Cardinality(Index) = pCount /\ Outputs \subseteq Index
  BY Lengths DEF IInv
<1>1. /\ \A i \in Index : i \in ins <=> P(i).dir = "in"
      /\ \A i \in Index : i \in Outputs <=> P(i).dir \in {"out", "retval"}
      /\ ins \subseteq Index /\ ins = Declared({"in"})
  BY DEF Declared
<1>2. ins = Index \ Outputs /\ Index \cap Outputs = Outputs
  <2>1. \A i \in Index : i \in ins <=> i \notin Outputs
    BY <1>0, <1>1, Directions DEF Declared
  <2>. QED BY <2>1, <1>0, <1>1
<1>3. Cardinality(ins) = pCount - oCount /\ IsFiniteSet(ins)
  <2>1. /\ IsFiniteSet(Index \ Outputs)
        /\ Cardinality(Index \ Outputs) = Cardinality(Index) - Cardinality(Index \cap Outputs)
    BY <1>0, FS_Difference, FS_Subset
  <2>. QED BY <2>1, <1>0, <1>2 DEF oCount
<1>4. iCount = Cardinality(ins) BY <1>3 DEF IInv, PointsReached
<1>5. \A i \in ins, j \in Index : j < i => j \in ins
  BY <1>0, <1>1, <1>2
<1>6. ASSUME NEW i \in ins PROVE slot[i].from = Cardinality({j \in ins : j < i})
  <2>1. i \in Nat /\ i \in Index BY <1>0, <1>1
  <2>2. {j \in ins : j < i} = 0 .. (i - 1)
    <3>1. \A j \in 0 .. (i - 1) : j \in Index /\ j < i BY <2>1, <1>0
    <3>2. \A j \in ins : j \in Nat BY <1>0, <1>1
    <3>3. \A j \in ins : j < i => j \in 0 .. (i - 1) BY <2>1, <3>2
    <3>. QED BY <3>1, <3>3, <1>5
  <2>3. Cardinality(0 .. (i - 1)) = i BY <2>1, FS_Interval
  <2>4. i \in Inputs
    BY <2>1, <1>1 DEF Inputs, TakesArgument, IsIn, IsRetval
  <2>. QED BY <2>2, <2>3, <2>4 DEF IInv, ArgumentsRight, FilledRight
<1>7. ASSUME NEW i \in ins, slot[i].size # None
      PROVE  slot[i].size \in 0 .. (iCount - 1)
  <2>1. i \in Index /\ P(i).dir = "in" BY <1>1
  <2>2. i \in Inputs BY <2>1 DEF Inputs, TakesArgument, IsIn, IsRetval
  <2>3. P(i).kind = "array" /\ slot[i].size = P(i).arg
    BY <2>2, <1>7 DEF IInv, ArgumentsRight, FilledRight
  <2>4. params \in Short
    BY <1>0, LongLength, XPCOMCallAssumption DEF IInv, PointsReached, Signature, pCount
  <2>. DEFINE a == P(i).arg
  <2>5. a \in Nat BY <1>0, <2>1, ArgumentNumbers
  <2>6. a < pCount /\ P(a).dir = "in"
    <3>1. i + 1 \in DOMAIN params
      <4>1. params \in Seq(Param) BY <2>4, SeqDef DEF Short, SeqOf
      <4>. QED BY <4>1, <2>1, <1>0, LenProperties DEF pCount
    <3>. QED BY <3>1, <2>1, <2>3, <2>4 DEF Short, P, pCount
  <2>7. a \in ins BY <2>5, <2>6, <1>0, <1>1
  <2>8. 0 .. a \subseteq ins
    <3>1. \A j \in 0 .. a : j \in Index /\ (j < a \/ j = a) BY <2>5, <2>6, <1>0
    <3>. QED BY <3>1, <2>7, <1>5
  <2>9. Cardinality(0 .. a) = a + 1 BY <2>5, FS_Interval
  <2>10. a + 1 <= iCount BY <2>8, <2>9, <1>3, <1>4, FS_Subset
  <2>. QED BY <2>3, <2>5, <2>10, <1>0 DEF TypeOK
<1>. QED BY <1>4, <1>6, <1>7

-----------------------------------------------------------------------------
(* The theorems. *)

\* The variables keep their types: no slot is read or filled outside the
\* signature.
THEOREM TypeCorrect == Spec => []TypeOK
<1>1. IInv => TypeOK BY DEF IInv
<1>. QED BY <1>1, Invariance, PTL

\* Every exit of the function drops the references it took.
THEOREM AllReferencesDropped == Spec => []ReferencesDropped
<1>1. IInv => ReferencesDropped BY DEF IInv, PointsReached
<1>. QED BY <1>1, Invariance, PTL

\* No memory is freed twice, and none that belongs to someone else.
THEOREM MemoryFreedOnce == Spec => []FreedOnce
<1>1. IInv => FreedOnce BY DEF IInv, TypeOK, MemoryRight, FreedOnce
<1>. QED BY <1>1, Invariance, PTL

\* A call returns undef exactly when $Components::returnCode tells of a failure
\* or its only result is a null ID or a null char*.
THEOREM FailuresAreTold == Spec => []FailureIsTold
<1>1. IInv => FailureIsTold BY DEF IInv, PointsReached
<1>. QED BY <1>1, Invariance, PTL

\* A call that succeeds returns the outputs of its signature, in order, with
\* undef for null IDs and char*, and leaves of their memory the characters of
\* string objects only.
THEOREM OutputsInOrder == Spec => []ResultsInOrder
<1>1. IInv => ResultsInOrder BY DEF IInv, ResultsRight
<1>. QED BY <1>1, Invariance, PTL

\* A call without outputs leaves of what its inputs took the characters of
\* DOMSTRINGs and the descriptions of interfaces looked up by ID, and no more.
THEOREM NothingLeft == Spec => []QuietCallsCleanUp
<1>1. IInv => QuietCallsCleanUp BY DEF IInv, ResultsRight
<1>. QED BY <1>1, Invariance, PTL

\* With the inputs of a signature first, the native method gets each argument at
\* its own parameter, and every length is an argument.
THEOREM ArgumentsArrive == Spec => []LeadingInputsMatch
BY LeadingInputs, Invariance, PTL

=============================================================================
