--------------------------- MODULE SequenceLemmas ---------------------------
(***************************************************************************)
(* What RemoveAt and Front of the community modules return.                *)
(***************************************************************************)
EXTENDS Naturals, Sequences, SequencesExt, SequenceTheorems, TLAPS

\* RemoveElementAt of nsVoidArray: what is before i stays, the rest moves down.
LEMMA RemoveAtLemma ==
  ASSUME NEW S, NEW s \in Seq(S), NEW i \in 1 .. Len(s)
  PROVE  /\ RemoveAt(s, i) \in Seq(S)
         /\ Len(RemoveAt(s, i)) = Len(s) - 1
         /\ \A j \in 1 .. (Len(s) - 1) :
              RemoveAt(s, i)[j] = IF j < i THEN s[j] ELSE s[j + 1]
<1> DEFINE before == SubSeq(s, 1, i - 1)
           after  == SubSeq(s, i + 1, Len(s))
<1>1. /\ before \in Seq(S) /\ Len(before) = i - 1
      /\ \A j \in 1 .. (i - 1) : before[j] = s[j]
  <2>1. \A j \in 1 .. (i - 1) : s[j] \in S
    BY ElementOfSeq, LenProperties
  <2> QED BY <2>1, SubSeqProperties, LenProperties
<1>2. /\ after \in Seq(S) /\ Len(after) = Len(s) - i
      /\ \A j \in 1 .. (Len(s) - i) : after[j] = s[i + j]
  <2>1. \A j \in (i + 1) .. Len(s) : s[j] \in S
    BY ElementOfSeq, LenProperties
  <2> QED BY <2>1, SubSeqProperties, LenProperties
<1>3. RemoveAt(s, i) = before \o after
  BY DEF RemoveAt
<1> HIDE DEF before, after
<1>4. Len(s) \in Nat
  BY LenProperties
<1>5. /\ before \o after \in Seq(S)
      /\ Len(before \o after) = Len(before) + Len(after)
      /\ \A j \in 1 .. (Len(before) + Len(after)) :
           (before \o after)[j] = IF j <= Len(before) THEN before[j]
                                  ELSE after[j - Len(before)]
  <2>1. before \in Seq(S) /\ after \in Seq(S)
    BY <1>1, <1>2
  <2> QED BY ONLY <2>1, ConcatProperties, Zenon
<1>6. ASSUME NEW j \in 1 .. (Len(s) - 1)
      PROVE  (before \o after)[j] = IF j < i THEN s[j] ELSE s[j + 1]
  <2>1. CASE j < i
    BY <2>1, <1>1, <1>2, <1>4, <1>5
  <2>2. CASE ~(j < i)
    <3>1. (before \o after)[j] = after[j - (i - 1)]
      BY <2>2, <1>1, <1>2, <1>4, <1>5
    <3>2. j - (i - 1) \in 1 .. (Len(s) - i) /\ i + (j - (i - 1)) = j + 1
      BY <2>2, <1>4
    <3> QED BY <2>2, <3>1, <3>2, <1>2
  <2> QED BY <2>1, <2>2
<1> QED BY <1>1, <1>2, <1>3, <1>4, <1>5, <1>6

\* A prefix of a sequence.
LEMMA PrefixLemma ==
  ASSUME NEW S, NEW s \in Seq(S), NEW m \in 0 .. Len(s)
  PROVE  /\ SubSeq(s, 1, m) \in Seq(S)
         /\ Len(SubSeq(s, 1, m)) = m
         /\ \A j \in 1 .. m : SubSeq(s, 1, m)[j] = s[j]
<1>1. \A j \in 1 .. m : s[j] \in S
  BY ElementOfSeq, LenProperties
<1> QED BY <1>1, SubSeqProperties, LenProperties

\* What is below the top of a stack.
LEMMA FrontLemma ==
  ASSUME NEW S, NEW s \in Seq(S), s # <<>>
  PROVE  /\ Front(s) \in Seq(S)
         /\ Len(Front(s)) = Len(s) - 1
         /\ \A j \in 1 .. (Len(s) - 1) : Front(s)[j] = s[j]
<1>1. Len(s) - 1 \in 0 .. Len(s)
  BY EmptySeq, LenProperties
<1>2. Front(s) = SubSeq(s, 1, Len(s) - 1)
  BY DEF Front
<1> HIDE DEF Front
<1> DEFINE m == Len(s) - 1
<1> HIDE DEF m
<1>3. /\ SubSeq(s, 1, m) \in Seq(S)
      /\ Len(SubSeq(s, 1, m)) = m
      /\ \A j \in 1 .. m : SubSeq(s, 1, m)[j] = s[j]
  BY <1>1, PrefixLemma, Zenon DEF m
<1> QED BY <1>2, <1>3, Zenon DEF m

=============================================================================
