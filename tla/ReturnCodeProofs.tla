-------------------------- MODULE ReturnCodeProofs --------------------------
(***************************************************************************)
(* Proofs about $Components::returnCode, for every depth of calls.         *)
(***************************************************************************)
EXTENDS ReturnCode, SequenceLemmas, TLAPS

\* Every binding in use reports its results, and destructors do not call Perl.
Reporting == Binding \cap Silent = {} /\ ~DestructorsCall

\* A finished method's code is still in the scalar.
CodeIsMethods == TopIs("stub") /\ Top.last \in Code => code = Top.last

\* Methods do not die, and set NS_OK only with a value.
Disciplined == ~MayDie /\ ~Undisciplined

\* A finished method kept to that.
MethodIsDisciplined ==
  TopIs("stub") => Top.last \in Failure \/ (Top.last = "OK" /\ Top.value)

-----------------------------------------------------------------------------
(* Stacks of calls.                                                        *)

\* New frames are frames.
LEMMA FrameLemma ==
  ASSUME NEW k \in {"body", "binding", "stub"}, NEW o \in XS \cup Stubbed \cup {None}
  PROVE  Frame(k, o) \in FrameType
BY DEF Frame, FrameType, LastCode

\* A call on top of the calls s.
LEMMA PushLemma ==
  ASSUME NEW s \in Seq(FrameType), Nested(s), NEW f \in FrameType,
         s = <<>> => f.kind # "binding",
         f.kind = "stub" => f.op \in Stubbed,
         s # <<>> => MayBeBelow(s[Len(s)], f)
  PROVE  /\ Append(s, f) \in Seq(FrameType) /\ Append(s, f) # <<>>
         /\ Nested(Append(s, f))
         /\ Len(Append(s, f)) = Len(s) + 1
         /\ Append(s, f)[Len(s) + 1] = f
<1> DEFINE t == Append(s, f)
<1>1. /\ t \in Seq(FrameType) /\ Len(t) = Len(s) + 1 /\ t[Len(s) + 1] = f
      /\ \A k \in 1 .. Len(s) : t[k] = s[k]
  BY AppendProperties
<1>2. Len(s) \in Nat /\ t # <<>> /\ (s = <<>> <=> Len(s) = 0)
  BY <1>1, EmptySeq, LenProperties
<1> HIDE DEF t
<1>3. t[1].kind # "binding"
  BY <1>1, <1>2 DEF Nested
<1>4. \A k \in 1 .. Len(t) : t[k].kind = "stub" => t[k].op \in Stubbed
  BY <1>1, <1>2 DEF Nested
<1>5. ASSUME NEW k \in 2 .. Len(t) PROVE MayBeBelow(t[k - 1], t[k])
  <2>1. CASE k = Len(t)
    <3>1. k - 1 = Len(s) /\ Len(s) \in 1 .. Len(s) /\ s # <<>>
      BY <2>1, <1>1, <1>2
    <3>2. t[k] = f /\ t[k - 1] = s[Len(s)]
      BY <3>1, <2>1, <1>1
    <3> QED BY <3>1, <3>2
  <2>2. CASE k # Len(t)
    <3>1. k \in 2 .. Len(s) /\ k - 1 \in 1 .. Len(s) /\ k \in 1 .. Len(s)
      BY <2>2, <1>1, <1>2
    <3>2. t[k] = s[k] /\ t[k - 1] = s[k - 1]
      BY <3>1, <1>1
    <3> QED BY <3>1, <3>2 DEF Nested
  <2> QED BY <2>1, <2>2
<1>6. Nested(t)
  BY <1>3, <1>4, <1>5 DEF Nested
<1> QED BY <1>1, <1>2, <1>6 DEF t

\* A call is over.
LEMMA PopLemma ==
  ASSUME NEW s \in Seq(FrameType), Nested(s), s # <<>>
  PROVE  /\ Front(s) \in Seq(FrameType) /\ Nested(Front(s))
         /\ Len(Front(s)) = Len(s) - 1
         /\ \A k \in 1 .. (Len(s) - 1) : Front(s)[k] = s[k]
<1> DEFINE t == Front(s)
<1>1. /\ t \in Seq(FrameType) /\ Len(t) = Len(s) - 1
      /\ \A k \in 1 .. (Len(s) - 1) : t[k] = s[k]
  BY FrontLemma
<1>2. Len(s) \in Nat /\ (t = <<>> <=> Len(t) = 0)
  BY <1>1, EmptySeq, LenProperties
<1> HIDE DEF t
<1>3. t # <<>> => t[1].kind # "binding"
  BY <1>1, <1>2 DEF Nested
<1>4. \A k \in 1 .. Len(t) : t[k].kind = "stub" => t[k].op \in Stubbed
  BY <1>1, <1>2 DEF Nested
<1>5. ASSUME NEW k \in 2 .. Len(t) PROVE MayBeBelow(t[k - 1], t[k])
  <2>1. k \in 2 .. Len(s) /\ k - 1 \in 1 .. (Len(s) - 1) /\ k \in 1 .. (Len(s) - 1)
    BY <1>1, <1>2
  <2> QED BY <2>1, <1>1 DEF Nested
<1> QED BY <1>1, <1>3, <1>4, <1>5 DEF Nested, t

\* The call on top goes on as f.
LEMMA TopLemma ==
  ASSUME NEW s \in Seq(FrameType), Nested(s), s # <<>>, NEW f \in FrameType,
         f.kind = s[Len(s)].kind, f.op = s[Len(s)].op
  PROVE  LET t == [s EXCEPT ![Len(s)] = f]
         IN  /\ t \in Seq(FrameType) /\ Nested(t)
             /\ Len(t) = Len(s) /\ t[Len(s)] = f
<1> DEFINE t == [s EXCEPT ![Len(s)] = f]
<1>1. Len(s) \in Nat /\ Len(s) # 0
  BY EmptySeq, LenProperties
<1>2. /\ t \in Seq(FrameType) /\ Len(t) = Len(s)
      /\ \A k \in 1 .. Len(s) : t[k] = IF k = Len(s) THEN f ELSE s[k]
  BY <1>1, ExceptSeq
<1>3. t # <<>>
  BY <1>1, <1>2, EmptySeq
<1> HIDE DEF t
<1>4. t[1].kind # "binding"
  BY <1>1, <1>2 DEF Nested
<1>5. \A k \in 1 .. Len(t) : t[k].kind = "stub" => t[k].op \in Stubbed
  BY <1>1, <1>2 DEF Nested
<1>6. ASSUME NEW k \in 2 .. Len(t) PROVE MayBeBelow(t[k - 1], t[k])
  <2>1. /\ MayBeBelow(s[k - 1], s[k])
        /\ t[k - 1] = s[k - 1] /\ t[k].kind = s[k].kind /\ t[k].op = s[k].op
    BY <1>1, <1>2 DEF Nested
  <2> QED BY <2>1 DEF MayBeBelow
<1>7. t[Len(s)] = f
  BY <1>1, <1>2
<1> QED BY <1>2, <1>4, <1>5, <1>6, <1>7 DEF Nested, t

\* The body on top is told d.
LEMMA TellLemma ==
  ASSUME NEW s \in Seq(FrameType), Nested(s), s # <<>>, s[Len(s)].kind = "body",
         NEW d \in LastCode
  PROVE  /\ Tell(s, d) \in Seq(FrameType) /\ Nested(Tell(s, d)) /\ Tell(s, d) # <<>>
         /\ Tell(s, d)[Len(Tell(s, d))].kind = "body"
         /\ Tell(s, d)[Len(Tell(s, d))].last = d
<1> DEFINE f == [s[Len(s)] EXCEPT !.last = d]
<1>1. Len(s) \in Nat /\ Len(s) # 0
  BY EmptySeq, LenProperties
<1>2. s[Len(s)] \in FrameType
  BY <1>1, ElementOfSeq
<1>3. f \in FrameType /\ f.kind = "body" /\ f.op = s[Len(s)].op /\ f.last = d
  BY <1>2 DEF FrameType
<1>4. Tell(s, d) = [s EXCEPT ![Len(s)] = f]
  BY DEF Tell
<1> HIDE DEF f
<1>5. /\ Tell(s, d) \in Seq(FrameType) /\ Nested(Tell(s, d))
      /\ Len(Tell(s, d)) = Len(s) /\ Tell(s, d)[Len(s)] = f
  BY <1>3, <1>4, TopLemma
<1> QED BY <1>1, <1>3, <1>5, EmptySeq

\* The stub on top learns how its method ended.
LEMMA EndMethodLemma ==
  ASSUME NEW s \in Seq(FrameType), Nested(s), s # <<>>, s[Len(s)].kind = "stub",
         NEW l \in LastCode, NEW v \in BOOLEAN
  PROVE  LET t == EndMethod(s, l, v)
         IN  /\ t \in Seq(FrameType) /\ Nested(t) /\ t # <<>>
             /\ t[Len(t)].kind = "stub" /\ t[Len(t)].over /\ t[Len(t)].last = l
             /\ t[Len(t)].value = v
<1> DEFINE f == [s[Len(s)] EXCEPT !.over = TRUE, !.last = l, !.value = v]
           t == EndMethod(s, l, v)
<1>1. Len(s) \in Nat /\ Len(s) # 0
  BY EmptySeq, LenProperties
<1>2. s[Len(s)] \in FrameType
  BY <1>1, ElementOfSeq
<1>3. f \in FrameType /\ f.kind = "stub" /\ f.op = s[Len(s)].op
      /\ f.over /\ f.last = l /\ f.value = v
  BY <1>2 DEF FrameType
<1>4. t = [s EXCEPT ![Len(s)] = f]
  BY DEF EndMethod
<1> HIDE DEF f, t
<1>5. t \in Seq(FrameType) /\ Nested(t) /\ Len(t) = Len(s) /\ t[Len(s)] = f
  BY <1>3, <1>4, TopLemma
<1>6. t # <<>>
  BY <1>1, <1>5, EmptySeq
<1> QED BY <1>3, <1>5, <1>6 DEF t

\* A stub and the body of its method are put on top of s.
LEMMA CallPerlMethodLemma ==
  ASSUME NEW s \in Seq(FrameType), Nested(s), NEW m \in Stubbed,
         s # <<>> => MayBeBelow(s[Len(s)], Frame("stub", m)),
         CallPerlMethod(s, m)
  PROVE  /\ stack' \in Seq(FrameType) /\ Nested(stack') /\ stack' # <<>>
         /\ stack'[Len(stack')] = Frame("body", None)
<1> DEFINE f == Frame("stub", m)
           g == Frame("body", None)
           t == Append(s, f)
<1>1. f \in FrameType /\ g \in FrameType
  BY FrameLemma
<1>2. /\ f.kind = "stub" /\ f.op = m /\ ~f.over
      /\ g.kind = "body"
  BY DEF Frame
<1>3. s # <<>> => MayBeBelow(s[Len(s)], f)
  OBVIOUS
<1>4. stack' = Append(t, g)
  BY DEF CallPerlMethod
<1> HIDE DEF f, g
<1>5. /\ t \in Seq(FrameType) /\ t # <<>> /\ Nested(t)
      /\ Len(t) = Len(s) + 1 /\ t[Len(s) + 1] = f
  BY <1>1, <1>2, <1>3, PushLemma
<1> HIDE DEF t
<1>6. MayBeBelow(t[Len(t)], g)
  BY <1>2, <1>5 DEF MayBeBelow
<1>7. /\ stack' \in Seq(FrameType) /\ stack' # <<>> /\ Nested(stack')
      /\ Len(stack') = Len(t) + 1 /\ stack'[Len(t) + 1] = g
  BY <1>1, <1>2, <1>4, <1>5, <1>6, PushLemma
<1> QED BY <1>7 DEF g

-----------------------------------------------------------------------------
(* What each action does to the stack.                                     *)

\* The call on top.
LEMMA TopIsLemma ==
  ASSUME TypeOK, stack # <<>>
  PROVE  /\ Len(stack) \in Nat /\ Len(stack) # 0
         /\ Top \in FrameType /\ Top = stack[Len(stack)]
         /\ stack \in Seq(FrameType) /\ Nested(stack)
<1>1. stack \in Seq(FrameType) /\ Nested(stack)
  BY DEF TypeOK
<1>2. Len(stack) \in Nat /\ Len(stack) # 0
  BY <1>1, EmptySeq, LenProperties
<1> QED BY <1>1, <1>2, ElementOfSeq DEF Top

\* What is below the top.
LEMMA BelowLemma ==
  ASSUME TypeOK, stack # <<>>, Len(stack) # 1
  PROVE  LET s == Front(stack)
         IN  /\ s \in Seq(FrameType) /\ Nested(s) /\ s # <<>>
             /\ MayBeBelow(s[Len(s)], Top)
<1> DEFINE s == Front(stack)
<1>1. /\ s \in Seq(FrameType) /\ Nested(s) /\ Len(s) = Len(stack) - 1
      /\ \A k \in 1 .. (Len(stack) - 1) : s[k] = stack[k]
  BY TopIsLemma, PopLemma
<1>2. Len(stack) \in 2 .. Len(stack) /\ Len(s) \in 1 .. (Len(stack) - 1)
  BY <1>1, TopIsLemma
<1> HIDE DEF s
<1>3. s # <<>>
  BY <1>1, <1>2, EmptySeq
<1>4. MayBeBelow(stack[Len(stack) - 1], stack[Len(stack)])
  BY <1>2, TopIsLemma DEF Nested
<1>5. s[Len(s)] = stack[Len(stack) - 1]
  BY <1>1, <1>2
<1> QED BY <1>1, <1>3, <1>4, <1>5, TopIsLemma DEF s

\* A body that is told something stays on top.
LEMMA ToldLemma ==
  ASSUME TypeOK, NEW s \in Seq(FrameType), Nested(s), s # <<>>,
         s[Len(s)].kind = "body", NEW d \in Code, stack' = Tell(s, d),
         code' \in Code, answered' = None
  PROVE  TypeOK' /\ stack' # <<>> /\ Top'.kind = "body" /\ Top'.last = d
<1>1. /\ stack' \in Seq(FrameType) /\ Nested(stack') /\ stack' # <<>>
      /\ stack'[Len(stack')].kind = "body" /\ stack'[Len(stack')].last = d
  BY TellLemma DEF LastCode
<1> QED BY <1>1 DEF TypeOK, TopIs, Top, Nested, MayBeBelow

\* A Perl method is called from the calls s.
LEMMA CalledLemma ==
  ASSUME TypeOK, NEW s \in Seq(FrameType), Nested(s), NEW m \in Stubbed,
         s # <<>> => MayBeBelow(s[Len(s)], Frame("stub", m)),
         CallPerlMethod(s, m)
  PROVE  TypeOK' /\ stack' # <<>> /\ Top' = Frame("body", None) /\ answered' = None
<1>1. /\ stack' \in Seq(FrameType) /\ Nested(stack') /\ stack' # <<>>
      /\ stack'[Len(stack')] = Frame("body", None)
  BY CallPerlMethodLemma
<1>2. Frame("body", None).kind # "stub"
  BY DEF Frame
<1>3. code' = code /\ answered' = None
  BY DEF CallPerlMethod
<1> QED BY <1>1, <1>2, <1>3 DEF TypeOK, TopIs, Top, Nested, MayBeBelow

-----------------------------------------------------------------------------
(* Every step keeps the invariant.                                         *)

\* What the theorems say and what they need, besides nesting.
CodeParts ==
  /\ CodeIsOwn /\ CodeIsMethods /\ ResultIsMethods
  /\ Disciplined => MethodIsDisciplined /\ ObjectOrError

\* A body that has just been told or has stored what the scalar holds, or that
\* has just started.
FreshBody ==
  /\ stack' # <<>> /\ Top'.kind = "body" /\ answered' = None
  /\ Top'.last = None \/ Top'.last = code'

\* Such a body has the scalar to itself.
LEMMA FreshBodyLemma ==
  ASSUME FreshBody PROVE CodeParts'
BY DEF FreshBody, CodeParts, CodeIsOwn, CodeIsMethods, ResultIsMethods,
       MethodIsDisciplined, ObjectOrError, TopIs

\* A call of a Perl method starts a body.
LEMMA CallKeeps ==
  ASSUME TypeOK, NEW s \in Seq(FrameType), Nested(s), NEW m \in Stubbed,
         s # <<>> => MayBeBelow(s[Len(s)], Frame("stub", m)),
         CallPerlMethod(s, m)
  PROVE  TypeOK' /\ CodeParts'
<1>1. TypeOK' /\ stack' # <<>> /\ Top' = Frame("body", None) /\ answered' = None
  BY CalledLemma
<1>2. FreshBody
  BY <1>1 DEF FreshBody, Frame
<1> QED BY <1>1, <1>2, FreshBodyLemma

\* Bindings that report tell the body what they store.
LEMMA ToldReports ==
  ASSUME Reporting, NEW b \in Binding, NEW at, NEW c, Told(b, at, c)
  PROVE  code' = c
<1>1. Reports(b, at, c)
  BY DEF Reporting, Reports
<1> QED BY <1>1 DEF Told

\* A body stores a code.
LEMMA SetReturnCodeKeeps ==
  ASSUME TypeOK, NEW c \in Code, SetReturnCode(c)
  PROVE  TypeOK' /\ CodeParts'
<1>1. TopIs("body") /\ code' = c /\ stack' = Tell(stack, c) /\ answered' = None
  BY DEF SetReturnCode
<1>2. stack # <<>> /\ stack[Len(stack)].kind = "body"
  BY <1>1 DEF TopIs, Top
<1>3. TypeOK' /\ stack' # <<>> /\ Top'.kind = "body" /\ Top'.last = c
  BY <1>1, <1>2, TopIsLemma, ToldLemma
<1>4. FreshBody
  BY <1>1, <1>3 DEF FreshBody
<1> QED BY <1>3, <1>4, FreshBodyLemma

\* A binding tells the body that called it.
LEMMA BindingAnswersKeeps ==
  ASSUME TypeOK, NEW b \in Binding, BindingAnswers(b)
  PROVE  TypeOK' /\ (Reporting => CodeParts')
<1>1. PICK at \in {"contract ID", "arguments"}, c \in Code :
        Told(b, at, c) /\ stack' = Tell(stack, c)
  BY DEF BindingAnswers
<1>2. stack # <<>> /\ stack[Len(stack)].kind = "body" /\ answered' = None
  BY DEF BindingAnswers, TopIs, Top
<1>3. code' \in Code
  BY <1>1 DEF Told, TypeOK
<1>4. TypeOK' /\ stack' # <<>> /\ Top'.kind = "body" /\ Top'.last = c
  BY <1>1, <1>2, <1>3, TopIsLemma, ToldLemma
<1>5. ASSUME Reporting PROVE CodeParts'
  <2>1. FreshBody
    BY <1>1, <1>2, <1>4, <1>5, ToldReports DEF FreshBody
  <2> QED BY <2>1, FreshBodyLemma
<1> QED BY <1>4, <1>5

\* A binding that called native code tells the body below it.
LEMMA NativeAnswersKeeps ==
  ASSUME TypeOK, NativeAnswers
  PROVE  TypeOK' /\ (Reporting => CodeParts')
<1> DEFINE s == Front(stack)
<1>1. PICK d \in Code : Told(Top.op, "call", d) /\ stack' = Tell(s, d)
  BY DEF NativeAnswers, Outcome, Code, Failure, ReturnToBody
<1>2. stack # <<>> /\ Top.kind = "binding" /\ answered' = None
  BY DEF NativeAnswers, TopIs
<1>3. Len(stack) # 1
  BY <1>2, TopIsLemma DEF Nested
<1>4. s \in Seq(FrameType) /\ Nested(s) /\ s # <<>> /\ MayBeBelow(s[Len(s)], Top)
  BY <1>2, <1>3, BelowLemma
<1> HIDE DEF s
<1>5. s[Len(s)].kind = "body" /\ Top.op \in Binding
  BY <1>2, <1>4 DEF MayBeBelow
<1>6. code' \in Code
  BY <1>1 DEF Told, TypeOK
<1>7. TypeOK' /\ stack' # <<>> /\ Top'.kind = "body" /\ Top'.last = d
  BY <1>1, <1>2, <1>4, <1>5, <1>6, ToldLemma
<1>8. ASSUME Reporting PROVE CodeParts'
  <2>1. FreshBody
    BY <1>1, <1>2, <1>5, <1>7, <1>8, ToldReports DEF FreshBody
  <2> QED BY <2>1, FreshBodyLemma
<1> QED BY <1>7, <1>8

\* A binding is put on top of the body that calls it.
LEMMA BindingCallsKeeps ==
  ASSUME TypeOK, NEW b \in Binding, BindingCalls(b)
  PROVE  TypeOK' /\ CodeParts'
<1> DEFINE f == Frame("binding", b)
<1>1. /\ stack # <<>> /\ stack[Len(stack)].kind = "body"
      /\ stack' = Append(stack, f) /\ answered' = None /\ code' = code
  BY DEF BindingCalls, TopIs, Top
<1>2. f \in FrameType /\ f.kind = "binding" /\ f.op = b
  BY FrameLemma, ReturnCodeAssumption DEF Frame
<1> HIDE DEF f
<1>3. MayBeBelow(stack[Len(stack)], f)
  BY <1>1, <1>2 DEF MayBeBelow
<1>4. /\ stack' \in Seq(FrameType) /\ stack' # <<>> /\ Nested(stack')
      /\ Len(stack') = Len(stack) + 1 /\ stack'[Len(stack) + 1] = f
  BY <1>1, <1>2, <1>3, TopIsLemma, PushLemma
<1>5. Top'.kind = "binding"
  BY <1>2, <1>4 DEF Top
<1>6. TypeOK'
  BY <1>1, <1>4, <1>5 DEF TypeOK, TopIs, Nested, MayBeBelow
<1>7. CodeParts'
  BY <1>1, <1>5 DEF CodeParts, CodeIsOwn, CodeIsMethods, ResultIsMethods,
                    MethodIsDisciplined, ObjectOrError, TopIs
<1> QED BY <1>6, <1>7

\* The host, a binding, or a destructor calls a Perl method.
LEMMA CallsKeep ==
  ASSUME TypeOK,
         \/ \E m \in Stubbed : HostCalls(m) \/ BindingReachesPerl(m)
         \/ DestructorCalls
  PROVE  TypeOK' /\ CodeParts'
<1>1. CASE \E m \in Stubbed : HostCalls(m)
  <2>1. PICK m \in Stubbed : CallPerlMethod(<<>>, m)
    BY <1>1 DEF HostCalls
  <2>2. <<>> \in Seq(FrameType) /\ Nested(<<>>)
    BY <1>1 DEF HostCalls, TypeOK
  <2> QED BY <2>1, <2>2, CallKeeps
<1>2. CASE \E m \in Stubbed : BindingReachesPerl(m)
  <2>1. PICK m \in Stubbed : TopIs("binding") /\ CallPerlMethod(stack, m)
    BY <1>2 DEF BindingReachesPerl
  <2>2. MayBeBelow(stack[Len(stack)], Frame("stub", m))
    BY <2>1 DEF TopIs, Top, MayBeBelow, Frame
  <2> QED BY <2>1, <2>2, TopIsLemma, CallKeeps DEF TopIs
<1>3. CASE DestructorCalls
  <2>1. /\ DestructorsCall /\ CallPerlMethod(stack, "CallMethod")
        /\ stack # <<>> /\ (Top.kind = "stub" => Top.over)
    BY <1>3 DEF DestructorCalls, TopIs, TypeOK
  <2>2. MayBeBelow(stack[Len(stack)], Frame("stub", "CallMethod"))
    BY <2>1 DEF Top, MayBeBelow, Frame
  <2>3. "CallMethod" \in Stubbed
    BY DEF Stubbed
  <2> QED BY <2>1, <2>2, <2>3, TopIsLemma, CallKeeps
<1> QED BY <1>1, <1>2, <1>3

\* CreateInstance goes on as the query of its new object.
LEMMA CreateInstanceQueriesKeeps ==
  ASSUME TypeOK, CreateInstanceQueries
  PROVE  TypeOK' /\ CodeParts'
<1> DEFINE s == Front(stack)
<1>1. /\ stack # <<>> /\ Top.kind = "stub" /\ CallPerlMethod(s, "InstanceQI")
      /\ "InstanceQI" \in Stubbed
  BY DEF CreateInstanceQueries, TopIs, Stubbed
<1>2. s \in Seq(FrameType) /\ Nested(s) /\ Len(s) = Len(stack) - 1
  BY <1>1, TopIsLemma, PopLemma
<1>3. s # <<>> => MayBeBelow(s[Len(s)], Top)
  <2> HIDE DEF s
  <2>1. s # <<>> => Len(stack) # 1
    BY <1>1, <1>2, TopIsLemma, EmptySeq
  <2> USE DEF s
  <2> QED BY <2>1, <1>1, BelowLemma
<1> HIDE DEF s
<1>4. s # <<>> => MayBeBelow(s[Len(s)], Frame("stub", "InstanceQI"))
  BY <1>1, <1>3 DEF MayBeBelow, Frame
<1> QED BY <1>1, <1>2, <1>4, CallKeeps

\* A script starts or ends.
LEMMA ScriptKeeps ==
  ASSUME TypeOK, ScriptStarts \/ ScriptEnds
  PROVE  TypeOK' /\ CodeParts'
<1> DEFINE g == Frame("body", None)
<1>1. code' \in Code /\ answered' = None
  BY DEF ScriptStarts, ScriptEnds, TypeOK
<1>2. CASE ScriptStarts
  <2>1. g \in FrameType /\ g.kind = "body" /\ g.last = None /\ stack' = <<g>>
    BY <1>2, FrameLemma DEF ScriptStarts, Frame
  <2> HIDE DEF g
  <2>2. Top' = g /\ stack' # <<>> /\ stack' \in Seq(FrameType) /\ Nested(stack')
    BY <2>1 DEF Top, Nested
  <2>3. TypeOK'
    BY <1>1, <2>1, <2>2 DEF TypeOK, TopIs, Nested, MayBeBelow
  <2>4. FreshBody
    BY <1>1, <2>1, <2>2 DEF FreshBody
  <2> QED BY <2>3, <2>4, FreshBodyLemma
<1>3. CASE ScriptEnds
  <2>1. stack' = <<>>
    BY <1>3 DEF ScriptEnds
  <2>2. <<>> \in Seq(FrameType) /\ Nested(<<>>)
    BY DEF Nested
  <2> QED BY <1>1, <2>1, <2>2
          DEF TypeOK, TopIs, CodeParts, CodeIsOwn, CodeIsMethods, ResultIsMethods,
              MethodIsDisciplined, ObjectOrError, Nested, MayBeBelow
<1> QED BY <1>2, <1>3

\* What the scalar holds when a method ends is its own.
LEMMA MethodOverKeeps ==
  ASSUME TypeOK, MethodReturns \/ MethodDies
  PROVE  TypeOK' /\ (CodeIsOwn => CodeParts')
<1> DEFINE s == Front(stack)
<1>1. PICK l \in LastCode, v \in BOOLEAN :
        /\ l \in {Top.last, "DIED"}
        /\ Disciplined => l \in Failure \/ (l = "OK" /\ v)
        /\ Len(stack) > 1 /\ TopIs("body")
        /\ stack' = EndMethod(s, l, v) /\ answered' = None /\ code' = code
  <2>1. CASE MethodReturns
    <3>1. Top.last \in LastCode
      BY <2>1, TopIsLemma DEF MethodReturns, TopIs, FrameType
    <3> QED BY <2>1, <3>1 DEF MethodReturns, MethodOver, Disciplined
  <2>2. CASE MethodDies
    BY <2>2 DEF MethodDies, MethodOver, LastCode, Disciplined
  <2> QED BY <2>1, <2>2
<1>2. stack # <<>> /\ Top.kind = "body" /\ Len(stack) # 1
  BY <1>1, TopIsLemma DEF TopIs
<1>3. s \in Seq(FrameType) /\ Nested(s) /\ s # <<>> /\ MayBeBelow(s[Len(s)], Top)
  BY <1>2, BelowLemma
<1> HIDE DEF s
<1>4. s[Len(s)].kind = "stub"
  BY <1>2, <1>3 DEF MayBeBelow
<1>5. /\ stack' \in Seq(FrameType) /\ Nested(stack') /\ stack' # <<>>
      /\ stack'[Len(stack')].kind = "stub" /\ stack'[Len(stack')].over
      /\ stack'[Len(stack')].last = l /\ stack'[Len(stack')].value = v
  BY <1>1, <1>3, <1>4, EndMethodLemma
<1>6. TypeOK'
  BY <1>1, <1>5 DEF TypeOK, TopIs, Top, Nested, MayBeBelow
<1>7. ASSUME CodeIsOwn PROVE CodeParts'
  <2>1. l \in Code => code = l
    BY <1>1, <1>7, ReturnCodeAssumption DEF CodeIsOwn, Code, Failure
  <2> QED BY <1>1, <1>5, <2>1
          DEF CodeParts, CodeIsOwn, CodeIsMethods, ResultIsMethods,
              MethodIsDisciplined, ObjectOrError, TopIs, Top
<1> QED BY <1>6, <1>7

\* A stub answers and uncovers the binding that was waiting for it.
LEMMA StubReturnsKeeps ==
  ASSUME TypeOK, StubReturns
  PROVE  TypeOK' /\ (Reporting /\ CodeParts => CodeParts')
<1> DEFINE s == Front(stack)
<1>1. /\ stack # <<>> /\ Top.kind = "stub" /\ stack' = s /\ code' = code
  BY DEF StubReturns, TopIs
<1>2. Top.op \in Stubbed /\ Top.last \in LastCode /\ Top.value \in BOOLEAN
  <2>1. Top.op \in Stubbed
    BY <1>1, TopIsLemma DEF Nested
  <2> QED BY <2>1, <1>1, TopIsLemma DEF FrameType
<1>3. PICK r \in Results :
        answered' = [op |-> Top.op, rv |-> r.rv, obj |-> r.obj, last |-> Top.last]
  BY DEF StubReturns
<1>4. /\ r.rv \in Code /\ r.obj \in BOOLEAN
      /\ Top.op \notin {"QueryInterface", "InstanceQI"} =>
           \/ r.rv = code /\ (r.obj <=> code = "OK" /\ Top.value)
           \/ Top.op = "CallMethod" /\ code = "OK" /\ r.rv \in Failure
      /\ Top.op \in {"QueryInterface", "InstanceQI"} /\ r.rv = "OK" => r.obj
  <2>1. CASE Top.op \in {"QueryInterface", "InstanceQI"}
    <3>1. r \in {[rv |-> "OK", obj |-> TRUE], [rv |-> "FAILURE", obj |-> FALSE],
                 [rv |-> "NO_INTERFACE", obj |-> FALSE]}
      BY <2>1 DEF Results, HappyResult, NativeResults
    <3> DEFINE R == [rv : {"OK", "FAILURE", "NO_INTERFACE"}, obj : BOOLEAN]
    <3>2. r \in R
      <4>1. [rv |-> "OK", obj |-> TRUE] \in R
        OBVIOUS
      <4>2. [rv |-> "FAILURE", obj |-> FALSE] \in R
        OBVIOUS
      <4>3. [rv |-> "NO_INTERFACE", obj |-> FALSE] \in R
        OBVIOUS
      <4> HIDE DEF R
      <4> QED BY <3>1, <4>1, <4>2, <4>3, Zenon
    <3>3. r.rv \in {"OK", "FAILURE", "NO_INTERFACE"} /\ r.obj \in BOOLEAN
      BY <3>2
    <3>4. r.rv = "OK" => r.obj
      BY <3>1
    <3> QED BY <2>1, <3>3, <3>4 DEF Code, Failure
  <2>2. CASE Top.op \notin {"QueryInterface", "InstanceQI"}
    <3>1. CASE r = [rv |-> code, obj |-> code = "OK" /\ Top.value]
      BY <2>2, <3>1, <1>2 DEF TypeOK
    <3>2. CASE r \in ArrayFailures
      <4>1. Top.op = "CallMethod" /\ code = "OK"
        BY <3>2 DEF ArrayFailures, GetRetcode
      <4>2. PICK f \in Failure : r = [rv |-> f, obj |-> FALSE]
        BY <3>2, <4>1 DEF ArrayFailures, GetRetcode
      <4> QED BY <2>2, <4>1, <4>2 DEF Code
    <3> QED BY <2>2, <3>1, <3>2 DEF Results, GetRetcode, GotValue
  <2> QED BY <2>1, <2>2
<1>5. answered' \in Answer
  BY <1>2, <1>3, <1>4 DEF Answer
<1>6. s \in Seq(FrameType) /\ Nested(s) /\ Len(s) = Len(stack) - 1
  BY <1>1, TopIsLemma, PopLemma
<1>7. s # <<>> => MayBeBelow(s[Len(s)], Top)
  <2>1. s # <<>> => Len(stack) # 1
    BY <1>6, EmptySeq
  <2> QED BY <2>1, <1>1, BelowLemma
<1> HIDE DEF s
<1>8. s # <<>> => \/ s[Len(s)].kind = "binding"
                  \/ DestructorsCall /\ (s[Len(s)].kind = "stub" => s[Len(s)].over)
  BY <1>1, <1>7 DEF MayBeBelow
<1>9. TypeOK'
  BY <1>1, <1>5, <1>6, <1>8 DEF TypeOK, TopIs, Top, Nested, MayBeBelow
<1>10. ASSUME Reporting, CodeParts PROVE CodeParts'
  <2>1. stack' # <<>> => Top'.kind = "binding"
    BY <1>1, <1>8, <1>10 DEF Reporting, Top
  <2>2. Top.last \in Code => code = Top.last
    BY <1>1, <1>10 DEF CodeParts, CodeIsMethods, TopIs
  <2>3. ResultIsMethods'
    BY <1>3, <1>4, <2>2 DEF ResultIsMethods
  <2>4. ASSUME Disciplined PROVE ObjectOrError'
    <3>1. Top.last \in Failure \/ (Top.last = "OK" /\ Top.value)
      BY <1>1, <1>10, <2>4 DEF CodeParts, MethodIsDisciplined, TopIs
    <3>2. code = "OK" => Top.value
      BY <2>2, <3>1 DEF Code, Failure
    <3>3. r.rv = "OK" => r.obj
      BY <1>4, <3>2 DEF Failure
    <3>4. answered'.rv = r.rv /\ answered'.obj = r.obj
      BY <1>3
    <3> QED BY <3>3, <3>4 DEF ObjectOrError
  <2> QED BY <2>1, <2>3, <2>4
          DEF CodeParts, CodeIsOwn, CodeIsMethods, MethodIsDisciplined, TopIs
<1> QED BY <1>9, <1>10

\* Every step.
LEMMA NextKeeps ==
  ASSUME TypeOK, Next
  PROVE  TypeOK' /\ (Reporting /\ CodeParts => CodeParts')
<1>1. CASE ScriptStarts \/ ScriptEnds
  BY <1>1, ScriptKeeps
<1>2. CASE \E m \in Stubbed \ {"InstanceQI"} : HostCalls(m) \/ BindingReachesPerl(m)
  BY <1>2, CallsKeep
<1>3. CASE \E c \in Code : SetReturnCode(c)
  BY <1>3, SetReturnCodeKeeps
<1>4. CASE \E b \in Binding : BindingAnswers(b) \/ BindingCalls(b)
  BY <1>4, BindingAnswersKeeps, BindingCallsKeeps
<1>5. CASE NativeAnswers
  BY <1>5, NativeAnswersKeeps
<1>6. CASE MethodReturns \/ MethodDies
  BY <1>6, MethodOverKeeps DEF CodeParts
<1>7. CASE DestructorCalls
  BY <1>7, CallsKeep
<1>8. CASE CreateInstanceQueries
  BY <1>8, CreateInstanceQueriesKeeps
<1>9. CASE StubReturns
  BY <1>9, StubReturnsKeeps
<1> QED BY <1>1, <1>2, <1>3, <1>4, <1>5, <1>6, <1>7, <1>8, <1>9 DEF Next

-----------------------------------------------------------------------------
(* The theorems.                                                           *)

\* In every depth of calls, with methods that die and destructors that call
\* Perl methods anywhere, calls nest: a body's binding and a method's stub find
\* their own frame on top when control comes back to them.
THEOREM CallsNest == Spec => []TypeOK
<1>1. Init => TypeOK
  BY DEF Init, TypeOK, Code, TopIs, Nested
<1>2. TypeOK /\ [Next]_vars => TypeOK'
  <2>1. TypeOK /\ UNCHANGED vars => TypeOK'
    BY DEF vars, TypeOK, TopIs, Top, Nested, MayBeBelow
  <2> QED BY <2>1, NextKeeps
<1> QED BY <1>1, <1>2, PTL DEF Spec

\* What the other theorems rest on.
LEMMA CodeInvariant == Reporting /\ Spec => [](TypeOK /\ CodeParts)
<1> SUFFICES ASSUME Reporting PROVE Spec => [](TypeOK /\ CodeParts)
  OBVIOUS
<1>1. Init => TypeOK /\ CodeParts
  BY DEF Init, TypeOK, Code, TopIs, Nested, CodeParts, CodeIsOwn, CodeIsMethods,
         ResultIsMethods, MethodIsDisciplined, ObjectOrError
<1>2. TypeOK /\ CodeParts /\ [Next]_vars => (TypeOK /\ CodeParts)'
  <2>1. TypeOK /\ CodeParts /\ UNCHANGED vars => (TypeOK /\ CodeParts)'
    BY DEF vars, TypeOK, TopIs, Top, Nested, MayBeBelow, CodeParts, CodeIsOwn,
           CodeIsMethods, ResultIsMethods, MethodIsDisciplined, ObjectOrError
  <2> QED BY <2>1, NextKeeps
<1> QED BY <1>1, <1>2, PTL DEF Spec

\* However deep Perl components are called in between, running Perl code finds
\* the result of its own last call in $Components::returnCode.
THEOREM CodeIsKept == Reporting /\ Spec => []CodeIsOwn
<1>1. TypeOK /\ CodeParts => CodeIsOwn
  BY DEF CodeParts
<1> QED BY <1>1, CodeInvariant, PTL

\* A stub never answers with a code that another method left in the scalar.
THEOREM ResultsAreMethods == Reporting /\ Spec => []ResultIsMethods
<1>1. TypeOK /\ CodeParts => ResultIsMethods
  BY DEF CodeParts
<1> QED BY <1>1, CodeInvariant, PTL

\* If methods do not die and set NS_OK only with a value, NS_OK from a factory,
\* a module or QueryInterface comes with an object, whatever the calls that the
\* method made left in the scalar.
THEOREM SuccessHasObject == Reporting /\ Disciplined /\ Spec => []ObjectOrError
<1> SUFFICES ASSUME Reporting, Disciplined PROVE Spec => []ObjectOrError
  OBVIOUS
<1>1. TypeOK /\ CodeParts => ObjectOrError
  BY DEF CodeParts
<1> QED BY <1>1, CodeInvariant, PTL

=============================================================================
