-------------------------- MODULE PerlLoaderProofs --------------------------
(***************************************************************************)
(* Proofs about the component loader, for every set of files, every bound  *)
(* and every set of re-entrant operations the assumption allows.           *)
(***************************************************************************)
EXTENDS PerlLoaderInv, PerlLoaderRefinement, SequenceLemmas, FiniteSetTheorems,
        TLAPS

USE LoaderAssumption

-----------------------------------------------------------------------------
(* What the operators on the stack of calls do.                            *)

\* A call adds its frame on top.
LEMMA CallLemma ==
  ASSUME TypeOK, NEW f \in FrameType, Call(f)
  PROVE  /\ stack' \in Seq(FrameType) /\ Len(stack') = Len(stack) + 1
         /\ \A k \in 1 .. Len(stack) : stack'[k] = stack[k]
         /\ stack'[Len(stack) + 1] = f
         /\ nested' \in Nat /\ returned' \in Return \cup {None}
<1>1. stack \in Seq(FrameType) /\ nested \in Nat
  BY DEF TypeOK
<1>2. stack' = Append(stack, f)
  BY DEF Call
<1>3. nested' \in Nat /\ returned' \in Return \cup {None}
  BY <1>1 DEF Call
<1> QED BY <1>1, <1>2, <1>3, AppendProperties

\* There is a running frame while the stack is not empty.
LEMMA TopLemma ==
  ASSUME TypeOK, Running
  PROVE  Len(stack) \in Nat /\ Len(stack) # 0 /\ Top \in FrameType
<1>1. stack \in Seq(FrameType) /\ stack # <<>>
  BY DEF TypeOK, Running
<1>2. Len(stack) \in Nat /\ Len(stack) # 0
  BY <1>1, EmptySeq
<1> QED BY <1>1, <1>2, ElementOfSeq DEF Top

\* The running call changes the top frame only.
LEMMA BecomeLemma ==
  ASSUME TypeOK, Running, NEW f \in FrameType, Become(f)
  PROVE  /\ stack' \in Seq(FrameType) /\ Len(stack') = Len(stack)
         /\ \A k \in 1 .. (Len(stack) - 1) : stack'[k] = stack[k]
         /\ stack'[Len(stack)] = f
         /\ nested' \in Nat /\ returned' \in Return \cup {None}
<1>1. stack \in Seq(FrameType) /\ Len(stack) \in 1 .. Len(stack)
  BY TopLemma DEF TypeOK
<1>2. stack' = [stack EXCEPT ![Len(stack)] = f]
  BY DEF Become
<1>3. /\ stack' \in Seq(FrameType) /\ Len(stack') = Len(stack)
      /\ \A k \in 1 .. Len(stack) : stack'[k] = IF k = Len(stack) THEN f ELSE stack[k]
  BY <1>1, <1>2, ExceptSeq
<1>4. nested' \in Nat /\ returned' \in Return \cup {None}
  BY DEF Become, TypeOK
<1> QED BY <1>1, <1>3, <1>4

\* A return removes the top frame only.
LEMMA ReturnLemma ==
  ASSUME TypeOK, Running, NEW rv \in Rv, ReturnFrom(rv)
  PROVE  /\ stack' \in Seq(FrameType) /\ Len(stack') = Len(stack) - 1
         /\ \A k \in 1 .. (Len(stack) - 1) : stack'[k] = stack[k]
         /\ nested' \in Nat /\ returned' \in Return \cup {None}
<1>1. stack \in Seq(FrameType) /\ stack # <<>>
  BY DEF TypeOK, Running
<1>2. stack' = Front(stack)
  BY DEF ReturnFrom
<1>3. nested' \in Nat
  BY DEF ReturnFrom, TypeOK
<1>4. returned' \in Return
  BY TopLemma DEF ReturnFrom, Return, FrameType
<1> QED BY <1>1, <1>2, <1>3, <1>4, FrontLemma

-----------------------------------------------------------------------------
(* The store of file entries.                                              *)

\* Entries are never removed and keep their status.
StoreGrows ==
  \A l \in Loc : pmStore[l] # None =>
    /\ pmStore'[l] # None
    /\ pmStore[l].ok => pmStore'[l].ok

\* CreateModule adds an entry or finds it.
LEMMA CreateModuleLemma ==
  ASSUME LoaderInv, NEW l \in Loc, CreateModule(l)
  PROVE  /\ pmStore' \in [Loc -> PMFile \cup {None}]
         /\ StoreGrows /\ BadUnstamped'
         /\ pmStore'[l] = Entry(l) /\ pmStore'[l] # None
<1>1. pmStore \in [Loc -> PMFile \cup {None}] /\ disk \in [Loc -> Stamp]
  BY DEF LoaderInv, TypeOK
<1>2. Entry(l) \in PMFile
  BY <1>1 DEF Entry, NewPMFile, PMFile, Stamp
<1>3. /\ pmStore' \in [Loc -> PMFile \cup {None}]
      /\ pmStore'[l] = Entry(l)
      /\ \A m \in Loc \ {l} : pmStore'[m] = pmStore[m]
  BY <1>1, <1>2 DEF CreateModule
<1>4. StoreGrows
  BY <1>3, <1>2 DEF StoreGrows, Entry
<1>5. BadUnstamped'
  BY <1>1, <1>3 DEF BadUnstamped, LoaderInv, Entry, NewPMFile
<1>6. Entry(l) # None
  BY <1>2
<1> QED BY <1>3, <1>4, <1>5, <1>6

\* Sync stamps an entry and keeps its status.
LEMMA SyncLemma ==
  ASSUME LoaderInv, NEW l \in Loc, GoodEntry(l), Sync(l)
  PROVE  /\ pmStore' \in [Loc -> PMFile \cup {None}]
         /\ StoreGrows /\ BadUnstamped'
<1>1. pmStore \in [Loc -> PMFile \cup {None}] /\ disk \in [Loc -> Stamp]
  BY DEF LoaderInv, TypeOK
<1>2. CASE disk[l] = 0
  BY <1>1, <1>2 DEF Sync, StoreGrows, BadUnstamped, LoaderInv
<1>3. CASE disk[l] # 0
  <2>1. pmStore[l] \in PMFile /\ disk[l] \in Stamp
    BY <1>1 DEF GoodEntry
  <2> DEFINE e == [pmStore[l] EXCEPT !.stamp = disk[l]]
  <2>2. e \in PMFile /\ e.ok = pmStore[l].ok
    BY <2>1 DEF PMFile
  <2>3. pmStore' = [pmStore EXCEPT ![l] = e]
    BY <1>3 DEF Sync
  <2> HIDE DEF e
  <2>4. /\ pmStore' \in [Loc -> PMFile \cup {None}]
        /\ pmStore'[l] = e
        /\ \A m \in Loc \ {l} : pmStore'[m] = pmStore[m]
    BY <1>1, <2>2, <2>3
  <2>5. e # None /\ e.ok
    BY <2>2 DEF GoodEntry
  <2>6. StoreGrows
    BY <2>4, <2>5 DEF StoreGrows
  <2>7. BadUnstamped'
    BY <2>4, <2>5 DEF BadUnstamped, LoaderInv
  <2> QED BY <2>4, <2>6, <2>7
<1> QED BY <1>2, <1>3

-----------------------------------------------------------------------------
(* Type correctness and the pointers to file entries.                      *)

\* GoodEntry and EntryOK after the step.
GoodEntryNext(l) == pmStore'[l] # None /\ pmStore'[l].ok

EntryOKNext(f) ==
  f.at \notin {"start", "loop"} =>
    /\ pmStore'[f.loc] # None
    /\ f.op \in {"autoreg", "deferred"} => GoodEntryNext(f.loc)

\* A step keeps LoaderInv when it keeps the types and the store, and every
\* frame and every deferred element it adds is in order.
LEMMA KeepLemma ==
  ASSUME LoaderInv, TypeOK', StoreGrows, BadUnstamped',
         \A k \in 1 .. Len(stack') :
           \/ k \in 1 .. Len(stack) /\ stack'[k] = stack[k]
           \/ FrameOK(stack'[k]) /\ EntryOKNext(stack'[k]),
         \A i \in 1 .. Len(deferred') :
           \/ \E j \in 1 .. Len(deferred) : deferred'[i] = deferred[j]
           \/ GoodEntryNext(deferred'[i])
  PROVE  LoaderInv'
<1>1. ASSUME NEW l \in Loc, GoodEntry(l) PROVE GoodEntryNext(l)
  BY <1>1 DEF GoodEntry, GoodEntryNext, StoreGrows
<1>2. ASSUME NEW k \in 1 .. Len(stack') PROVE FrameOK(stack'[k]) /\ EntryOKNext(stack'[k])
  <2>1. CASE k \in 1 .. Len(stack) /\ stack'[k] = stack[k]
    <3>1. FrameOK(stack[k]) /\ EntryOK(stack[k])
      BY <2>1 DEF LoaderInv, FramesOK
    <3>2. stack[k].at # "loop" => stack[k].loc \in Loc
      BY <3>1 DEF FrameOK
    <3> QED BY <1>1, <2>1, <3>1, <3>2 DEF EntryOK, EntryOKNext, StoreGrows
  <2> QED BY <1>2, <2>1
<1>3. ASSUME NEW i \in 1 .. Len(deferred') PROVE GoodEntryNext(deferred'[i])
  <2>1. CASE \E j \in 1 .. Len(deferred) : deferred'[i] = deferred[j]
    <3>1. PICK j \in 1 .. Len(deferred) : deferred'[i] = deferred[j]
      BY <2>1
    <3>2. deferred[j] \in Loc /\ GoodEntry(deferred[j])
      BY ElementOfSeq DEF LoaderInv, DeferredOK, TypeOK
    <3> QED BY <1>1, <3>1, <3>2
  <2> QED BY <1>3, <2>1
<1>4. FramesOK'
  BY <1>2 DEF FramesOK, EntryOK, EntryOKNext, GoodEntry, GoodEntryNext
<1>5. DeferredOK'
  BY <1>3 DEF DeferredOK, GoodEntry, GoodEntryNext
<1> QED BY <1>4, <1>5 DEF LoaderInv

\* The running frame is in order.
LEMMA TopOK ==
  ASSUME LoaderInv, Running
  PROVE  /\ Top \in FrameType /\ FrameOK(Top) /\ EntryOK(Top)
         /\ Len(stack) \in Nat /\ Len(stack) # 0
BY TopLemma DEF LoaderInv, FramesOK, Top

\* LoaderInv holds at the start.
LEMMA InitOK == Init => LoaderInv
<1> SUFFICES ASSUME Init PROVE LoaderInv
  OBVIOUS
<1>1. Len(<<>>) = 0 /\ <<>> \in Seq(Loc) /\ <<>> \in Seq(FrameType)
  BY EmptySeq
<1>2. stack = <<>> /\ deferred = <<>>
  BY DEF Init
<1>3. TypeOK
  BY <1>1 DEF Init, TypeOK
<1>4. FramesOK /\ DeferredOK
  BY <1>1, <1>2 DEF FramesOK, DeferredOK
<1>5. BadUnstamped
  BY DEF Init, BadUnstamped
<1> QED BY <1>3, <1>4, <1>5 DEF LoaderInv

\* LoaderInv holds of the new process.
LEMMA ProcessEndsOK == LoaderInv /\ ProcessEnds => LoaderInv'
<1> SUFFICES ASSUME LoaderInv, ProcessEnds PROVE LoaderInv'
  OBVIOUS
<1>1. Len(<<>>) = 0 /\ <<>> \in Seq(Loc) /\ <<>> \in Seq(FrameType)
  BY EmptySeq
<1>2. stack' = <<>> /\ deferred' = <<>>
  BY DEF ProcessEnds
<1>3. TypeOK'
  BY <1>1 DEF ProcessEnds, TypeOK, LoaderInv
<1>4. FramesOK' /\ DeferredOK'
  BY <1>1, <1>2 DEF FramesOK, DeferredOK
<1>5. BadUnstamped'
  BY DEF ProcessEnds, BadUnstamped
<1> QED BY <1>3, <1>4, <1>5 DEF LoaderInv

\* A new call whose frame is in order.
LEMMA CallOK ==
  ASSUME LoaderInv, NEW f \in FrameType, Call(f),
         pmStore' \in [Loc -> PMFile \cup {None}], StoreGrows, BadUnstamped',
         FrameOK(f), EntryOKNext(f),
         UNCHANGED <<disk, modules, deferred, registry, errsv>>
  PROVE  LoaderInv'
<1>1. /\ stack' \in Seq(FrameType) /\ Len(stack') = Len(stack) + 1
      /\ \A k \in 1 .. Len(stack) : stack'[k] = stack[k]
      /\ stack'[Len(stack) + 1] = f
      /\ nested' \in Nat /\ returned' \in Return \cup {None}
  BY CallLemma DEF LoaderInv
<1>2. TypeOK'
  BY <1>1 DEF TypeOK, LoaderInv
<1>3. Len(stack) \in Nat
  BY LenProperties DEF LoaderInv, TypeOK
<1>4. \A k \in 1 .. Len(stack') :
        \/ k \in 1 .. Len(stack) /\ stack'[k] = stack[k]
        \/ FrameOK(stack'[k]) /\ EntryOKNext(stack'[k])
  BY <1>1, <1>3
<1> QED BY <1>2, <1>4, KeepLemma

\* The top frame goes on; the deferred elements stay or go down.
LEMMA BecomeOK ==
  ASSUME LoaderInv, Running, NEW f \in FrameType, Become(f),
         pmStore' \in [Loc -> PMFile \cup {None}], StoreGrows, BadUnstamped',
         FrameOK(f), EntryOKNext(f),
         deferred' \in Seq(Loc),
         \A i \in 1 .. Len(deferred') :
           \E j \in 1 .. Len(deferred) : deferred'[i] = deferred[j],
         modules' \in [Name -> Loc \cup {None}],
         registry' \in [Loc -> Loc \cup {None}], errsv' \in BOOLEAN,
         UNCHANGED disk
  PROVE  LoaderInv'
<1>1. /\ stack' \in Seq(FrameType) /\ Len(stack') = Len(stack)
      /\ \A k \in 1 .. (Len(stack) - 1) : stack'[k] = stack[k]
      /\ stack'[Len(stack)] = f
      /\ nested' \in Nat /\ returned' \in Return \cup {None}
  BY BecomeLemma DEF LoaderInv
<1>2. TypeOK'
  BY <1>1 DEF TypeOK, LoaderInv
<1>3. Len(stack) \in Nat
  BY LenProperties DEF LoaderInv, TypeOK
<1>4. \A k \in 1 .. Len(stack') :
        \/ k \in 1 .. Len(stack) /\ stack'[k] = stack[k]
        \/ FrameOK(stack'[k]) /\ EntryOKNext(stack'[k])
  BY <1>1, <1>3
<1> QED BY <1>2, <1>4, KeepLemma

\* The top frame is gone; a component may have been deferred.
LEMMA ReturnOK ==
  ASSUME LoaderInv, Running, NEW rv \in Rv, ReturnFrom(rv),
         pmStore' \in [Loc -> PMFile \cup {None}], StoreGrows, BadUnstamped',
         deferred' \in Seq(Loc),
         \A i \in 1 .. Len(deferred') :
           \/ \E j \in 1 .. Len(deferred) : deferred'[i] = deferred[j]
           \/ GoodEntryNext(deferred'[i]),
         registry' \in [Loc -> Loc \cup {None}], errsv' \in BOOLEAN,
         UNCHANGED <<disk, modules>>
  PROVE  LoaderInv'
<1>1. /\ stack' \in Seq(FrameType) /\ Len(stack') = Len(stack) - 1
      /\ \A k \in 1 .. (Len(stack) - 1) : stack'[k] = stack[k]
      /\ nested' \in Nat /\ returned' \in Return \cup {None}
  BY ReturnLemma DEF LoaderInv
<1>2. TypeOK'
  BY <1>1 DEF TypeOK, LoaderInv
<1>3. Len(stack) \in Nat
  BY LenProperties DEF LoaderInv, TypeOK
<1>4. \A k \in 1 .. Len(stack') :
        \/ k \in 1 .. Len(stack) /\ stack'[k] = stack[k]
        \/ FrameOK(stack'[k]) /\ EntryOKNext(stack'[k])
  BY <1>1, <1>3
<1> QED BY <1>2, <1>4, KeepLemma

-----------------------------------------------------------------------------
(* One lemma per action.                                                   *)

\* The store is not touched.
LEMMA SameStore ==
  ASSUME LoaderInv, UNCHANGED pmStore
  PROVE  /\ pmStore' \in [Loc -> PMFile \cup {None}]
         /\ StoreGrows /\ BadUnstamped'
BY DEF LoaderInv, TypeOK, StoreGrows, BadUnstamped

\* m_DeferredComponents is not touched.
LEMMA SameDeferred ==
  ASSUME LoaderInv, UNCHANGED deferred
  PROVE  /\ deferred' \in Seq(Loc)
         /\ \A i \in 1 .. Len(deferred') :
              \E j \in 1 .. Len(deferred) : deferred'[i] = deferred[j]
BY DEF LoaderInv, TypeOK

\* AutoRegisterComponents keeps LoaderInv.
LEMMA AutoRegisterComponentsOK ==
  LoaderInv /\ AutoRegisterComponents => LoaderInv'
<1> SUFFICES ASSUME LoaderInv, AutoRegisterComponents PROVE LoaderInv'
  OBVIOUS
<1> DEFINE f == [Frame("scan", "loop") EXCEPT !.todo = {l \in Loc : disk[l] # 0}]
<1>1. f \in FrameType /\ FrameOK(f) /\ EntryOKNext(f)
  BY DEF Frame, FrameType, Op, At, Stamp, FrameOK, EntryOKNext, Deferring
<1>2. Call(f) /\ UNCHANGED <<disk, pmStore, modules, deferred, registry, errsv>>
  BY DEF AutoRegisterComponents
<1> HIDE DEF f
<1> QED BY <1>1, <1>2, SameStore, CallOK

\* AutoRegisterComponent keeps LoaderInv.
LEMMA AutoRegisterComponentOK ==
  ASSUME LoaderInv, NEW l \in Loc, AutoRegisterComponent(l)
  PROVE  LoaderInv'
<1> DEFINE f == [Frame("autoreg", "start") EXCEPT !.loc = l]
<1>1. f \in FrameType /\ FrameOK(f) /\ EntryOKNext(f)
  BY DEF Frame, FrameType, Op, At, Stamp, FrameOK, EntryOKNext, Deferring
<1>2. Call(f) /\ UNCHANGED <<disk, pmStore, modules, deferred, registry, errsv>>
  BY DEF AutoRegisterComponent
<1> HIDE DEF f
<1> QED BY <1>1, <1>2, SameStore, CallOK

\* RegisterDeferredComponents keeps LoaderInv.
LEMMA RegisterDeferredComponentsOK ==
  LoaderInv /\ RegisterDeferredComponents => LoaderInv'
<1> SUFFICES ASSUME LoaderInv, RegisterDeferredComponents PROVE LoaderInv'
  OBVIOUS
<1> DEFINE f == [Frame("deferred", "loop") EXCEPT !.idx = Len(deferred)]
<1>1. Len(deferred) \in Nat
  BY LenProperties DEF LoaderInv, TypeOK
<1>2. f \in FrameType /\ FrameOK(f) /\ EntryOKNext(f)
  BY <1>1 DEF Frame, FrameType, Op, At, Stamp, FrameOK, EntryOKNext, Deferring
<1>3. Call(f) /\ UNCHANGED <<disk, pmStore, modules, deferred, registry, errsv>>
  BY DEF RegisterDeferredComponents
<1> HIDE DEF f
<1> QED BY <1>2, <1>3, SameStore, CallOK

\* GetFactory keeps LoaderInv.
LEMMA GetFactoryOK ==
  ASSUME LoaderInv, NEW c \in Loc, GetFactory(c)
  PROVE  LoaderInv'
<1> DEFINE l == registry[c]
           e == Frame("factory", "load")
           f == [e EXCEPT !.loc = l, !.cls = c]
<1>1. l \in Loc
  BY DEF LoaderInv, TypeOK, GetFactory
<1>2. Call(f) /\ CreateModule(l) /\ UNCHANGED <<disk, modules, deferred, registry, errsv>>
  BY DEF GetFactory
<1>3. /\ pmStore' \in [Loc -> PMFile \cup {None}]
      /\ StoreGrows /\ BadUnstamped' /\ pmStore'[l] # None
  BY <1>1, <1>2, CreateModuleLemma
<1> HIDE DEF l
<1>4. /\ f \in FrameType /\ f.op = "factory" /\ f.at = "load"
      /\ f.loc = l /\ f.cls = c
  <2>1. e \in FrameType /\ e.op = "factory" /\ e.at = "load"
    BY DEF Frame, FrameType, Op, At, Stamp
  <2> HIDE DEF e
  <2> QED BY <1>1, <2>1 DEF FrameType
<1> HIDE DEF f
<1>5. FrameOK(f) /\ EntryOKNext(f)
  BY <1>1, <1>3, <1>4 DEF FrameOK, EntryOKNext, Deferring
<1> QED BY <1>2, <1>3, <1>4, <1>5, CallOK

\* AutoUnregisterComponent keeps LoaderInv.
LEMMA AutoUnregisterComponentOK ==
  ASSUME LoaderInv, NEW l \in Loc, AutoUnregisterComponent(l)
  PROVE  LoaderInv'
<1> DEFINE f == [Frame("unreg", "load") EXCEPT !.loc = l]
<1>1. Call(f) /\ CreateModule(l) /\ UNCHANGED <<disk, modules, deferred, registry, errsv>>
  BY DEF AutoUnregisterComponent
<1>2. /\ pmStore' \in [Loc -> PMFile \cup {None}]
      /\ StoreGrows /\ BadUnstamped' /\ pmStore'[l] # None
  BY <1>1, CreateModuleLemma
<1>3. f \in FrameType /\ FrameOK(f) /\ EntryOKNext(f)
  BY <1>2 DEF Frame, FrameType, Op, At, Stamp, FrameOK, EntryOKNext, Deferring
<1> HIDE DEF f
<1> QED BY <1>1, <1>2, <1>3, CallOK

\* ScanNext keeps LoaderInv.
LEMMA ScanNextOK == LoaderInv /\ ScanNext => LoaderInv'
<1> SUFFICES ASSUME LoaderInv, ScanNext PROVE LoaderInv'
  OBVIOUS
<1>1. Top \in FrameType /\ FrameOK(Top) /\ Len(stack) \in Nat /\ Len(stack) # 0
      /\ Top.op = "scan"
  BY TopOK DEF ScanNext
<1>2. PICK l \in Top.todo :
        stack' = Append([stack EXCEPT ![Len(stack)].todo = @ \ {l}],
                        [Frame("autoreg", "start") EXCEPT !.loc = l])
  BY DEF ScanNext
<1> DEFINE g == [Top EXCEPT !.todo = @ \ {l}]
           f == [Frame("autoreg", "start") EXCEPT !.loc = l]
           s == [stack EXCEPT ![Len(stack)] = g]
<1>3. f \in FrameType /\ FrameOK(f) /\ EntryOKNext(f)
  BY <1>1 DEF Frame, FrameType, Op, At, Stamp, FrameOK, EntryOKNext, Deferring
<1>4. g \in FrameType /\ g.op = "scan" /\ g.at = "loop"
  BY <1>1 DEF FrameType, FrameOK
<1>5. FrameOK(g) /\ EntryOKNext(g)
  BY <1>4 DEF FrameOK, EntryOKNext, Deferring
<1>6. stack \in Seq(FrameType)
  BY DEF LoaderInv, TypeOK
<1>7. s = [stack EXCEPT ![Len(stack)].todo = @ \ {l}]
  BY DEF Top
<1>8. stack' = Append(s, f)
  BY <1>2, <1>7
<1> HIDE DEF f, g
<1>9. /\ s \in Seq(FrameType) /\ Len(s) = Len(stack)
      /\ \A k \in 1 .. Len(stack) : s[k] = IF k = Len(stack) THEN g ELSE stack[k]
  BY <1>1, <1>4, <1>6, ExceptSeq
<1> HIDE DEF s
<1>10. /\ stack' \in Seq(FrameType) /\ Len(stack') = Len(stack) + 1
       /\ \A k \in 1 .. Len(stack) : stack'[k] = IF k = Len(stack) THEN g ELSE stack[k]
       /\ stack'[Len(stack) + 1] = f
  BY <1>3, <1>8, <1>9, AppendProperties
<1>11. UNCHANGED <<disk, pmStore, modules, deferred, registry, errsv, nested, returned>>
  BY DEF ScanNext
<1>12. TypeOK'
  BY <1>10, <1>11 DEF TypeOK, LoaderInv
<1>13. \A k \in 1 .. Len(stack') :
         \/ k \in 1 .. Len(stack) /\ stack'[k] = stack[k]
         \/ FrameOK(stack'[k]) /\ EntryOKNext(stack'[k])
  BY <1>1, <1>3, <1>5, <1>10
<1> QED BY <1>11, <1>12, <1>13, SameStore, SameDeferred, KeepLemma

\* ScanSkip keeps LoaderInv.
LEMMA ScanSkipOK == LoaderInv /\ ScanSkip => LoaderInv'
<1> SUFFICES ASSUME LoaderInv, ScanSkip PROVE LoaderInv'
  OBVIOUS
<1>1. /\ Running /\ Top.op = "scan"
      /\ UNCHANGED <<disk, pmStore, modules, deferred, registry, errsv>>
  BY DEF ScanSkip
<1>2. PICK l \in Top.todo : Become([Top EXCEPT !.todo = @ \ {l}])
  BY DEF ScanSkip
<1> DEFINE f == [Top EXCEPT !.todo = @ \ {l}]
<1>3. Top \in FrameType /\ FrameOK(Top)
  BY <1>1, TopOK
<1>4. f \in FrameType /\ f.op = "scan" /\ f.at = "loop"
  BY <1>1, <1>3 DEF FrameType, FrameOK
<1> HIDE DEF f
<1>5. FrameOK(f) /\ EntryOKNext(f)
  BY <1>4 DEF FrameOK, EntryOKNext, Deferring
<1>6. /\ modules' \in [Name -> Loc \cup {None}]
      /\ registry' \in [Loc -> Loc \cup {None}] /\ errsv' \in BOOLEAN
  BY <1>1 DEF LoaderInv, TypeOK
<1> QED BY <1>1, <1>2, <1>4, <1>5, <1>6, SameStore, SameDeferred, BecomeOK DEF f

\* ScanDone keeps LoaderInv.
LEMMA ScanDoneOK == LoaderInv /\ ScanDone => LoaderInv'
<1> SUFFICES ASSUME LoaderInv, ScanDone PROVE LoaderInv'
  OBVIOUS
<1>1. Running /\ ReturnFrom("OK") /\ "OK" \in Rv
      /\ UNCHANGED <<disk, pmStore, modules, deferred, registry, errsv>>
  BY DEF ScanDone, Rv
<1>2. registry' \in [Loc -> Loc \cup {None}] /\ errsv' \in BOOLEAN
  BY <1>1 DEF LoaderInv, TypeOK
<1> QED BY <1>1, <1>2, SameStore, SameDeferred, ReturnOK

\* StartRegistration keeps LoaderInv.
LEMMA StartRegistrationOK == LoaderInv /\ StartRegistration => LoaderInv'
<1> SUFFICES ASSUME LoaderInv, StartRegistration PROVE LoaderInv'
  OBVIOUS
<1>1. /\ Running /\ Top \in FrameType /\ FrameOK(Top) /\ Top.at = "start"
      /\ Top.op = "autoreg" /\ Top.loc \in Loc
      /\ UNCHANGED <<disk, modules, deferred, registry, errsv>>
  BY TopOK DEF StartRegistration, FrameOK
<1>2. registry' \in [Loc -> Loc \cup {None}] /\ errsv' \in BOOLEAN
      /\ modules' \in [Name -> Loc \cup {None}]
  BY <1>1 DEF LoaderInv, TypeOK
<1>3. {"OK", "FAILURE"} \subseteq Rv
  BY DEF Rv
<1>4. CASE ReturnFrom("OK") /\ UNCHANGED pmStore
  BY <1>1, <1>2, <1>3, <1>4, SameStore, SameDeferred, ReturnOK
<1>5. CASE CreateModule(Top.loc) /\ (ReturnFrom("OK") \/ ReturnFrom("FAILURE"))
  <2>1. /\ pmStore' \in [Loc -> PMFile \cup {None}]
        /\ StoreGrows /\ BadUnstamped'
    BY <1>1, <1>5, CreateModuleLemma
  <2>2. \A i \in 1 .. Len(deferred') :
          \E j \in 1 .. Len(deferred) : deferred'[i] = deferred[j]
    BY <1>1, SameDeferred
  <2>3. deferred' \in Seq(Loc)
    BY <1>1, SameDeferred
  <2>4. CASE ReturnFrom("OK")
    BY <2>1, <2>2, <2>3, <2>4, <1>1, <1>2, <1>3, ReturnOK
  <2>5. CASE ReturnFrom("FAILURE")
    BY <2>1, <2>2, <2>3, <2>5, <1>1, <1>2, <1>3, ReturnOK
  <2> QED BY <1>5, <2>4, <2>5
<1>6. CASE /\ CreateModule(Top.loc) /\ GetStatusOK(Top.loc)
           /\ Become([Top EXCEPT !.at = "load"])
  <2> DEFINE f == [Top EXCEPT !.at = "load"]
  <2>1. /\ pmStore' \in [Loc -> PMFile \cup {None}]
        /\ StoreGrows /\ BadUnstamped'
        /\ pmStore'[Top.loc] = Entry(Top.loc) /\ pmStore'[Top.loc] # None
    BY <1>1, <1>6, CreateModuleLemma
  <2>2. GoodEntryNext(Top.loc)
    BY <1>6, <2>1 DEF GoodEntryNext, GetStatusOK
  <2>3. f \in FrameType /\ f.at = "load" /\ f.op = "autoreg" /\ f.loc = Top.loc
    BY <1>1 DEF FrameType, At
  <2> HIDE DEF f
  <2>4. FrameOK(f) /\ EntryOKNext(f)
    BY <1>1, <2>1, <2>2, <2>3 DEF FrameOK, EntryOKNext, Deferring
  <2>5. Become(f)
    BY <1>6 DEF f
  <2> QED BY <1>1, <1>2, <2>1, <2>3, <2>4, <2>5, SameDeferred, BecomeOK
<1> QED BY <1>4, <1>5, <1>6 DEF StartRegistration

\* DeferredNext keeps LoaderInv.
LEMMA DeferredNextOK == LoaderInv /\ DeferredNext => LoaderInv'
<1> SUFFICES ASSUME LoaderInv, DeferredNext PROVE LoaderInv'
  OBVIOUS
<1> DEFINE l == deferred[Top.idx]
           f == [Top EXCEPT !.at = "load", !.loc = l]
<1>1. /\ Running /\ Top \in FrameType /\ FrameOK(Top)
      /\ Top.op = "deferred" /\ Top.idx \in 1 .. Len(deferred)
      /\ Become(f)
      /\ UNCHANGED <<disk, pmStore, modules, deferred, registry, errsv>>
  BY TopOK DEF DeferredNext
<1>2. l \in Loc /\ GoodEntry(l)
  BY <1>1, ElementOfSeq DEF LoaderInv, TypeOK, DeferredOK
<1>3. GoodEntryNext(l)
  BY <1>1, <1>2 DEF GoodEntry, GoodEntryNext
<1> HIDE DEF l
<1>4. /\ f \in FrameType /\ f.at = "load" /\ f.op = "deferred" /\ f.loc = l
      /\ f.idx = Top.idx
  BY <1>1, <1>2 DEF FrameType, At
<1> HIDE DEF f
<1>5. FrameOK(f) /\ EntryOKNext(f)
  BY <1>1, <1>2, <1>3, <1>4 DEF FrameOK, EntryOKNext, GoodEntryNext, Deferring
<1>6. registry' \in [Loc -> Loc \cup {None}] /\ errsv' \in BOOLEAN
      /\ modules' \in [Name -> Loc \cup {None}]
  BY <1>1 DEF LoaderInv, TypeOK
<1> QED BY <1>1, <1>4, <1>5, <1>6, SameStore, SameDeferred, BecomeOK

\* DeferredDone keeps LoaderInv.
LEMMA DeferredDoneOK == LoaderInv /\ DeferredDone => LoaderInv'
<1> SUFFICES ASSUME LoaderInv, DeferredDone PROVE LoaderInv'
  OBVIOUS
<1>1. Running /\ ReturnFrom("OK") /\ "OK" \in Rv
      /\ UNCHANGED <<disk, pmStore, modules, deferred, registry, errsv>>
  BY DEF DeferredDone, Rv
<1>2. registry' \in [Loc -> Loc \cup {None}] /\ errsv' \in BOOLEAN
  BY <1>1 DEF LoaderInv, TypeOK
<1> QED BY <1>1, <1>2, SameStore, SameDeferred, ReturnOK

\* Both callers of SelfRegisterModule, whatever it returned.
LEMMA SelfRegisterReturnsOK ==
  ASSUME LoaderInv, Running, Top.at \notin {"start", "loop"}, NEW rv \in Rv,
         SelfRegisterReturns(rv),
         registry' \in [Loc -> Loc \cup {None}], errsv' \in BOOLEAN,
         UNCHANGED <<disk, modules>>
  PROVE  LoaderInv'
<1>1. Top \in FrameType /\ FrameOK(Top) /\ EntryOK(Top) /\ Top.loc \in Loc
  BY TopOK DEF FrameOK
<1>2. Top.op \in {"autoreg", "deferred"}
  BY DEF SelfRegisterReturns
<1>3. GoodEntry(Top.loc)
  BY <1>1, <1>2 DEF EntryOK
<1>4. /\ pmStore' \in [Loc -> PMFile \cup {None}]
      /\ StoreGrows /\ BadUnstamped'
  <2>1. UNCHANGED pmStore \/ Sync(Top.loc)
    BY DEF SelfRegisterReturns
  <2> QED BY <1>1, <1>3, <2>1, SameStore, SyncLemma
<1>5. GoodEntryNext(Top.loc)
  BY <1>1, <1>3, <1>4 DEF StoreGrows, GoodEntry, GoodEntryNext
<1>6. deferred \in Seq(Loc) /\ Len(deferred) \in Nat
  BY LenProperties DEF LoaderInv, TypeOK
<1>7. CASE Top.op = "autoreg"
  <2>1. PICK x \in {"OK", "NOT_REGISTERED"} : ReturnFrom(x)
    BY <1>7 DEF SelfRegisterReturns
  <2>2. x \in Rv
    BY DEF Rv
  <2>3. deferred' = Append(deferred, Top.loc) \/ deferred' = deferred
    BY <1>7 DEF SelfRegisterReturns, AppendElement
  <2>4. /\ deferred' \in Seq(Loc)
        /\ \A i \in 1 .. Len(deferred') :
             \/ \E j \in 1 .. Len(deferred) : deferred'[i] = deferred[j]
             \/ GoodEntryNext(deferred'[i])
    <3>1. CASE deferred' = deferred
      BY <1>6, <3>1
    <3>2. CASE deferred' = Append(deferred, Top.loc)
      <4>1. /\ deferred' \in Seq(Loc) /\ Len(deferred') = Len(deferred) + 1
            /\ \A i \in 1 .. Len(deferred) : deferred'[i] = deferred[i]
            /\ deferred'[Len(deferred) + 1] = Top.loc
        BY <1>1, <1>6, <3>2, AppendProperties
      <4> QED BY <1>5, <1>6, <4>1
    <3> QED BY <2>3, <3>1, <3>2
  <2> QED BY <1>4, <2>1, <2>2, <2>4, ReturnOK
<1>8. CASE Top.op = "deferred"
  <2> DEFINE f == [Frame("deferred", "loop") EXCEPT !.idx = Top.idx - 1]
  <2>1. Top.idx \in Nat /\ Top.idx # 0
    BY <1>1, <1>8 DEF FrameOK, Deferring, FrameType
  <2>2. f \in FrameType /\ FrameOK(f) /\ EntryOKNext(f)
    BY <2>1 DEF Frame, FrameType, Op, At, Stamp, FrameOK, EntryOKNext, Deferring
  <2>3. Become(f)
    BY <1>8 DEF SelfRegisterReturns, NextIndex
  <2>4. \/ deferred' = deferred
        \/ Top.idx \in 1 .. Len(deferred) /\ deferred' = RemoveAt(deferred, Top.idx)
    BY <1>8 DEF SelfRegisterReturns, RemoveElementAt
  <2>5. /\ deferred' \in Seq(Loc)
        /\ \A i \in 1 .. Len(deferred') :
             \E j \in 1 .. Len(deferred) : deferred'[i] = deferred[j]
    <3>1. CASE deferred' = deferred
      BY <1>6, <3>1
    <3>2. CASE Top.idx \in 1 .. Len(deferred) /\ deferred' = RemoveAt(deferred, Top.idx)
      <4> DEFINE n == Top.idx
      <4>1. /\ deferred' \in Seq(Loc) /\ Len(deferred') = Len(deferred) - 1
            /\ \A i \in 1 .. (Len(deferred) - 1) :
                 deferred'[i] = IF i < n THEN deferred[i] ELSE deferred[i + 1]
        BY <1>6, <3>2, RemoveAtLemma
      <4> HIDE DEF n
      <4>2. \A i \in 1 .. (Len(deferred) - 1) :
              i \in 1 .. Len(deferred) /\ i + 1 \in 1 .. Len(deferred)
        BY <1>6
      <4> QED BY <4>1, <4>2
    <3> QED BY <2>4, <3>1, <3>2
  <2>6. modules' \in [Name -> Loc \cup {None}]
    BY DEF LoaderInv, TypeOK
  <2> HIDE DEF f
  <2> QED BY <1>4, <2>2, <2>3, <2>5, <2>6, BecomeOK
<1> QED BY <1>2, <1>7, <1>8

\* GetModule failed, in any of the four operations that need a module.
LEMMA GetModuleFailsOK ==
  ASSUME LoaderInv, Running, Top.at \notin {"start", "loop"}, NEW rv \in Rv,
         GetModuleFails(rv), errsv' \in BOOLEAN,
         UNCHANGED <<disk, modules, registry>>
  PROVE  LoaderInv'
<1>1. registry' \in [Loc -> Loc \cup {None}]
  BY DEF LoaderInv, TypeOK
<1>2. CASE SelfRegisterReturns(rv)
  BY <1>1, <1>2, SelfRegisterReturnsOK
<1>3. CASE ReturnFrom(rv) /\ UNCHANGED <<pmStore, deferred>>
  BY <1>1, <1>3, SameStore, SameDeferred, ReturnOK
<1> QED BY <1>2, <1>3 DEF GetModuleFails

\* The top frame goes on to another step inside GetModule or after it.
LEMMA AdvanceOK ==
  ASSUME LoaderInv, Running, Top.at \notin {"start", "loop"}, NEW f \in FrameType,
         Become(f), FrameOK(f), f.op = Top.op, f.loc = Top.loc,
         modules' \in [Name -> Loc \cup {None}], errsv' \in BOOLEAN,
         UNCHANGED <<disk, pmStore, deferred, registry>>
  PROVE  LoaderInv'
<1>1. EntryOK(Top)
  BY TopOK
<1>2. EntryOKNext(f)
  BY <1>1 DEF EntryOK, EntryOKNext, GoodEntry, GoodEntryNext
<1>3. registry' \in [Loc -> Loc \cup {None}]
  BY DEF LoaderInv, TypeOK
<1> QED BY <1>2, <1>3, SameStore, SameDeferred, BecomeOK

\* GetModule keeps LoaderInv.
LEMMA GetModuleOK == LoaderInv /\ GetModule => LoaderInv'
<1> SUFFICES ASSUME LoaderInv, GetModule PROVE LoaderInv'
  OBVIOUS
<1> DEFINE cached == modules[ModuleName[Top.loc]]
<1>1. /\ Running /\ Top \in FrameType /\ FrameOK(Top) /\ Top.at = "load"
      /\ Top.loc \in Loc /\ UNCHANGED <<disk, modules, registry, errsv>>
  BY TopOK DEF GetModule, FrameOK
<1>2. /\ modules' \in [Name -> Loc \cup {None}] /\ errsv' \in BOOLEAN
      /\ cached \in Loc \cup {None} /\ disk[Top.loc] \in Stamp
  BY <1>1 DEF LoaderInv, TypeOK
<1>3. CASE /\ cached # None /\ Become([Top EXCEPT !.at = "call", !.mod = cached])
           /\ UNCHANGED <<pmStore, deferred>>
  <2> DEFINE f == [Top EXCEPT !.at = "call", !.mod = cached]
  <2> HIDE DEF cached
  <2>1. /\ f \in FrameType /\ f.op = Top.op /\ f.loc = Top.loc /\ f.at = "call"
        /\ f.mod = cached /\ f.cls = Top.cls /\ f.idx = Top.idx
    BY <1>1, <1>2 DEF FrameType, At
  <2> HIDE DEF f
  <2>2. FrameOK(f)
    BY <1>1, <1>2, <1>3, <2>1 DEF FrameOK, Deferring
  <2>3. Become(f)
    BY <1>3 DEF f
  <2> QED BY <1>1, <1>2, <1>3, <2>1, <2>2, <2>3, AdvanceOK
<1>4. CASE GetModuleFails("FAILURE")
  BY <1>1, <1>2, <1>4, GetModuleFailsOK DEF Rv
<1>5. CASE /\ Become([Top EXCEPT !.at = "eval", !.ver = disk[Top.loc]])
           /\ UNCHANGED <<pmStore, deferred>>
  <2> DEFINE v == disk[Top.loc]
             f == [Top EXCEPT !.at = "eval", !.ver = v]
  <2> HIDE DEF v
  <2>1. /\ f \in FrameType /\ f.op = Top.op /\ f.loc = Top.loc /\ f.at = "eval"
        /\ f.cls = Top.cls /\ f.idx = Top.idx
    BY <1>1, <1>2 DEF FrameType, At, v
  <2> HIDE DEF f
  <2>2. FrameOK(f)
    BY <1>1, <2>1 DEF FrameOK, Deferring
  <2>3. Become(f)
    BY <1>5 DEF f, v
  <2> QED BY <1>1, <1>2, <1>5, <2>1, <2>2, <2>3, AdvanceOK
<1> QED BY <1>1, <1>3, <1>4, <1>5 DEF GetModule, CachedModule

\* EvalReturns keeps LoaderInv.
LEMMA EvalReturnsOK == LoaderInv /\ EvalReturns => LoaderInv'
<1> SUFFICES ASSUME LoaderInv, EvalReturns PROVE LoaderInv'
  OBVIOUS
<1>1. /\ Running /\ Top \in FrameType /\ FrameOK(Top) /\ Top.at = "eval"
      /\ Top.loc \in Loc /\ UNCHANGED <<disk, modules, registry>>
  BY TopOK DEF EvalReturns, FrameOK
<1>2. modules' \in [Name -> Loc \cup {None}] /\ errsv' \in BOOLEAN
  BY <1>1 DEF LoaderInv, TypeOK, EvalReturns
<1>3. CASE GetModuleFails("ILLEGAL_VALUE")
  BY <1>1, <1>2, <1>3, GetModuleFailsOK DEF Rv
<1>4. CASE /\ Become([Top EXCEPT !.at = "getmodule"])
           /\ UNCHANGED <<pmStore, deferred>>
  <2> DEFINE f == [Top EXCEPT !.at = "getmodule"]
  <2>1. /\ f \in FrameType /\ f.op = Top.op /\ f.loc = Top.loc
        /\ f.at = "getmodule" /\ f.cls = Top.cls /\ f.idx = Top.idx
    BY <1>1 DEF FrameType, At
  <2> HIDE DEF f
  <2>2. FrameOK(f)
    BY <1>1, <2>1 DEF FrameOK, Deferring
  <2>3. Become(f)
    BY <1>4 DEF f
  <2> QED BY <1>1, <1>2, <1>4, <2>1, <2>2, <2>3, AdvanceOK
<1> QED BY <1>3, <1>4 DEF EvalReturns

\* GetModuleReturns keeps LoaderInv.
LEMMA GetModuleReturnsOK == LoaderInv /\ GetModuleReturns => LoaderInv'
<1> SUFFICES ASSUME LoaderInv, GetModuleReturns PROVE LoaderInv'
  OBVIOUS
<1>1. /\ Running /\ Top \in FrameType /\ FrameOK(Top) /\ Top.at = "getmodule"
      /\ Top.loc \in Loc /\ UNCHANGED <<disk, registry>> /\ errsv' \in BOOLEAN
  BY TopOK DEF GetModuleReturns, FrameOK
<1>2. CASE GetModuleFails("FAILURE") /\ UNCHANGED modules
  BY <1>1, <1>2, GetModuleFailsOK DEF Rv
<1>3. CASE /\ modules' = [modules EXCEPT ![ModuleName[Top.loc]] = Top.loc]
           /\ Become([Top EXCEPT !.at = "call", !.mod = Top.loc])
           /\ UNCHANGED <<pmStore, deferred>>
  <2> DEFINE f == [Top EXCEPT !.at = "call", !.mod = Top.loc]
  <2>1. /\ f \in FrameType /\ f.op = Top.op /\ f.loc = Top.loc /\ f.at = "call"
        /\ f.mod = Top.loc /\ f.cls = Top.cls /\ f.idx = Top.idx
    BY <1>1 DEF FrameType, At
  <2> HIDE DEF f
  <2>2. FrameOK(f)
    BY <1>1, <2>1 DEF FrameOK, Deferring
  <2>3. Become(f)
    BY <1>3 DEF f
  <2>4. modules' \in [Name -> Loc \cup {None}]
    BY <1>1, <1>3 DEF LoaderInv, TypeOK
  <2> QED BY <1>1, <1>3, <2>1, <2>2, <2>3, <2>4, AdvanceOK
<1> QED BY <1>2, <1>3 DEF GetModuleReturns

\* RegisterSelfReturns keeps LoaderInv.
LEMMA RegisterSelfReturnsOK == LoaderInv /\ RegisterSelfReturns => LoaderInv'
<1> SUFFICES ASSUME LoaderInv, RegisterSelfReturns PROVE LoaderInv'
  OBVIOUS
<1>1. /\ Running /\ FrameOK(Top) /\ Top.at = "call" /\ Top.loc \in Loc
      /\ Top.mod \in Loc /\ UNCHANGED <<disk, modules>>
  BY TopOK DEF RegisterSelfReturns, FrameOK
<1>2. PICK rv \in {"OK", "AGAIN", "FAILURE"} :
        /\ errsv' \in BOOLEAN
        /\ registry' = IF rv = "OK" /\ ~errsv'
                         THEN [registry EXCEPT ![Top.mod] = Top.loc] ELSE registry
        /\ SelfRegisterReturns(rv)
  BY DEF RegisterSelfReturns
<1>3. registry' \in [Loc -> Loc \cup {None}]
  BY <1>1, <1>2 DEF LoaderInv, TypeOK
<1>4. rv \in Rv
  BY DEF Rv
<1> QED BY <1>1, <1>2, <1>3, <1>4, SelfRegisterReturnsOK

\* UnregisterSelfReturns keeps LoaderInv.
LEMMA UnregisterSelfReturnsOK == LoaderInv /\ UnregisterSelfReturns => LoaderInv'
<1> SUFFICES ASSUME LoaderInv, UnregisterSelfReturns PROVE LoaderInv'
  OBVIOUS
<1>1. /\ Running /\ FrameOK(Top) /\ Top.mod \in Loc /\ errsv' \in BOOLEAN
      /\ UNCHANGED <<disk, pmStore, modules, deferred>>
  BY TopOK DEF UnregisterSelfReturns, FrameOK
<1>2. registry' \in [Loc -> Loc \cup {None}]
  BY <1>1 DEF UnregisterSelfReturns, LoaderInv, TypeOK
<1>3. ReturnFrom("OK") \/ ReturnFrom("FAILURE")
  BY DEF UnregisterSelfReturns
<1>4. {"OK", "FAILURE"} \subseteq Rv
  BY DEF Rv
<1>5. CASE ReturnFrom("OK")
  BY <1>1, <1>2, <1>4, <1>5, SameStore, SameDeferred, ReturnOK
<1>6. CASE ReturnFrom("FAILURE")
  BY <1>1, <1>2, <1>4, <1>6, SameStore, SameDeferred, ReturnOK
<1> QED BY <1>3, <1>5, <1>6

\* GetClassObjectReturns keeps LoaderInv.
LEMMA GetClassObjectReturnsOK == LoaderInv /\ GetClassObjectReturns => LoaderInv'
<1> SUFFICES ASSUME LoaderInv, GetClassObjectReturns PROVE LoaderInv'
  OBVIOUS
<1>1. /\ Running /\ errsv' \in BOOLEAN
      /\ UNCHANGED <<disk, pmStore, modules, deferred, registry>>
  BY DEF GetClassObjectReturns
<1>2. PICK rv \in {"OK", "NO_CLASS", "FAILURE"} : ReturnFrom(rv)
  BY DEF GetClassObjectReturns
<1>3. rv \in Rv /\ registry' \in [Loc -> Loc \cup {None}]
  BY <1>1 DEF Rv, LoaderInv, TypeOK
<1> QED BY <1>1, <1>2, <1>3, SameStore, SameDeferred, ReturnOK

\* Steps that leave the calls in progress and the store alone.
LEMMA OutsideOK ==
  ASSUME LoaderInv, UNCHANGED <<pmStore, modules, deferred, registry, stack, nested,
                                returned>>,
         disk' \in [Loc -> Stamp], errsv' \in BOOLEAN
  PROVE  LoaderInv'
<1>1. TypeOK'
  BY DEF LoaderInv, TypeOK
<1> QED BY <1>1, SameStore, SameDeferred, KeepLemma

-----------------------------------------------------------------------------
(* Theorems.                                                               *)

\* LoaderInv is inductive.
LEMMA NextOK == LoaderInv /\ [Next]_vars => LoaderInv'
<1> SUFFICES ASSUME LoaderInv, [Next]_vars PROVE LoaderInv'
  OBVIOUS
<1>1. CASE AutoRegisterComponents
  BY <1>1, AutoRegisterComponentsOK
<1>2. CASE RegisterDeferredComponents
  BY <1>2, RegisterDeferredComponentsOK
<1>3. ASSUME NEW l \in Loc,
             \/ AutoRegisterComponent(l) \/ AutoUnregisterComponent(l)
             \/ GetFactory(l)
      PROVE  LoaderInv'
  BY <1>3, AutoRegisterComponentOK, AutoUnregisterComponentOK, GetFactoryOK
<1>4. ASSUME NEW l \in Loc, WriteFile(l) PROVE LoaderInv'
  <2>1. disk' \in [Loc -> Stamp] /\ errsv' \in BOOLEAN
    BY <1>4 DEF WriteFile, LoaderInv, TypeOK
  <2> QED BY <1>4, <2>1, OutsideOK DEF WriteFile
<1>5. CASE Step
  BY <1>5, ScanNextOK, ScanSkipOK, ScanDoneOK, StartRegistrationOK, DeferredNextOK,
     DeferredDoneOK, GetModuleOK, EvalReturnsOK, GetModuleReturnsOK,
     RegisterSelfReturnsOK, UnregisterSelfReturnsOK, GetClassObjectReturnsOK,
     ProcessEndsOK DEF Step, Crash
<1>6. CASE Restart
  BY <1>6, ProcessEndsOK DEF Restart
<1>7. CASE OtherPerlCode
  <2>1. disk' \in [Loc -> Stamp] /\ errsv' \in BOOLEAN
    BY <1>7 DEF OtherPerlCode, LoaderInv, TypeOK
  <2> QED BY <1>7, <2>1, OutsideOK DEF OtherPerlCode
<1>8. CASE UNCHANGED vars
  <2>1. disk' \in [Loc -> Stamp] /\ errsv' \in BOOLEAN
    BY <1>8 DEF vars, LoaderInv, TypeOK
  <2> QED BY <1>8, <2>1, OutsideOK DEF vars
<1> QED BY <1>1, <1>2, <1>3, <1>4, <1>5, <1>6, <1>7, <1>8 DEF Next

\* LoaderInv holds of every behaviour.
LEMMA LoaderInvariant == Spec => []LoaderInv
<1> QED BY InitOK, NextOK, PTL DEF Spec

\* Every variable keeps its type.
THEOREM TypeCorrect == Spec => []TypeOK
<1>1. LoaderInv => TypeOK
  BY DEF LoaderInv
<1> QED BY <1>1, LoaderInvariant, PTL

\* No running call and no deferred element holds a file entry that is not in
\* the store, and a bad entry is never stamped or deferred: for every
\* combination of re-entered operations, RegisterDeferredComponents included.
THEOREM StoreIsConsistent == Spec => []StoreConsistent
<1>1. LoaderInv => StoreConsistent
  BY DEF LoaderInv, FramesOK, EntryOK, DeferredOK, BadUnstamped, GoodEntry,
         StoreConsistent
<1> QED BY <1>1, LoaderInvariant, PTL

-----------------------------------------------------------------------------
(* Modules are called for their own files, when file names are distinct.   *)

\* A new call whose frame serves its own file.
LEMMA OwnCall ==
  ASSUME OwnInv, NEW f \in FrameType, Call(f), OwnFrame(f),
         UNCHANGED <<registry, modules>>
  PROVE  OwnRegistry' /\ OwnCache' /\ OwnFrames'
<1>1. /\ Len(stack') = Len(stack) + 1 /\ Len(stack) \in Nat
      /\ \A k \in 1 .. Len(stack) : stack'[k] = stack[k]
      /\ stack'[Len(stack) + 1] = f
  BY CallLemma, LenProperties DEF OwnInv, LoaderInv, TypeOK
<1>2. \A k \in 1 .. Len(stack') : OwnFrame(stack'[k])
  BY <1>1 DEF OwnInv, OwnFrames
<1> QED BY <1>2 DEF OwnInv, OwnRegistry, OwnCache, OwnFrames

\* The running call goes on and serves its own file.
LEMMA OwnBecome ==
  ASSUME OwnInv, Running, NEW f \in FrameType, Become(f), OwnFrame(f),
         OwnRegistry', OwnCache'
  PROVE  OwnRegistry' /\ OwnCache' /\ OwnFrames'
<1>1. /\ Len(stack') = Len(stack) /\ Len(stack) \in Nat
      /\ \A k \in 1 .. (Len(stack) - 1) : stack'[k] = stack[k]
      /\ stack'[Len(stack)] = f
  BY BecomeLemma, LenProperties DEF OwnInv, LoaderInv, TypeOK
<1>2. \A k \in 1 .. Len(stack') : OwnFrame(stack'[k])
  BY <1>1 DEF OwnInv, OwnFrames
<1> QED BY <1>2 DEF OwnFrames

\* A call returns.
LEMMA OwnReturn ==
  ASSUME OwnInv, Running, NEW rv \in Rv, ReturnFrom(rv), OwnRegistry', OwnCache'
  PROVE  OwnRegistry' /\ OwnCache' /\ OwnFrames'
<1>1. /\ Len(stack') = Len(stack) - 1 /\ Len(stack) \in Nat
      /\ \A k \in 1 .. (Len(stack) - 1) : stack'[k] = stack[k]
  BY ReturnLemma, LenProperties DEF OwnInv, LoaderInv, TypeOK
<1>2. \A k \in 1 .. Len(stack') : OwnFrame(stack'[k])
  BY <1>1 DEF OwnInv, OwnFrames
<1> QED BY <1>2 DEF OwnFrames

\* SelfRegisterModule has returned to either of its callers.
LEMMA OwnSelfRegisterReturns ==
  ASSUME OwnInv, Running, Top.at # "loop", NEW rv \in Rv,
         SelfRegisterReturns(rv), OwnRegistry', OwnCache'
  PROVE  OwnRegistry' /\ OwnCache' /\ OwnFrames'
<1>1. Top \in FrameType /\ FrameOK(Top)
  BY TopOK DEF OwnInv
<1>2. CASE \E x \in {"OK", "NOT_REGISTERED"} : ReturnFrom(x)
  BY <1>2, OwnReturn DEF Rv
<1>3. CASE Top.op = "deferred" /\ Become([Frame("deferred", "loop") EXCEPT !.idx = Top.idx - 1])
  <2> DEFINE f == [Frame("deferred", "loop") EXCEPT !.idx = Top.idx - 1]
  <2>1. Top.idx \in Nat /\ Top.idx # 0
    BY <1>1, <1>3 DEF FrameOK, Deferring, FrameType
  <2>2. f \in FrameType /\ OwnFrame(f)
    BY <2>1 DEF Frame, FrameType, Op, At, Stamp, OwnFrame
  <2> HIDE DEF f
  <2> QED BY <1>3, <2>2, OwnBecome DEF f
<1> QED BY <1>2, <1>3 DEF SelfRegisterReturns, NextIndex

\* GetModule has failed for any of its callers.
LEMMA OwnGetModuleFails ==
  ASSUME OwnInv, Running, Top.at # "loop", NEW rv \in Rv,
         GetModuleFails(rv), OwnRegistry', OwnCache'
  PROVE  OwnRegistry' /\ OwnCache' /\ OwnFrames'
BY OwnSelfRegisterReturns, OwnReturn DEF GetModuleFails

\* The host or Perl code calls an operation of the loader.
LEMMA OwnCalls ==
  ASSUME OwnInv,
         \/ AutoRegisterComponents \/ RegisterDeferredComponents
         \/ \E l \in Loc : \/ AutoRegisterComponent(l)
                          \/ AutoUnregisterComponent(l)
                          \/ GetFactory(l)
  PROVE  OwnRegistry' /\ OwnCache' /\ OwnFrames'
<1>1. Len(deferred) \in Nat
  BY LenProperties DEF OwnInv, LoaderInv, TypeOK
<1>2. CASE AutoRegisterComponents
  <2> DEFINE f == [Frame("scan", "loop") EXCEPT !.todo = {l \in Loc : disk[l] # 0}]
  <2>1. f \in FrameType /\ OwnFrame(f)
    BY DEF Frame, FrameType, Op, At, Stamp, OwnFrame
  <2> HIDE DEF f
  <2> QED BY <1>2, <2>1, OwnCall DEF AutoRegisterComponents, f
<1>3. CASE RegisterDeferredComponents
  <2> DEFINE f == [Frame("deferred", "loop") EXCEPT !.idx = Len(deferred)]
  <2>1. f \in FrameType /\ OwnFrame(f)
    BY <1>1 DEF Frame, FrameType, Op, At, Stamp, OwnFrame
  <2> HIDE DEF f
  <2> QED BY <1>3, <2>1, OwnCall DEF RegisterDeferredComponents, f
<1>4. ASSUME NEW l \in Loc, AutoRegisterComponent(l)
      PROVE  OwnRegistry' /\ OwnCache' /\ OwnFrames'
  <2> DEFINE f == [Frame("autoreg", "start") EXCEPT !.loc = l]
  <2>1. f \in FrameType /\ OwnFrame(f)
    BY DEF Frame, FrameType, Op, At, Stamp, OwnFrame
  <2> HIDE DEF f
  <2> QED BY <1>4, <2>1, OwnCall DEF AutoRegisterComponent, f
<1>5. ASSUME NEW l \in Loc, AutoUnregisterComponent(l)
      PROVE  OwnRegistry' /\ OwnCache' /\ OwnFrames'
  <2> DEFINE f == [Frame("unreg", "load") EXCEPT !.loc = l]
  <2>1. f \in FrameType /\ OwnFrame(f)
    BY DEF Frame, FrameType, Op, At, Stamp, OwnFrame
  <2> HIDE DEF f
  <2> QED BY <1>5, <2>1, OwnCall DEF AutoUnregisterComponent, f
<1>6. ASSUME NEW c \in Loc, GetFactory(c)
      PROVE  OwnRegistry' /\ OwnCache' /\ OwnFrames'
  <2>1. registry[c] = c
    BY <1>6 DEF GetFactory, OwnInv, OwnRegistry
  <2> DEFINE e == Frame("factory", "load")
             f == [e EXCEPT !.loc = c, !.cls = c]
  <2>2. Call(f) /\ UNCHANGED <<registry, modules>>
    BY <1>6, <2>1 DEF GetFactory
  <2>3. e \in FrameType /\ e.op = "factory" /\ e.at = "load"
    BY DEF Frame, FrameType, Op, At, Stamp
  <2> HIDE DEF e
  <2>4. f \in FrameType /\ f.at = "load" /\ f.loc = f.cls
    BY <2>3 DEF FrameType
  <2> HIDE DEF f
  <2>5. OwnFrame(f)
    BY <2>4 DEF OwnFrame
  <2> QED BY <2>2, <2>4, <2>5, OwnCall
<1> QED BY <1>2, <1>3, <1>4, <1>5, <1>6

\* The scan takes up the next file.
LEMMA OwnScanNext ==
  ASSUME OwnInv, ScanNext
  PROVE  OwnRegistry' /\ OwnCache' /\ OwnFrames'
<1>1. Top \in FrameType /\ FrameOK(Top) /\ Len(stack) \in Nat /\ Len(stack) # 0
      /\ Top.op = "scan" /\ stack \in Seq(FrameType)
  BY TopOK DEF ScanNext, OwnInv, LoaderInv, TypeOK
<1>2. PICK l \in Top.todo :
        stack' = Append([stack EXCEPT ![Len(stack)].todo = @ \ {l}],
                        [Frame("autoreg", "start") EXCEPT !.loc = l])
  BY DEF ScanNext
<1> DEFINE g == [Top EXCEPT !.todo = @ \ {l}]
           f == [Frame("autoreg", "start") EXCEPT !.loc = l]
           s == [stack EXCEPT ![Len(stack)] = g]
<1>3. f \in FrameType /\ OwnFrame(f)
  BY <1>1 DEF Frame, FrameType, Op, At, Stamp, OwnFrame
<1>4. g \in FrameType /\ g.op = "scan" /\ g.at = "loop"
  BY <1>1 DEF FrameType, FrameOK
<1>5. OwnFrame(g)
  BY <1>4 DEF OwnFrame
<1>6. stack' = Append(s, f)
  BY <1>2 DEF Top
<1> HIDE DEF f, g
<1>7. /\ s \in Seq(FrameType) /\ Len(s) = Len(stack)
      /\ \A k \in 1 .. Len(stack) : s[k] = IF k = Len(stack) THEN g ELSE stack[k]
  BY <1>1, <1>4, ExceptSeq
<1> HIDE DEF s
<1>8. /\ Len(stack') = Len(stack) + 1
      /\ \A k \in 1 .. Len(stack) : stack'[k] = IF k = Len(stack) THEN g ELSE stack[k]
      /\ stack'[Len(stack) + 1] = f
  BY <1>3, <1>6, <1>7, AppendProperties
<1>9. \A k \in 1 .. Len(stack') : OwnFrame(stack'[k])
  BY <1>1, <1>3, <1>5, <1>8 DEF OwnInv, OwnFrames
<1> QED BY <1>9 DEF ScanNext, OwnInv, OwnRegistry, OwnCache, OwnFrames

\* The frames of the loader's own steps; names are distinct where a cached
\* module is taken for the file's own.
LEMMA OwnStep ==
  ASSUME NamesDistinct, OwnInv, Step
  PROVE  OwnRegistry' /\ OwnCache' /\ OwnFrames'
<1> DEFINE Goal == OwnRegistry' /\ OwnCache' /\ OwnFrames'
<1> SUFFICES Goal
  OBVIOUS
<1> HIDE DEF Goal
<1>1. ASSUME UNCHANGED registry PROVE OwnRegistry'
  BY <1>1 DEF OwnRegistry, OwnInv
<1>2. ASSUME UNCHANGED modules PROVE OwnCache'
  BY <1>2 DEF OwnCache, OwnInv
<1>3. ASSUME Running PROVE Top \in FrameType /\ FrameOK(Top) /\ OwnFrame(Top)
  BY <1>3, TopOK DEF OwnInv, OwnFrames, Top
<1>4. ASSUME NEW f \in FrameType, Running, Become(f), OwnFrame(f),
             UNCHANGED <<registry, modules>>
      PROVE  Goal
  BY <1>1, <1>2, <1>4, OwnBecome DEF Goal
<1>5. ASSUME NEW rv \in Rv, Running, ReturnFrom(rv), UNCHANGED <<registry, modules>>
      PROVE  Goal
  BY <1>1, <1>2, <1>5, OwnReturn DEF Goal
<1>6. {"OK", "FAILURE", "NO_CLASS", "ILLEGAL_VALUE", "AGAIN"} \subseteq Rv
  BY DEF Rv
<1>7. CASE ScanNext
  BY <1>7, OwnScanNext DEF Goal
<1>18. CASE ScanSkip
  <2>1. PICK l \in Top.todo : Become([Top EXCEPT !.todo = @ \ {l}])
    BY <1>18 DEF ScanSkip
  <2>2. /\ Running /\ Top \in FrameType /\ FrameOK(Top) /\ Top.op = "scan"
        /\ UNCHANGED <<registry, modules>>
    BY <1>3, <1>18 DEF ScanSkip
  <2> DEFINE f == [Top EXCEPT !.todo = @ \ {l}]
  <2>3. f \in FrameType /\ f.op = "scan" /\ f.at = "loop"
    BY <2>2 DEF FrameType, FrameOK
  <2> HIDE DEF f
  <2>4. OwnFrame(f)
    BY <2>3 DEF OwnFrame
  <2> QED BY <1>4, <2>1, <2>2, <2>3, <2>4 DEF f
<1>8. CASE ScanDone \/ DeferredDone
  BY <1>5, <1>6, <1>8 DEF ScanDone, DeferredDone
<1>9. CASE StartRegistration
  <2>1. /\ Running /\ Top \in FrameType /\ FrameOK(Top) /\ Top.at = "start"
        /\ UNCHANGED <<registry, modules>>
    BY <1>3, <1>9 DEF StartRegistration
  <2>2. CASE ReturnFrom("OK")
    BY <1>5, <1>6, <2>1, <2>2
  <2>3. CASE ReturnFrom("FAILURE")
    BY <1>5, <1>6, <2>1, <2>3
  <2>4. CASE Become([Top EXCEPT !.at = "load"])
    <3> DEFINE f == [Top EXCEPT !.at = "load"]
    <3>1. f \in FrameType /\ OwnFrame(f)
      BY <2>1 DEF FrameType, At, FrameOK, OwnFrame
    <3> HIDE DEF f
    <3> QED BY <1>4, <2>1, <2>4, <3>1 DEF f
  <2> QED BY <1>9, <2>2, <2>3, <2>4 DEF StartRegistration
<1>10. CASE DeferredNext
  <2> DEFINE l == deferred[Top.idx]
             f == [Top EXCEPT !.at = "load", !.loc = l]
  <2>1. /\ Running /\ Top \in FrameType /\ Top.op = "deferred" /\ Become(f)
        /\ Top.idx \in 1 .. Len(deferred) /\ UNCHANGED <<registry, modules>>
    BY <1>3, <1>10 DEF DeferredNext
  <2>2. l \in Loc
    BY <2>1, ElementOfSeq DEF OwnInv, LoaderInv, TypeOK
  <2> HIDE DEF l
  <2>3. f \in FrameType /\ f.at = "load" /\ f.op = "deferred"
    BY <2>1, <2>2 DEF FrameType, At
  <2> HIDE DEF f
  <2>4. OwnFrame(f)
    BY <2>3 DEF OwnFrame
  <2> QED BY <1>4, <2>1, <2>3, <2>4
<1>11. CASE GetModule
  <2> DEFINE cached == modules[ModuleName[Top.loc]]
  <2>1. /\ Running /\ Top \in FrameType /\ FrameOK(Top) /\ OwnFrame(Top)
        /\ Top.at = "load" /\ Top.loc \in Loc /\ UNCHANGED <<registry, modules>>
    BY <1>3, <1>11 DEF GetModule, FrameOK
  <2>2. cached \in Loc \cup {None} /\ ModuleName[Top.loc] \in Name
        /\ disk[Top.loc] \in Stamp
    BY <2>1 DEF OwnInv, LoaderInv, TypeOK
  <2>3. cached # None => cached = Top.loc
    BY <2>1, <2>2 DEF OwnInv, OwnCache, NamesDistinct
  <2>4. CASE cached # None /\ Become([Top EXCEPT !.at = "call", !.mod = cached])
    <3> DEFINE f == [Top EXCEPT !.at = "call", !.mod = Top.loc]
    <3>1. f \in FrameType /\ f.mod = f.loc /\ f.op = Top.op /\ f.loc = Top.loc
          /\ f.cls = Top.cls
      BY <2>1 DEF FrameType, At
    <3>2. Become(f)
      BY <2>3, <2>4
    <3> HIDE DEF f
    <3>3. OwnFrame(f)
      BY <2>1, <3>1 DEF OwnFrame
    <3> QED BY <1>4, <2>1, <3>1, <3>2, <3>3
  <2>5. CASE GetModuleFails("FAILURE")
    BY <1>1, <1>2, <1>6, <2>1, <2>5, OwnGetModuleFails DEF Goal
  <2>6. CASE Become([Top EXCEPT !.at = "eval", !.ver = disk[Top.loc]])
    <3> DEFINE v == disk[Top.loc]
               f == [Top EXCEPT !.at = "eval", !.ver = v]
    <3>1. v \in Stamp /\ Become(f)
      BY <2>2, <2>6
    <3> HIDE DEF v
    <3>2. f \in FrameType /\ f.at = "eval" /\ f.op = Top.op /\ f.loc = Top.loc
          /\ f.cls = Top.cls
      BY <2>1, <3>1 DEF FrameType, At
    <3> HIDE DEF f
    <3>3. OwnFrame(f)
      BY <2>1, <3>2 DEF OwnFrame
    <3> QED BY <1>4, <2>1, <3>1, <3>2, <3>3
  <2> QED BY <1>11, <2>4, <2>5, <2>6 DEF GetModule, CachedModule
<1>12. CASE EvalReturns
  <2>1. /\ Running /\ Top \in FrameType /\ OwnFrame(Top) /\ Top.at = "eval"
        /\ UNCHANGED <<registry, modules>>
    BY <1>3, <1>12 DEF EvalReturns
  <2>2. CASE GetModuleFails("ILLEGAL_VALUE")
    BY <1>1, <1>2, <1>6, <2>1, <2>2, OwnGetModuleFails DEF Goal
  <2>3. CASE Become([Top EXCEPT !.at = "getmodule"])
    <3> DEFINE f == [Top EXCEPT !.at = "getmodule"]
    <3>1. f \in FrameType /\ OwnFrame(f)
      BY <2>1 DEF FrameType, At, OwnFrame
    <3> HIDE DEF f
    <3> QED BY <1>4, <2>1, <2>3, <3>1 DEF f
  <2> QED BY <1>12, <2>2, <2>3 DEF EvalReturns
<1>13. CASE GetModuleReturns
  <2>1. /\ Running /\ Top \in FrameType /\ FrameOK(Top) /\ OwnFrame(Top)
        /\ Top.at = "getmodule" /\ Top.loc \in Loc /\ UNCHANGED registry
    BY <1>3, <1>13 DEF GetModuleReturns, FrameOK
  <2>2. CASE GetModuleFails("FAILURE") /\ UNCHANGED modules
    BY <1>1, <1>2, <1>6, <2>1, <2>2, OwnGetModuleFails DEF Goal
  <2>3. CASE /\ modules' = [modules EXCEPT ![ModuleName[Top.loc]] = Top.loc]
             /\ Become([Top EXCEPT !.at = "call", !.mod = Top.loc])
    <3> DEFINE f == [Top EXCEPT !.at = "call", !.mod = Top.loc]
    <3>1. f \in FrameType /\ OwnFrame(f)
      BY <2>1 DEF FrameType, At, OwnFrame
    <3>2. OwnCache'
      BY <2>1, <2>3 DEF OwnCache, OwnInv, LoaderInv, TypeOK
    <3> HIDE DEF f
    <3> QED BY <1>1, <2>1, <2>3, <3>1, <3>2, OwnBecome DEF f, Goal
  <2> QED BY <1>13, <2>2, <2>3 DEF GetModuleReturns
<1>14. CASE RegisterSelfReturns
  <2>1. /\ Running /\ FrameOK(Top) /\ OwnFrame(Top) /\ Top.at = "call"
        /\ Top.mod = Top.loc /\ Top.loc \in Loc /\ UNCHANGED modules
    BY <1>3, <1>14 DEF RegisterSelfReturns, FrameOK, OwnFrame
  <2>2. PICK rv \in {"OK", "AGAIN", "FAILURE"} :
          /\ registry' \in {[registry EXCEPT ![Top.mod] = Top.loc], registry}
          /\ SelfRegisterReturns(rv)
    BY <1>14 DEF RegisterSelfReturns
  <2>3. OwnRegistry'
    BY <2>1, <2>2 DEF OwnRegistry, OwnInv, LoaderInv, TypeOK
  <2> QED BY <1>2, <1>6, <2>1, <2>2, <2>3, OwnSelfRegisterReturns DEF Goal
<1>15. CASE UnregisterSelfReturns
  <2>1. Running /\ Top.mod \in Loc /\ UNCHANGED modules
    BY <1>3, <1>15 DEF UnregisterSelfReturns, FrameOK
  <2>2. OwnRegistry'
    BY <1>15, <2>1 DEF UnregisterSelfReturns, OwnRegistry, OwnInv, LoaderInv, TypeOK
  <2>3. ReturnFrom("OK") \/ ReturnFrom("FAILURE")
    BY <1>15 DEF UnregisterSelfReturns
  <2>4. CASE ReturnFrom("OK")
    BY <1>2, <1>6, <2>1, <2>2, <2>4, OwnReturn DEF Goal
  <2>5. CASE ReturnFrom("FAILURE")
    BY <1>2, <1>6, <2>1, <2>2, <2>5, OwnReturn DEF Goal
  <2> QED BY <2>3, <2>4, <2>5
<1>16. CASE GetClassObjectReturns
  <2>1. Running /\ UNCHANGED <<registry, modules>>
    BY <1>16 DEF GetClassObjectReturns
  <2>2. PICK rv \in {"OK", "NO_CLASS", "FAILURE"} : ReturnFrom(rv)
    BY <1>16 DEF GetClassObjectReturns
  <2> QED BY <1>5, <1>6, <2>1, <2>2
<1>17. CASE Crash
  <2>1. Len(stack') = 0
    BY <1>17, EmptySeq DEF Crash, ProcessEnds
  <2>2. OwnFrames'
    BY <2>1 DEF OwnFrames
  <2>3. OwnCache'
    BY <1>17 DEF Crash, ProcessEnds, OwnCache
  <2> QED BY <1>1, <1>17, <2>2, <2>3 DEF Crash, ProcessEnds, Goal
<1> QED BY <1>7, <1>8, <1>9, <1>10, <1>11, <1>12, <1>13, <1>14, <1>15, <1>16, <1>17, <1>18 DEF Step

\* OwnInv is inductive.
LEMMA OwnNext ==
  ASSUME NamesDistinct, OwnInv, [Next]_vars
  PROVE  OwnInv'
<1>1. LoaderInv'
  BY NextOK DEF OwnInv
<1>2. CASE Step
  BY <1>1, <1>2, OwnStep DEF OwnInv
<1>3. CASE \/ AutoRegisterComponents \/ RegisterDeferredComponents
           \/ \E l \in Loc : \/ AutoRegisterComponent(l)
                            \/ AutoUnregisterComponent(l)
                            \/ GetFactory(l)
  BY <1>1, <1>3, OwnCalls DEF OwnInv
<1>4. CASE UNCHANGED <<registry, modules, stack>>
  BY <1>1, <1>4 DEF OwnInv, OwnRegistry, OwnCache, OwnFrames
<1>5. CASE Restart
  <2>1. Len(stack') = 0
    BY <1>5, EmptySeq DEF Restart, ProcessEnds
  <2>2. OwnFrames'
    BY <2>1 DEF OwnFrames
  <2>3. OwnCache' /\ OwnRegistry'
    BY <1>5 DEF Restart, ProcessEnds, OwnCache, OwnRegistry, OwnInv
  <2> QED BY <1>1, <2>2, <2>3 DEF OwnInv
<1>6. (\E l \in Loc : WriteFile(l)) \/ OtherPerlCode \/ UNCHANGED vars
        => UNCHANGED <<registry, modules, stack>>
  BY DEF WriteFile, OtherPerlCode, vars
<1> QED BY <1>2, <1>3, <1>4, <1>5, <1>6 DEF Next

\* Where no two files share a cache key, a module is only ever called for its
\* own file and asked for its own class, whatever calls are re-entered and
\* whatever registrations earlier processes left.
THEOREM ModulesServeTheirFiles ==
  ASSUME NamesDistinct
  PROVE  Spec => []OwnModuleCalled
<1>1. Init => OwnInv
  <2>1. Init => OwnRegistry /\ OwnCache
    BY DEF Init, OwnRegistry, OwnCache
  <2>2. Init => OwnFrames
    BY EmptySeq DEF Init, OwnFrames
  <2> QED BY <2>1, <2>2, InitOK DEF OwnInv
<1>2. OwnInv /\ [Next]_vars => OwnInv'
  BY OwnNext
<1>3. OwnInv => OwnModuleCalled
  BY DEF OwnInv, OwnFrames, OwnFrame, OwnModuleCalled
<1> QED BY <1>1, <1>2, <1>3, PTL DEF Spec

-----------------------------------------------------------------------------
(* m_DeferredComponents, where Perl code does not call                     *)
(* RegisterDeferredComponents while it is running.                         *)

NotNested == "deferred" \notin Reentrant

\* What DeferredInProgress says of a frame, for a given list of components.
InOrder(f, list) ==
  f.op = "deferred" =>
    /\ f.idx \in 0 .. Len(list)
    /\ Deferring(f) => f.idx > 0 /\ list[f.idx] = f.loc

\* A new frame.
LEMMA FrameLemma ==
  ASSUME NEW op \in Op, NEW at \in At
  PROVE  /\ Frame(op, at) \in FrameType
         /\ Frame(op, at).op = op /\ Frame(op, at).at = at
<1>1. /\ Frame(op, at).op = op /\ Frame(op, at).at = at
  BY DEF Frame
<1>2. 0 \in Stamp
  BY LoaderAssumption DEF Stamp
<1>3. Frame(op, at) \in FrameType
  BY <1>2 DEF Frame, FrameType
<1> QED BY <1>1, <1>3

\* A step keeps the deferred loop in order when the frames it adds are, and
\* the elements below the loop's index stay where they are.
LEMMA KeepInOrder ==
  ASSUME DeferredInv, LoaderInv',
         Len(deferred) <= Len(deferred'),
         \A i \in 1 .. Len(deferred) : deferred'[i] = deferred[i],
         \A k \in 1 .. Len(stack') :
           \/ k \in 1 .. Len(stack) /\ stack'[k] = stack[k]
           \/ /\ stack'[k].op = "deferred" => k = 1
              /\ InOrder(stack'[k], deferred')
  PROVE  DeferredInv'
<1>1. Len(deferred) \in Nat /\ Len(deferred') \in Nat
  BY LenProperties DEF DeferredInv, LoaderInv, TypeOK
<1>2. OneDeferred'
  BY DEF DeferredInv, OneDeferred
<1>3. ASSUME NEW k \in 1 .. Len(stack') PROVE InOrder(stack'[k], deferred')
  <2>1. CASE k \in 1 .. Len(stack) /\ stack'[k] = stack[k]
    <3>1. InOrder(stack[k], deferred)
      BY <2>1 DEF DeferredInv, DeferredInProgress, InOrder
    <3>2. stack[k] \in FrameType
      BY <2>1, ElementOfSeq DEF DeferredInv, LoaderInv, TypeOK
    <3> QED BY <1>1, <2>1, <3>1, <3>2 DEF InOrder, FrameType
  <2> QED BY <1>3, <2>1
<1>4. DeferredInProgress'
  BY <1>3 DEF DeferredInProgress, InOrder
<1> QED BY <1>2, <1>4 DEF DeferredInv

\* A new call leaves the deferred loop in order.
LEMMA CallInOrder ==
  ASSUME DeferredInv, LoaderInv', NEW f \in FrameType, Call(f), UNCHANGED deferred,
         f.op = "deferred" => ~Running,
         InOrder(f, deferred)
  PROVE  DeferredInv'
<1>1. /\ Len(stack') = Len(stack) + 1 /\ Len(stack) \in Nat
      /\ \A k \in 1 .. Len(stack) : stack'[k] = stack[k]
      /\ stack'[Len(stack) + 1] = f
  BY CallLemma, LenProperties DEF DeferredInv, LoaderInv, TypeOK
<1>2. f.op = "deferred" => Len(stack) = 0
  BY EmptySeq DEF Running
<1>3. Len(deferred) \in Nat
  BY LenProperties DEF DeferredInv, LoaderInv, TypeOK
<1>4. \A k \in 1 .. Len(stack') :
        \/ k \in 1 .. Len(stack) /\ stack'[k] = stack[k]
        \/ (stack'[k].op = "deferred" => k = 1) /\ InOrder(stack'[k], deferred')
  BY <1>1, <1>2
<1> QED BY <1>3, <1>4, KeepInOrder

\* What is known of the running call.
LEMMA TopInOrder ==
  ASSUME DeferredInv, Running
  PROVE  /\ Top \in FrameType /\ FrameOK(Top) /\ InOrder(Top, deferred)
         /\ Top.op = "deferred" => Len(stack) = 1
<1>1. Top \in FrameType /\ FrameOK(Top) /\ Len(stack) \in Nat /\ Len(stack) # 0
  BY TopOK DEF DeferredInv
<1>2. Len(stack) \in 1 .. Len(stack) /\ Top = stack[Len(stack)]
  BY <1>1 DEF Top
<1>3. InOrder(stack[Len(stack)], deferred)
  BY <1>2 DEF DeferredInv, DeferredInProgress, InOrder
<1>4. stack[Len(stack)].op = "deferred" => Len(stack) = 1
  BY <1>2 DEF DeferredInv, OneDeferred
<1> QED BY <1>1, <1>2, <1>3, <1>4

\* The running call goes on, at the same place of the loop.
LEMMA BecomeInOrder ==
  ASSUME DeferredInv, LoaderInv', Running, NEW f \in FrameType, Become(f),
         UNCHANGED deferred, f.op = Top.op, InOrder(f, deferred)
  PROVE  DeferredInv'
<1>1. /\ Len(stack') = Len(stack) /\ Len(stack) \in Nat
      /\ \A k \in 1 .. (Len(stack) - 1) : stack'[k] = stack[k]
      /\ stack'[Len(stack)] = f
  BY BecomeLemma, LenProperties DEF DeferredInv, LoaderInv, TypeOK
<1>2. Len(deferred) \in Nat
  BY LenProperties DEF DeferredInv, LoaderInv, TypeOK
<1>3. f.op = "deferred" => Len(stack) = 1
  BY TopInOrder
<1>4. \A k \in 1 .. Len(stack') :
        \/ k \in 1 .. Len(stack) /\ stack'[k] = stack[k]
        \/ (stack'[k].op = "deferred" => k = 1) /\ InOrder(stack'[k], deferred')
  BY <1>1, <1>3
<1> QED BY <1>2, <1>4, KeepInOrder

\* A call returns, having deferred at most its own component.
LEMMA ReturnInOrder ==
  ASSUME DeferredInv, LoaderInv', Running, NEW rv \in Rv, ReturnFrom(rv),
         \/ UNCHANGED deferred
         \/ \E l \in Loc : deferred' = Append(deferred, l)
  PROVE  DeferredInv'
<1>1. /\ Len(stack') = Len(stack) - 1 /\ Len(stack) \in Nat
      /\ \A k \in 1 .. (Len(stack) - 1) : stack'[k] = stack[k]
  BY ReturnLemma, LenProperties DEF DeferredInv, LoaderInv, TypeOK
<1>2. deferred \in Seq(Loc) /\ Len(deferred) \in Nat
  BY LenProperties DEF DeferredInv, LoaderInv, TypeOK
<1>3. /\ Len(deferred) <= Len(deferred')
      /\ \A i \in 1 .. Len(deferred) : deferred'[i] = deferred[i]
  BY <1>2, AppendProperties
<1> QED BY <1>1, <1>3, KeepInOrder

\* The index goes down with the element it was at, removed or not.
LEMMA SelfRegisterReturnsInOrder ==
  ASSUME DeferredInv, LoaderInv', Running, Top.at \notin {"start", "loop"},
         NEW rv \in Rv, SelfRegisterReturns(rv)
  PROVE  DeferredInv'
<1>1. /\ Top \in FrameType /\ FrameOK(Top) /\ InOrder(Top, deferred)
      /\ Top.op = "deferred" => Len(stack) = 1
      /\ Top.loc \in Loc
  BY TopInOrder DEF FrameOK
<1>2. deferred \in Seq(Loc) /\ Len(deferred) \in Nat
  BY LenProperties DEF DeferredInv, LoaderInv, TypeOK
<1>3. CASE Top.op = "autoreg"
  <2>1. PICK x \in {"OK", "NOT_REGISTERED"} : ReturnFrom(x)
    BY <1>3 DEF SelfRegisterReturns
  <2>2. deferred' = Append(deferred, Top.loc) \/ deferred' = deferred
    BY <1>3 DEF SelfRegisterReturns, AppendElement
  <2> QED BY <1>1, <2>1, <2>2, ReturnInOrder DEF Rv
<1>4. CASE Top.op = "deferred"
  <2> DEFINE e == Frame("deferred", "loop")
             f == [e EXCEPT !.idx = Top.idx - 1]
  <2>1. Top.idx \in 1 .. Len(deferred) /\ deferred[Top.idx] = Top.loc
    BY <1>1, <1>4 DEF InOrder, Deferring, FrameType
  <2>2. f \in FrameType /\ f.op = "deferred" /\ f.at = "loop" /\ f.idx = Top.idx - 1
    <3>1. e \in FrameType /\ e.op = "deferred" /\ e.at = "loop"
      BY FrameLemma DEF Op, At
    <3> HIDE DEF e
    <3>2. Top.idx - 1 \in Nat
      BY <1>2, <2>1
    <3> QED BY <3>1, <3>2 DEF FrameType
  <2>3. Become(f)
    BY <1>4 DEF SelfRegisterReturns, NextIndex
  <2> HIDE DEF f
  <2>4. Len(stack') = 1 /\ stack'[1] = f
    BY <1>1, <1>4, <2>2, <2>3, BecomeLemma DEF DeferredInv, LoaderInv
  <2>5. deferred' = deferred \/ deferred' = RemoveAt(deferred, Top.idx)
    BY <1>4 DEF SelfRegisterReturns, RemoveElementAt
  <2>6. Len(deferred') \in {Len(deferred), Len(deferred) - 1}
    BY <1>2, <2>1, <2>5, RemoveAtLemma
  <2>7. f.idx \in 0 .. Len(deferred')
    BY <1>2, <2>1, <2>2, <2>6
  <2>8. OneDeferred' /\ DeferredInProgress'
    BY <2>2, <2>4, <2>7 DEF OneDeferred, DeferredInProgress, Deferring
  <2> QED BY <2>8 DEF DeferredInv
<1> QED BY <1>3, <1>4 DEF SelfRegisterReturns

\* A failed GetModule is an outcome of SelfRegisterModule.
LEMMA GetModuleFailsInOrder ==
  ASSUME DeferredInv, LoaderInv', Running, Top.at \notin {"start", "loop"},
         NEW rv \in Rv, GetModuleFails(rv)
  PROVE  DeferredInv'
BY SelfRegisterReturnsInOrder, ReturnInOrder DEF GetModuleFails

\* The host or Perl code calls an operation of the loader.
LEMMA CallsInOrder ==
  ASSUME NotNested, DeferredInv, LoaderInv',
         \/ AutoRegisterComponents \/ RegisterDeferredComponents
         \/ \E l \in Loc : \/ AutoRegisterComponent(l)
                          \/ AutoUnregisterComponent(l)
                          \/ GetFactory(l)
  PROVE  DeferredInv'
<1>1. Len(deferred) \in Nat
  BY LenProperties DEF DeferredInv, LoaderInv, TypeOK
<1>2. CASE AutoRegisterComponents
  <2> DEFINE e == Frame("scan", "loop")
             f == [e EXCEPT !.todo = {l \in Loc : disk[l] # 0}]
  <2>1. f \in FrameType /\ f.op = "scan"
    <3>1. e \in FrameType /\ e.op = "scan" /\ e.at = "loop"
      BY FrameLemma DEF Op, At
    <3> HIDE DEF e
    <3> QED BY <1>1, <3>1 DEF FrameType
  <2> HIDE DEF f
  <2> QED BY <1>2, <2>1, CallInOrder DEF AutoRegisterComponents, f, InOrder
<1>3. CASE RegisterDeferredComponents
  <2> DEFINE e == Frame("deferred", "loop")
             f == [e EXCEPT !.idx = Len(deferred)]
  <2>1. f \in FrameType /\ f.op = "deferred" /\ f.at = "loop" /\ f.idx = Len(deferred)
    <3>1. e \in FrameType /\ e.op = "deferred" /\ e.at = "loop"
      BY FrameLemma DEF Op, At
    <3> HIDE DEF e
    <3> QED BY <1>1, <3>1 DEF FrameType
  <2> HIDE DEF f
  <2>2. Call(f) /\ UNCHANGED deferred
    BY <1>3 DEF RegisterDeferredComponents, f
  <2>3. ~Running
    BY <2>1, <2>2 DEF Call, MayCall, NotNested
  <2>4. InOrder(f, deferred)
    BY <1>1, <2>1 DEF InOrder, Deferring
  <2> QED BY <2>1, <2>2, <2>3, <2>4, CallInOrder
<1>4. ASSUME NEW l \in Loc, AutoRegisterComponent(l) PROVE DeferredInv'
  <2> DEFINE e == Frame("autoreg", "start")
             f == [e EXCEPT !.loc = l]
  <2>1. f \in FrameType /\ f.op = "autoreg"
    <3>1. e \in FrameType /\ e.op = "autoreg" /\ e.at = "start"
      BY FrameLemma DEF Op, At
    <3> HIDE DEF e
    <3> QED BY <1>1, <3>1 DEF FrameType
  <2> HIDE DEF f
  <2> QED BY <1>4, <2>1, CallInOrder DEF AutoRegisterComponent, f, InOrder
<1>5. ASSUME NEW l \in Loc, AutoUnregisterComponent(l) PROVE DeferredInv'
  <2> DEFINE e == Frame("unreg", "load")
             f == [e EXCEPT !.loc = l]
  <2>1. f \in FrameType /\ f.op = "unreg"
    <3>1. e \in FrameType /\ e.op = "unreg" /\ e.at = "load"
      BY FrameLemma DEF Op, At
    <3> HIDE DEF e
    <3> QED BY <1>1, <3>1 DEF FrameType
  <2> HIDE DEF f
  <2> QED BY <1>5, <2>1, CallInOrder DEF AutoUnregisterComponent, f, InOrder
<1>6. ASSUME NEW c \in Loc, GetFactory(c) PROVE DeferredInv'
  <2> DEFINE l == registry[c]
             e == Frame("factory", "load")
             f == [e EXCEPT !.loc = l, !.cls = c]
  <2>1. l \in Loc /\ Call(f) /\ UNCHANGED deferred
    BY <1>6 DEF GetFactory, DeferredInv, LoaderInv, TypeOK
  <2>2. e \in FrameType /\ e.op = "factory"
    BY FrameLemma DEF Op, At
  <2> HIDE DEF e, l
  <2>3. f \in FrameType /\ f.op = "factory"
    BY <2>1, <2>2 DEF FrameType
  <2> HIDE DEF f
  <2> QED BY <2>1, <2>3, CallInOrder DEF InOrder
<1> QED BY <1>2, <1>3, <1>4, <1>5, <1>6

\* The scan takes up the next file.
LEMMA ScanNextInOrder ==
  ASSUME DeferredInv, LoaderInv', ScanNext
  PROVE  DeferredInv'
<1>1. /\ Top \in FrameType /\ Top.op = "scan" /\ UNCHANGED deferred
      /\ stack \in Seq(FrameType) /\ Len(stack) \in Nat /\ Len(stack) # 0
  BY TopOK DEF ScanNext, DeferredInv, LoaderInv, TypeOK
<1>2. PICK l \in Top.todo :
        stack' = Append([stack EXCEPT ![Len(stack)].todo = @ \ {l}],
                        [Frame("autoreg", "start") EXCEPT !.loc = l])
  BY DEF ScanNext
<1> DEFINE e == Frame("autoreg", "start")
           f == [e EXCEPT !.loc = l]
           g == [Top EXCEPT !.todo = @ \ {l}]
           s == [stack EXCEPT ![Len(stack)] = g]
<1>3. f \in FrameType /\ f.op = "autoreg"
  <2>1. e \in FrameType /\ e.op = "autoreg"
    BY FrameLemma DEF Op, At
  <2>2. l \in Loc
    BY <1>1 DEF FrameType
  <2> HIDE DEF e
  <2> QED BY <2>1, <2>2 DEF FrameType
<1>4. g \in FrameType /\ g.op = "scan"
  BY <1>1 DEF FrameType
<1>5. stack' = Append(s, f)
  BY <1>2 DEF Top
<1> HIDE DEF f, g
<1>6. /\ s \in Seq(FrameType) /\ Len(s) = Len(stack)
      /\ \A k \in 1 .. Len(stack) : s[k] = IF k = Len(stack) THEN g ELSE stack[k]
  BY <1>1, <1>4, ExceptSeq
<1> HIDE DEF s
<1>7. /\ Len(stack') = Len(stack) + 1
      /\ \A k \in 1 .. Len(stack) : stack'[k] = IF k = Len(stack) THEN g ELSE stack[k]
      /\ stack'[Len(stack) + 1] = f
  BY <1>3, <1>5, <1>6, AppendProperties
<1>8. Len(deferred) \in Nat
  BY LenProperties DEF DeferredInv, LoaderInv, TypeOK
<1>9. \A k \in 1 .. Len(stack') :
        \/ k \in 1 .. Len(stack) /\ stack'[k] = stack[k]
        \/ (stack'[k].op = "deferred" => k = 1) /\ InOrder(stack'[k], deferred')
  BY <1>1, <1>3, <1>4, <1>7 DEF InOrder
<1> QED BY <1>1, <1>8, <1>9, KeepInOrder

\* Nothing is left to be in order.
LEMMA ProcessEndsInOrder ==
  ASSUME DeferredInv, LoaderInv', ProcessEnds
  PROVE  DeferredInv'
<1>1. Len(stack') = 0
  BY EmptySeq DEF ProcessEnds
<1> QED BY <1>1 DEF DeferredInv, OneDeferred, DeferredInProgress

\* The loader's own steps keep the deferred loop in order.
LEMMA StepInOrder ==
  ASSUME DeferredInv, LoaderInv', Step
  PROVE  DeferredInv'
<1>1. ASSUME Running
      PROVE  Top \in FrameType /\ FrameOK(Top) /\ InOrder(Top, deferred)
  BY <1>1, TopInOrder
<1>2. ASSUME NEW rv \in Rv, Running, ReturnFrom(rv), UNCHANGED deferred
      PROVE  DeferredInv'
  BY <1>2, ReturnInOrder
<1>3. {"OK", "FAILURE", "NO_CLASS", "ILLEGAL_VALUE", "AGAIN"} \subseteq Rv
  BY DEF Rv
<1>4. ASSUME NEW f \in FrameType, Running, Become(f), UNCHANGED deferred,
             Top.at # "loop",
             f.op = Top.op, f.loc = Top.loc, f.idx = Top.idx
      PROVE  DeferredInv'
  <2>1. InOrder(f, deferred)
    BY <1>1, <1>4 DEF InOrder, Deferring
  <2> QED BY <1>4, <2>1, BecomeInOrder
<1>5. CASE ScanNext
  BY <1>5, ScanNextInOrder
<1>15. CASE ScanSkip
  <2>1. PICK l \in Top.todo : Become([Top EXCEPT !.todo = @ \ {l}])
    BY <1>15 DEF ScanSkip
  <2>2. Running /\ Top \in FrameType /\ Top.op = "scan" /\ UNCHANGED deferred
    BY <1>1, <1>15 DEF ScanSkip
  <2> DEFINE f == [Top EXCEPT !.todo = @ \ {l}]
  <2>3. f \in FrameType /\ f.op = "scan"
    BY <2>2 DEF FrameType
  <2> HIDE DEF f
  <2>4. InOrder(f, deferred)
    BY <2>3 DEF InOrder
  <2> QED BY <2>1, <2>2, <2>3, <2>4, BecomeInOrder DEF f
<1>6. CASE ScanDone \/ DeferredDone
  BY <1>2, <1>3, <1>6 DEF ScanDone, DeferredDone
<1>7. CASE StartRegistration
  <2>1. Running /\ Top \in FrameType /\ Top.at = "start" /\ UNCHANGED deferred
    BY <1>1, <1>7 DEF StartRegistration
  <2>2. CASE ReturnFrom("OK")
    BY <1>2, <1>3, <2>1, <2>2
  <2>3. CASE ReturnFrom("FAILURE")
    BY <1>2, <1>3, <2>1, <2>3
  <2>4. CASE Become([Top EXCEPT !.at = "load"])
    <3> DEFINE f == [Top EXCEPT !.at = "load"]
    <3>1. f \in FrameType /\ f.op = Top.op /\ f.loc = Top.loc /\ f.idx = Top.idx
      BY <2>1 DEF FrameType, At
    <3> HIDE DEF f
    <3> QED BY <1>4, <2>1, <2>4, <3>1 DEF f
  <2> QED BY <1>7, <2>2, <2>3, <2>4 DEF StartRegistration
<1>8. CASE DeferredNext
  <2> DEFINE l == deferred[Top.idx]
             f == [Top EXCEPT !.at = "load", !.loc = l]
  <2>1. /\ Running /\ Top \in FrameType /\ Top.op = "deferred" /\ Become(f)
        /\ Top.idx \in 1 .. Len(deferred) /\ UNCHANGED deferred
    BY <1>1, <1>8 DEF DeferredNext
  <2>2. l \in Loc /\ Len(deferred) \in Nat
    BY <2>1, ElementOfSeq, LenProperties DEF DeferredInv, LoaderInv, TypeOK
  <2> HIDE DEF l
  <2>3. f \in FrameType /\ f.op = "deferred" /\ f.idx = Top.idx /\ f.loc = l
    BY <2>1, <2>2 DEF FrameType, At
  <2> HIDE DEF f
  <2>4. InOrder(f, deferred)
    BY <2>1, <2>2, <2>3 DEF InOrder, l
  <2> QED BY <2>1, <2>3, <2>4, BecomeInOrder
<1>9. CASE GetModule
  <2> DEFINE cached == CachedModule(Top.loc)
             v == disk[Top.loc]
  <2>1. /\ Running /\ Top \in FrameType /\ Top.at = "load" /\ Top.loc \in Loc
    BY <1>1, <1>9 DEF GetModule, FrameOK
  <2>2. cached \in Loc \cup {None} /\ v \in Stamp
    BY <2>1, LoaderAssumption DEF DeferredInv, LoaderInv, TypeOK, CachedModule
  <2>3. CASE cached # None /\ Become([Top EXCEPT !.at = "call", !.mod = cached])
             /\ UNCHANGED deferred
    <3> DEFINE f == [Top EXCEPT !.at = "call", !.mod = cached]
    <3> HIDE DEF cached
    <3>1. f \in FrameType /\ f.op = Top.op /\ f.loc = Top.loc /\ f.idx = Top.idx
      BY <2>1, <2>2 DEF FrameType, At
    <3> HIDE DEF f
    <3> QED BY <1>4, <2>1, <2>3, <3>1 DEF f
  <2>4. CASE GetModuleFails("FAILURE")
    BY <1>3, <2>1, <2>4, GetModuleFailsInOrder
  <2>5. CASE Become([Top EXCEPT !.at = "eval", !.ver = v]) /\ UNCHANGED deferred
    <3> DEFINE f == [Top EXCEPT !.at = "eval", !.ver = v]
    <3> HIDE DEF v
    <3>1. f \in FrameType /\ f.op = Top.op /\ f.loc = Top.loc /\ f.idx = Top.idx
      BY <2>1, <2>2 DEF FrameType, At
    <3> HIDE DEF f
    <3> QED BY <1>4, <2>1, <2>5, <3>1 DEF f
  <2> QED BY <1>9, <2>3, <2>4, <2>5 DEF GetModule
<1>10. CASE EvalReturns
  <2>1. Running /\ Top \in FrameType /\ Top.at = "eval"
    BY <1>1, <1>10 DEF EvalReturns
  <2>2. CASE GetModuleFails("ILLEGAL_VALUE")
    BY <1>3, <2>1, <2>2, GetModuleFailsInOrder
  <2>3. CASE Become([Top EXCEPT !.at = "getmodule"]) /\ UNCHANGED deferred
    <3> DEFINE f == [Top EXCEPT !.at = "getmodule"]
    <3>1. f \in FrameType /\ f.op = Top.op /\ f.loc = Top.loc /\ f.idx = Top.idx
      BY <2>1 DEF FrameType, At
    <3> HIDE DEF f
    <3> QED BY <1>4, <2>1, <2>3, <3>1 DEF f
  <2> QED BY <1>10, <2>2, <2>3 DEF EvalReturns
<1>11. CASE GetModuleReturns
  <2>1. Running /\ Top \in FrameType /\ Top.at = "getmodule" /\ Top.loc \in Loc
    BY <1>1, <1>11 DEF GetModuleReturns, FrameOK
  <2>2. CASE GetModuleFails("FAILURE")
    BY <1>3, <2>1, <2>2, GetModuleFailsInOrder
  <2>3. CASE Become([Top EXCEPT !.at = "call", !.mod = Top.loc]) /\ UNCHANGED deferred
    <3> DEFINE f == [Top EXCEPT !.at = "call", !.mod = Top.loc]
    <3>1. f \in FrameType /\ f.op = Top.op /\ f.loc = Top.loc /\ f.idx = Top.idx
      BY <2>1 DEF FrameType, At
    <3> HIDE DEF f
    <3> QED BY <1>4, <2>1, <2>3, <3>1 DEF f
  <2> QED BY <1>11, <2>2, <2>3 DEF GetModuleReturns
<1>12. CASE RegisterSelfReturns
  BY <1>3, <1>12, SelfRegisterReturnsInOrder DEF RegisterSelfReturns, Rv
<1>13. CASE UnregisterSelfReturns \/ GetClassObjectReturns
  <2>1. Running /\ UNCHANGED deferred
    BY <1>13 DEF UnregisterSelfReturns, GetClassObjectReturns
  <2>2. PICK rv \in {"OK", "FAILURE", "NO_CLASS"} : ReturnFrom(rv)
    BY <1>13 DEF UnregisterSelfReturns, GetClassObjectReturns
  <2> QED BY <1>2, <1>3, <2>1, <2>2
<1>14. CASE Crash
  BY <1>14, ProcessEndsInOrder DEF Crash
<1> QED BY <1>5, <1>6, <1>7, <1>8, <1>9, <1>10, <1>11, <1>12, <1>13, <1>14, <1>15 DEF Step

\* DeferredInv is inductive.
LEMMA NextInOrder ==
  ASSUME NotNested, DeferredInv, [Next]_vars
  PROVE  DeferredInv'
<1>1. LoaderInv'
  BY NextOK DEF DeferredInv
<1>2. CASE Step
  BY <1>1, <1>2, StepInOrder
<1>3. CASE \/ AutoRegisterComponents \/ RegisterDeferredComponents
           \/ \E l \in Loc : \/ AutoRegisterComponent(l)
                            \/ AutoUnregisterComponent(l)
                            \/ GetFactory(l)
  BY <1>1, <1>3, CallsInOrder
<1>4. CASE UNCHANGED <<deferred, stack>>
  BY <1>1, <1>4 DEF DeferredInv, OneDeferred, DeferredInProgress
<1>5. CASE Restart
  BY <1>1, <1>5, ProcessEndsInOrder DEF Restart
<1>6. (\E l \in Loc : WriteFile(l)) \/ OtherPerlCode \/ UNCHANGED vars
        => UNCHANGED <<deferred, stack>>
  BY DEF WriteFile, OtherPerlCode, vars
<1> QED BY <1>2, <1>3, <1>4, <1>5, <1>6 DEF Next

\* While registerSelf of element i runs under RegisterDeferredComponents, the
\* element stays at i and the loop never looks past the end, for any number
\* of files, deferrals and nested calls, where Perl code does not call
\* RegisterDeferredComponents itself.
THEOREM DeferredStaysInPlace ==
  ASSUME NotNested
  PROVE  Spec => []DeferredInProgress
<1>1. Init => DeferredInv
  <2>1. Init => OneDeferred /\ DeferredInProgress
    BY EmptySeq DEF Init, OneDeferred, DeferredInProgress
  <2> QED BY <2>1, InitOK DEF DeferredInv
<1>2. DeferredInv /\ [Next]_vars => DeferredInv'
  BY NextInOrder
<1>3. DeferredInv => DeferredInProgress
  BY DEF DeferredInv
<1> QED BY <1>1, <1>2, <1>3, PTL DEF Spec

-----------------------------------------------------------------------------
(* What a step may take out of m_DeferredComponents.                       *)

Kept(l) == \E i \in 1 .. Len(deferred') : deferred'[i] = l

MayGo(l) ==
  \/ Kept(l)
  \/ Running /\ Deferring(Top) /\ Top.loc = l
  \/ ProcessEnds

\* RemoveElementAt(i) takes out the element that was registering.
LEMMA SelfRegisterReturnsKeeps ==
  ASSUME DeferredInv, Running, Top.at \notin {"start", "loop"},
         NEW rv \in Rv, SelfRegisterReturns(rv),
         NEW j \in 1 .. Len(deferred)
  PROVE  MayGo(deferred[j])
<1>1. deferred \in Seq(Loc) /\ Len(deferred) \in Nat
  BY LenProperties DEF DeferredInv, LoaderInv, TypeOK
<1>2. /\ Top \in FrameType /\ FrameOK(Top) /\ InOrder(Top, deferred)
      /\ Top.loc \in Loc
  BY TopInOrder DEF FrameOK
<1>3. CASE deferred' = deferred
  BY <1>3 DEF MayGo, Kept
<1>4. CASE deferred' = Append(deferred, Top.loc)
  <2>1. Len(deferred') = Len(deferred) + 1 /\ deferred'[j] = deferred[j]
    BY <1>1, <1>2, <1>4, AppendProperties
  <2>2. j \in 1 .. Len(deferred')
    BY <1>1, <2>1
  <2> QED BY <2>1, <2>2 DEF MayGo, Kept
<1>5. CASE Top.op = "deferred" /\ deferred' = RemoveElementAt(Top.idx)
  <2>1. /\ Deferring(Top) /\ Top.idx \in 1 .. Len(deferred)
        /\ deferred[Top.idx] = Top.loc
    BY <1>2, <1>5 DEF InOrder, Deferring, FrameType
  <2>2. /\ Len(deferred') = Len(deferred) - 1
        /\ \A i \in 1 .. (Len(deferred) - 1) :
             deferred'[i] = IF i < Top.idx THEN deferred[i] ELSE deferred[i + 1]
    BY <1>1, <1>5, <2>1, RemoveAtLemma DEF RemoveElementAt
  <2>3. CASE j = Top.idx
    BY <2>1, <2>3 DEF MayGo
  <2>4. CASE j < Top.idx
    <3>1. j \in 1 .. Len(deferred') /\ deferred'[j] = deferred[j]
      BY <1>1, <2>1, <2>2, <2>4
    <3> QED BY <3>1 DEF MayGo, Kept
  <2>5. CASE j > Top.idx
    <3>1. j - 1 \in 1 .. Len(deferred') /\ deferred'[j - 1] = deferred[j]
      BY <1>1, <2>1, <2>2, <2>5
    <3> QED BY <3>1 DEF MayGo, Kept
  <2> QED BY <1>1, <2>1, <2>3, <2>4, <2>5
<1> QED BY <1>3, <1>4, <1>5 DEF SelfRegisterReturns, AppendElement

\* The same after a failed GetModule.
LEMMA GetModuleFailsKeeps ==
  ASSUME DeferredInv, Running, Top.at \notin {"start", "loop"},
         NEW rv \in Rv, GetModuleFails(rv),
         NEW j \in 1 .. Len(deferred)
  PROVE  MayGo(deferred[j])
<1>1. CASE SelfRegisterReturns(rv)
  BY <1>1, SelfRegisterReturnsKeeps
<1>2. CASE UNCHANGED deferred
  BY <1>2 DEF MayGo, Kept
<1> QED BY <1>1, <1>2 DEF GetModuleFails

\* No step takes out any other element.
LEMMA NextKeeps ==
  ASSUME DeferredInv, [Next]_vars, NEW j \in 1 .. Len(deferred)
  PROVE  MayGo(deferred[j])
<1>1. CASE UNCHANGED deferred
  BY <1>1 DEF MayGo, Kept
<1>2. CASE ProcessEnds
  BY <1>2 DEF MayGo
<1>3. {"OK", "FAILURE", "ILLEGAL_VALUE", "AGAIN"} \subseteq Rv
  BY DEF Rv
<1>4. CASE GetModule
  BY <1>1, <1>3, <1>4, GetModuleFailsKeeps DEF GetModule
<1>5. CASE EvalReturns
  BY <1>1, <1>3, <1>5, GetModuleFailsKeeps DEF EvalReturns
<1>6. CASE GetModuleReturns
  BY <1>1, <1>3, <1>6, GetModuleFailsKeeps DEF GetModuleReturns
<1>7. CASE RegisterSelfReturns
  BY <1>3, <1>7, SelfRegisterReturnsKeeps DEF RegisterSelfReturns
<1>8. CASE \/ ScanNext \/ ScanSkip \/ ScanDone \/ StartRegistration
           \/ DeferredNext \/ DeferredDone
           \/ UnregisterSelfReturns \/ GetClassObjectReturns
  BY <1>1, <1>8 DEF ScanNext, ScanSkip, ScanDone, StartRegistration,
       DeferredNext, DeferredDone, UnregisterSelfReturns, GetClassObjectReturns
<1>9. CASE \/ AutoRegisterComponents \/ RegisterDeferredComponents
           \/ \E l \in Loc : \/ AutoRegisterComponent(l)
                            \/ AutoUnregisterComponent(l)
                            \/ GetFactory(l) \/ WriteFile(l)
           \/ OtherPerlCode \/ UNCHANGED vars
  BY <1>1, <1>9 DEF AutoRegisterComponents, RegisterDeferredComponents,
       AutoRegisterComponent, AutoUnregisterComponent, GetFactory, WriteFile,
       OtherPerlCode, vars
<1> QED BY <1>2, <1>4, <1>5, <1>6, <1>7, <1>8, <1>9 DEF Next, Step, Crash, Restart

\* A component leaves m_DeferredComponents only when its own deferred
\* registration has ended, or with the process: RemoveElementAt(i) never
\* takes out another one.
THEOREM PendingComponentsAreKept ==
  ASSUME NotNested
  PROVE  Spec => NoPendingLost
<1> DEFINE A == \A l \in Loc : (\E i \in 1 .. Len(deferred) : deferred[i] = l)
                  => \/ \E i \in 1 .. Len(deferred') : deferred'[i] = l
                     \/ Running /\ Deferring(Top) /\ Top.loc = l
                     \/ ProcessEnds
<1>1. Init => DeferredInv
  <2>1. Init => OneDeferred /\ DeferredInProgress
    BY EmptySeq DEF Init, OneDeferred, DeferredInProgress
  <2> QED BY <2>1, InitOK DEF DeferredInv
<1>2. DeferredInv /\ [Next]_vars => DeferredInv'
  BY NextInOrder
<1>3. DeferredInv /\ [Next]_vars => A
  BY NextKeeps DEF MayGo, Kept
<1> HIDE DEF A
<1>4. DeferredInv /\ [Next]_vars => [A]_deferred
  BY <1>3
<1>5. Spec => [][A]_deferred
  BY <1>1, <1>2, <1>4, PTL DEF Spec
<1> QED BY <1>5 DEF NoPendingLost, A

-----------------------------------------------------------------------------
(* The loader implements LoaderPromise.                                    *)

\* The places of l in a list of components, and how often each is there.
Places(s, l) == {i \in 1 .. Len(s) : s[i] = l}

Owed(s) == [l \in Loc |-> Cardinality(Places(s, l))]

\* Places can be counted.
LEMMA PlacesFinite ==
  ASSUME NEW s \in Seq(Loc), NEW l
  PROVE  IsFiniteSet(Places(s, l)) /\ Cardinality(Places(s, l)) \in Nat
<1>1. IsFiniteSet(1 .. Len(s))
  BY LenProperties, FS_Interval
<1>2. Places(s, l) \in SUBSET (1 .. Len(s))
  BY DEF Places
<1>3. IsFiniteSet(Places(s, l))
  BY <1>1, <1>2, FS_Subset
<1> QED BY <1>3, FS_CardinalityType

\* Nothing is owed.
LEMMA NothingOwed == Owed(<<>>) = [l \in Loc |-> 0]
<1>1. ASSUME NEW l PROVE Places(<<>>, l) = {}
  BY DEF Places
<1> QED BY <1>1, FS_EmptySet DEF Owed

\* AppendElement owes one registration more.
LEMMA AppendOwes ==
  ASSUME NEW s \in Seq(Loc), NEW x \in Loc
  PROVE  Owed(Append(s, x)) = [Owed(s) EXCEPT ![x] = @ + 1]
<1> DEFINE t == Append(s, x)
           n == Len(s) + 1
<1>1. /\ Len(s) \in Nat /\ Len(t) = n /\ t[n] = x
      /\ \A k \in 1 .. Len(s) : t[k] = s[k]
  BY AppendProperties, LenProperties
<1> HIDE DEF t
<1>2. ASSUME NEW l \in Loc
      PROVE  Cardinality(Places(t, l)) =
               IF l = x THEN Cardinality(Places(s, l)) + 1 ELSE Cardinality(Places(s, l))
  <2>1. n \notin Places(s, l) /\ IsFiniteSet(Places(s, l))
    <3>1. n \notin 1 .. Len(s)
      BY <1>1
    <3>2. IsFiniteSet(Places(s, l))
      BY PlacesFinite
    <3> QED BY <3>1, <3>2 DEF Places
  <2>2. CASE l = x
    <3>1. Places(t, l) = Places(s, l) \cup {n}
      BY <1>1, <2>2 DEF Places
    <3> QED BY <2>1, <2>2, <3>1, FS_AddElement
  <2>3. CASE l # x
    <3>1. Places(t, l) = Places(s, l)
      BY <1>1, <2>3 DEF Places
    <3> QED BY <2>3, <3>1
  <2> QED BY <2>2, <2>3
<1> QED BY <1>2 DEF Owed, t

\* RemoveElementAt pays back one registration, that of the element.
LEMMA RemoveOwes ==
  ASSUME NEW s \in Seq(Loc), NEW i \in 1 .. Len(s)
  PROVE  /\ s[i] \in Loc /\ Owed(s)[s[i]] > 0
         /\ Owed(RemoveAt(s, i)) = [Owed(s) EXCEPT ![s[i]] = @ - 1]
<1> DEFINE t == RemoveAt(s, i)
           x == s[i]
<1>1. /\ Len(s) \in Nat /\ Len(t) = Len(s) - 1 /\ x \in Loc /\ i \in Nat
      /\ \A k \in 1 .. (Len(s) - 1) : t[k] = IF k < i THEN s[k] ELSE s[k + 1]
  <2>1. Len(s) \in Nat
    BY LenProperties
  <2>2. x \in Loc
    BY ElementOfSeq
  <2>3. /\ Len(t) = Len(s) - 1
        /\ \A k \in 1 .. (Len(s) - 1) : t[k] = IF k < i THEN s[k] ELSE s[k + 1]
    BY RemoveAtLemma
  <2> QED BY <2>1, <2>2, <2>3
<1>0. t \in Seq(Loc)
  BY RemoveAtLemma
<1> HIDE DEF t, x
<1>2. ASSUME NEW l \in Loc
      PROVE  Cardinality(Places(t, l)) = Cardinality(Places(s, l) \ {i})
  <2> DEFINE S == Places(t, l)
             T == Places(s, l) \ {i}
             f == [k \in S |-> IF k < i THEN k ELSE k + 1]
  <2>1. ASSUME NEW k \in S PROVE f[k] \in T
    BY <1>1 DEF Places
  <2>2. ASSUME NEW k \in S, NEW m \in S, f[k] = f[m] PROVE k = m
    BY <2>2, <1>1 DEF Places
  <2>3. ASSUME NEW m \in T PROVE \E k \in S : f[k] = m
    <3>1. CASE m < i
      <4>1. m \in S /\ f[m] = m
        BY <1>1, <3>1 DEF Places
      <4> QED BY <4>1
    <3>2. CASE m > i
      <4>1. m - 1 \in S
        BY <1>1, <3>2 DEF Places
      <4>2. f[m - 1] = m
        BY <1>1, <3>2, <4>1 DEF Places
      <4> QED BY <4>1, <4>2
    <3>3. m \in Int /\ i \in Int /\ m # i BY DEF Places
    <3> QED BY <3>1, <3>2, <3>3
  <2>4. f \in Bijection(S, T)
    <3>1. f \in [S -> T]
      BY <2>1
    <3> HIDE DEF f, S, T
    <3>2. f \in Injection(S, T)
      BY <2>2, <3>1 DEF Injection, IsInjective
    <3>3. f \in Surjection(S, T)
      BY <2>3, <3>1 DEF Surjection
    <3> QED BY <3>2, <3>3 DEF Bijection
  <2>5. ExistsBijection(S, T)
    BY <2>4 DEF ExistsBijection
  <2>6. IsFiniteSet(S)
    BY <1>0, PlacesFinite
  <2> HIDE DEF S, T
  <2>7. Cardinality(T) = Cardinality(S)
    BY <2>5, <2>6, FS_Bijection
  <2> QED BY <2>7 DEF S, T
<1>3. ASSUME NEW l \in Loc
      PROVE  Cardinality(Places(t, l)) =
               IF l = x THEN Cardinality(Places(s, l)) - 1 ELSE Cardinality(Places(s, l))
  <2>1. i \in Places(s, l) <=> l = x
    BY DEF Places, x
  <2>2. IsFiniteSet(Places(s, l))
    BY PlacesFinite
  <2> QED BY <1>2, <2>1, <2>2, FS_RemoveElement
<1>4. Cardinality(Places(s, x)) > 0
  <2>1. IsFiniteSet(Places(s, x)) /\ Cardinality(Places(s, x)) \in Nat
    BY PlacesFinite
  <2>2. i \in Places(s, x)
    BY DEF Places, x
  <2>3. Cardinality(Places(s, x)) # 0
    BY <2>1, <2>2, FS_EmptySet
  <2> QED BY <2>1, <2>3
<1> QED BY <1>1, <1>3, <1>4 DEF Owed, t, x

\* What the end of SelfRegisterModule makes of the list.
Settled(rv) ==
  \/ UNCHANGED deferred
  \/ rv = "AGAIN" /\ Owed(deferred') = [Owed(deferred) EXCEPT ![Top.loc] = @ + 1]
  \/ /\ rv # "AGAIN" /\ Owed(deferred)[Top.loc] > 0
     /\ Owed(deferred') = [Owed(deferred) EXCEPT ![Top.loc] = @ - 1]

\* The element paid back is the component at hand.
LEMMA SelfRegisterReturnsSettles ==
  ASSUME DeferredInv, Running, Top.at \notin {"start", "loop"},
         NEW rv \in Rv, SelfRegisterReturns(rv)
  PROVE  Top.loc \in Loc /\ Settled(rv)
<1>1. /\ Top \in FrameType /\ InOrder(Top, deferred) /\ Top.loc \in Loc
      /\ deferred \in Seq(Loc)
  BY TopInOrder DEF FrameOK, DeferredInv, LoaderInv, TypeOK
<1>2. CASE Top.op = "autoreg" /\ rv = "AGAIN" /\ deferred' = Append(deferred, Top.loc)
  BY <1>1, <1>2, AppendOwes DEF Settled
<1>3. CASE Top.op = "deferred" /\ rv # "AGAIN" /\ deferred' = RemoveElementAt(Top.idx)
  <2>1. Top.idx \in 1 .. Len(deferred) /\ deferred[Top.idx] = Top.loc
    BY <1>1, <1>3, LenProperties DEF InOrder, Deferring, FrameType
  <2>2. deferred' = RemoveAt(deferred, Top.idx)
    BY <1>3, <2>1 DEF RemoveElementAt
  <2> QED BY <1>1, <1>3, <2>1, <2>2, RemoveOwes DEF Settled
<1>4. CASE UNCHANGED deferred
  BY <1>1, <1>4 DEF Settled
<1> QED BY <1>2, <1>3, <1>4 DEF SelfRegisterReturns, AppendElement

\* The two variables of LoaderPromise.
Recorded == {c \in Loc : registry[c] # None}

\* What a step does to them is a step of LoaderPromise.
PromiseStep == [Promise!PromiseNext]_(Promise!promise)

\* A step that touches neither the registry nor the list.
LEMMA PromiseStutters ==
  ASSUME UNCHANGED <<registry, deferred>> PROVE PromiseStep
BY DEF PromiseStep, Promise!promise

\* A step of the promise.
LEMMA PromiseTaken ==
  ASSUME NEW l \in Loc,
         \/ Promise!Registers(l) \/ Promise!GivesUp(l)
         \/ Promise!Defers(l) \/ Promise!Unregisters(l)
  PROVE  PromiseStep
<1>1. Promise!PromiseNext
  BY Zenon DEF Promise!PromiseNext
<1> QED BY <1>1 DEF PromiseStep

\* The end of the process cancels what is owed.
LEMMA ProcessExitsPromise ==
  ASSUME ProcessEnds PROVE PromiseStep
<1>1. deferred' = <<>> /\ registry' = registry
  BY DEF ProcessEnds
<1>2. Owed(deferred') = [l \in Loc |-> 0]
  BY <1>1, NothingOwed
<1>3. Promise!ProcessExits
  BY <1>1, <1>2 DEF Promise!ProcessExits, Owed, Places
<1> QED BY <1>3 DEF PromiseStep, Promise!PromiseNext

\* A component is deferred or gives up.
LEMMA SettlesPromise ==
  ASSUME NEW rv, Settled(rv), Top.loc \in Loc, UNCHANGED registry
  PROVE  PromiseStep
<1>0. PICK l \in Loc : l = Top.loc
  OBVIOUS
<1>1. CASE UNCHANGED deferred
  BY <1>1, PromiseStutters
<1>2. CASE Owed(deferred') = [Owed(deferred) EXCEPT ![l] = @ + 1]
  <2>1. Promise!Defers(l)
    BY <1>0, <1>2 DEF Promise!Defers, Owed, Places
  <2> QED BY <2>1, PromiseTaken
<1>3. CASE /\ Owed(deferred)[l] > 0
           /\ Owed(deferred') = [Owed(deferred) EXCEPT ![l] = @ - 1]
  <2>1. Promise!Pays(l)
    BY <1>0, <1>3 DEF Promise!Pays, Owed, Places
  <2>2. Promise!GivesUp(l)
    BY <2>1 DEF Promise!GivesUp
  <2> QED BY <2>2, PromiseTaken
<1> QED BY <1>0, <1>1, <1>2, <1>3 DEF Settled

\* A component registers its class.
LEMMA RegistersPromise ==
  ASSUME Settled("OK"), Top.loc \in Loc, registry \in [Loc -> Loc \cup {None}],
         registry' = [registry EXCEPT ![Top.loc] = Top.loc]
  PROVE  PromiseStep
<1>0. PICK l \in Loc : l = Top.loc
  OBVIOUS
<1>1. Recorded' = Recorded \cup {l}
  BY <1>0, LoaderAssumption DEF Recorded
<1>2. CASE UNCHANGED deferred
  <2>1. Promise!Registers(l)
    BY <1>0, <1>1, <1>2 DEF Promise!Registers, Recorded
  <2> QED BY <2>1, PromiseTaken
<1>3. CASE /\ Owed(deferred)[l] > 0
           /\ Owed(deferred') = [Owed(deferred) EXCEPT ![l] = @ - 1]
  <2>1. Promise!Pays(l)
    BY <1>0, <1>3 DEF Promise!Pays, Owed, Places
  <2>2. Promise!Registers(l)
    BY <1>1, <2>1 DEF Promise!Registers, Recorded
  <2> QED BY <2>2, PromiseTaken
<1> QED BY <1>0, <1>2, <1>3 DEF Settled

\* A failed GetModule.
LEMMA GetModuleFailsPromise ==
  ASSUME DeferredInv, Running, Top.at \notin {"start", "loop"},
         NEW rv \in Rv, GetModuleFails(rv), UNCHANGED registry
  PROVE  PromiseStep
<1>1. CASE SelfRegisterReturns(rv)
  BY <1>1, SelfRegisterReturnsSettles, SettlesPromise
<1>2. CASE UNCHANGED deferred
  BY <1>2, PromiseStutters
<1> QED BY <1>1, <1>2 DEF GetModuleFails

\* registerSelf has returned.
LEMMA RegisterSelfReturnsPromise ==
  ASSUME DeferredInv, OwnInv, RegisterSelfReturns
  PROVE  PromiseStep
<1>1. /\ Running /\ Top.at = "call" /\ Top.mod = Top.loc
      /\ registry \in [Loc -> Loc \cup {None}]
  <2>1. Running /\ Top.at = "call"
    BY DEF RegisterSelfReturns
  <2>2. Top.mod = Top.loc
    BY <2>1, TopOK DEF OwnInv, OwnFrames, OwnFrame, Top
  <2> QED BY <2>1, <2>2 DEF OwnInv, LoaderInv, TypeOK
<1>2. PICK rv \in {"OK", "AGAIN", "FAILURE"} :
        /\ registry' = IF rv = "OK" /\ ~errsv'
                         THEN [registry EXCEPT ![Top.mod] = Top.loc] ELSE registry
        /\ SelfRegisterReturns(rv)
  BY DEF RegisterSelfReturns
<1>3. Top.loc \in Loc /\ Settled(rv)
  BY <1>1, <1>2, SelfRegisterReturnsSettles DEF Rv
<1>4. CASE rv = "OK" /\ ~errsv'
  BY <1>1, <1>2, <1>3, <1>4, RegistersPromise
<1>5. CASE ~(rv = "OK" /\ ~errsv')
  BY <1>2, <1>3, <1>5, SettlesPromise
<1> QED BY <1>4, <1>5

\* unregisterSelf has returned.
LEMMA UnregisterSelfReturnsPromise ==
  ASSUME OwnInv, UnregisterSelfReturns
  PROVE  PromiseStep
<1>1. Running /\ Top.at = "call" /\ UNCHANGED deferred
  BY DEF UnregisterSelfReturns
<1>2. PICK l \in Loc : Top.mod = l /\ Top.loc = l
  BY <1>1, TopOK DEF OwnInv, OwnFrames, OwnFrame, Top, FrameOK
<1>3. registry \in [Loc -> Loc \cup {None}] /\ registry[l] \in {None, l}
  BY <1>2 DEF OwnInv, LoaderInv, TypeOK, OwnRegistry
<1>4. CASE registry' = [registry EXCEPT ![l] = IF @ = l THEN None ELSE @]
  <2>1. Recorded' = Recorded \ {l}
    BY <1>2, <1>3, <1>4, LoaderAssumption DEF Recorded
  <2>2. Promise!Unregisters(l)
    BY <1>1, <2>1 DEF Promise!Unregisters, Recorded
  <2> QED BY <1>2, <2>2, PromiseTaken
<1>5. CASE UNCHANGED registry
  BY <1>1, <1>5, PromiseStutters
<1> QED BY <1>2, <1>4, <1>5 DEF UnregisterSelfReturns

\* Every step of the loader is one of LoaderPromise.
LEMMA NextPromise ==
  ASSUME DeferredInv, OwnInv, [Next]_vars
  PROVE  PromiseStep
<1>1. CASE UNCHANGED <<registry, deferred>>
  BY <1>1, PromiseStutters
<1>2. CASE ProcessEnds
  BY <1>2, ProcessExitsPromise
<1>3. {"FAILURE", "ILLEGAL_VALUE"} \subseteq Rv
  BY DEF Rv
<1>4. CASE GetModule
  BY <1>1, <1>3, <1>4, GetModuleFailsPromise DEF GetModule
<1>5. CASE EvalReturns
  BY <1>1, <1>3, <1>5, GetModuleFailsPromise DEF EvalReturns
<1>6. CASE GetModuleReturns
  BY <1>1, <1>3, <1>6, GetModuleFailsPromise DEF GetModuleReturns
<1>7. CASE RegisterSelfReturns
  BY <1>7, RegisterSelfReturnsPromise
<1>8. CASE UnregisterSelfReturns
  BY <1>8, UnregisterSelfReturnsPromise
<1>9. CASE \/ ScanNext \/ ScanSkip \/ ScanDone \/ StartRegistration
           \/ DeferredNext \/ DeferredDone \/ GetClassObjectReturns
  BY <1>1, <1>9 DEF ScanNext, ScanSkip, ScanDone, StartRegistration,
       DeferredNext, DeferredDone, GetClassObjectReturns
<1>10. CASE \/ AutoRegisterComponents \/ RegisterDeferredComponents
            \/ \E l \in Loc : \/ AutoRegisterComponent(l)
                             \/ AutoUnregisterComponent(l)
                             \/ GetFactory(l) \/ WriteFile(l)
            \/ OtherPerlCode \/ UNCHANGED vars
  BY <1>1, <1>10 DEF AutoRegisterComponents, RegisterDeferredComponents,
       AutoRegisterComponent, AutoUnregisterComponent, GetFactory, WriteFile,
       OtherPerlCode, vars
<1> QED BY <1>2, <1>4, <1>5, <1>6, <1>7, <1>8, <1>9, <1>10
        DEF Next, Step, Crash, Restart

\* The loader implements LoaderPromise, for any number of files, deferrals and
\* nested calls: each step pays or adds at most one owed registration, that of
\* the component at hand, and records or drops at most that component's class;
\* where names are distinct and RegisterDeferredComponents is not re-entered.
THEOREM LoaderPromiseIsKept ==
  ASSUME NotNested, NamesDistinct
  PROVE  Spec => KeepsPromise
<1>1. Init => DeferredInv /\ OwnInv
  <2>1. Init => OneDeferred /\ DeferredInProgress /\ OwnFrames
    BY EmptySeq DEF Init, OneDeferred, DeferredInProgress, OwnFrames
  <2>2. Init => OwnRegistry /\ OwnCache
    BY DEF Init, OwnRegistry, OwnCache
  <2> QED BY <2>1, <2>2, InitOK DEF DeferredInv, OwnInv
<1>2. DeferredInv /\ OwnInv /\ [Next]_vars => (DeferredInv /\ OwnInv)'
  BY NextInOrder, OwnNext
<1>3. Init => Promise!PromiseInit
  <2> SUFFICES ASSUME Init PROVE Promise!PromiseInit
    OBVIOUS
  <2>1. Owed(deferred) = [l \in Loc |-> 0]
    BY NothingOwed DEF Init
  <2>2. {c \in Loc : registry[c] # None} = {}
    BY DEF Init
  <2> QED BY <2>1, <2>2 DEF Promise!PromiseInit, Owed, Places
<1>4. DeferredInv /\ OwnInv /\ [Next]_vars => [Promise!PromiseNext]_(Promise!promise)
  BY NextPromise DEF PromiseStep
<1> QED BY <1>1, <1>2, <1>3, <1>4, PTL DEF Spec, KeepsPromise, Promise!PromiseSpec

-----------------------------------------------------------------------------
(* The loops of the loader advance.                                        *)

\* The call on top returns.
LEMMA ReturnAdvances ==
  ASSUME NEW rv, ReturnFrom(rv)
  PROVE  Advances
BY DEF ReturnFrom, Advances

\* The call on top goes on.
LEMMA BecomeAdvances ==
  ASSUME LoaderInv, Running, NEW f \in FrameType, Become(f), Nearer(f, Top)
  PROVE  Advances
<1>1. /\ Len(stack') = Len(stack) /\ stack'[Len(stack)] = f
      /\ \A k \in 1 .. (Len(stack) - 1) : stack'[k] = stack[k]
  BY BecomeLemma DEF LoaderInv
<1>2. Len(stack) \in Nat
  BY TopOK
<1>3. Len(stack') # Len(stack) + 1
  BY <1>1, <1>2
<1> QED BY <1>1, <1>3 DEF Advances

\* A step within a turn of a call that is no scan.
LEMMA PlaceAdvances ==
  ASSUME LoaderInv, Running, NEW f \in FrameType, Become(f),
         Top.op # "scan", f.op = Top.op, f.idx = Top.idx, Place[f.at] > Place[Top.at]
  PROVE  Advances
BY BecomeAdvances DEF Nearer

\* SelfRegisterModule returns: the downward loop gets one element further even if
\* the component asks to be tried again.
LEMMA SelfRegisterReturnsAdvances ==
  ASSUME LoaderInv, Running, Top.at \notin {"start", "loop"}, NEW rv,
         SelfRegisterReturns(rv)
  PROVE  Advances
<1>1. Top \in FrameType /\ FrameOK(Top)
  BY TopOK
<1>2. CASE Top.op = "autoreg"
  BY <1>2, ReturnAdvances DEF SelfRegisterReturns
<1>3. CASE Top.op = "deferred"
  <2> DEFINE f == [Frame("deferred", "loop") EXCEPT !.idx = Top.idx - 1]
  <2>1. Top.idx \in Nat /\ Top.idx # 0
    BY <1>1, <1>3 DEF FrameOK, Deferring, FrameType
  <2>2. f \in FrameType /\ f.op = "deferred" /\ f.idx < Top.idx
    BY <2>1 DEF Frame, FrameType, Op, At, Stamp
  <2>3. Become(f)
    BY <1>3 DEF SelfRegisterReturns, NextIndex
  <2> HIDE DEF f
  <2>4. Nearer(f, Top)
    BY <1>3, <2>2 DEF Nearer
  <2> QED BY <2>2, <2>3, <2>4, BecomeAdvances
<1> QED BY <1>2, <1>3 DEF SelfRegisterReturns

\* The same after a failed GetModule.
LEMMA GetModuleFailsAdvances ==
  ASSUME LoaderInv, Running, Top.at \notin {"start", "loop"}, NEW rv,
         GetModuleFails(rv)
  PROVE  Advances
BY SelfRegisterReturnsAdvances, ReturnAdvances DEF GetModuleFails

\* Each file that the enumerator yields is scanned once.
LEMMA ScanAdvances ==
  ASSUME LoaderInv, ScanNext \/ ScanSkip \/ ScanDone
  PROVE  Advances
<1>1. /\ Running /\ Top.op = "scan" /\ Top \in FrameType
      /\ Len(stack) \in Nat /\ Len(stack) # 0
  BY TopOK DEF ScanNext, ScanSkip, ScanDone
<1>2. stack \in Seq(FrameType)
  BY DEF LoaderInv, TypeOK
<1>3. ASSUME NEW l \in Top.todo
      PROVE  LET g == [Top EXCEPT !.todo = @ \ {l}]
             IN  g \in FrameType /\ Nearer(g, Top)
  BY <1>1 DEF FrameType, Nearer
<1>4. CASE ScanNext
  <2>1. PICK l \in Top.todo :
          stack' = Append([stack EXCEPT ![Len(stack)].todo = @ \ {l}],
                          [Frame("autoreg", "start") EXCEPT !.loc = l])
    BY <1>4 DEF ScanNext
  <2> DEFINE g == [Top EXCEPT !.todo = @ \ {l}]
             f == [Frame("autoreg", "start") EXCEPT !.loc = l]
             s == [stack EXCEPT ![Len(stack)] = g]
  <2>2. f \in FrameType /\ f.op = "autoreg"
    BY <1>1 DEF Frame, FrameType, Op, At, Stamp
  <2>3. g \in FrameType /\ Nearer(g, Top)
    BY <1>3
  <2>4. stack' = Append(s, f)
    BY <2>1 DEF Top
  <2> HIDE DEF f, g
  <2>5. /\ s \in Seq(FrameType) /\ Len(s) = Len(stack)
        /\ \A k \in 1 .. Len(stack) : s[k] = IF k = Len(stack) THEN g ELSE stack[k]
    BY <1>1, <1>2, <2>3, ExceptSeq
  <2> HIDE DEF s
  <2>6. /\ Len(stack') = Len(stack) + 1
        /\ \A k \in 1 .. Len(stack) : stack'[k] = IF k = Len(stack) THEN g ELSE stack[k]
        /\ stack'[Len(stack) + 1] = f
    BY <2>2, <2>4, <2>5, AppendProperties
  <2>7. /\ stack'[Len(stack)] = g
        /\ \A k \in 1 .. (Len(stack) - 1) : stack'[k] = stack[k]
    BY <1>1, <2>6
  <2> QED BY <1>1, <2>2, <2>3, <2>6, <2>7 DEF Advances
<1>5. CASE ScanSkip
  BY <1>1, <1>3, <1>5, BecomeAdvances DEF ScanSkip
<1>6. CASE ScanDone
  BY <1>6, ReturnAdvances DEF ScanDone
<1> QED BY <1>4, <1>5, <1>6

\* The steps of a registration, of a request for a class object and of
\* an unregistration.
LEMMA RegistrationAdvances ==
  ASSUME LoaderInv, \/ StartRegistration \/ DeferredNext \/ DeferredDone
                    \/ GetModule \/ EvalReturns \/ GetModuleReturns
                    \/ RegisterSelfReturns \/ UnregisterSelfReturns
                    \/ GetClassObjectReturns
  PROVE  Advances
<1>1. /\ Running /\ Top \in FrameType /\ FrameOK(Top)
  BY TopOK DEF StartRegistration, DeferredNext, DeferredDone, GetModule, EvalReturns,
       GetModuleReturns, RegisterSelfReturns, UnregisterSelfReturns, GetClassObjectReturns
<1>2. \A l \in Loc : disk[l] \in Stamp
  BY DEF LoaderInv, TypeOK
<1>3. CASE StartRegistration
  <2>1. Top.at = "start" /\ Top.op # "scan"
    BY <1>1, <1>3 DEF StartRegistration, FrameOK
  <2>2. CASE \E rv \in Rv : ReturnFrom(rv)
    BY <2>2, ReturnAdvances
  <2>3. CASE Become([Top EXCEPT !.at = "load"])
    <3> DEFINE f == [Top EXCEPT !.at = "load"]
    <3>1. f \in FrameType /\ f.op = Top.op /\ f.idx = Top.idx /\ f.at = "load"
      BY <1>1 DEF FrameType, At
    <3>2. Become(f)
      BY <2>3
    <3> HIDE DEF f
    <3>3. Place[f.at] > Place[Top.at]
      BY <2>1, <3>1 DEF Place
    <3> QED BY <1>1, <2>1, <3>1, <3>2, <3>3, PlaceAdvances
  <2> QED BY <1>3, <2>2, <2>3 DEF StartRegistration, Rv
<1>4. CASE DeferredNext
  <2> DEFINE x == deferred[Top.idx]
             f == [Top EXCEPT !.at = "load", !.loc = x]
  <2>1. x \in Loc
    BY <1>4, ElementOfSeq DEF DeferredNext, LoaderInv, TypeOK
  <2>2. Become(f)
    BY <1>4 DEF DeferredNext
  <2> HIDE DEF x
  <2>3. f \in FrameType /\ f.op = Top.op /\ f.idx = Top.idx /\ f.at = "load"
    BY <1>1, <2>1 DEF FrameType, At
  <2> HIDE DEF f
  <2>4. Top.op # "scan" /\ Place[f.at] > Place[Top.at]
    BY <1>4, <2>3 DEF DeferredNext, Place
  <2> QED BY <1>1, <2>2, <2>3, <2>4, PlaceAdvances
<1>5. CASE DeferredDone
  BY <1>5, ReturnAdvances DEF DeferredDone
<1>6. CASE GetModule
  <2>1. Top.at = "load" /\ Top.op # "scan" /\ Top.loc \in Loc
    BY <1>1, <1>6 DEF GetModule, FrameOK
  <2>2. CASE GetModuleFails("FAILURE")
    BY <1>1, <2>1, <2>2, GetModuleFailsAdvances
  <2>3. CASE CachedModule(Top.loc) # None
             /\ Become([Top EXCEPT !.at = "call", !.mod = CachedModule(Top.loc)])
    <3> DEFINE m == CachedModule(Top.loc)
               f == [Top EXCEPT !.at = "call", !.mod = m]
    <3>1. m \in Loc \cup {None}
      BY <2>1 DEF LoaderInv, TypeOK, CachedModule
    <3>2. Become(f)
      BY <2>3
    <3> HIDE DEF m
    <3>3. f \in FrameType /\ f.op = Top.op /\ f.idx = Top.idx /\ f.at = "call"
      BY <1>1, <3>1 DEF FrameType, At
    <3> HIDE DEF f
    <3>4. Place[f.at] > Place[Top.at]
      BY <2>1, <3>3 DEF Place
    <3> QED BY <1>1, <2>1, <3>2, <3>3, <3>4, PlaceAdvances
  <2>4. CASE Become([Top EXCEPT !.at = "eval", !.ver = disk[Top.loc]])
    <3> DEFINE v == disk[Top.loc]
               f == [Top EXCEPT !.at = "eval", !.ver = v]
    <3>1. v \in Stamp
      BY <1>2, <2>1
    <3>2. Become(f)
      BY <2>4
    <3> HIDE DEF v
    <3>3. f \in FrameType /\ f.op = Top.op /\ f.idx = Top.idx /\ f.at = "eval"
      BY <1>1, <3>1 DEF FrameType, At
    <3> HIDE DEF f
    <3>4. Place[f.at] > Place[Top.at]
      BY <2>1, <3>3 DEF Place
    <3> QED BY <1>1, <2>1, <3>2, <3>3, <3>4, PlaceAdvances
  <2> QED BY <1>6, <2>2, <2>3, <2>4 DEF GetModule
<1>7. CASE EvalReturns
  <2>1. Top.at = "eval" /\ Top.op # "scan"
    BY <1>1, <1>7 DEF EvalReturns, FrameOK
  <2>2. CASE GetModuleFails("ILLEGAL_VALUE")
    BY <1>1, <2>1, <2>2, GetModuleFailsAdvances
  <2>3. CASE Become([Top EXCEPT !.at = "getmodule"])
    <3> DEFINE f == [Top EXCEPT !.at = "getmodule"]
    <3>1. f \in FrameType /\ f.op = Top.op /\ f.idx = Top.idx /\ f.at = "getmodule"
      BY <1>1 DEF FrameType, At
    <3>2. Become(f)
      BY <2>3
    <3> HIDE DEF f
    <3>3. Place[f.at] > Place[Top.at]
      BY <2>1, <3>1 DEF Place
    <3> QED BY <1>1, <2>1, <3>1, <3>2, <3>3, PlaceAdvances
  <2> QED BY <1>7, <2>2, <2>3 DEF EvalReturns
<1>8. CASE GetModuleReturns
  <2>1. Top.at = "getmodule" /\ Top.op # "scan" /\ Top.loc \in Loc
    BY <1>1, <1>8 DEF GetModuleReturns, FrameOK
  <2>2. CASE GetModuleFails("FAILURE")
    BY <1>1, <2>1, <2>2, GetModuleFailsAdvances
  <2>3. CASE Become([Top EXCEPT !.at = "call", !.mod = Top.loc])
    <3> DEFINE f == [Top EXCEPT !.at = "call", !.mod = Top.loc]
    <3>1. f \in FrameType /\ f.op = Top.op /\ f.idx = Top.idx /\ f.at = "call"
      BY <1>1, <2>1 DEF FrameType, At
    <3>2. Become(f)
      BY <2>3
    <3> HIDE DEF f
    <3>3. Place[f.at] > Place[Top.at]
      BY <2>1, <3>1 DEF Place
    <3> QED BY <1>1, <2>1, <3>1, <3>2, <3>3, PlaceAdvances
  <2> QED BY <1>8, <2>2, <2>3 DEF GetModuleReturns
<1>9. CASE RegisterSelfReturns
  BY <1>1, <1>9, SelfRegisterReturnsAdvances DEF RegisterSelfReturns
<1>10. CASE UnregisterSelfReturns
  BY <1>10, ReturnAdvances DEF UnregisterSelfReturns
<1>11. CASE GetClassObjectReturns
  BY <1>11, ReturnAdvances DEF GetClassObjectReturns
<1> QED BY <1>3, <1>4, <1>5, <1>6, <1>7, <1>8, <1>9, <1>10, <1>11

\* A call while another is in progress is one more call back.
LEMMA CallIsBack ==
  ASSUME LoaderInv, Running, NEW f \in FrameType, Call(f)
  PROVE  CallsBack
<1>1. /\ Len(stack') = Len(stack) + 1
      /\ \A k \in 1 .. Len(stack) : stack'[k] = stack[k]
  BY CallLemma DEF LoaderInv
<1>2. nested \in Nat /\ nested < MaxNested /\ Top.at \in PerlStep /\ nested' = nested + 1
  BY DEF Call, MayCall, LoaderInv, TypeOK
<1> QED BY <1>1, <1>2 DEF CallsBack

\* The calls that Perl code can make.
LEMMA CallsAreBack ==
  ASSUME LoaderInv, Running,
         \/ AutoRegisterComponents \/ RegisterDeferredComponents
         \/ \E l \in Loc : \/ AutoRegisterComponent(l) \/ AutoUnregisterComponent(l)
                          \/ GetFactory(l)
  PROVE  CallsBack
<1>1. CASE AutoRegisterComponents
  <2>1. [Frame("scan", "loop") EXCEPT !.todo = {l \in Loc : disk[l] # 0}] \in FrameType
    BY DEF Frame, FrameType, Op, At, Stamp
  <2> QED BY <1>1, <2>1, CallIsBack DEF AutoRegisterComponents
<1>2. CASE RegisterDeferredComponents
  <2>1. Len(deferred) \in Nat
    BY LenProperties DEF LoaderInv, TypeOK
  <2>2. [Frame("deferred", "loop") EXCEPT !.idx = Len(deferred)] \in FrameType
    BY <2>1 DEF Frame, FrameType, Op, At, Stamp
  <2> QED BY <1>2, <2>2, CallIsBack DEF RegisterDeferredComponents
<1>3. ASSUME NEW l \in Loc, AutoRegisterComponent(l) PROVE CallsBack
  <2>1. [Frame("autoreg", "start") EXCEPT !.loc = l] \in FrameType
    BY DEF Frame, FrameType, Op, At, Stamp
  <2> QED BY <1>3, <2>1, CallIsBack DEF AutoRegisterComponent
<1>4. ASSUME NEW l \in Loc, AutoUnregisterComponent(l) PROVE CallsBack
  <2>1. [Frame("unreg", "load") EXCEPT !.loc = l] \in FrameType
    BY DEF Frame, FrameType, Op, At, Stamp
  <2> QED BY <1>4, <2>1, CallIsBack DEF AutoUnregisterComponent
<1>5. ASSUME NEW c \in Loc, GetFactory(c) PROVE CallsBack
  <2> DEFINE l == registry[c]
             e == Frame("factory", "load")
             f == [e EXCEPT !.loc = l, !.cls = c]
  <2>1. l \in Loc
    BY <1>5 DEF GetFactory, LoaderInv, TypeOK
  <2>2. Call(f)
    BY <1>5 DEF GetFactory
  <2> HIDE DEF l
  <2>3. e \in FrameType
    BY DEF Frame, FrameType, Op, At, Stamp
  <2> HIDE DEF e
  <2>4. f \in FrameType
    BY <2>1, <2>3 DEF FrameType
  <2> QED BY <2>2, <2>4, CallIsBack
<1> QED BY <1>1, <1>2, <1>3, <1>4, <1>5

\* No step of the loader goes back or stays where it is, for any number of files, of
\* deferrals and of calls back, RegisterDeferredComponents included.
THEOREM LoopsAdvance == Spec => StepsAdvance
<1> DEFINE A == Running => \/ Advances
                           \/ CallsBack
                           \/ disk' # disk /\ UNCHANGED stack
<1>1. LoaderInv /\ [Next]_vars => [A]_vars
  <2> SUFFICES ASSUME LoaderInv, Running, Next
               PROVE  \/ Advances \/ CallsBack
                      \/ disk' # disk /\ UNCHANGED stack
    OBVIOUS
  <2>1. CASE Step
    <3>1. CASE ProcessEnds
      BY <3>1 DEF ProcessEnds, Advances
    <3> QED BY <2>1, <3>1, ScanAdvances, RegistrationAdvances DEF Step, Crash
  <2>2. CASE \/ AutoRegisterComponents \/ RegisterDeferredComponents
             \/ \E l \in Loc : \/ AutoRegisterComponent(l) \/ AutoUnregisterComponent(l)
                              \/ GetFactory(l)
    BY <2>2, CallsAreBack
  <2>3. ASSUME NEW l \in Loc, WriteFile(l)
        PROVE  disk' # disk /\ UNCHANGED stack
    <3>1. PICK s \in Stamp \ {disk[l]} : disk' = [disk EXCEPT ![l] = s]
      BY <2>3 DEF WriteFile
    <3>2. disk'[l] = s
      BY <3>1 DEF LoaderInv, TypeOK
    <3> QED BY <2>3, <3>1, <3>2 DEF WriteFile
  <2>4. CASE Restart
    BY <2>4 DEF Restart, ProcessEnds, Advances
  <2> QED BY <2>1, <2>2, <2>3, <2>4 DEF Next, OtherPerlCode
<1> HIDE DEF A
<1>2. Spec => [][A]_vars
  BY <1>1, LoaderInvariant, PTL DEF Spec
<1> QED BY <1>2 DEF StepsAdvance, A

=============================================================================
