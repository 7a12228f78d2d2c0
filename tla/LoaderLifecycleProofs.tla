----------------------- MODULE LoaderLifecycleProofs -----------------------
(***************************************************************************)
(* Proofs about LoaderLifecycle, for any number of loaders, clients and    *)
(* classes.  Each loader is held, which the references it counts say, and  *)
(* the classes that registerSelf has still to register end with the last   *)
(* class of the module.                                                    *)
(***************************************************************************)
EXTENDS LoaderLifecycle, SequenceTheorems, TLAPS

LoaderRecord == [state : States, refs : Nat, clients : Nat]

\* A loader with record r, which the service manager has or a registration uses.
Held(r, isService, isCaller) ==
  /\ r \in LoaderRecord
  /\ r.refs = r.clients + One(isService)
  /\ r.state \in {"new", "ready"} <=> r.refs > 0
  /\ isCaller => r.clients > 0

AllHeld == \A l \in Loader : Held(loader[l], service = l, caller = l)

LastRemains ==
  /\ todo # <<>> => MyComponents # <<>> /\ todo[Len(todo)] = MyComponents[Len(MyComponents)]
  /\ LastClassDecides

IInv == TypeOK /\ AllHeld /\ LastRemains

-----------------------------------------------------------------------------
(* Loaders. *)

\* A reference less, which is no client's nor the service manager's any more.
LEMMA OneLessHeld ==
  ASSUME NEW r \in LoaderRecord, NEW s \in BOOLEAN, NEW c \in BOOLEAN,
         r.refs = r.clients + One(s) + 1, r.state \in {"new", "ready"}, c => r.clients > 0
  PROVE  Held(OneLess(r), s, c)
<1>1. CASE r.refs = 1
  <2>1. r.clients = 0 /\ ~s /\ ~c BY <1>1 DEF LoaderRecord, One
  <2>. QED BY <1>1, <2>1 DEF OneLess, Nobody, Held, LoaderRecord, States, One
<1>2. CASE r.refs # 1
  <2> DEFINE w == OneLess(r)
             n == r.refs - 1
  <2>1. n \in Nat /\ n > 0 BY <1>2 DEF LoaderRecord, One
  <2>2. w = [r EXCEPT !.refs = n] BY <1>2 DEF OneLess
  <2>3. n = r.clients + One(s) BY DEF LoaderRecord, One
  <2> HIDE DEF w, n
  <2>4. w \in LoaderRecord /\ w.refs = n /\ w.clients = r.clients /\ w.state = r.state
    BY <2>1, <2>2 DEF LoaderRecord
  <2>5. Held(w, s, c) BY <2>1, <2>3, <2>4 DEF Held
  <2>. QED BY <2>5 DEF w
<1>. QED BY <1>1, <1>2

\* Nothing about the loader has changed.
LEMMA SameHeld ==
  ASSUME AllHeld, NEW k \in Loader, loader'[k] = loader[k],
         service' = k <=> service = k, caller' = k <=> caller = k
  PROVE  Held(loader'[k], service' = k, caller' = k)
BY DEF AllHeld, Held, One

\* A loader that has not been constructed is nobody's.
LEMMA UnusedIsFree ==
  ASSUME IInv, NEW l \in Loader, loader[l].state = "none"
  PROVE  /\ loader[l] = Nobody("none") /\ service # l /\ caller # l
<1>1. Held(loader[l], service = l, caller = l) BY DEF IInv, AllHeld
<1>2. loader[l].refs = 0 /\ loader[l].clients = 0 /\ service # l /\ caller # l
  BY <1>1 DEF Held, LoaderRecord, One
<1>3. loader[l] \in LoaderRecord BY <1>1 DEF Held
<1>4. loader[l] = Nobody("none")
  BY <1>2, <1>3 DEF Nobody, LoaderRecord
<1>. QED BY <1>2, <1>4

\* What RegProc makes of a loader that GetLoader returned.
LEMMA AfterRegProcHeld ==
  ASSUME NEW r, NEW s \in BOOLEAN, NEW c \in BOOLEAN, NEW took \in BOOLEAN,
         Held(r, s, c), r.state # "gone", took => ~s
  PROVE  Held(AfterRegProc(r, took), s \/ took, c)
<1> DEFINE g == GlobalTaken(r)
           m == g.refs + 1
           f == [g EXCEPT !.refs = @ + 1]
           st == IF r.state = "none" THEN "new" ELSE r.state
           n == r.refs + 1
<1>1. r \in LoaderRecord /\ n \in Nat /\ st \in States /\ n = r.refs + 1
  BY DEF Held, LoaderRecord, States
<1>2. g = [r EXCEPT !.state = st, !.refs = n] BY DEF GlobalTaken
<1>3. st \in {"new", "ready"} BY <1>1 DEF LoaderRecord, States
<1>4. AfterRegProc(r, took) = OneLess(IF took THEN f ELSE g) BY DEF AfterRegProc
<1>5. m = g.refs + 1 /\ f = [g EXCEPT !.refs = m] OBVIOUS
<1> HIDE DEF g, n, st, f, m
<1>6. g \in LoaderRecord /\ g.state = st /\ g.refs = n /\ g.clients = r.clients
  BY <1>1, <1>2 DEF LoaderRecord
<1>7. g.refs = g.clients + One(s) + 1 BY <1>1, <1>6 DEF Held
<1>8. c => g.clients > 0 BY <1>6 DEF Held
<1>9. CASE ~took
  <2>1. Held(OneLess(g), s, c) BY <1>3, <1>6, <1>7, <1>8, OneLessHeld
  <2>. QED BY <1>4, <1>9, <2>1
<1>10. CASE took
  <2>1. m \in Nat BY <1>5, <1>6 DEF LoaderRecord
  <2>2. f \in LoaderRecord /\ f.state = st /\ f.refs = m /\ f.clients = g.clients
    BY <1>5, <1>6, <2>1 DEF LoaderRecord
  <2>3. f.refs = f.clients + One(TRUE) + 1
    BY <1>5, <1>6, <1>7, <1>10, <2>2 DEF One, LoaderRecord
  <2>4. Held(OneLess(f), TRUE, c) BY <1>3, <1>6, <1>8, <2>2, <2>3, OneLessHeld
  <2>5. s \/ took = TRUE BY <1>10
  <2>. QED BY <1>4, <1>10, <2>4
<1>. QED BY <1>9, <1>10

\* The classes of the module are left alone.
LEMMA ClassesLeft ==
  ASSUME LastRemains, GenericTypeOK, UNCHANGED genericVars
  PROVE  LastRemains' /\ GenericTypeOK'
BY DEF genericVars, LastRemains, LastClassDecides, GenericTypeOK

\* The invariant survives a registration of the loader.
LEMMA RegProcStep == ASSUME IInv, RegProc PROVE IInv'
<1>1. PICK l \in Loader, took \in BOOLEAN, known \in BOOLEAN :
        /\ \/ global = NoLoader /\ Construct(l)
           \/ global = l /\ Exists(l) /\ interp # "gone" /\ UNCHANGED interp
        /\ took => service = NoLoader
        /\ loader' = [loader EXCEPT ![l] = AfterRegProc(@, took)]
        /\ global' = l
        /\ service' = IF took THEN l ELSE service
        /\ entry' = (entry \/ known)
        /\ UNCHANGED <<caller, lost, genericVars>>
  BY DEF RegProc
<1> DEFINE r == loader[l]
           w == AfterRegProc(r, took)
           s == service = l
           c == caller = l
<1>2. Held(r, s, c) BY DEF IInv, AllHeld
<1>3. r.state # "gone" BY <1>1 DEF Construct, Exists
<1>4. took => ~s BY <1>1, LoaderLifecycleAssumption
<1>5. s \in BOOLEAN /\ c \in BOOLEAN OBVIOUS
<1>6. w = AfterRegProc(r, took) /\ loader' = [loader EXCEPT ![l] = w] BY <1>1
<1>7. (service' = l <=> s \/ took) /\ (caller' = l <=> c) BY <1>1
<1> HIDE DEF r, w, s, c
<1>8. Held(w, s \/ took, c) BY <1>2, <1>3, <1>4, <1>5, <1>6, AfterRegProcHeld
<1>9. LastRemains' /\ GenericTypeOK' BY <1>1, ClassesLeft DEF IInv, TypeOK
<1>10. TypeOK'
  <2>1. w \in [state : States, refs : Nat, clients : Nat] BY <1>8 DEF Held, LoaderRecord
  <2>2. interp' \in {"none", "own", "host", "gone"} BY <1>1 DEF IInv, TypeOK, Construct
  <2>. QED BY <1>1, <1>6, <1>9, <2>1, <2>2 DEF IInv, TypeOK
<1>11. AllHeld'
  <2> SUFFICES ASSUME NEW k \in Loader PROVE Held(loader'[k], service' = k, caller' = k)
    BY DEF AllHeld
  <2>1. CASE k = l
    <3>1. loader'[k] = w BY <1>6, <2>1 DEF IInv, TypeOK
    <3>. QED BY <1>5, <1>7, <1>8, <2>1, <3>1 DEF Held, One
  <2>2. CASE k # l
    <3>1. loader'[k] = loader[k] BY <1>6, <2>2 DEF IInv, TypeOK
    <3>2. (service' = k <=> service = k) /\ (caller' = k <=> caller = k)
      BY <1>1, <2>2, LoaderLifecycleAssumption
    <3>. QED BY <3>1, <3>2, SameHeld DEF IInv
  <2>. QED BY <2>1, <2>2
<1>. QED BY <1>9, <1>10, <1>11 DEF IInv

\* The invariant survives the removal of the registration.
LEMMA UnregStep == ASSUME IInv, Unreg PROVE IInv'
<1>1. PICK known \in BOOLEAN :
        /\ entry' = (entry /\ ~known)
        /\ service' = NoLoader
        /\ loader' = [l \in Loader |-> IF l = service THEN OneLess(loader[l]) ELSE loader[l]]
        /\ UNCHANGED <<global, interp, caller, lost, genericVars>>
  BY DEF Unreg
<1>2. AllHeld'
  <2> SUFFICES ASSUME NEW k \in Loader PROVE Held(loader'[k], service' = k, caller' = k)
    BY DEF AllHeld
  <2> DEFINE c == caller = k
  <2>1. Held(loader[k], service = k, c) BY DEF IInv, AllHeld
  <2>2. service' # k /\ (caller' = k <=> c) BY <1>1, LoaderLifecycleAssumption
  <2>3. c \in BOOLEAN OBVIOUS
  <2>4. c <=> caller = k OBVIOUS
  <2> HIDE DEF c
  <2>5. CASE k = service
    <3>1. loader[k].refs = loader[k].clients + One(FALSE) + 1
      BY <2>1, <2>5 DEF Held, One, LoaderRecord
    <3>2. loader[k] \in LoaderRecord /\ loader[k].state \in {"new", "ready"}
            /\ (c => loader[k].clients > 0)
      BY <2>1, <2>5 DEF Held, One, LoaderRecord
    <3>3. Held(OneLess(loader[k]), FALSE, c) BY <2>3, <3>1, <3>2, OneLessHeld
    <3>4. loader'[k] = OneLess(loader[k]) BY <1>1, <2>5
    <3>. QED BY <2>2, <2>3, <3>3, <3>4 DEF Held, One
  <2>6. CASE k # service
    <3>1. loader'[k] = loader[k] /\ (service' = k <=> service = k) /\ (caller' = k <=> caller = k)
      BY <1>1, <2>2, <2>6
    <3>. QED BY <3>1, SameHeld DEF IInv
  <2>. QED BY <2>5, <2>6
<1>3. LastRemains' /\ GenericTypeOK' BY <1>1, ClassesLeft DEF IInv, TypeOK
<1>4. loader' \in [Loader -> [state : States, refs : Nat, clients : Nat]]
  BY <1>1, <1>2 DEF AllHeld, Held, LoaderRecord
<1>5. TypeOK' BY <1>1, <1>3, <1>4 DEF IInv, TypeOK
<1>. QED BY <1>2, <1>3, <1>5 DEF IInv

\* The invariant survives a client that gets the service.
LEMMA GetServiceStep == ASSUME IInv, GetService PROVE IInv'
<1>1. PICK l \in Loader :
        /\ service = l
        /\ loader' = [loader EXCEPT ![l].refs = @ + 1, ![l].clients = @ + 1]
        /\ UNCHANGED <<global, service, entry, interp, caller, lost, genericVars>>
  BY DEF GetService
<1> DEFINE r == loader[l]
           n == r.refs + 1
           m == r.clients + 1
           w == [r EXCEPT !.refs = n, !.clients = m]
<1>2. Held(r, service = l, caller = l) BY DEF IInv, AllHeld
<1>3. r \in LoaderRecord /\ n \in Nat /\ m \in Nat /\ n = r.refs + 1 /\ m = r.clients + 1
  BY <1>2 DEF Held, LoaderRecord
<1>4. w = [r EXCEPT !.refs = n, !.clients = m] OBVIOUS
<1>5. loader' = [loader EXCEPT ![l] = w] BY <1>1 DEF IInv, TypeOK
<1>6. r = loader[l] OBVIOUS
<1> HIDE DEF r, w, n, m
<1>7. w \in LoaderRecord /\ w.refs = n /\ w.clients = m /\ w.state = r.state
  BY <1>3, <1>4 DEF LoaderRecord
<1>8. Held(w, service' = l, caller' = l)
  BY <1>1, <1>2, <1>3, <1>7 DEF Held, One, LoaderRecord
<1>9. AllHeld'
  <2> SUFFICES ASSUME NEW k \in Loader PROVE Held(loader'[k], service' = k, caller' = k)
    BY DEF AllHeld
  <2>1. CASE k = l
    <3>1. loader'[k] = w BY <1>5, <2>1 DEF IInv, TypeOK
    <3>. QED BY <1>8, <2>1, <3>1
  <2>2. CASE k # l BY <1>1, <1>5, <2>2, SameHeld DEF IInv, TypeOK
  <2>. QED BY <2>1, <2>2
<1>10. LastRemains' /\ GenericTypeOK' BY <1>1, ClassesLeft DEF IInv, TypeOK
<1>11. TypeOK' BY <1>1, <1>5, <1>7, <1>10 DEF IInv, TypeOK, LoaderRecord
<1>. QED BY <1>9, <1>10, <1>11 DEF IInv

\* The invariant survives a service that the component manager constructs.
LEMMA NewServiceStep == ASSUME IInv, NewService PROVE IInv'
<1> DEFINE w == [state |-> "new", refs |-> 2, clients |-> 1]
<1>1. PICK l \in Loader :
        /\ service = NoLoader /\ Construct(l)
        /\ loader' = [loader EXCEPT ![l] = w]
        /\ service' = l
        /\ UNCHANGED <<global, entry, caller, lost, genericVars>>
  BY DEF NewService
<1>2. caller # l BY <1>1, UnusedIsFree DEF Construct
<1>3. w \in LoaderRecord /\ Held(w, TRUE, FALSE) BY DEF LoaderRecord, States, Held, One
<1> HIDE DEF w
<1>4. AllHeld'
  <2> SUFFICES ASSUME NEW k \in Loader PROVE Held(loader'[k], service' = k, caller' = k)
    BY DEF AllHeld
  <2>1. CASE k = l
    <3>1. loader'[k] = w /\ service' = k /\ caller' # k BY <1>1, <1>2, <2>1 DEF IInv, TypeOK
    <3>. QED BY <1>3, <3>1 DEF Held, One
  <2>2. CASE k # l
    <3>1. loader'[k] = loader[k] /\ (service' = k <=> service = k) /\ (caller' = k <=> caller = k)
      BY <1>1, <2>2, LoaderLifecycleAssumption DEF IInv, TypeOK
    <3>. QED BY <3>1, SameHeld DEF IInv
  <2>. QED BY <2>1, <2>2
<1>5. LastRemains' /\ GenericTypeOK' BY <1>1, ClassesLeft DEF IInv, TypeOK
<1>6. interp' \in {"none", "own", "host", "gone"} BY <1>1 DEF IInv, TypeOK, Construct
<1>7. TypeOK' BY <1>1, <1>3, <1>5, <1>6 DEF IInv, TypeOK, LoaderRecord
<1>. QED BY <1>4, <1>5, <1>7 DEF IInv

\* The invariant survives the loader's Init.
LEMMA InitLoaderStep == ASSUME IInv, InitLoader PROVE IInv'
<1>1. PICK l \in Loader :
        /\ loader[l].state = "new"
        /\ loader' = [loader EXCEPT ![l].state = "ready"]
        /\ UNCHANGED <<global, service, entry, interp, caller, lost, genericVars>>
  BY DEF InitLoader
<1> DEFINE r == loader[l]
           st == "ready"
           w == [r EXCEPT !.state = st]
<1>2. Held(r, service = l, caller = l) BY DEF IInv, AllHeld
<1>3. r \in LoaderRecord /\ st \in States BY <1>2 DEF Held, States
<1>4. w = [r EXCEPT !.state = st] OBVIOUS
<1>5. loader' = [loader EXCEPT ![l] = w] BY <1>1 DEF IInv, TypeOK
<1>6. r = loader[l] /\ r.state = "new" BY <1>1
<1> HIDE DEF r, w, st
<1>7. w \in LoaderRecord /\ w.refs = r.refs /\ w.clients = r.clients /\ w.state = st
  BY <1>3, <1>4 DEF LoaderRecord
<1>8. Held(w, service' = l, caller' = l)
  BY <1>1, <1>2, <1>6, <1>7 DEF Held, One, LoaderRecord, st
<1>9. AllHeld'
  <2> SUFFICES ASSUME NEW k \in Loader PROVE Held(loader'[k], service' = k, caller' = k)
    BY DEF AllHeld
  <2>1. CASE k = l
    <3>1. loader'[k] = w BY <1>5, <2>1 DEF IInv, TypeOK
    <3>. QED BY <1>8, <2>1, <3>1
  <2>2. CASE k # l BY <1>1, <1>5, <2>2, SameHeld DEF IInv, TypeOK
  <2>. QED BY <2>1, <2>2
<1>10. LastRemains' /\ GenericTypeOK' BY <1>1, ClassesLeft DEF IInv, TypeOK
<1>11. TypeOK' BY <1>1, <1>5, <1>7, <1>10 DEF IInv, TypeOK, LoaderRecord
<1>. QED BY <1>9, <1>10, <1>11 DEF IInv

\* The invariant survives a release by a client.
LEMMA ReleaseLoaderStep == ASSUME IInv, ReleaseLoader PROVE IInv'
<1>1. PICK l \in Loader :
        /\ loader[l].clients > One(caller = l)
        /\ loader' = [loader EXCEPT ![l] = ClientGone(@)]
        /\ UNCHANGED <<global, service, entry, interp, caller, lost, genericVars>>
  BY DEF ReleaseLoader
<1> DEFINE r == loader[l]
           m == r.clients - 1
           v == [r EXCEPT !.clients = m]
           w == OneLess(v)
           s == service = l
           c == caller = l
<1>2. Held(r, s, c) BY DEF IInv, AllHeld
<1>3. r \in LoaderRecord /\ m \in Nat /\ m = r.clients - 1 /\ (c => m > 0)
  BY <1>1, <1>2 DEF Held, LoaderRecord, One
<1>4. r.refs = m + One(s) + 1 /\ r.state \in {"new", "ready"}
  BY <1>2, <1>3 DEF Held, LoaderRecord, One
<1>5. v = [r EXCEPT !.clients = m] OBVIOUS
<1>6. loader' = [loader EXCEPT ![l] = w] BY <1>1 DEF ClientGone
<1>7. s \in BOOLEAN /\ c \in BOOLEAN OBVIOUS
<1>8. (service' = l <=> s) /\ (caller' = l <=> c) BY <1>1
<1>9. w = OneLess(v) OBVIOUS
<1> HIDE DEF r, w, v, m, s, c
<1>10. v \in LoaderRecord /\ v.refs = r.refs /\ v.clients = m /\ v.state = r.state
  BY <1>3, <1>5 DEF LoaderRecord
<1>11. Held(w, s, c) BY <1>3, <1>4, <1>7, <1>9, <1>10, OneLessHeld
<1>12. AllHeld'
  <2> SUFFICES ASSUME NEW k \in Loader PROVE Held(loader'[k], service' = k, caller' = k)
    BY DEF AllHeld
  <2>1. CASE k = l
    <3>1. loader'[k] = w BY <1>6, <2>1 DEF IInv, TypeOK
    <3>. QED BY <1>7, <1>8, <1>11, <2>1, <3>1 DEF Held, One
  <2>2. CASE k # l BY <1>1, <1>6, <2>2, SameHeld DEF IInv, TypeOK
  <2>. QED BY <2>1, <2>2
<1>13. LastRemains' /\ GenericTypeOK' BY <1>1, ClassesLeft DEF IInv, TypeOK
<1>14. w \in [state : States, refs : Nat, clients : Nat] BY <1>11 DEF Held, LoaderRecord
<1>15. TypeOK' BY <1>1, <1>6, <1>13, <1>14 DEF IInv, TypeOK
<1>. QED BY <1>12, <1>13, <1>15 DEF IInv

-----------------------------------------------------------------------------
(* Registrations. *)

\* What is left of a list of classes when the first has been registered.
LEMMA TailKeepsLast ==
  ASSUME NEW S, NEW s \in Seq(S), s # <<>>
  PROVE  /\ Head(s) \in S /\ Tail(s) \in Seq(S) /\ Len(Tail(s)) = Len(s) - 1
         /\ Tail(s) # <<>> => Tail(s)[Len(Tail(s))] = s[Len(s)]
         /\ Len(s) = 1 => Head(s) = s[Len(s)]
         /\ Len(s) # 1 => Tail(s) # <<>>
         /\ Len(s) = 1 => Tail(s) = <<>>
<1>1. Len(s) \in Nat /\ Len(s) # 0 BY EmptySeq, LenProperties
<1>2. Head(s) = s[1] /\ Head(s) \in S /\ Tail(s) \in Seq(S) /\ Len(Tail(s)) = Len(s) - 1
        /\ \A k \in 1 .. (Len(s) - 1) : Tail(s)[k] = s[k + 1]
  BY <1>1, HeadTailProperties
<1>3. Tail(s) = <<>> <=> Len(Tail(s)) = 0 BY <1>2, EmptySeq
<1>4. ASSUME Tail(s) # <<>> PROVE Tail(s)[Len(Tail(s))] = s[Len(s)]
  <2>1. Len(s) - 1 \in 1 .. (Len(s) - 1) BY <1>1, <1>2, <1>3, <1>4
  <2>. QED BY <1>1, <1>2, <2>1
<1>. QED BY <1>1, <1>2, <1>3, <1>4

\* The classes of the module are classes.
LEMMA OwnClasses == MyComponents \in Seq(OwnClass) /\ OwnClass \subseteq Class
<1>1. MyComponents \in Seq(Class) BY GenericModuleAssumption
<1>2. \A k \in 1 .. Len(MyComponents) : MyComponents[k] \in Class
  BY <1>1, ElementOfSeq
<1>3. DOMAIN MyComponents = 1 .. Len(MyComponents) BY <1>1, LenProperties
<1>4. MyComponents \in Seq(OwnClass) BY <1>1, <1>3, SeqDef DEF OwnClass
<1>. QED BY <1>2, <1>3, <1>4 DEF OwnClass

\* Only the classes that are left and the component manager's record change.
LEMMA RegistrationHeld ==
  ASSUME IInv, UNCHANGED loaderVars,
         \/ caller' = NoLoader
         \/ caller' = caller
         \/ caller' \in Loader /\ loader[caller'].clients > 0
  PROVE  AllHeld'
<1> SUFFICES ASSUME NEW k \in Loader PROVE Held(loader'[k], service' = k, caller' = k)
  BY DEF AllHeld
<1>1. Held(loader[k], service = k, caller = k) BY DEF IInv, AllHeld
<1>2. loader'[k] = loader[k] /\ service' = service BY DEF loaderVars
<1>. QED BY <1>1, <1>2, LoaderLifecycleAssumption DEF Held, One

\* The invariant survives the start of a registration.
LEMMA StartRegistrationStep == ASSUME IInv, StartRegistration PROVE IInv'
<1>1. PICK l \in Loader :
        /\ loader[l].clients > 0
        /\ caller = NoLoader
        /\ RegisterSelf
        /\ caller' = IF todo' = <<>> THEN NoLoader ELSE l
        /\ UNCHANGED <<loaderVars, interp, lost>>
  BY DEF StartRegistration
<1>2. AllHeld' BY <1>1, RegistrationHeld
<1>3. GenericTypeOK'
  BY <1>1, OwnClasses DEF RegisterSelf, IInv, TypeOK, GenericTypeOK, Result
<1>4. LastRemains'
  BY <1>1 DEF RegisterSelf, LastRemains, LastClassDecides
<1>5. caller' \in Loader \cup {NoLoader} BY <1>1
<1>6. TypeOK' BY <1>1, <1>3, <1>5 DEF IInv, TypeOK, loaderVars
<1>. QED BY <1>2, <1>4, <1>6 DEF IInv

\* The invariant survives the registration of a class.
LEMMA RegistrationGoesOnStep == ASSUME IInv, RegistrationGoesOn PROVE IInv'
<1>1. /\ RegisterClass \/ NoRegistrar
      /\ caller' = IF todo' = <<>> THEN NoLoader ELSE caller
      /\ UNCHANGED <<loaderVars, interp, lost>>
  BY DEF RegistrationGoesOn
<1>2. AllHeld' BY <1>1, RegistrationHeld
<1>3. caller' \in Loader \cup {NoLoader} BY <1>1 DEF IInv, TypeOK
<1>4. todo \in Seq(OwnClass) /\ onRecord \subseteq Class /\ OwnClass \subseteq Class
  BY OwnClasses DEF IInv, TypeOK, GenericTypeOK
<1>5. GenericTypeOK' /\ LastRemains'
  <2>1. CASE NoRegistrar
    <3>1. todo' = <<>> /\ told' = "FAILED" /\ onRecord' = onRecord BY <2>1 DEF NoRegistrar
    <3>. QED
      BY <3>1, <1>4 DEF GenericTypeOK, Result, LastRemains, LastClassDecides
  <2>2. CASE RegisterClass
    <3>1. PICK r \in Result :
            /\ todo # <<>> /\ todo' = Tail(todo)
            /\ onRecord' = IF r = "OK" THEN onRecord \cup {Head(todo)} ELSE onRecord
            /\ told' = Answer(r)
      BY <2>2 DEF RegisterClass
    <3>2. /\ Head(todo) \in OwnClass /\ Tail(todo) \in Seq(OwnClass)
          /\ Tail(todo) # <<>> => Tail(todo)[Len(Tail(todo))] = todo[Len(todo)]
          /\ Len(todo) = 1 => Head(todo) = todo[Len(todo)]
      BY <1>4, <3>1, TailKeepsLast
    <3>3. GenericTypeOK' BY <1>4, <3>1, <3>2 DEF GenericTypeOK, Answer, Result
    <3>4. MyComponents # <<>> /\ todo[Len(todo)] = MyComponents[Len(MyComponents)]
      BY <3>1 DEF IInv, LastRemains
    <3>5. LastClassDecides'
      <4> SUFFICES ASSUME told' = "OK" PROVE MyComponents[Len(MyComponents)] \in onRecord'
        BY DEF LastClassDecides
      <4>1. Len(todo) = 1 /\ r = "OK" BY <3>1 DEF Answer
      <4>. QED BY <3>1, <3>2, <3>4, <4>1
    <3>. QED BY <3>1, <3>2, <3>3, <3>4, <3>5 DEF LastRemains
  <2>. QED BY <1>1, <2>1, <2>2
<1>6. TypeOK' BY <1>1, <1>3, <1>5 DEF IInv, TypeOK, loaderVars
<1>. QED BY <1>2, <1>5, <1>6 DEF IInv

-----------------------------------------------------------------------------
(* The results. *)

\* At first there is no loader, and nothing is being registered.
LEMMA Initially == Init => IInv
<1> SUFFICES ASSUME Init PROVE IInv OBVIOUS
<1>1. Nobody("none") \in LoaderRecord /\ Held(Nobody("none"), FALSE, FALSE)
  BY DEF Nobody, LoaderRecord, States, Held, One
<1>2. AllHeld
  <2> SUFFICES ASSUME NEW k \in Loader PROVE Held(loader[k], service = k, caller = k)
    BY DEF AllHeld
  <2>1. loader[k] = Nobody("none") /\ service # k /\ caller # k
    BY LoaderLifecycleAssumption DEF Init
  <2>. QED BY <1>1, <2>1 DEF Held, One
<1>3. <<>> \in Seq(OwnClass) BY EmptySeq
<1>4. GenericTypeOK /\ LastRemains
  BY <1>3 DEF Init, GenericInit, GenericTypeOK, LastRemains, LastClassDecides
<1>5. TypeOK BY <1>1, <1>4 DEF Init, TypeOK, LoaderRecord
<1>. QED BY <1>2, <1>4, <1>5 DEF IInv

\* Every step keeps the invariant.
LEMMA Stepwise == IInv /\ [Next]_vars => IInv'
<1> SUFFICES ASSUME IInv, [Next]_vars PROVE IInv' OBVIOUS
<1>1. ASSUME UNCHANGED <<loaderVars, caller, genericVars>>,
             interp' \in {"none", "own", "host", "gone"}, lost' \in BOOLEAN
      PROVE  IInv'
  <2>1. LastRemains' /\ GenericTypeOK' BY <1>1, ClassesLeft DEF IInv, TypeOK
  <2>2. AllHeld' BY <1>1, RegistrationHeld
  <2>3. TypeOK' BY <1>1, <2>1 DEF IInv, TypeOK, loaderVars
  <2>. QED BY <2>1, <2>2, <2>3 DEF IInv
<1>2. CASE UNCHANGED vars
  BY <1>1, <1>2 DEF vars, IInv, TypeOK
<1>3. CASE RegProcDead BY <1>1, <1>3 DEF RegProcDead, IInv, TypeOK
<1>4. CASE Exit BY <1>1, <1>4 DEF Exit, IInv, TypeOK
<1>5. CASE Ended BY <1>2, <1>5 DEF Ended
<1>. QED
  BY <1>2, <1>3, <1>4, <1>5, RegProcStep, UnregStep, GetServiceStep, NewServiceStep,
     InitLoaderStep, ReleaseLoaderStep, StartRegistrationStep, RegistrationGoesOnStep
  DEF Next

\* Loaders, holders and lists of classes keep their types.
THEOREM TypeCorrect == Spec => []TypeOK
<1>1. IInv => TypeOK BY DEF IInv
<1>. QED BY <1>1, Initially, Stepwise, PTL DEF Spec

\* A loader lives exactly as long as a client or the service manager has it, and
\* longer than any registration it runs.
THEOREM LoadersAreHeld == Spec => []LoadersHaveHolders
<1>1. IInv => LoadersHaveHolders
  <2> SUFFICES ASSUME IInv PROVE LoadersHaveHolders OBVIOUS
  <2>1. \A l \in Loader : Held(loader[l], service = l, caller = l) BY DEF IInv, AllHeld
  <2>2. ASSUME caller # NoLoader PROVE Exists(caller)
    <3>1. caller \in Loader BY <2>2 DEF IInv, TypeOK
    <3>2. Held(loader[caller], service = caller, TRUE) BY <2>1, <3>1 DEF Held, One
    <3>. QED BY <3>2 DEF Held, LoaderRecord, One, Exists
  <2>. QED BY <2>1, <2>2 DEF LoadersHaveHolders, Held, Exists
<1>. QED BY <1>1, Initially, Stepwise, PTL DEF Spec

\* registerSelf of a module of several classes answers success only if the last of
\* them has been registered.
THEOREM LastClassIsRegistered == Spec => []LastClassDecides
<1>1. IInv => LastClassDecides BY DEF IInv, LastRemains
<1>. QED BY <1>1, Initially, Stepwise, PTL DEF Spec

=============================================================================
