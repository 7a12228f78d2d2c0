--------------------------- MODULE LoaderLifecycle ---------------------------
(***************************************************************************)
(* Construction and destruction of component loaders: the raw global       *)
(* pointer of GetLoader, the service that RegProc registers, the loaders   *)
(* that the component manager constructs itself, and the interpreter that  *)
(* the first of them starts.  Loaders have modules of the kind of          *)
(* GenericModule register their classes.                                   *)
(***************************************************************************)
EXTENDS GenericModule, FiniteSets

CONSTANTS
  Loader,      \* bound: loaders that are constructed
  NoLoader,
  MaxClients   \* bound: references that native clients hold to one loader

ASSUME LoaderLifecycleAssumption == NoLoader \notin Loader /\ MaxClients \in Nat

VARIABLES
  loader,    \* the loaders
  global,    \* g_plPerlComponentLoader
  service,   \* the loader that the service manager has
  entry,     \* the component-loader category names the loader's contract ID
  interp,    \* the Perl interpreter
  caller,    \* the loader that has called registerSelf
  lost       \* a loader has been used after its end

loaderVars == <<loader, global, service, entry>>
vars == <<loaderVars, interp, caller, lost, genericVars>>

States == {"none", "new", "ready", "gone"}

TypeOK ==
  /\ loader \in [Loader -> [state : States, refs : Nat, clients : Nat]]
  /\ global \in Loader \cup {NoLoader}
  /\ service \in Loader \cup {NoLoader}
  /\ entry \in BOOLEAN
  /\ interp \in {"none", "own", "host", "gone"}
  /\ caller \in Loader \cup {NoLoader}
  /\ lost \in BOOLEAN
  /\ GenericTypeOK

Nobody(state) == [state |-> state, refs |-> 0, clients |-> 0]

One(condition) == IF condition THEN 1 ELSE 0

Exists(l) == loader[l].state \in {"new", "ready"}

Init ==
  /\ loader = [l \in Loader |-> Nobody("none")]
  /\ global = NoLoader /\ service = NoLoader /\ entry = FALSE
  /\ interp \in {"none", "host"}
  /\ caller = NoLoader
  /\ lost = FALSE
  /\ GenericInit

-----------------------------------------------------------------------------

\* The constructor starts an interpreter if there is none.
Construct(l) ==
  /\ loader[l].state = "none" /\ interp # "gone"
  /\ interp' = IF interp = "none" THEN "own" ELSE interp

\* A loader that has lost one of its references.
OneLess(r) == IF r.refs = 1 THEN Nobody("gone") ELSE [r EXCEPT !.refs = @ - 1]

\* Mutant: GetLoader does not count a reference for its caller, who drops one.
GlobalBorrowed(r) == IF r.state = "none" THEN [r EXCEPT !.state = "new"] ELSE r

\* GetLoader counts a reference for its caller.
GlobalTaken(r) == [r EXCEPT !.state = IF @ = "none" THEN "new" ELSE @, !.refs = @ + 1]

\* Mutant: RegProc drops a reference by hand beside the one nsCOMPtr drops.
DroppedTwice(r, took) ==
  OneLess(OneLess(IF took THEN [GlobalTaken(r) EXCEPT !.refs = @ + 1] ELSE GlobalTaken(r)))

\* What RegProc leaves of the loader: RegisterService may take a reference, its own
\* is dropped on return.
AfterRegProc(r, took) ==
  OneLess(IF took THEN [GlobalTaken(r) EXCEPT !.refs = @ + 1] ELSE GlobalTaken(r))

\* The answer of RegisterService is not looked at: it refuses if there is such a
\* service.  If the category manager cannot be found or refuses, the service stays.
\* A refusal destroys a new loader, and leaves the global pointer behind.
RegProc ==
  \E l \in Loader, took, known \in BOOLEAN :
    /\ \/ global = NoLoader /\ Construct(l)
       \/ global = l /\ Exists(l) /\ interp # "gone" /\ UNCHANGED interp
    /\ took => service = NoLoader
    /\ loader' = [loader EXCEPT ![l] = AfterRegProc(@, took)]
    /\ global' = l
    /\ service' = IF took THEN l ELSE service
    /\ entry' = (entry \/ known)
    /\ UNCHANGED <<caller, lost, genericVars>>

\* GetLoader takes a pointer that is not null for a loader.
RegProcDead ==
  /\ global # NoLoader /\ loader[global].state = "gone"
  /\ lost' = TRUE
  /\ UNCHANGED <<loaderVars, interp, caller, genericVars>>

\* The entry stays if the category manager cannot be found.  The global pointer
\* always does.
Unreg ==
  \E known \in BOOLEAN :
    /\ entry' = (entry /\ ~known)
    /\ service' = NoLoader
    /\ loader' = [l \in Loader |-> IF l = service THEN OneLess(loader[l]) ELSE loader[l]]
    /\ UNCHANGED <<global, interp, caller, lost, genericVars>>

\* The component manager gets the loader as a service.
GetService ==
  \E l \in Loader :
    /\ service = l /\ loader[l].clients < MaxClients
    /\ loader' = [loader EXCEPT ![l].refs = @ + 1, ![l].clients = @ + 1]
    /\ UNCHANGED <<global, service, entry, interp, caller, lost, genericVars>>

\* There is none: it constructs one with the generic constructor.  It is not the
\* global one.
NewService ==
  \E l \in Loader :
    /\ service = NoLoader /\ Construct(l)
    /\ loader' = [loader EXCEPT ![l] = [state |-> "new", refs |-> 2, clients |-> 1]]
    /\ service' = l
    /\ UNCHANGED <<global, entry, caller, lost, genericVars>>

\* nsIComponentLoader::Init makes the loader's tables.
InitLoader ==
  \E l \in Loader :
    /\ loader[l].state = "new" /\ loader[l].clients > 0
    /\ loader' = [loader EXCEPT ![l].state = "ready"]
    /\ UNCHANGED <<global, service, entry, interp, caller, lost, genericVars>>

ClientGone(r) == OneLess([r EXCEPT !.clients = @ - 1])

\* The client that runs a registration keeps the loader until it is over.
ReleaseLoader ==
  \E l \in Loader :
    /\ loader[l].clients > One(caller = l)
    /\ loader' = [loader EXCEPT ![l] = ClientGone(@)]
    /\ UNCHANGED <<global, service, entry, interp, caller, lost, genericVars>>

\* A client has a module register its classes.
StartRegistration ==
  \E l \in Loader :
    /\ loader[l].state = "ready" /\ loader[l].clients > 0 /\ interp # "gone"
    /\ caller = NoLoader
    /\ RegisterSelf
    /\ caller' = IF todo' = <<>> THEN NoLoader ELSE l
    /\ UNCHANGED <<loaderVars, interp, lost>>

RegistrationGoesOn ==
  /\ interp # "gone"
  /\ RegisterClass \/ NoRegistrar
  /\ caller' = IF todo' = <<>> THEN NoLoader ELSE caller
  /\ UNCHANGED <<loaderVars, interp, lost>>

\* VP_ShutdownPerl, registered with atexit by the loader that started Perl.  A
\* host's interpreter is left to the host.
Exit ==
  /\ interp = "own" /\ interp' = "gone"
  /\ UNCHANGED <<loaderVars, caller, lost, genericVars>>

\* The process has ended, or crashed.
Ended == (lost \/ interp = "gone") /\ UNCHANGED vars

Next ==
  \/ /\ ~lost
     /\ \/ RegProc \/ RegProcDead \/ Unreg
        \/ GetService \/ NewService \/ InitLoader \/ ReleaseLoader
        \/ StartRegistration \/ RegistrationGoesOn
        \/ Exit
  \/ Ended

Spec == Init /\ [][Next]_vars

-----------------------------------------------------------------------------
(* Properties.                                                             *)

\* A loader lives exactly as long as a client or the service manager has it, and a
\* registration never outlives its loader: of all that can reach a loader, only the
\* global pointer may point to a dead one.
LoadersHaveHolders ==
  /\ \A l \in Loader :
       /\ loader[l].refs = loader[l].clients + One(service = l)
       /\ Exists(l) <=> loader[l].refs > 0
  /\ caller # NoLoader => Exists(caller)

=============================================================================
