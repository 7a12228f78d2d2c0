---------------------------- MODULE LoaderPromise ---------------------------
(***************************************************************************)
(* What the component loader promises the component manager, without       *)
(* files, caches, Perl or re-entered calls: a class becomes available only *)
(* by its own component's registration, every deferral is owed until that  *)
(* component's registration has ended, and only the end of the process     *)
(* cancels what is owed.                                                   *)
(***************************************************************************)
EXTENDS Naturals

CONSTANT Loc   \* the components, each with its class

VARIABLES
  available,   \* the classes that are registered
  owed         \* owed[l]: registrations of l put off and not yet retried

promise == <<available, owed>>

PromiseTypeOK ==
  /\ available \subseteq Loc
  /\ owed \in [Loc -> Nat]

PromiseInit == available = {} /\ owed = [l \in Loc |-> 0]

\* A registration of l ends: a first one, or one that was owed.
Pays(l) == owed[l] > 0 /\ owed' = [owed EXCEPT ![l] = @ - 1]

Registers(l) ==
  /\ available' = available \cup {l}
  /\ UNCHANGED owed \/ Pays(l)

GivesUp(l) == Pays(l) /\ UNCHANGED available

Defers(l) ==
  /\ owed' = [owed EXCEPT ![l] = @ + 1]
  /\ UNCHANGED available

Unregisters(l) ==
  /\ available' = available \ {l}
  /\ UNCHANGED owed

ProcessExits ==
  /\ owed' = [l \in Loc |-> 0]
  /\ UNCHANGED available

PromiseNext ==
  \/ \E l \in Loc : Registers(l) \/ GivesUp(l) \/ Defers(l) \/ Unregisters(l)
  \/ ProcessExits

PromiseSpec == PromiseInit /\ [][PromiseNext]_promise

=============================================================================
