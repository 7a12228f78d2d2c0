--------------------------- MODULE GenericModule ---------------------------
(***************************************************************************)
(* XPCOM::GenericModule: the Perl half of a component file with several    *)
(* classes.  registerSelf registers them one after the other; each         *)
(* registration is a call to the component manager that may run any code,  *)
(* so other calls come between.                                            *)
(***************************************************************************)
EXTENDS Integers, Sequences

CONSTANTS
  Class,          \* class IDs that native code may ask for
  MyComponents    \* the classes of the module, in their order

ASSUME GenericModuleAssumption == MyComponents \in Seq(Class)

VARIABLES
  todo,       \* the classes that a running registerSelf has still to register
  onRecord,   \* the component manager's classes of this module
  told        \* what the last registerSelf answered

genericVars == <<todo, onRecord, told>>

Result == {"OK", "FAILED"}

OwnClass == {MyComponents[k] : k \in DOMAIN MyComponents}

GenericTypeOK ==
  /\ todo \in Seq(OwnClass)
  /\ onRecord \subseteq Class
  /\ told \in {"none"} \cup Result

GenericInit == todo = <<>> /\ onRecord = {} /\ told = "none"

-----------------------------------------------------------------------------

\* The return code is set to success first, which is the answer if there are no
\* classes.
RegisterSelf ==
  /\ todo = <<>>
  /\ todo' = MyComponents
  /\ told' = IF MyComponents = <<>> THEN "OK" ELSE "none"
  /\ UNCHANGED onRecord

\* Mutant: the return code is the first class's.
FirstAnswer(r) == IF todo = MyComponents THEN r ELSE told

\* Every registration stores its result over that of the one before.
Answer(r) == IF Len(todo) = 1 THEN r ELSE "none"

\* A failure is printed, and the loop goes on.
RegisterClass ==
  /\ todo # <<>>
  /\ \E r \in Result :
       /\ onRecord' = IF r = "OK" THEN onRecord \cup {Head(todo)} ELSE onRecord
       /\ told' = Answer(r)
  /\ todo' = Tail(todo)

\* Without nsIComponentManagerObsolete a method of undef is called: registerSelf
\* dies, with the result of the query as its return code.
NoRegistrar ==
  /\ todo # <<>>
  /\ todo' = <<>> /\ told' = "FAILED"
  /\ UNCHANGED onRecord

-----------------------------------------------------------------------------
(* Properties. *)

\* registerSelf succeeds only if the last class has been registered; classes
\* before it may have failed without anybody but the terminal being told.
LastClassDecides ==
  told = "OK" /\ MyComponents # <<>> => MyComponents[Len(MyComponents)] \in onRecord

=============================================================================
