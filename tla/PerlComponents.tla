--------------------------- MODULE PerlComponents ---------------------------
(***************************************************************************)
(* Who owns what between native code, the C++ wrappers (plPerlModule,      *)
(* plPerlFactory, plPerlXPTCStub, all of them plPerlBase), the loaders'    *)
(* tables of modules, and Perl objects.                                    *)
(*                                                                         *)
(* An item is one value that Perl code returned or passed, with the        *)
(* wrapper made around it, if any.  The wrapper has native references; the *)
(* value is a scalar that refers to a Perl object.  A native function that *)
(* has received a value owns a reference to it until it returns.  An item  *)
(* of which nothing is left in memory becomes unused again.                *)
(*                                                                         *)
(* Modules and factories are XPCOM::GenericModule and GenericFactory, or   *)
(* written by hand like them.                                              *)
(***************************************************************************)
EXTENDS Integers, FiniteSets, PerlScalars

CONSTANTS
  Class,       \* the classes of the module
  Unknown,     \* class IDs that it does not know
  Item,        \* bound: values in memory
  MaxClients   \* bound: references that native clients hold to one wrapper

ASSUME PerlComponentsAssumption ==
  Class \cap Unknown = {} /\ Class # {} /\ MaxClients \in Nat

VARIABLES
  item,      \* values and their wrappers
  clients,   \* references that native code holds to each wrapper
  cached,    \* wrappers in loaders' tables of modules
  pending,   \* wrappers on which CreateInstance is about to call QueryInterface
  running,   \* the Perl interpreter runs
  lost       \* a scalar has been freed without interpreter

vars == <<item, clients, cached, pending, running, lost>>

\* native: the wrapper is a plPerlModule or plPerlFactory, which answers queries
\* itself; none: no wrapper was made.
Kinds == {"unused", "none", "native", "stub"}

\* What the scalar refers to.
Objects == {"module", "factory", "instance", "nothing"}

\* Where the value comes from.
Origins == {"GetModule", "GetClassObject", "CreateInstance", "QueryInterface",
            "WrapObject", "constructor", "failure"}

\* class and asked: the class of the object, and the one native code asked for.
ItemRecord ==
  [kind : Kinds, by : Origins, object : Objects, class : Class, asked : Class,
   refs : Nat, scalar : Scalar, var : BOOLEAN]

TypeOK ==
  /\ item \in [Item -> ItemRecord]
  /\ clients \in [Item -> Nat]
  /\ cached \subseteq Item /\ pending \subseteq Item
  /\ running \in BOOLEAN /\ lost \in BOOLEAN

AnyClass == CHOOSE c \in Class : TRUE

UnusedItem ==
  [kind |-> "unused", by |-> "constructor", object |-> "nothing", class |-> AnyClass,
   asked |-> AnyClass, refs |-> 0, scalar |-> NoScalar, var |-> FALSE]

Init ==
  /\ item = [i \in Item |-> UnusedItem]
  /\ clients = [i \in Item |-> 0]
  /\ cached = {} /\ pending = {}
  /\ running = TRUE /\ lost = FALSE

-----------------------------------------------------------------------------
(* Values and wrappers. *)

Unused(i) == item[i].kind = "unused"

\* A value that a method returned, after FREETMPS: a T_VOID output is a reference
\* of the caller's own.
Returned == Own(NewScalar)

\* The caller gives up its reference, or returns without doing so.
GivenUp(s)   == Disown(Dec(s))
Forgotten(s) == Disown(s)

\* plPerlBase keeps the scalar itself, not a copy, and counts a reference.
Wrapped(s) == Own(Inc(s))

Value(by, object, class, asked, scalar) ==
  [kind |-> "none", by |-> by, object |-> object, class |-> class, asked |-> asked,
   refs |-> 0, scalar |-> scalar, var |-> FALSE]

WrappedAs(v, kind) == [v EXCEPT !.kind = kind, !.refs = 1, !.scalar = Wrapped(@)]

\* Nothing is left of the item.
Settled(r) == IF r.refs = 0 /\ r.scalar = NoScalar THEN UnusedItem ELSE r

\* Mutant: the destructor leaves the scalar alone.
ReleasedOnly(r) == [r EXCEPT !.refs = @ - 1]

\* Mutant: the wrapper is released by its maker too.
ReleasedAgain(r) == [r EXCEPT !.refs = @ - 2]

\* A native reference is dropped; the destructor gives up the scalar.
Released(r) ==
  IF r.refs = 1 /\ r.object # "nothing"
    THEN [r EXCEPT !.refs = 0, !.scalar = GivenUp(@)]
    ELSE [r EXCEPT !.refs = @ - 1]

\* The destructor needs the interpreter.
LosesScalar(i) == ~running /\ item[i].refs = 1 /\ item[i].object # "nothing"

\* A method that fails may have returned a value: CallPerlMethod has counted a
\* reference, and its caller returns at once.
FailedValue == Value("failure", "instance", AnyClass, AnyClass, Forgotten(Returned))

\* The items f, or f with such a value.
MayLeak(f) == {f} \cup {[f EXCEPT ![k] = FailedValue] : k \in {k \in Item : Unused(k)}}

\* Native code can call the wrapper's Perl object.
Callable(i) == clients[i] > 0 /\ item[i].object # "nothing" /\ running

\* getClassObject, createInstance or QueryInterface fails.  (The other methods return
\* no value, and without a Perl object nothing is called.)
MethodFails ==
  /\ \E i \in Item : Callable(i)
  /\ item' \in MayLeak(item)
  /\ UNCHANGED <<clients, cached, pending, running, lost>>

-----------------------------------------------------------------------------
(* Modules. *)

\* Mutant: the table counts no reference of its own.
PutOnly(v) == v

\* The table counts a reference beside the client's.
Put(v) == [v EXCEPT !.refs = @ + 1]

\* The scalar is counted once by hand and once by the wrapper; it also stays mortal,
\* because the scope that GetModule opened is left open.
GetModule ==
  \E i \in Item :
    /\ running /\ Unused(i)
    /\ item' = [item EXCEPT ![i] =
         Put(WrappedAs(Value("GetModule", "module", AnyClass, AnyClass, Inc(NewMortal)), "native"))]
    /\ clients' = [clients EXCEPT ![i] = 1]
    /\ cached' = cached \cup {i}
    /\ UNCHANGED <<pending, running, lost>>

\* The temporaries of a failed load: the text, after an error, is released by hand
\* and by FREETMPS; a result that is no reference is made mortal after FREETMPS
\* has freed it.
BadTemporary == {GivenUp(Dec(NewMortal)), Mortal(GivenUp(NewMortal))}

GetModuleFails ==
  \E i \in Item :
    /\ running /\ Unused(i)
    /\ \E s \in BadTemporary :
         item' = [item EXCEPT ![i] = Value("GetModule", "nothing", AnyClass, AnyClass, s)]
    /\ UNCHANGED <<clients, cached, pending, running, lost>>

GetCachedModule ==
  \E i \in cached :
    /\ clients[i] < MaxClients
    /\ item' = [item EXCEPT ![i].refs = @ + 1]
    /\ clients' = [clients EXCEPT ![i] = @ + 1]
    /\ UNCHANGED <<cached, pending, running, lost>>

\* A loader's destructor deletes its table.
LoaderDestroyed ==
  \E i \in cached :
    /\ item' = [item EXCEPT ![i] = Settled(Released(@))]
    /\ lost' = (lost \/ LosesScalar(i))
    /\ cached' = cached \ {i}
    /\ UNCHANGED <<clients, pending, running>>

\* Mutant: any class's factory.
AnyFactory(cid) == Class

\* GenericModule returns the factory of the first class with this ID, if any.
FactoryOf(cid) == {c \in Class : c = cid}

\* "the new container takes ownership": the caller gives up its reference.
HandedOver(v) == [v EXCEPT !.scalar = GivenUp(@)]

\* A factory is made of whatever was returned.
GetClassObject ==
  \E i, j \in Item, cid \in Class \cup Unknown :
    /\ Callable(i) /\ item[i].object = "module"
    /\ Unused(j)
    /\ \E c \in FactoryOf(cid) :
         item' = [item EXCEPT ![j] =
           HandedOver(WrappedAs(Value("GetClassObject", "factory", c, cid, Returned), "native"))]
    /\ clients' = [clients EXCEPT ![j] = 1]
    /\ UNCHANGED <<cached, pending, running, lost>>

-----------------------------------------------------------------------------
(* Instances. *)

\* The object that createInstance returned gets a wrapper of the class that the
\* interface asks for; its QueryInterface is called next.
CreateInstance ==
  \E i, j \in Item, kind \in {"native", "stub"} :
    /\ Callable(i) /\ item[i].object = "factory" /\ item[i].kind = "native"
    /\ Unused(j)
    /\ item' = [item EXCEPT ![j] =
         WrappedAs(Value("CreateInstance", "instance", item[i].class, item[i].asked, Returned),
                   kind)]
    /\ pending' = pending \cup {j}
    /\ UNCHANGED <<clients, cached, running, lost>>

\* What item' can be when wrapper i has answered a query without Perl: the object
\* of a stub has refused before.
Native(i, f) == IF item[i].kind = "stub" THEN MayLeak(f) ELSE {f}

\* CreateInstance gives up the value that it has received, or keeps it for ever.
ValueGivenUp(r) == [r EXCEPT !.scalar = GivenUp(@)]
ValueKept(r)    == [r EXCEPT !.scalar = Forgotten(@)]

\* The wrapper answers the query itself.  The new reference is the client's;
\* CreateInstance releases its own, but not the one to the value.
InstanceIsWrapper ==
  \E j \in pending :
    /\ item[j].kind = "stub" => running
    /\ item' \in Native(j, [item EXCEPT ![j] = ValueKept(@)])
    /\ clients' = [clients EXCEPT ![j] = @ + 1]
    /\ pending' = pending \ {j}
    /\ UNCHANGED <<cached, running, lost>>

\* What Perl's QueryInterface returned for item i, in a wrapper of its own.
Queried(i, asked, kind) ==
  HandedOver(WrappedAs(Value("QueryInterface", "instance", item[i].class, asked, Returned), kind))

InstanceIsQueried ==
  \E j \in pending, k \in Item :
    /\ item[j].kind = "stub" /\ running /\ Unused(k)
    /\ item' = [item EXCEPT ![j] = ValueKept(Released(@)),
                            ![k] = Queried(j, item[j].asked, "stub")]
    /\ clients' = [clients EXCEPT ![k] = 1]
    /\ pending' = pending \ {j}
    /\ UNCHANGED <<cached, running, lost>>

\* The query fails, and CreateInstance gives up the value.
InstanceRefused ==
  \E j \in pending :
    /\ item[j].kind = "stub" /\ running
    /\ item' \in MayLeak([item EXCEPT ![j] =
                            Settled(ValueGivenUp(Released(@)))])
    /\ pending' = pending \ {j}
    /\ UNCHANGED <<clients, cached, running, lost>>

\* A client's query, answered by Perl with a value, or by the wrapper with itself.
QueryInterface ==
  \E i, k \in Item, kind \in {"native", "stub"} :
    /\ Callable(i) /\ item[i].kind = "stub" /\ Unused(k)
    /\ item' = [item EXCEPT ![k] = Queried(i, item[i].class, kind)]
    /\ clients' = [clients EXCEPT ![k] = 1]
    /\ UNCHANGED <<cached, pending, running, lost>>

QueryNative ==
  \E i \in Item :
    /\ clients[i] \in 1 .. (MaxClients - 1)
    /\ item[i].kind = "stub" => running
    /\ item' \in Native(i, [item EXCEPT ![i].refs = @ + 1])
    /\ clients' = [clients EXCEPT ![i] = @ + 1]
    /\ UNCHANGED <<cached, pending, running, lost>>

Release ==
  \E i \in Item :
    /\ clients[i] > 0
    /\ item' = [item EXCEPT ![i] = Settled(Released(@))]
    /\ lost' = (lost \/ LosesScalar(i))
    /\ clients' = [clients EXCEPT ![i] = @ - 1]
    /\ UNCHANGED <<cached, pending, running>>

\* The component manager constructs a plPerlModule or plPerlFactory: it has no
\* object, and every method of it fails.
Construct ==
  \E i \in Item :
    /\ Unused(i)
    /\ item' = [item EXCEPT ![i] = [UnusedItem EXCEPT !.kind = "native", !.refs = 1]]
    /\ clients' = [clients EXCEPT ![i] = 1]
    /\ UNCHANGED <<cached, pending, running, lost>>

-----------------------------------------------------------------------------
(* Objects that Perl code wraps. *)

\* Components::WrapObject is given a variable.
WrapObject ==
  \E i \in Item, c \in Class, kind \in {"native", "stub"} :
    /\ running /\ Unused(i)
    /\ item' = [item EXCEPT ![i] =
         [WrappedAs(Value("WrapObject", "instance", c, c, Own(NewScalar)), kind)
            EXCEPT !.var = TRUE]]
    /\ clients' = [clients EXCEPT ![i] = 1]
    /\ UNCHANGED <<cached, pending, running, lost>>

\* The variable is assigned another object, or goes away.
Assign ==
  \E i \in Item, c \in Class :
    /\ running /\ item[i].var
    /\ item' = [item EXCEPT ![i].class = c]
    /\ UNCHANGED <<clients, cached, pending, running, lost>>

WithoutVariable(r) == [r EXCEPT !.var = FALSE, !.scalar = GivenUp(@)]

VariableGone ==
  \E i \in Item :
    /\ running /\ item[i].var
    /\ item' = [item EXCEPT ![i] = Settled(WithoutVariable(@))]
    /\ UNCHANGED <<clients, cached, pending, running, lost>>

\* VP_ShutdownPerl.
Exit ==
  /\ running /\ running' = FALSE
  /\ UNCHANGED <<item, clients, cached, pending, lost>>

\* The process has ended, or crashed.
Ended == ~running /\ UNCHANGED vars

Next ==
  \/ /\ ~lost
     /\ \/ MethodFails
        \/ GetModule \/ GetModuleFails \/ GetCachedModule \/ LoaderDestroyed \/ GetClassObject
        \/ CreateInstance \/ InstanceIsWrapper \/ InstanceIsQueried \/ InstanceRefused
        \/ QueryInterface \/ QueryNative \/ Release \/ Construct
        \/ WrapObject \/ Assign \/ VariableGone
        \/ Exit
  \/ Ended

Spec == Init /\ [][Next]_vars

-----------------------------------------------------------------------------
(* Properties.                                                             *)

One(condition) == IF condition THEN 1 ELSE 0

\* A wrapper has one reference for each holder: clients, a loader's table, and a
\* CreateInstance that has not returned.
WrappersHaveHolders ==
  \A i \in Item :
    item[i].refs = clients[i] + One(i \in cached) + One(i \in pending)

\* References to a scalar beyond its owners: the one that GetModule takes by hand,
\* the one that CreateInstance keeps when it succeeds, and that of the caller of a
\* failing method.  The temporaries of a failed load are released once too often.
Surplus(i) ==
  CASE item[i].by = "GetModule" /\ item[i].object = "module"  -> 1
    [] item[i].by = "GetModule" /\ item[i].object = "nothing" -> -1
    [] item[i].by = "CreateInstance" /\ i \notin pending      -> 1
    [] item[i].by = "failure"                                 -> 1
    [] OTHER                                                  -> 0

\* The owners of a scalar: its wrapper, Perl's variable, a CreateInstance that has
\* not returned, the scope that GetModule left open.
Owners(i) ==
  One(item[i].refs > 0) + One(item[i].var) + One(i \in pending)
    + One(item[i].by = "GetModule")

\* Each wrapper has its scalar for as long as it lives, and when the last owner is
\* gone the scalar is freed, once, except for those that Surplus names.
ScalarsHaveOwners ==
  \A i \in Item :
    /\ item[i].scalar.refs = item[i].scalar.owners + Surplus(i)
    /\ item[i].object # "nothing" => item[i].scalar.owners = Owners(i)

\* Native code that asked for a class holds objects of that class, except through a
\* wrapper that shares its scalar with a variable.
ClassServed ==
  \A i \in Item : item[i].by # "WrapObject" => item[i].class = item[i].asked

=============================================================================
