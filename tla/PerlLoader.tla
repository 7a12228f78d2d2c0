----------------------------- MODULE PerlLoader -----------------------------
(***************************************************************************)
(* The Perl component loader, plPerlComponentLoader: how it finds the      *)
(* component files of a directory, evaluates each one into the Perl        *)
(* interpreter, has the module it gets back register its class, keeps the  *)
(* modules that ask to be registered later, and hands out class objects.   *)
(*                                                                         *)
(* Everything runs on one thread, so the state of the running calls is a   *)
(* stack of frames, the last one on top.  Whenever Perl code runs (a file  *)
(* being evaluated, Name::GetModule, registerSelf, unregisterSelf,         *)
(* getClassObject) it may call back into the loader through the component  *)
(* manager, and other processes may change the files.                      *)
(***************************************************************************)
EXTENDS Naturals, Sequences, FiniteSets, SequencesExt

CONSTANTS
  Loc,          \* registry locations of the files of the components directory
  Name,         \* keys of m_Modules
  ModuleName,   \* ModuleName[l]: the leaf name of l without its extension
  PerlFile,     \* the locations whose leaf name ends in .pm or .pl
  Broken,       \* the pairs <<location, stamp>> of contents whose evaluation
                \* leaves an error in $@: they do not compile, or die
  Reentrant,    \* the loader operations that Perl code may call back
  MaxStamp,     \* bound: stamps (modification time and size) a file can have
  MaxNested,    \* bound: calls back into the loader during one outermost call
  MaxDeferred,  \* bound: length of m_DeferredComponents
  None          \* a null pointer, an empty hash table slot

Stamp == 0 .. MaxStamp      \* 0: LL_ZERO in an entry; no such file on disk

Op == {"scan", "autoreg", "deferred", "factory", "unreg"}
At == {"start", "loop", "load", "eval", "getmodule", "call"}

Rv == {"OK", "AGAIN", "FAILURE", "NOT_REGISTERED", "ILLEGAL_VALUE", "NO_CLASS"}

\* plPMFile: was the file good when the entry was made, and its last stamp.
PMFile == [ok : BOOLEAN, stamp : Stamp]

\* What a call returns to the component manager.
Return == [op : Op, loc : Loc \cup {None}, rv : Rv]

ASSUME LoaderAssumption ==
  /\ MaxStamp \in Nat /\ MaxNested \in Nat /\ MaxDeferred \in Nat
  /\ ModuleName \in [Loc -> Name]
  /\ PerlFile \subseteq Loc
  /\ Broken \subseteq Loc \X Stamp
  /\ Reentrant \subseteq Op
  /\ None \notin Loc /\ None \notin PMFile /\ None \notin Return

\* The steps of a call at which Perl code is running.
PerlStep == {"eval", "getmodule", "call"}

VARIABLES
  disk,      \* disk[l]: the stamp of the file at l
  pmStore,   \* m_PmStore: location -> plPMFile
  modules,   \* m_Modules: name -> plPerlModule, known by the file it came from
  deferred,  \* m_DeferredComponents
  registry,  \* the component manager: class -> location it is registered at;
             \* the class of the file l is called l
  errsv,     \* Perl's $@ is true
  stack,     \* the loader calls in progress
  nested,    \* calls back made during the outermost call
  returned   \* what the last loader call returned

vars == <<disk, pmStore, modules, deferred, registry, errsv, stack, nested,
          returned>>

FrameType == [op : Op, at : At, loc : Loc \cup {None}, cls : Loc \cup {None},
              idx : Nat, todo : SUBSET Loc, ver : Stamp,
              mod : Loc \cup {None}]

TypeOK ==
  /\ disk \in [Loc -> Stamp]
  /\ pmStore \in [Loc -> PMFile \cup {None}]
  /\ modules \in [Name -> Loc \cup {None}]
  /\ deferred \in Seq(Loc)
  /\ registry \in [Loc -> Loc \cup {None}]
  /\ errsv \in BOOLEAN
  /\ stack \in Seq(FrameType)
  /\ nested \in Nat
  /\ returned \in Return \cup {None}

Init ==
  /\ disk \in [Loc -> Stamp]
  /\ pmStore = [l \in Loc |-> None]
  /\ modules = [n \in Name |-> None]
  /\ deferred = <<>>
  /\ registry = [c \in Loc |-> None]
  /\ errsv = FALSE
  /\ stack = <<>>
  /\ nested = 0
  /\ returned = None

-----------------------------------------------------------------------------
(* The stack of calls.                                                     *)

Running == stack # <<>>

Top == stack[Len(stack)]

Frame(op, at) ==
  [op |-> op, at |-> at, loc |-> None, cls |-> None, idx |-> 0, todo |-> {},
   ver |-> 0, mod |-> None]

\* The host calls when no call is in progress, Perl code while it runs.
MayCall(op) ==
  IF Running THEN Top.at \in PerlStep /\ op \in Reentrant /\ nested < MaxNested
             ELSE TRUE

Call(f) ==
  /\ MayCall(f.op)
  /\ stack' = Append(stack, f)
  /\ nested' = IF Running THEN nested + 1 ELSE nested
  /\ returned' = None

Become(f) ==
  /\ stack' = [stack EXCEPT ![Len(stack)] = f]
  /\ UNCHANGED <<nested, returned>>

ReturnFrom(rv) ==
  /\ stack' = Front(stack)
  /\ nested' = IF Len(stack) = 1 THEN 0 ELSE nested
  /\ returned' = [op |-> Top.op, loc |-> Top.loc, rv |-> rv]

-----------------------------------------------------------------------------
(* The store of file entries.                                              *)

\* plPMFile::Init runs once, in the constructor: the status never changes.
NewPMFile(l) == [ok |-> disk[l] # 0, stamp |-> 0]

\* The entry CreateModule finds or makes.
Entry(l) == IF pmStore[l] = None THEN NewPMFile(l) ELSE pmStore[l]

CreateModule(l) == pmStore' = [pmStore EXCEPT ![l] = Entry(l)]

\* Mutant: bad files are not told from good ones.
AnyStatus(l) == TRUE

GetStatusOK(l) == Entry(l).ok

\* A file that cannot be examined counts as changed.
HasChanged(l) == disk[l] = 0 \/ disk[l] # Entry(l).stamp

\* Sync keeps the old stamp when the file is gone.
Sync(l) ==
  IF disk[l] = 0 THEN UNCHANGED pmStore
                 ELSE pmStore' = [pmStore EXCEPT ![l] = [@ EXCEPT !.stamp = disk[l]]]

-----------------------------------------------------------------------------
(* m_DeferredComponents, m_Modules and the loop index.                     *)

\* Mutant: newly deferred components go to the front.
InsertElementFirst(l) == <<l>> \o deferred

AppendElement(l) == Append(deferred, l)

\* Mutant: the last element is removed instead of the one just registered.
RemoveLastElement(i) == IF deferred = <<>> THEN deferred ELSE Front(deferred)

\* nsVoidArray ignores an index past the end.
RemoveElementAt(i) ==
  IF i \in 1 .. Len(deferred) THEN RemoveAt(deferred, i) ELSE deferred

\* Mutant: i is adjusted for the removal as in an upward loop.
SkipAfterRemoval(rv) == IF rv = "AGAIN" THEN Top.idx - 1 ELSE Top.idx - 2

\* Mutant: a component that asks to be deferred again is tried again at once.
RetryAgain(rv) == IF rv = "AGAIN" THEN Top.idx ELSE Top.idx - 1

NextIndex(rv) == Top.idx - 1

\* Mutant: the key of m_Modules does not tell files apart.
AnyModule(l) ==
  IF \E n \in Name : modules[n] # None
    THEN modules[CHOOSE n \in Name : modules[n] # None] ELSE None

CachedModule(l) == modules[ModuleName[l]]

-----------------------------------------------------------------------------
(* The operations of nsIComponentLoader.                                   *)

\* AutoRegisterComponents: todo is what the directory enumerator will yield.
AutoRegisterComponents ==
  /\ Call([Frame("scan", "loop") EXCEPT !.todo = {l \in Loc : disk[l] # 0}])
  /\ UNCHANGED <<disk, pmStore, modules, deferred, registry, errsv>>

AutoRegisterComponent(l) ==
  /\ Call([Frame("autoreg", "start") EXCEPT !.loc = l])
  /\ UNCHANGED <<disk, pmStore, modules, deferred, registry, errsv>>

RegisterDeferredComponents ==
  /\ Call([Frame("deferred", "loop") EXCEPT !.idx = Len(deferred)])
  /\ UNCHANGED <<disk, pmStore, modules, deferred, registry, errsv>>

\* The component manager asks for a class it has a registration of.
GetFactory(c) ==
  /\ registry[c] # None
  /\ Call([Frame("factory", "load") EXCEPT !.loc = registry[c], !.cls = c])
  /\ CreateModule(registry[c])
  /\ UNCHANGED <<disk, modules, deferred, registry, errsv>>

AutoUnregisterComponent(l) ==
  /\ Call([Frame("unreg", "load") EXCEPT !.loc = l])
  /\ CreateModule(l)
  /\ UNCHANGED <<disk, modules, deferred, registry, errsv>>

\* One entry of the directory; the result of its registration is ignored.
ScanNext ==
  /\ Running /\ Top.op = "scan"
  /\ \E l \in Top.todo :
       stack' = Append([stack EXCEPT ![Len(stack)].todo = @ \ {l}],
                       [Frame("autoreg", "start") EXCEPT !.loc = l])
  /\ UNCHANGED <<disk, pmStore, modules, deferred, registry, errsv, nested,
                 returned>>

\* An entry that IsDirectory fails on, because it is gone by now.
ScanSkip ==
  /\ Running /\ Top.op = "scan"
  /\ \E l \in Top.todo :
       disk[l] = 0 /\ Become([Top EXCEPT !.todo = @ \ {l}])
  /\ UNCHANGED <<disk, pmStore, modules, deferred, registry, errsv>>

ScanDone ==
  /\ Running /\ Top.op = "scan" /\ Top.todo = {}
  /\ ReturnFrom("OK")
  /\ UNCHANGED <<disk, pmStore, modules, deferred, registry, errsv>>

\* AutoRegisterComponent up to its call of SelfRegisterModule.
StartRegistration ==
  /\ Running /\ Top.at = "start"
  /\ \/ /\ Top.loc \notin PerlFile
        /\ ReturnFrom("OK")
        /\ UNCHANGED pmStore
     \/ /\ Top.loc \in PerlFile
        /\ CreateModule(Top.loc)
        /\ \/ ~GetStatusOK(Top.loc) /\ ReturnFrom("FAILURE")
           \/ GetStatusOK(Top.loc) /\ ~HasChanged(Top.loc) /\ ReturnFrom("OK")
           \/ /\ GetStatusOK(Top.loc) /\ HasChanged(Top.loc)
              /\ Become([Top EXCEPT !.at = "load"])
  /\ UNCHANGED <<disk, modules, deferred, registry, errsv>>

\* One turn of the loop of RegisterDeferredComponents.
DeferredNext ==
  /\ Running /\ Top.op = "deferred" /\ Top.at = "loop"
  /\ Top.idx \in 1 .. Len(deferred)
  /\ Become([Top EXCEPT !.at = "load", !.loc = deferred[Top.idx]])
  /\ UNCHANGED <<disk, pmStore, modules, deferred, registry, errsv>>

DeferredDone ==
  /\ Running /\ Top.op = "deferred" /\ Top.at = "loop" /\ Top.idx = 0
  /\ ReturnFrom("OK")
  /\ UNCHANGED <<disk, pmStore, modules, deferred, registry, errsv>>

-----------------------------------------------------------------------------
(* SelfRegisterModule, SelfUnregisterModule and GetModule.                 *)

\* What follows SelfRegisterModule in its two callers.
SelfRegisterReturns(rv) ==
  /\ IF rv = "AGAIN" THEN UNCHANGED pmStore ELSE Sync(Top.loc)
  /\ \/ /\ Top.op = "autoreg"
        /\ deferred' = IF rv = "AGAIN" THEN AppendElement(Top.loc) ELSE deferred
        /\ ReturnFrom(IF rv \in {"OK", "AGAIN"} THEN "OK" ELSE "NOT_REGISTERED")
     \/ /\ Top.op = "deferred"
        /\ deferred' = IF rv = "AGAIN" THEN deferred ELSE RemoveElementAt(Top.idx)
        /\ Become([Frame("deferred", "loop") EXCEPT !.idx = NextIndex(rv)])

\* GetModule fails with rv; SelfRegisterModule treats that as an outcome.
GetModuleFails(rv) ==
  \/ Top.op \in {"autoreg", "deferred"} /\ SelfRegisterReturns(rv)
  \/ /\ Top.op \in {"factory", "unreg"}
     /\ ReturnFrom(rv)
     /\ UNCHANGED <<pmStore, deferred>>

\* GetModule up to the eval: the cache first, then the file.  A file that is
\* there may still not open, or be empty.
GetModule ==
  /\ Running /\ Top.at = "load"
  /\ LET cached == CachedModule(Top.loc)
     IN  \/ /\ cached # None
            /\ Become([Top EXCEPT !.at = "call", !.mod = cached])
            /\ UNCHANGED <<pmStore, deferred>>
         \/ /\ cached = None
            /\ GetModuleFails("FAILURE")
         \/ /\ cached = None /\ disk[Top.loc] # 0
            /\ Become([Top EXCEPT !.at = "eval", !.ver = disk[Top.loc]])
            /\ UNCHANGED <<pmStore, deferred>>
  /\ UNCHANGED <<disk, modules, registry, errsv>>

\* perl_eval_sv with G_KEEPERR sets $@ on an error and does not clear it
\* otherwise; an eval block inside the code that succeeds does clear it.
EvalReturns ==
  /\ Running /\ Top.at = "eval"
  /\ errsv' \in IF <<Top.loc, Top.ver>> \in Broken THEN {TRUE} ELSE {errsv, FALSE}
  /\ \/ errsv' /\ GetModuleFails("ILLEGAL_VALUE")
     \/ /\ ~errsv'
        /\ Become([Top EXCEPT !.at = "getmodule"])
        /\ UNCHANGED <<pmStore, deferred>>
  /\ UNCHANGED <<disk, modules, registry>>

\* Name::GetModule returns a module, or is missing, dies or returns no object.
GetModuleReturns ==
  /\ Running /\ Top.at = "getmodule"
  /\ \/ /\ errsv' = FALSE
        /\ modules' = [modules EXCEPT ![ModuleName[Top.loc]] = Top.loc]
        /\ Become([Top EXCEPT !.at = "call", !.mod = Top.loc])
        /\ UNCHANGED <<pmStore, deferred>>
     \/ /\ errsv' \in BOOLEAN
        /\ GetModuleFails("FAILURE")
        /\ UNCHANGED modules
  /\ UNCHANGED <<disk, registry>>

\* registerSelf returns: the class is registered when it says so itself; when
\* it dies the result is whatever $Components::returnCode happened to hold.
RegisterSelfReturns ==
  /\ Running /\ Top.at = "call" /\ Top.op \in {"autoreg", "deferred"}
  /\ \E rv \in {"OK", "AGAIN", "FAILURE"} :
       /\ rv = "AGAIN" /\ Top.op = "autoreg" => Len(deferred) < MaxDeferred
       /\ errsv' \in BOOLEAN
       /\ registry' = IF rv = "OK" /\ ~errsv'
                        THEN [registry EXCEPT ![Top.mod] = Top.loc] ELSE registry
       /\ SelfRegisterReturns(rv)
  /\ UNCHANGED <<disk, modules>>

UnregisterSelfReturns ==
  /\ Running /\ Top.at = "call" /\ Top.op = "unreg"
  /\ errsv' \in BOOLEAN
  /\ \/ /\ ~errsv'
        /\ registry' = [registry EXCEPT ![Top.mod] = IF @ = Top.loc THEN None ELSE @]
        /\ ReturnFrom("OK")
     \/ /\ UNCHANGED registry
        /\ ReturnFrom("FAILURE")
  /\ UNCHANGED <<disk, pmStore, modules, deferred>>

\* getClassObject knows the class of its own module and no other.
GetClassObjectReturns ==
  /\ Running /\ Top.at = "call" /\ Top.op = "factory"
  /\ errsv' \in BOOLEAN
  /\ \/ ~errsv' /\ Top.mod = Top.cls /\ ReturnFrom("OK")
     \/ ~errsv' /\ Top.mod # Top.cls /\ ReturnFrom("NO_CLASS")
     \/ errsv' /\ ReturnFrom("FAILURE")
  /\ UNCHANGED <<disk, pmStore, modules, deferred, registry>>

-----------------------------------------------------------------------------
(* The world around the loader.                                            *)

\* Some other program replaces, restores or removes the file at l.
WriteFile(l) ==
  /\ \E s \in Stamp \ {disk[l]} : disk' = [disk EXCEPT ![l] = s]
  /\ UNCHANGED <<pmStore, modules, deferred, registry, errsv, stack, nested,
                 returned>>

\* Methods of Perl components called by the host, and a host that is itself a
\* Perl script, leave $@ as their last eval block or call left it.
OtherPerlCode ==
  /\ ~Running
  /\ errsv' = ~errsv
  /\ UNCHANGED <<disk, pmStore, modules, deferred, registry, stack, nested,
                 returned>>

\* A new process knows only the files and the component manager's registry.
ProcessEnds ==
  /\ pmStore' = [l \in Loc |-> None]
  /\ modules' = [n \in Name |-> None]
  /\ deferred' = <<>>
  /\ errsv' = FALSE
  /\ stack' = <<>>
  /\ nested' = 0
  /\ returned' = None
  /\ UNCHANGED <<disk, registry>>

Restart == ProcessEnds

\* m_DeferredComponents[i] past the end is null and is dereferenced.
NullElement ==
  /\ Running /\ Top.op = "deferred" /\ Top.at = "loop"
  /\ Top.idx > Len(deferred)

Crash == NullElement /\ ProcessEnds

\* The loader's own steps and the return of the Perl code it called.
Step ==
  \/ ScanNext \/ ScanSkip \/ ScanDone
  \/ StartRegistration
  \/ DeferredNext \/ DeferredDone
  \/ GetModule \/ EvalReturns \/ GetModuleReturns
  \/ RegisterSelfReturns \/ UnregisterSelfReturns \/ GetClassObjectReturns
  \/ Crash

Next ==
  \/ Step
  \/ AutoRegisterComponents
  \/ RegisterDeferredComponents
  \/ \E l \in Loc :
       \/ AutoRegisterComponent(l)
       \/ AutoUnregisterComponent(l)
       \/ GetFactory(l)
       \/ WriteFile(l)
  \/ OtherPerlCode
  \/ Restart

Spec == Init /\ [][Next]_vars

\* Perl code that the loader calls returns, and the loader goes on.
FairSpec == Spec /\ WF_vars(Step)

-----------------------------------------------------------------------------
(* Properties.                                                             *)

Deferring(f) == f.op = "deferred" /\ f.at # "loop"

\* Every file entry in use is in the store, so that the raw plPMFile pointers
\* held by running calls and by m_DeferredComponents stay valid; an entry whose
\* file was bad when it was made is never stamped and never deferred.
StoreConsistent ==
  /\ \A k \in 1 .. Len(stack) :
       stack[k].at \notin {"start", "loop"} => pmStore[stack[k].loc] # None
  /\ \A i \in 1 .. Len(deferred) : pmStore[deferred[i]] # None
  /\ \A l \in Loc : pmStore[l] # None /\ ~pmStore[l].ok =>
       /\ pmStore[l].stamp = 0
       /\ \A i \in 1 .. Len(deferred) : deferred[i] # l

\* While RegisterDeferredComponents waits for registerSelf of element i, that
\* element is still element i, whatever the Perl code deferred meanwhile; and
\* the loop never looks past the end.  (RemoveElementAt(i) depends on it.)
DeferredInProgress ==
  \A k \in 1 .. Len(stack) : stack[k].op = "deferred" =>
    /\ stack[k].idx \in 0 .. Len(deferred)
    /\ Deferring(stack[k]) =>
         /\ stack[k].idx > 0
         /\ deferred[stack[k].idx] = stack[k].loc

\* A component leaves m_DeferredComponents only when its own deferred
\* registration has ended, or with the process.
NoPendingLost ==
  [][\A l \in Loc :
       (\E i \in 1 .. Len(deferred) : deferred[i] = l)
         => \/ \E i \in 1 .. Len(deferred') : deferred'[i] = l
            \/ Running /\ Deferring(Top) /\ Top.loc = l
            \/ ProcessEnds]_deferred

\* The module asked to register, unregister or make a class object for a
\* location is the one the file at that location defines, and a class object
\* is asked of the module that has the class: across files with the same cache
\* key, re-entered calls, and registrations made by an earlier process.
OwnModuleCalled ==
  \A k \in 1 .. Len(stack) : stack[k].at = "call" =>
    /\ stack[k].mod = stack[k].loc
    /\ stack[k].op = "factory" => stack[k].mod = stack[k].cls

\* "any syntax errors are caught at runtime ... an application using XPCOM will
\* suffer no ill effects" (plPerlXPCOM_Base.h): a file is rejected as illegal
\* only if an evaluation of its own went wrong.
NoIllEffects ==
  returned # None /\ returned.rv = "ILLEGAL_VALUE"
    => \E s \in Stamp : <<returned.loc, s>> \in Broken

\* "Do Autoreg to make sure our component is registered" (nsTestPerlSample.cpp):
\* a component whose auto-registration returns NS_OK is registered or waits to be.
AutoregEnsures ==
  returned # None /\ returned.op = "autoreg" /\ returned.rv = "OK"
                  /\ returned.loc \in PerlFile
    => \/ registry[returned.loc] # None
       \/ \E i \in 1 .. Len(deferred) : deferred[i] = returned.loc

\* Every outermost call ends: the scan and the downward loop terminate although
\* the modules they call may call back and lengthen m_DeferredComponents.
CallsTerminate == Running ~> ~Running

\* Where a call stands in its function.
Place == [loop |-> 0, start |-> 1, load |-> 2, eval |-> 3, getmodule |-> 4, call |-> 5]

\* A call that was at f is nearer to its end at g: fewer files are left to scan or
\* fewer elements to register, or it is further down in the same turn.
Nearer(g, f) ==
  /\ g.op = f.op
  /\ \/ f.op = "scan" /\ g.todo \subseteq f.todo /\ g.todo # f.todo
     \/ f.op = "deferred" /\ g.idx < f.idx
     \/ f.op # "scan" /\ g.idx = f.idx /\ Place[g.at] > Place[f.at]

\* The call on top ends or gets nearer to its end; a scan may call
\* AutoRegisterComponent as it does.
Advances ==
  LET n == Len(stack)
  IN  \/ stack' = <<>>
      \/ stack' = Front(stack)
      \/ /\ Len(stack') \in {n, n + 1}
         /\ \A k \in 1 .. (n - 1) : stack'[k] = stack[k]
         /\ Nearer(stack'[n], Top)
         /\ Len(stack') = n + 1 => Top.op = "scan" /\ stack'[n + 1].op = "autoreg"

\* Perl code calls the loader, which it may do MaxNested times during a call.
CallsBack ==
  /\ Top.at \in PerlStep
  /\ Len(stack') = Len(stack) + 1
  /\ \A k \in 1 .. Len(stack) : stack'[k] = stack[k]
  /\ nested' = nested + 1 /\ nested' <= MaxNested

\* Whatever the modules do to m_DeferredComponents and to the files, no step of the
\* loader goes back or stays where it is: each brings the call on top nearer to its
\* end and leaves those below alone.  So a call that Perl code does not prolong by
\* calling back ends, whatever is deferred meanwhile.
StepsAdvance ==
  [][Running => \/ Advances
                \/ CallsBack
                \/ disk' # disk /\ UNCHANGED stack]_vars

=============================================================================
