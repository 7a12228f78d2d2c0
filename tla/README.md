# plXPCOM: models, checks and proofs

plXPCOM binds Perl and XPCOM in both directions. Perl scripts use XPCOM objects
through XS functions, and XPCOM components can be written in Perl. This directory
holds TLA+ models of that code, configurations that check them with TLC, and
theorems proved with TLAPS. Paths are relative to the repository; the table
`map` of `PROJECT.json` gives the lines each definition models.

## The system

| component | state | operations | concurrency and failure |
|---|---|---|---|
| component loader (`src/plPerlComponentLoader.cpp`) | `m_PmStore`, `m_Modules`, `m_DeferredComponents`, the interpreter | scan a directory, register one file, register deferred files, unregister, make a factory | every call runs Perl code, which may call the loader again; files change on disk; a process may end at any time |
| file entries (`src/plPMFile.*`) | status, time and size of one file | `HasChanged`, `Sync` | the file vanishes or reappears between two looks |
| Perl modules (`src/plPerlModule.cpp`) | one Perl object | `registerSelf`, `unregisterSelf`, `getClassObject` | Perl dies, returns nothing, asks to be called again |
| factories and stubs (`src/plPerlFactory.cpp`, `src/plPerlXPTCStub.cpp`) | one Perl object and its interface ID | `createInstance`, `QueryInterface`, any method | as above; `QueryInterface` has a native fallback |
| calls (`src/plPerlBase.cpp`) | the Perl stack, `$Components::returnCode` | `CallPerlMethod` | calls nest in both directions, destructors run on return |
| XS bindings (`XPCOM/*.xs`, `XPCOM/XPCOM.pm`) | `$Components::returnCode` | `Classes`, `GetService`, `Constructor`, `Manager`, `WrapObject`, `QueryInterface`, any method | each of their many early exits must report and clean up |
| conversions (`perlXPUtil.*`) | none | scalars to variants and back, wrappers, method and constant lookup | partial failure, off-by-one, reference counts |
| `GenericModule`, `GenericFactory` | the list of classes | registration of several classes | one of several fails |

Everything runs on the main thread (`README` forbids Perl elsewhere), so there
are no data races. What is hard is reentrancy: the code reads a list, a table or
the return code, lets arbitrary Perl code run, and goes on with what it read.
`hazards` in `PROJECT.json` lists each place with the properties that cover it.

What makes each component correct:

* loader: a file's own module is called for it; nothing that was put off is lost
  or confused; the entries that raw pointers refer to stay; every call ends;
* return codes: Perl code finds the result of its own last call, a caller of a
  Perl method gets that method's result, success comes with an object;
* wrappers: each reference taken is dropped once;
* arguments: a value goes to the parameter it was given for, and scratch memory
  is released once on each exit;
* lookup: the method or constant found is the one named.

## Modules

| module | contents |
|---|---|
| `PerlLoader` | the loader, its file entries, and the outcomes of the Perl code it calls |
| `LoaderPromise` | what the loader promises the component manager: a registration puts a class on record or is owed |
| `PerlLoaderRefinement` | the refinement mapping from `PerlLoader` to `LoaderPromise` |
| `PerlLoaderInv` | the inductive invariants of the loader |
| `LoaderLifecycle` | construction and end of loaders, the global pointer, the service, the interpreter; with `GenericModule` |
| `GenericModule` | `registerSelf` of a module with several classes |
| `PerlComponents` | references between native clients, wrappers, Perl scalars and the table of modules |
| `ReturnCode` | `$Components::returnCode` across nested calls |
| `XPCOMCall` | Perl calls native code: one call of `callXPCOMMethod` |
| `StubCall` | native code calls Perl: one call of `plPerlXPTCStub::CallMethod` |
| `Conversions` | lookup of members and constants, numbers and arrays through Perl and back |
| `PerlScalars` | reference counts of Perl scalars, used by the three modules that keep them |
| `PerlLoaderMC`, `LoaderLifecycleMC`, `PerlComponentsMC`, `ConversionsMC` | values and symmetry for TLC |
| `SequenceLemmas` | lemmas about sequences |
| `PerlLoaderProofs`, `LoaderLifecycleProofs`, `PerlComponentsProofs`, `ReturnCodeProofs`, `XPCOMCallProofs`, `StubCallProofs`, `ConversionsProofs` | theorems about the module they are named after |

`LoaderLifecycle` extends `GenericModule`, so that a registration is a step of a
loader that others may release. The other modules meet in what they take from
each other's code as external: `PerlLoader` takes outcomes of Perl methods, which
`ReturnCode` explains; `ReturnCode` takes exits of bindings and stubs, which
`XPCOMCall` and `StubCall` spell out; these take the conversion of one value, which
`Conversions` looks into; and `PerlComponents` counts what all of them hold.

Mutants are operators that stand right before the definition they replace and
say so in their comment.

### PerlLoader

The variables `pmStore`, `modules` and `deferred` are the three members of the
class. `disk` gives each location a stamp, which stands for time and size
together; stamp 0 means there is no such file. `registry` is the component
manager's record of which class is at which location. `errsv` says whether `$@` is
true. A class is named after the one file that has it.

`stack` holds one frame per running loader call with the locals that the call
uses after Perl code has run: the file (`loc`), the loop index (`idx`), the
entries the directory enumerator still has (`todo`), the content read before the
eval (`ver`), and the module (`mod`). `at` is the point a frame waits at:
`start` and `load` are about to run C++ code; `eval`, `getmodule` and `call` are Perl
code running. Only there may Perl call the loader again (`MayCall`) or edits made
meanwhile matter, so each action is the C++ code from one such point to the next.

`SelfRegisterReturns` is the tail that both callers of `SelfRegisterModule` share.
`NullElement` is the read past the end of `m_DeferredComponents`; it ends the
process, which is what dereferencing the null pointer does.

External: the component manager (`registry`, which calls happen), the bodies of
Perl code (any outcome that the C++ code tells apart), and other programs that
write files. A descriptor and a path of one file are one location. Observer
notifications, logging and `OnRegister` and the registry information functions,
which store nothing, are left out.

### LoaderLifecycle and GenericModule

`global` is `g_plPerlComponentLoader`, `service` what the service manager has, `entry`
the line in the component-loader category. A loader is counted by `refs`;
`clients` is how many of them are native clients'. `interp` tells an interpreter
that a loader started from the host's, which `atexit` leaves alone. `caller` is the
loader whose module is registering its classes, one class per step, so that
anything else may happen between two classes. `lost` is the use of a dead loader
through the global pointer (`RegProcDead`).

### PerlComponents

An item is one value that Perl code returned or passed, with the wrapper made
around it. Its scalar has a count and a number of owners (`PerlScalars`): the count
follows each `SvREFCNT_inc`, `SvREFCNT_dec`, `newSV` and `sv_2mortal` of the code, the
owners follow who will give a reference up. `pending` are the objects on which
`CreateInstance` is about to call `QueryInterface`, where Perl code runs and other
clients' calls come between. `var` is a Perl variable that shares the scalar with the
wrapper, because `plPerlBase` keeps the scalar it was given. An item of which
nothing is left becomes unused again.

### ReturnCode

`code` is the scalar. `stack` has one frame per *body* of Perl code, *binding* (XS
function waiting for native code) and *stub* (C++ function that runs a Perl
method). A stub is `over` once its method has ended; it then reads the scalar. A
frame's `last` is a history field: what a body was last told by a binding or
stored itself. `answered` is what a stub has just returned.

Native code between a binding and a stub is external and may call any stub and
answer anything. Codes are one success and two failures: the code tells apart
success and failure only, and `QueryInterface` answers with one particular failure.
Any value a method returns, `undef` included, counts as a value, as in
`CallPerlMethod`; on a stub around `undef` every method dies. After a method that
succeeded, `CallMethod` may still fail at an array output (`ArrayFailures`), with a
code that is not the method's.

`DestructorsCall` covers objects that Perl code gives up, also those freed by
`FREETMPS` between the end of a method and the read of the scalar.

### XPCOMCall

The variables are the locals of `callXPCOMMethod`. A signature (`params`) and the
number of arguments are chosen freely. `slot` is `vars`; a slot remembers which
argument was read for it and whose memory it points to, which is all the properties
ask. Each parameter's case of the input and output switches is an action, and so is
each group of exits. Types that all three switches treat alike share a kind. Freeing
memory that is not the call's own, or twice, makes a slot `broken`. Deleting a string
object through a `void` pointer, as the code does, frees the object without its
destructor, so the slot's characters stay (`buffer`). An interface ID given as text is
looked up, which leaves a reference to the interface's description that no exit drops
(`tiface`). A slot also remembers how its value came (`by`): a null among the results
becomes `undef` although the call succeeded. `held` are the three references the
function releases at each exit; `argObj` is the object it holds beside them. While the
native method runs (`native`), `ScriptChanges` lets Perl code give up variables that
were passed (`kept`). `lost` is undefined behaviour: a null `methodInfo`, or an in/out
parameter whose value the method takes for an address.

External: the typelib compiler. It puts the result last, and it flags output
string objects as inputs (the native method gets the object to fill), which the
tests of `IsRetval` in the code deal with. `GetInterfaceList` and `FindMethod` are
declared in `perlXPUtil.h` and defined nowhere; the model lets them return what their
callers test. `ConvertSVToArray` and `ConvertArrayToSV` are declared there with a capital
and defined with a small letter; the model takes them for the same functions. A call
without a method name (`items < 2`) does nothing and is left out.

### StubCall

The variables are the locals of `CallMethod`. `params` is the signature, `x` the index
of both loops. The two counters of each loop are not variables: they are the numbers
of inputs and outputs so far, `Slot` for the first loop's test and `y` and `z` for the
second's, which is the point of several properties. `made` has, for each parameter,
the scalar, array and elements that the first loop made, `out` is `outputs` and `var`
the caller's variables. A returned value is known by its place; `Address`, `Garbage`
and `Untouched` are what is found where no value was put. `lost` is undefined
behaviour; the actions `Wild...` say where it comes from. Outputs that are string
objects count as inputs, as in the typelib. `ConvertSVToString` copies the bytes of a
string without the NUL, so a `char*` reaches the caller `Unended`; a string object of
bytes is assigned from such a copy, which reads on until memory happens to hold a zero
(`Written`, `WildResult`). Values are assumed to hold no NUL themselves.

### Conversions

Three parts that share `pc` and nothing else. A lookup goes from `GetInterfaceInfo`
through `GetMethodInfo` to `lookupConstant`, over all interfaces of the given size.
`NumberThroughPerl` sends a number out and back. An array goes to Perl element by
element, may be changed there, and comes back with any size the caller gives. `Begins`
says which names begin with which; nothing else of a name matters. An element is known
by its place; `Large` stands for a 64-bit integer that an IV of this width changes, as
`NumbersComeBack` says of single numbers, `Unended` for the bytes of a string without
their NUL. Objects whose interface cannot be told are not stored at all, so the Perl
array stays empty (`Stored`). A null wide string is taken for an empty one, which is
the string library's doing and external. `Dimensions` stands for 2^16, the range of
the `PRUint16` that holds a length. `Pow2` is how many numbers a width has, as a
recursive function: what the provers need to know of it follows from its equation.

## Checks

All runs are exhaustive for their bounds. Deadlock is checked in all of them but
`conversions`, where a case ends when its answer is there. A passing run's properties
are each shown to fail under one mutation of the model that a plausible bug would
cause (`mutants`).

| run | shows |
|---|---|
| `loader_reentrant` | with Perl code that registers, unregisters and instantiates from inside loader calls: type, entries, deferral in place, own modules, nothing pending lost, and `LoaderPromise` is implemented |
| `loader_nested_deferred` | with `RegisterDeferredComponents` re-entered: the process may crash (action `Crash` fires), entries and modules are still right, and every call ends if Perl code returns, because each step brings it nearer to its end |
| `loader_lifecycle` | loaders live as long as their holders; only the global pointer may point to a dead one; success of `registerSelf` means that the last class is on record, and no more |
| `components` | a wrapper has a reference for each holder, a scalar one for each owner apart from the named surpluses, and clients hold objects of the class they asked for |
| `returncode_own` | a body's last result is in the scalar; a stub answers with its own method's code, except that `CallMethod` may turn a success into a failure at an array |
| `returncode_destructors` | calls still nest properly with destructors that call Perl |
| `returncode_disciplined` | success comes with an object if methods keep to the rules |
| `call_method` | on every exit references are dropped, nothing is freed wrongly, failures are told, and `undef` means a failure or a null; arguments match if inputs come first; results are in order; what they and calls without outputs leave behind, exactly |
| `stub_call` | outputs reach the caller's variables, a `char*` without its end; signatures on which the loops agree are safe; which values are released twice after a success and which leak after a failure, exactly |
| `conversions` | names find the members they name; when numbers and arrays come back as they were, when native code may read them, and who owns the elements, exactly |

Two runs expect a violation, each of something the repository says:

| run | what the code does |
|---|---|
| `loader_one_name` | the module cache is keyed by the leaf name without extension, so two files share a module |
| `loader_stale_error` | an error left in `$@` makes a correct file fail, because of `G_KEEPERR` |

Departures that have no run of their own. Where a property is named, it states the
behaviour there is.

* A failed registration is stamped as done and reported as fine the next time
  (`src/plPerlComponentLoader.cpp:807`), where `tests/nsTestPerlSample.cpp:56` calls
  auto-registration "to make sure our component is registered" (`AutoregEnsures`
  would be that; `KeepsPromise` says what is true instead).
* A Perl method that dies is answered with an old code (`DiedReported` would deny
  it), where `doc/xpcom-perl.xml:166-167` calls the code a standardized means of
  reporting success or failure.
* `Components::Constructor` stores a code only for an unknown contract ID, although
  `doc/xpcom-perl.xml` calls that an error for any call (`Silent` in `ReturnCode`).
* An output before an input shifts the arguments, contrary to `doc/xpcom-perl.xml:246-248`
  and the comment at `XPCOM/nsISupports.xs:251-252`; hence the condition in
  `LeadingInputsMatch`.
* Only the last object passed is kept alive while Perl code runs, where the
  comment at `XPCOM/nsISupports.xs:415-419` speaks of the argument in general.
* An `out` string that is not the result is treated as an input and never returned.
* Copies of input strings and arrays are freed only by a successful method without
  outputs, although the code says "Free at end"; and there the characters of string
  objects stay, because line 840 deletes a `void` pointer, and so do references to
  the descriptions of interfaces whose ID was given as text (lines 345-354).
  `QuietCallsCleanUp` is the exact condition. The same `delete` leaves the
  characters of string results (700, 709; `ResultsInOrder`).
* A null `char*` or interface ID among the results is `undef` under `NS_OK`
  (`FailureIsTold`).
* `ConvertSVToString` adds no NUL to its copy (`perlXPUtil.h:454`). Native callers get
  text without an end (`ResultsReachCaller`), native methods get arrays of such texts
  (`ReadsAreSafe`), and for string objects of bytes the binding itself reads past
  the copy (hence their absence from `Supported`).
* A stub of a successful method can answer with a failure that is not the method's, if
  an array output cannot be converted (`ResultIsMethods`).
* An interface ID given by name is passed as the address of a local of a block that
  has ended; two of them usually share it.
* The comment of `makeXPObject` (`perlXPUtil.cpp:165`) says that the result is not
  mortal; line 221 makes it mortal, and the stub makes it mortal again
  (`ReleasedTwice`).
* A constant whose name begins with the name asked for is found instead of none
  (`NamesFindMembers`).
* An empty array that native code returns as a null pointer is refused.

### Bounds

Loader: two files (the least for confusion between files and for an order in the
deferred list), one or no stamp besides "gone", one call back during an outermost
call, two deferred entries, which is enough for one to be removed below, above or
at another. With `MaxNested = 1`, a call back already interrupts every
step of an outer call. The theorems remove the bounds. The
calls back differ between the two passing runs; with one call back at a time they
do not meet anyway.

Loader lifecycle: three loaders, so that one can be global, another the service, and
a third come after one that died; two clients and two classes, the least for
one of several to go or to fail.

Components: three items, which is a module, a factory or instance of it, and a value
that is queried or left behind; three references by clients to one wrapper. Symmetry
of items is sound: nothing orders them and no property names one.

Return codes: `MaxDepth` allows six frames before the last call, so a script calls
a binding that reaches a component that calls a binding that reaches another. Few
bindings suffice because those outside `Silent` differ only in what they call.

Calls in both directions: with three parameters an array, its length and another
input can be in any order, and a result can follow two others; an in/out parameter
or a string output can come before, between or after others. Parameters act on each
other only through lengths, interface IDs, `argObj` and slot numbers, that is in pairs.
Signatures over the limit of 16 are all refused at once, so one stands for all.
Up to three returned values cover too few, enough and too many.

Conversions: two methods (a getter and its setter share a name) and three constants
(two that begin with the name of a third, in any order); an IV of four bits with types
narrower than, as wide as and wider than it; arrays of up to four elements, each of
which may be null, or a number that does not fit, independently, where four is one more than
a length can tell.

The theorems remove all these bounds: they hold for any values of the constants.

### Fairness

`FairSpec` of `PerlLoader` has weak fairness of `Step`, the loader's own code and the
return of the Perl code it called. C++ code keeps running, and Perl code that never
returns is outside what the loader can promise. No fairness is assumed of hosts,
other programs, or calls back: a call back is bounded by `MaxNested`, without which a
component could call the loader for ever. The other modules describe calls that are
straight-line code or loops over a fixed list, and clients that need not do
anything; they state no liveness.

## Proofs

| module | theorem | statement |
|---|---|---|
| `PerlLoaderProofs` | `TypeCorrect` | `[]TypeOK` |
| | `StoreIsConsistent` | `[]StoreConsistent` |
| | `ModulesServeTheirFiles` | `NamesDistinct => []OwnModuleCalled` |
| | `DeferredStaysInPlace` | `NotNested => []DeferredInProgress` |
| | `PendingComponentsAreKept` | `NotNested => NoPendingLost` |
| | `LoaderPromiseIsKept` | `NotNested`, `NamesDistinct => KeepsPromise` (refinement) |
| | `LoopsAdvance` | `StepsAdvance` |
| `LoaderLifecycleProofs` | `TypeCorrect`, `LoadersAreHeld`, `LastClassIsRegistered` | `[]TypeOK`, `[]LoadersHaveHolders`, `[]LastClassDecides` |
| `PerlComponentsProofs` | `TypeCorrect`, `HoldersCounted`, `OwnersCounted`, `ClassKept` | `[]TypeOK`, `[]WrappersHaveHolders`, `[]ScalarsHaveOwners`, `[]ClassServed` |
| `ReturnCodeProofs` | `CallsNest` | `[]TypeOK` |
| | `CodeIsKept`, `ResultsAreMethods` | `Reporting => []CodeIsOwn`, `[]ResultIsMethods` |
| | `SuccessHasObject` | `Reporting`, `Disciplined => []ObjectOrError` |
| `XPCOMCallProofs` | `TypeCorrect`, `AllReferencesDropped`, `MemoryFreedOnce`, `FailuresAreTold`, `ArgumentsArrive`, `OutputsInOrder`, `NothingLeft` | `[]` of `TypeOK`, `ReferencesDropped`, `FreedOnce`, `FailureIsTold`, `LeadingInputsMatch`, `ResultsInOrder`, `QuietCallsCleanUp` |
| `StubCallProofs` | `TypeCorrect`, `ResultsArrive`, `SupportedSafe`, `TwiceExactly`, `FailuresLeak`, `NumbersKept` | `[]` of `TypeOK`, `ResultsReachCaller`, `SupportedCallsAreSafe`, `ReleasedTwice`, `FailuresOnlyLeak`, `FailuresKeepNumbers` |
| `ConversionsProofs` | `TypeCorrect`, `MembersAreFound`, `NumbersReturn`, `ArraysReturn`, `ReadsDecided`, `ElementsGivenUp` | `[]` of `TypeOK`, `NamesFindMembers`, `NumbersComeBack`, `ArraysComeBack`, `ReadsAreSafe`, `ElementsAccountedFor` |

They hold for every value of the constants: any number of files, names, frames,
loaders, items, clients, classes, parameters and arguments, any interface, any widths of
integers and any length of arrays.

*Loader.* `LoaderInv` is inductive: entries are never removed and keep their status;
frames past `start` and deferred files have a good entry. `OwnInv` adds that cache,
registry and frames agree on names, also for registrations of earlier processes.
`DeferredInv` adds that the deferred frame is the outermost: elements are only appended
above the index meanwhile, so what `RemoveElementAt` removes is the frame's own. The
refinement maps the deferred list to a count per component; `AppendOwes` and
`RemoveOwes` say that an append adds one and a removal takes one, the latter by a
bijection between places before and after. Each step then is one of `LoaderPromise`
or a stutter.

`StepsAdvance` is the variant behind `CallsTerminate`. A frame gets nearer to its end
(`Nearer`) by fewer files to scan, a lower index or a later point of the same turn, which
can happen only so often; a step changes the top frame only, and only a scan puts
another frame (one that never does so itself) on top. What is left are at most `MaxNested`
calls back during an outermost call. `LoopsAdvance` needs neither assumption below.

*Loader lifecycle.* Per loader: it is counted as often as it is held, and it exists
exactly while it is counted (`Held`). `LastRemains` says of a running registration
that its remaining classes end with the module's last one, so the last answer is that
class's.

*Components.* Every property is about one item, so the invariant is one formula `Good` for
each item, and a lemma says that a step which changes some items into good ones and leaves
the others alone keeps it. It adds to the properties which origins, kinds and
owners go together.

*Return codes.* `TypeOK` contains the nesting of calls, so a body comes to the top only
by a binding's return, which tells and stores the same code (`CodeParts`). A finished
method's code is still in the scalar, because what could run before it is read are only
destructors. For `ObjectOrError` the invariant adds that a finished method has a failure,
or success and a value, which with the code still in the scalar gives the answer.

*Calls of native methods.* `IInv` has four parts beside the type: which variables are
filled at each point (`PointsReached`), whose memory each slot points to (`MemoryRight`),
which argument each slot was read from (`ArgumentsRight`), and which outputs are on the
Perl stack (`ResultsRight`). The order of results needs that the n-th output is the
one with n - 1 outputs before it (`Counting`).

*Calls of Perl methods.* `IInv` has, for each parameter, what was made and given up
depending on which loop has passed it (`MadeRight`), and what its variable holds
(`VariablesRight`). `SlotFound` says that counting inputs below a parameter is
injective, so `CHOOSE` finds the parameter of a slot; `ReleasesItsOwn` and `CopiesItsOwn`
that without in/out parameters the second loop's counters give the slots of the first.

*Conversions.* Each use of the module is a run of its own, so `IInv` is a conjunction of what
lookups (`LookupRight`), numbers (`NumbersComeBack` itself) and arrays have done. For
arrays, `ElementsRight` says what native code may have at each place and what of it the Perl array still has,
`MemoryRight` which references each element has before and after its turn of the loop, and
`ReturnRight` that what is written back is what the Perl array had at that place.

- The loops take the first member that fits. `LeastLemma` says that there is one, and
  `OneCandidate` that a name and a number of arguments fit one method at most; for
  constants `ConstantFound` follows those that were declared earlier.
- Numbers need that a power of two doubles with each bit and that a smaller one divides a
  larger one (`Pow2Step`, `Pow2Divides`), which are inductions on the width.
  `SetInduction` is induction over a set of numbers, obtained from its least missing
  element; with it `Pow2Equation` shows that the recursive function exists.
  `RemainderUnique` says when a number is a remainder. The rest are cases
  of how the two widths compare: `SignedComeBack`, `NarrowComeBack` and `WideComeBack`.
- `ElementRead` and `ElementBack` say for one place of an array what native code finds there.
  A length is cut to a remainder, and `TellLemma` says when that loses something.

Assumptions: `NamesDistinct` says that no two files share a cache key, `NotNested` that Perl
code does not call `RegisterDeferredComponents`; both are needed, as the runs
`loader_one_name` and `loader_nested_deferred` show. `Reporting` says that the silent
bindings are not used and that destructors do not call Perl; the departure of `Constructor`
above shows the first is needed, and the repository's `README` warns about the second.
`Disciplined` is `~MayDie /\ ~Undisciplined`: a method that dies, or sets `NS_OK` without
a value, can make a stub answer success without an object.

Every invariant and action property of a passing run is stated by a theorem, and so is
the refinement. Only model-checked: `CallsTerminate`, since liveness under fairness is
out of TLAPS's reach; that its variant goes down is proved, that `Step` is enabled
while a call runs is not. The runs that expect a violation are counterexamples, which
only TLC finds.

## Not modelled

* Conversions of text: character encodings, string IIDs and class IDs, floating-point
  numbers. They are calls of the Perl API and of string libraries on one value, with no
  control of their own.
* `plPMFile::Load`, `Unload`, `Shutdown`, `GetModule` and `FindSymbol`, left over from the
  loader for shared libraries: nothing calls them.
* The registry code under `#if 0`.
* The arguments and references of XS functions other than `callXPCOMMethod` and
  `WrapObject`: each takes one argument and one reference on a straight path; which of
  their exits report is in `ReturnCode`.
* The inside of the Perl interpreter and of the component manager: external, with every
  outcome that the code tells apart.
* A second interpreter and a second thread: the repository's `README` excludes them.
* A composition of all modules: each one already lets the others' code do anything
  that its callers can see, which is more than the composition would allow.
* Tests, samples and build files, which hold no state of the bindings. They are read as
  statements of what callers expect.
