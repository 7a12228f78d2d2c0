SPECIFICATION Spec
CONSTANTS
  a = a
  b = b
  None = None
  Loc <- Files
  Name = {"a", "b"}
  ModuleName <- OwnNames
  PerlFile = {a, b}
  Broken <- NoneBroken
  Reentrant = {"autoreg", "factory", "unreg"}
  MaxStamp = 1
  MaxNested = 1
  MaxDeferred = 2
INVARIANTS
  TypeOK
  StoreConsistent
  DeferredInProgress
  OwnModuleCalled
PROPERTY
  NoPendingLost
  KeepsPromise
