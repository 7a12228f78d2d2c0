SPECIFICATION FairSpec
CONSTANTS
  a = a
  b = b
  None = None
  Loc <- Files
  Name = {"a", "b", "foo"}
  ModuleName <- OwnNames
  PerlFile = {a, b}
  Broken <- NoneBroken
  Reentrant = {"deferred"}
  MaxStamp = 1
  MaxNested = 1
  MaxDeferred = 2
INVARIANTS
  StoreConsistent
  OwnModuleCalled
PROPERTY
  CallsTerminate
  StepsAdvance
