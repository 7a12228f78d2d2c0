SPECIFICATION Spec
CONSTANTS
  a = a
  b = b
  None = None
  Loc <- Files
  Name = {"a", "b", "foo"}
  ModuleName <- OneName
  PerlFile = {a, b}
  Broken <- NoneBroken
  Reentrant = {}
  MaxStamp = 1
  MaxNested = 0
  MaxDeferred = 1
INVARIANT
  OwnModuleCalled
