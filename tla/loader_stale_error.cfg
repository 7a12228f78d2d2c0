SPECIFICATION Spec
CONSTANTS
  a = a
  b = b
  None = None
  Loc <- Files
  Name = {"a", "b", "foo"}
  ModuleName <- OwnNames
  PerlFile = {a, b}
  Broken <- ABroken
  Reentrant = {}
  MaxStamp = 1
  MaxNested = 0
  MaxDeferred = 1
INVARIANT
  NoIllEffects
