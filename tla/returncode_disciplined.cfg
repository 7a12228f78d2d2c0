SPECIFICATION Spec
CONSTANTS
  None = None
  Binding = {"Classes", "callXPCOMMethod", "WrapObject"}
  MayDie = FALSE
  Undisciplined = FALSE
  DestructorsCall = FALSE
  MaxDepth = 6
INVARIANT
  ObjectOrError
