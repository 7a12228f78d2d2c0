SPECIFICATION Spec
CONSTANTS
  None = None
  Binding = {"callXPCOMMethod", "Manager"}
  MayDie = TRUE
  Undisciplined = TRUE
  DestructorsCall = TRUE
  MaxDepth = 4
INVARIANT
  TypeOK
