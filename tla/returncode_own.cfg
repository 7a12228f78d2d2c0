SPECIFICATION Spec
CONSTANTS
  None = None
  Binding = {"Classes", "callXPCOMMethod", "QueryInterface", "Manager"}
  MayDie = TRUE
  Undisciplined = TRUE
  DestructorsCall = FALSE
  MaxDepth = 6
INVARIANTS
  CodeIsOwn
  ResultIsMethods
