CONSTANTS
  Name = {"is", "isLocked", "isNew", "lock"}
  Begins <- NamePairs
  MaxMembers = 2
  MaxConsts = 3
  IVBits = 4
  Bits = {2, 4, 6}
  MaxLength = 4
  Dimensions = 4
SPECIFICATION Spec
INVARIANTS
  TypeOK
  NamesFindMembers
  NumbersComeBack
  ArraysComeBack
  ReadsAreSafe
  
CHECK_DEADLOCK FALSE
