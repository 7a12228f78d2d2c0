SPECIFICATION Spec
CONSTANTS
  Class = {c1, c2}
  Unknown = {c3}
  Item = {i1, i2, i3}
  MaxClients = 3
INVARIANTS
  TypeOK
  WrappersHaveHolders
  ScalarsHaveOwners
  ClassServed
SYMMETRY Symmetric
