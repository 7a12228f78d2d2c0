SPECIFICATION Spec
CONSTANTS
  c1 = c1
  c2 = c2
  Class = {c1, c2}
  MyComponents <- Components
  Loader = {l1, l2, l3}
  NoLoader = NoLoader
  MaxClients = 2
INVARIANTS
  TypeOK
  LastClassDecides
  LoadersHaveHolders
SYMMETRY Symmetric
