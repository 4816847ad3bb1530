SPECIFICATION Spec
CONSTANTS
  u1 = u1
  u2 = u2
  u3 = u3
  k1 = k1
  k2 = k2
  k3 = k3
  v0 = v0
  v1 = v1
  Blank = Blank
  None = None
  Malformed = Malformed
  Library = Library
  Recipe <- MC_Recipe
  ProviderOf <- MC_ProviderOf
  Table <- MC_Table
  Environment <- MC_Environment
  Contents <- MC_Contents
  MaxBuilt = 2
  MaxCalls = 2
  MaxPassed = 2
  MaxChanges = 1
INVARIANTS
  LaterWins
  ValidateAgrees
PROPERTY
  SharedMapsFrozen
CHECK_DEADLOCK FALSE
