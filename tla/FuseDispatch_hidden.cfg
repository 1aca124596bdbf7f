CONSTANTS
  Workers = {w1, w2}
  Names <- MC_Names
  HiddenNames <- MC_Hidden
  Leftovers = {}
  HardRemove = FALSE
  MaxReq = 5
  CtrMod = 8
  Major = 7
  NoName = NoName
  NoPath = NoPath
  None = None

SPECIFICATION Spec
SYMMETRY MC_Symmetry
INVARIANT TeardownClean
