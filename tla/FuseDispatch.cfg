CONSTANTS
  Workers = {w1, w2}
  Names <- MC_Names
  HiddenNames <- MC_Hidden14
  Leftovers <- MC_Leftovers
  HardRemove = FALSE
  MaxReq = 5
  CtrMod = 8
  Major = 7
  NoName = NoName
  NoPath = NoPath
  None = None

SPECIFICATION Spec
SYMMETRY MC_Symmetry
INVARIANT TypeOK
INVARIANT KernelNodesLive
INVARIANT LookupCountExact
INVARIANT RefCountExact
INVARIANT NameIndexUnique
INVARIANT OpenCountExact
INVARIANT LeftoversKept
