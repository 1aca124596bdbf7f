CONSTANTS
  Names <- MC_Names
  InitFs <- MC_InitFs
  Inos = {1, 2}
  MaxDepth = 2
  MaxReq = 5
  CtrMod = 4
  Major = 7
  NoName = NoName
  NoPath = NoPath
  Gone = Gone
  Free = Free
  HiddenNames <- MC_Hidden
  AllocFail = {"find_node"}

SPECIFICATION Spec
INVARIANT TypeOK
INVARIANT TablePathsExist
INVARIANT OpenFileStat
INVARIANT HiddenAccounted
INVARIANT KernelDentriesAgree
PROPERTY FreshNodeIdentity
PROPERTY NamespaceRefined
