CONSTANTS
  owner = owner
  root = root
  other = other
  Uids <- MC_Uids
  Owner = owner
  RootUid = root
  AllowRoot = TRUE
  KernelMajors = {0, 5, 6, 7}
  MaxReq = 5
SPECIFICATION Spec

PROPERTY ExitStops
