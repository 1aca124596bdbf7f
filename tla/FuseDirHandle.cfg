CONSTANTS
  Workers <- MC_Workers
  w1 = w1
  w2 = w2
  Listing <- MC_Listing
  ReadSize = 3
  Majors = {5, 7}
  RewindMajors = {5}
  MaxOpen = 2
  MaxReq = 7
  None = None
SPECIFICATION Spec
INVARIANTS NoUseAfterFree ListingComplete HandlesAccounted
