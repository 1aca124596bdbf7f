CONSTANTS
  Workers <- MC_Workers
  w1 = w1
  w2 = w2
  Listing <- MC_Listing
  ReadSize = 3
  Majors = {7}
  RewindMajors = {7}
  MaxOpen = 2
  MaxReq = 7
  None = None
SPECIFICATION Spec
INVARIANT ListingComplete
