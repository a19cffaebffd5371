SPECIFICATION Spec
CONSTANTS
  Threads = {t1}
  Names = {a, b}
  NoName = NoName
  FaultEndsListing = TRUE
  MaxRemote = 1
  Absent = Absent
  Faults = {"Other"}
  ShortReads = FALSE
  ShortWrites = FALSE
  BadStats = FALSE
INVARIANT ListingComplete
