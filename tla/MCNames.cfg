SPECIFICATION ResourcesSpec
CONSTANTS
  Threads = {t1, t2}
  Names = {a, b}
  NoName = NoName
  FaultEndsListing = FALSE
  MaxRemote = 1
  Absent = Absent
  Faults = {"Other"}
  ShortReads = FALSE
  ShortWrites = FALSE
  BadStats = TRUE
INVARIANTS TypeOK ListingComplete OkLeaksNothing EntryNotMisused
PROPERTY KeepsContract
