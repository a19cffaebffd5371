SPECIFICATION FairSpec
CONSTANTS
  Threads = {t1, t2}
  NoThread = NoThread
  Urls = {u1}
  NoUrl = NoUrl
  AvoidUrls = {u1}
  FlagSets = {{"Read"}, {"Delete", "Update"}}
  Offsets = {0}
  Sizes = {1}
  UsedOps = {"Open", "Close", "Read", "VectorRead", "Write", "Stat", "Sync"}
  MaxFilesize = 1
  StoreLengths = {Absent, 1}
  MaxRemote = 1
  Absent = Absent
  Faults = {"PermissionRefused"}
  ShortReads = FALSE
  ShortWrites = FALSE
  BadStats = TRUE
  W32 = 16
  W64 = 256
INVARIANTS TypeOK OpenStateMatchesHandle
PROPERTIES KeepsContract LockReleased CallsReturn
