SPECIFICATION Spec
CONSTANTS
  Threads = {t1, t2}
  NoThread = NoThread
  Urls = {u1}
  NoUrl = NoUrl
  AvoidUrls = {}
  FlagSets = {{"Delete", "Update"}}
  Offsets = {0, 1, 2}
  Sizes = {1, 2}
  UsedOps = {"Open", "Close", "Write"}
  MaxFilesize = 3
  StoreLengths = {Absent, 2}
  MaxRemote = 0
  Absent = Absent
  Faults = {"Other"}
  ShortReads = FALSE
  ShortWrites = TRUE
  BadStats = FALSE
  W32 = 16
  W64 = 256
SYMMETRY ThreadSymmetry
INVARIANT WritesLandUnlessRaced
