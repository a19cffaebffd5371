SPECIFICATION Spec
CONSTANTS
  Threads = {t1}
  NoThread = NoThread
  Urls = {u1}
  NoUrl = NoUrl
  AvoidUrls = {}
  FlagSets = {{"Read"}}
  Offsets = {0, 1, 2, 3}
  Sizes = {1}
  UsedOps = {"Open", "Close", "Read"}
  MaxFilesize = 0
  StoreLengths = {2}
  MaxRemote = 0
  Absent = Absent
  Faults = {}
  ShortReads = FALSE
  ShortWrites = FALSE
  BadStats = FALSE
  W32 = 16
  W64 = 256
INVARIANT PReadInsideFile
