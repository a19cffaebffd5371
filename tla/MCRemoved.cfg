SPECIFICATION Spec
CONSTANTS
  Threads = {t1}
  NoThread = NoThread
  Urls = {u1}
  NoUrl = NoUrl
  AvoidUrls = {}
  FlagSets = {{"Read"}}
  Offsets = {0}
  Sizes = {1}
  UsedOps = {"Open", "Close", "Stat"}
  MaxFilesize = 0
  StoreLengths = {Absent, 2}
  MaxRemote = 1
  Absent = Absent
  Faults = {}
  ShortReads = FALSE
  ShortWrites = FALSE
  BadStats = FALSE
  W32 = 16
  W64 = 256
INVARIANT FakedStatIsNewFile
