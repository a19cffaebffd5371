SPECIFICATION CopySpec
CONSTANTS
  Copier = c
  Threads = {c}
  MaxOpens = 2
  NoThread = NoThread
  Urls = {u2}
  NoUrl = NoUrl
  AvoidUrls = {u2}
  FlagSets = {{"Read"}}
  Offsets = {}
  Sizes = {1, 2}
  UsedOps = {"Open", "Close", "Read"}
  MaxFilesize = 0
  StoreLengths = {4}
  MaxRemote = 0
  Absent = Absent
  Faults = {}
  ShortReads = FALSE
  ShortWrites = FALSE
  BadStats = FALSE
  W32 = 16
  W64 = 256
INVARIANT DownloadFaithful
