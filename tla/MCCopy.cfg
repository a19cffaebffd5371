SPECIFICATION CopySpec
CONSTANTS
  Copier = c
  Threads = {c}
  MaxOpens = 1
  NoThread = NoThread
  Urls = {u1, u2}
  NoUrl = NoUrl
  AvoidUrls = {u2}
  FlagSets = {{"Read"}, {"Delete", "Update"}, {"New", "Write"}}
  Offsets = {}
  Sizes = {1, 2}
  UsedOps = {"Open", "Close", "Read", "Write", "Stat"}
  MaxFilesize = 4
  StoreLengths = {Absent, 4}
  MaxRemote = 0
  Absent = Absent
  Faults = {"Other"}
  ShortReads = TRUE
  ShortWrites = FALSE
  BadStats = FALSE
  W32 = 16
  W64 = 256
INVARIANTS DownloadFaithful FakedSizeIsWritten MeasuredEndIsEnd PReadInsideFile
PROPERTY UploadComplete
