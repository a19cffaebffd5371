SPECIFICATION PgSpec
CONSTANTS
  Threads = {t1, t2}
  NoThread = NoThread
  Urls = {u1, u2}
  NoUrl = NoUrl
  AvoidUrls = {u2}
  HttpsUrls = {u1}
  PageSize = 2
  FlagSets = {{"Read"}}
  Offsets = {0, 1, 2, 3}
  Sizes = {1, 3}
  UsedOps = {"Open", "Close", "Read"}
  MaxFilesize = 0
  StoreLengths = {Absent, 3}
  MaxRemote = 1
  Absent = Absent
  Faults = {"Other"}
  ShortReads = TRUE
  ShortWrites = FALSE
  BadStats = FALSE
  W32 = 16
  W64 = 256
SYMMETRY ThreadSymmetry
INVARIANTS LockInv SequentialReadsContinue ReadsStayInside SummedIffHttps PagesTileChunk HandlerOutlivesRead
PROPERTY OffsetHeld
