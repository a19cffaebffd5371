# A TLA+ model of xrdcl-http

xrdcl-http is a plug-in for the XRootD client: it lets `xrdcp`, `xrdfs` and the
XRootD proxy use files on HTTP and S3 servers through the library davix.  This
directory holds TLA+ modules translated from `src/src/XrdClHttp/`, the
configurations that check them with TLC, and proofs checked by TLAPS.  Line
numbers below are those of the files in `src/src/XrdClHttp/`.

## 1. Inventory

| Component | State | Operations | Interacts with |
|---|---|---|---|
| **HttpFilePlugIn** (`.cc`, 455 lines) | `is_open_`, `url_`, `filesize`, `curr_offset`, `avoid_pread_`, `offset_locker`, `davix_fd_`, properties | Open, Close, Stat, Read, PgRead, VectorRead, Write, Sync | its callers through a `ResponseHandler` and the returned status; davix through `Posix` |
| **HttpFileSystemPlugIn** (`.cc`, 233 lines) | the URL; a davix client | Mv, Rm, MkDir, RmDir, DirList, Stat | the same |
| **Posix** (503 lines) | none | one function per davix call; error conversion; time-outs and retries, credentials, URL rewriting, the stat line | davix |
| **shared davix contexts** (both `.cc`) | `root_davix_context_`, `root_davix_client_file_`, `root_ctx_`, `root_davix_client_` | created by the first constructor when `XRDXROOTD_PROXY` is set, used by all; destructors | every plug-in object; `errno` of the caller |
| **HttpPlugInFactory**, logging set-up | none; a `once_flag` | creates the two plug-ins | XRootD's plug-in manager |
| *davix, HTTP server* (outside) | handles with a position, files, directories | called by Posix | |
| *xrdcp* (outside; `test/cases`) | the offset it has reached | open, chunk after chunk, close | HttpFilePlugIn |

Every method runs in its caller's thread, from its first test to its return; it
calls the handler itself just before it returns OK, and returns an error without
calling it.  There are no queues, no callbacks from davix and nothing persistent
on the client.  What is hard:

* **One object, several threads.** XRootD overlaps the data calls of one object.
  `offset_locker` protects `curr_offset` only while Range headers are avoided
  (:249-271); `filesize` is protected by nothing (:247, :368); `PWrite` is a seek
  followed by a write (Posix.cc:485-492).
* **Two positions.** `curr_offset` is the object's idea of where davix's position
  is.  A jump (`pread`) moves the first and not the second, a Write the other way.
* **Failures half-way.** Open makes up to three davix calls; Read has an exit inside
  the critical section; DirList may fail after some entries; a request's answer may
  be lost after the server has carried it out.
* **Other clients** replace and remove what this one has opened, measured or is
  listing.
* **Arithmetic at the edge**: `filesize - offset` in 64 bits cut to 32 (:247); pages of
  an answer that is not a whole number of them (:313-329).
* **Globals without a lock.** In a proxy the first constructor makes a context, then a
  client, and tests only the context (:65-70); destructors test the globals again (:76).
* **Ownership by hand.** davix keeps and reuses the directory entry, the list goes to
  the caller, each exit of DirList frees something else (Posix.cc:299-354).

What makes each part correct:

* HttpFilePlugIn: the fields agree with the davix handle; the lock is always with
  the reader in the critical section and is given back by each exit; reads that
  avoid Range continue where davix is; reads stay inside the file; writes land
  where they were asked to unless raced; the convention on answers is kept.
* HttpFileSystemPlugIn: an OK means *carried out, once*; an error *at most once*;
  what a Stat or a DirList tells is the directory of one moment, all of it.
* A sequential copy: right bytes, nothing missing, nothing invented.
* PgRead: pages cover the answer, checksums come with https and only with it.
* DirList and Stat: an OK leaves nothing allocated behind; davix's directory entry is
  neither used nor freed after it was freed.
* Contexts: an object's client belongs to its context, and neither is deleted before it.

`PROJECT.json` lists the hazards line by line with the properties that would catch each;
those the model has but excuses, or assumes away, have no property and say so.

## 2. Modules

```
Davix -- Posix -+- HttpFilePlugIn -+- MCHttpFilePlugIn                     (TLC)
                |   |              +- PgRead -- MCPgRead                   (TLC)
                |   |              |     \
                |   |              |      PgReadProofs                     (TLAPS)
                |   |              +- HttpFilePlugInProofs                 (TLAPS)
                |   |              |     HttpFileContractProofs            (TLAPS)
                |   FileContract   |        HttpFileDataProofs             (TLAPS)
                |                  |           SequentialCopyProofs        (TLAPS)
                |                  +- SequentialCopy  /                    (TLC)
                |
HttpServer -----+- HttpFileSystemPlugIn -+- FileSystemResources            (TLC)
     |                   |               |      FileSystemResourcesProofs  (TLAPS)
     +------- FileSystemContract         +- HttpFileSystemProofs           (TLAPS)

PlugInContexts -- PlugInContextsProofs                                (TLC, TLAPS)
RequestUrls                                                                (TLC)
```

A module extends what stands to its left or above it; PgReadProofs also extends
HttpFileContractProofs, SequentialCopyProofs extends HttpFileDataProofs and
SequentialCopy, FileSystemResourcesProofs extends HttpFileSystemProofs.  The two
contracts are instantiated by the plug-ins that keep them.

**Davix** and **HttpServer** stand for what is outside the repository.  Each davix
call is the *set of results* it may have, a network fault always among them; a
file is known by its length (where bytes come from and land is kept, what they are
is not); a directory maps names to `absent`, `file` or `directory`.  They assume
only what the code and its comments say of davix: `pread` does not move the
position and fails past the end of the file (HttpFilePlugIn.cc:246), `read`
continues from the position (Posix.cc:427), a handle that can be written to is
uploaded by `close`.  One assumption has no line to stand on and is stated at
`DavixClose`: a handle whose close fails is kept by davix as it was.  HttpFilePlugIn keeps
using such a handle (:190-194); what a davix that has released it would do is not modelled.

**Posix** turns those results into statuses.  `ErrCodeConvert` is translated; which
functions convert the code and which carry it inside `errInternal` is kept
(`Converted` / `Internal`), as is VectorRead's `errUnknown`.  A stat that succeeds
still has to become a line that XrdCl parses (`FillStatInfo`, Posix.cc:65-90); with
`BadStats` it may not, and the call ends in `errDataError` (`Filled`).

**HttpFilePlugIn** is one object used by `Threads`.  Variables with the names of
fields are those fields; `fd` is davix's record of the handle; `pc` and `call` are
each thread's place in a method and its arguments, locals and results; `raced` and
`drifted` are history variables used only by properties.  A method is cut where
another thread can get in: at the davix calls, at the mutex, and between the load
and the store of `filesize +=`.  The answer of an Unlink or of a Close that fails may be
what was lost: the file may be gone, or uploaded, all the same.

| Method | Actions |
|---|---|
| Open (82-177) | OpenCall, OpenStatDelete, OpenUnlink, OpenStatRead, OpenDavix |
| Close (179-202) | CloseCall, CloseDavix |
| Stat (204-235) | StatCall, StatDavix, StatFake |
| Read (237-283), the transfer of PgRead | ReadCall, ReadClamp, ReadLock, ReadPositioned, ReadSequential, ReadDone |
| Write (350-376) | WriteCall, WriteSeek, WriteDavix, WriteLoad, WriteStore |
| VectorRead (387-434) | VectorReadCall, VectorReadDavix |
| Sync (378-385) | SyncCall |

The callers' contract (Open and Close overlap no other call on the object, as
`XrdCl::File` sees to) is the guard `MayStart`, and is all that is assumed of them.
`avoid_pread_` is not initialized by the constructor: `Init` leaves it open.

**FileContract** is the abstract specification: a method that returns OK has called
the handler once, one that returns an error has not and has not opened or closed
the file; only Open works on a file that is not open.  Sync is the exception the
code makes (it returns OK and calls nobody).  `KeepsContract` of HttpFilePlugIn
is the refinement.  What a caller may conclude from the contract alone is its invariant
`Promises`: an answer was given if and only if OK was returned, the file stays open (or
closed, for an Open) as long as a call runs, and Open and Close are alone.

**PgRead** (285-348) adds to HttpFilePlugIn the field `isChannelEncrypted`, settled by
Open *after* it has refused an object that is open, and each thread's substitution
handler: allocated before Read looks at anything, remembering the channel of that
moment; deleted when it is called; lost with the call when Read returns an error.  A
PgRead is a `ReadCall` with a handler, so each step is one of HttpFilePlugIn and all
that is proved of that holds here.  `PageLengths` is the loop over the answer's pages;
the checksums themselves are data and left out.

**SequentialCopy** restricts HttpFilePlugIn to one client that reads or writes chunk
after chunk, and adds the offset that client has reached.  It learns only from the
answers to its calls (`After`): a file that is opened is transferred from its start, a
chunk that is acknowledged moves the offset on, a failed one is asked for again.  Its
properties speak of whole transfers.  The client starts at 0 with every Open; the
object does not, and what it must not carry over from an earlier file is named:
`OffsetFresh` and `SizeFresh` for its fields `curr_offset` and `filesize`,
`SizeMeasured` for a `filesize` that a failing Stat inside Open leaves as it was.

**HttpFileSystemPlugIn** is the other plug-in: the object changes nothing after its
construction, so the threads may be callers of one object or of several.  Mv, Rm,
RmDir and Stat are one `Request`, whose `Outcomes` include a lost answer after the
server has done the work; `Attempts` is the retry count davix is given
(Posix.cc:61); DirList is cut at opendirpp, each readdirpp and closedirpp; MkDir is
the no-op it is (Posix.cc:236) and Rename refuses on S3 (Posix.cc:363).

**FileSystemContract** is its abstract specification: each call is carried out at
one moment, between its beginning and its end, at most once, and an OK says that it
was.  The concrete plug-in reaches that moment in its only request, or when
opendirpp fetches the directory; the refinement mapping is `View`.

**FileSystemResources** adds to HttpFileSystemPlugIn what each call of DirList and Stat
has allocated and not yet freed or handed over (`held`), and what has become of the
directory entry that belongs to davix's handle (`dirent`): opendirpp makes both, each
readdirpp fills the entry again and returns it (`Used`), closedirpp frees it with the
handle (`Freed`).  What DirList does to it in between is translated: it reads the entry
and leaves it alone (`EntryRead`, with the `delete entry` of :343 commented out), a stat
line that does not parse takes the `delete entry` of :332, and each exit of
Posix.cc:299-354 closes the directory or does not.  A closedirpp that fails may have
freed the handle or not.

**PlugInContexts** is the life of the plug-in objects, apart from their calls: the
constructor's steps in a proxy (test the shared context, make it, make the client,
take the one, take the other), each a step because nothing is locked; the destructor's
(copy `errno`, test the shared context, delete the client, delete the context, put
`errno` back in one of the two plug-ins).  The environment that decides, `proxy`, may
change once between two constructors (`ExportProxy`), from not being a proxy to being
one.  Contexts and clients are named after the object that made them.

**RequestUrls** is the last hand before davix: which of the methods pass their URL
through `SanitizedURL`, which keep the object's own CGI (those that build on `url`)
and which lose it (those that put host and port together), and which kind of credentials
`SetAuthz` chooses (Posix.cc:157-162; how they are loaded is left out).

## 3. Runs

| Run | Module, properties | Question | Result |
|---|---|---|---|
| reads | MCPgRead: `LockInv`, `SequentialReadsContinue`, `ReadsStayInside`, `SummedIffHttps`, `PagesTileChunk`, `HandlerOutlivesRead`, `OffsetHeld` | Two threads read, plainly and by pages, an http file without Range headers and an https one with them; short and failing reads, a file that changes: nobody else touches the offset of the reader in the critical section, the transfer of a page read has its handler | holds, 2 288 382 states |
| writes | MCHttpFilePlugIn: `WritesLandUnlessRaced` | Two threads writing, short and failing writes: bytes elsewhere only after a race | holds, 1 100 129 |
| calls | MCHttpFilePlugIn: `TypeOK`, `OpenStateMatchesHandle`, `KeepsContract`, `LockReleased`, `CallsReturn` | Every method from two threads, under fairness: fields and handle agree, FileContract is kept, the lock is given back, calls return | holds, 478 881 |
| copy | SequentialCopy: `DownloadFaithful`, `FakedSizeIsWritten`, `MeasuredEndIsEnd`, `PReadInsideFile`, `UploadComplete` | xrdcp up and down, short reads and faults: right bytes up to the right end, nothing asked for past it, whole upload, right invented size | holds, 3 588 |
| names | FileSystemResources: `TypeOK`, `ListingComplete`, `OkLeaksNothing`, `EntryNotMisused`, `KeepsContract` | Two threads and another client on one directory, lost answers, bad stat lines: FileSystemContract is kept, listings are whole, an OK leaks nothing, davix's entry is not touched once freed | holds, 246 360 |
| contexts | PlugInContexts: `NeverDangling`, `PairUnlessRaced`, `ErrnoSurvives` | Two objects of each plug-in live and die in every order while the process may become a proxy | holds, 1 168 033 |
| past_end | `PReadInsideFile`, for callers of any offset | "prevent pread from reading beyond the file" | violated |
| reopen | `DownloadFaithful` | A second download through one object is faithful too | violated |
| false_end | `EndIsEndOfFile` | A Read of 0 bytes is the end of the file | violated |
| removed | `FakedStatIsNewFile` | A size is invented for new files only | violated |
| truncated | `ListingComplete` | A listing answered OK is whole, when readdirpp fails with NULL | violated |
| cgi | `CgiFiltered` | With AWS keys all CGI is filtered out | violated |

Every property of the first six runs also has a mutant in `PROJECT.json`: a small
change of a translated definition (an error exit that keeps the lock, an offset
recorded as asked and not as reached, a retry that is switched on, a last page that
is not counted, an entry deleted in the loop, the other plug-in's client) under
which TLC finds it violated.

### Bounds

* *Two threads.* The races of this code are between two calls: seek against write,
  load against store, reader against reader.  `reads` and `writes` use symmetry in
  the threads; `calls` (which checks liveness) and `names` do not.
* *Two objects of each plug-in*, each constructed and destroyed once: one to make the
  shared pair and one to overlap it, and an object of the other kind in each role, since
  the two plug-ins share nothing but their environment.  The run has
  `CHECK_DEADLOCK FALSE` because all objects may be dead at the end.
* *Pages of two bytes*, reads of one and three: answers of no page, of part of one, of
  exactly one and of one and a half.
* *Files of length up to 4, offsets 0 to 3, sizes 1 and 2*: chunks at the start, in
  the middle, across the end, at the end and past it, and a last chunk that is short.
* `W32 = 16`, `W64 = 256` stand for 2^32 and 2^64.  `filesize - offset` wraps at the
  smaller modulus as it does at the larger; no other sum comes near either.
  `WordsAssumption` keeps transfers below half of `W32`: the sizes whose count does
  not fit an `int` are left out.
* `MaxFilesize` stops Writes that would take `filesize` past it; `MaxRemote` (0 or 1)
  is the number of changes other clients make: one is enough to invalidate what was
  measured.  `MaxOpens` is 1 or 2 opens of one object by the copying client.
* *Two names* in the directory: enough to rename one over the other, and to change
  the entry not yet handed out.
* `Faults` has one code where only "it failed" matters, `PermissionRefused` in
  `calls` so that the conversion has something to convert.
* `calls` has one URL, which avoids Range headers, so that every Read takes the lock,
  and one offset, size and length: which bytes are meant is the matter of the
  runs above it.
* RequestUrls is small enough to need no bound.

### Fairness

`FairSpec`, the specification of `calls`, has weak fairness for `Steps(t)` of each thread: a thread inside a method
keeps running and its davix call returns.  That is an assumption: the code
drops the operation time-out its callers pass (Posix.cc:47-63), so a server that
stops answering would keep a Read inside the critical section for ever.  Nothing
makes a caller call, return a result or call again, and nothing is assumed of the
order in which the mutex serves its waiters: `CallsReturn` therefore allows a call
to wait for ever while others take the lock again and again, and for no other
reason.

## 4. Proofs

| Theorem | Module | Says |
|---|---|---|
| Inductive, TypeCorrect, LockCorrect, HandleCorrect, MutualExclusion | HttpFilePlugInProofs | the inductive invariant; `TypeOK`, `LockInv`, `OpenStateMatchesHandle`; no two readers between lock and unlock |
| HolderOwnsOffset | HttpFilePlugInProofs | `OffsetHeld`, an action property: from the lock to the unlock nobody else moves `curr_offset`, and the holder lets go only as it returns, having recorded where its read ended |
| AnswersLast, Implements | HttpFileContractProofs | `KeepsContract`: the plug-in implements FileContract |
| ContractPromises, PromisesKept | HttpFileContractProofs | FileContract has the invariant `Promises`; by refinement so has the plug-in |
| WritesLand, ReadsContinue | HttpFileDataProofs | `WritesLandUnlessRaced`, `SequentialReadsContinue` |
| StayInside | HttpFileDataProofs | `ReadsStayInside`, if `NoWrap`: no offset and size add up to `W64` |
| InventedForNew | HttpFileDataProofs | `FakedStatIsNewFile`, if no other client removes files (`NothingRemoved`) and files are created only by those who write them (`CreatedToWrite`) |
| PgImplements, PgKeepsContract, Summed, PagesTile, HandlerOutlives | PgReadProofs | PgRead's steps are HttpFilePlugIn's, so it keeps the contract; `SummedIffHttps`, `PagesTileChunk`, `HandlerOutlivesRead` |
| CopyImplements | SequentialCopyProofs | the client's steps are HttpFilePlugIn's |
| FreshDownloadsFaithful | SequentialCopyProofs | `DownloadFaithful`, over any number of Opens that find `OffsetFresh` |
| UploadsComplete | SequentialCopyProofs | `UploadComplete`, over any number of Opens, if writers start from an empty file (`WritersTruncate`) and davix does not write short |
| FreshFakedSizes | SequentialCopyProofs | `FakedSizeIsWritten`, over any number of Opens that find `SizeFresh`, if davix does not write short, files are opened one way (`FlagsOneWay`) and `filesize` does not wrap |
| MeasuredReadsInside | SequentialCopyProofs | `PReadInsideFile`, over any number of Opens, if no chunk wraps (`ChunksFit`) and a failed Stat finds no old size (`SizeMeasured`) |
| MeasuredDownloadsEnd | SequentialCopyProofs | `MeasuredEndIsEnd`, if moreover `OffsetFresh` |
| DownloadsFaithful, DownloadReadsInside, DownloadEnds, FakedSizes | SequentialCopyProofs | the same four for one Open, which the constructor has left nothing to find; the first also for any number if no URL avoids Range headers |
| TypeCorrect, WholeListing, Implements | HttpFileSystemProofs | `TypeOK`; `ListingComplete` and `KeepsContract` if `~FaultEndsListing` |
| ResourcesImplement, NothingLeaks, EntryStaysAlive | FileSystemResourcesProofs | its steps are HttpFileSystemPlugIn's; `OkLeaksNothing` if `~FaultEndsListing`; `EntryNotMisused` |
| TypeCorrect, NothingDangles, PairsWhole, ErrnoPreserved | PlugInContextsProofs | the type invariant; `NeverDangling`, `PairUnlessRaced`, `ErrnoSurvives` |

They hold for any number of threads, objects, files, names, arguments, lengths and
faults, and any page size, that satisfy the named assumptions on the constants (`ThreadsAssumption`,
`UrlsAssumption`, `ArgumentsAssumption`, `WordsAssumption`, `BoundsAssumption`,
`DavixAssumption`, `BadStatsAssumption`, `NamesAssumption`, `ListingAssumption`,
`PagesAssumption`, `CopierAssumption`, `ObjectsAssumption`), each of which TLC
evaluates in the runs.  What a theorem assumes beyond these is in its ASSUME and in
the table; `reopen`, `removed`, `truncated` and the other violated runs show what goes wrong
without some of it.  Those of SequentialCopyProofs assume `Offsets = Nat`: the client's
offsets come from its progress and not from that set.

*HttpFilePlugIn.*  `LockInv` is not inductive: Read unlocks if `avoid_pread_` is set
*at its exit*, and Open sets `avoid_pread_`.  So one needs that a reader's place in
the code tells the mode (`ModeInv`), for which no Open may run beside a Read
(`Exclusive`), for which a call's place must tell its method, and that the object of
a data call is open throughout (`Lifecycle`, `OpenStateMatchesHandle`).  `IInv`
is their conjunction with `TypeOK`.  The proof goes in three layers: which type each
step gives each variable (`...Type`); from where to where a step takes a thread and
what it leaves alone (`...Follow`, `CallsByBegins`); then one lemma for each
conjunct.

`OffsetHeld` follows from it without more: `LockInv` says that no other reader is inside
the section, `ModeInv` that none is on the way that needs no lock, `Exclusive` that no Open
or Close is under way; Write and VectorRead do not touch `curr_offset`.  What remains are
the holder's own steps, the failing exit (:265) among them.

Two more invariants stand on `IInv`.  `AnswerInv`: a call that has not returned has
no status and no answers yet, and a thread between calls holds no call; with it each
action is seen to be a step of FileContract (`Begin`, `Refuse`, `Succeed`,
`GiveUp`, `Return`, `Acknowledge` for Sync) or to change nothing the contract
speaks of.  `Promises` is proved of FileContract by itself, where it is inductive with
the types, and reaches HttpFilePlugIn by the refinement.  `WInv`: a Write past its seek stands where it was asked to,
and one past its write has put its bytes there, unless `raced`; every step that moves
the handle either is the Write's own or sets `raced`.

`SequentialReadsContinue` needs `Aligned`: while nothing has `drifted`,
`curr_offset` is davix's position whenever the lock is free, and the reader inside
the critical section knows where between the two it is.  Here the earlier
invariants pay: `LockInv` says that one reader at most is inside, `ModeInv` that a
reader's way through the section is that of the mode it found.  A failing or
short read is covered because the code records the offset it *reached* (:270).

*HttpFileSystemPlugIn.*  `IInv` says that what DirList has listed and what davix has
still to hand out make up what was fetched, and where in a call nothing has been
found or answered yet.  `Implements` then shows that each step is the step of
FileSystemContract its name suggests or leaves its variables alone: `Request` is
`CarryOut` or `GiveUp` (a lost answer is a `CarryOut` that ends in an error; with a
retry it would be a second `CarryOut`, which is how the mutant fails), `ListOpen` is
`CarryOut`, `ListClose` is `Tell` or `GiveUp`.

*ReadsStayInside.*  A read is inside what `filesize` was at its clamp, so the invariant
(`Inside`) speaks of the readers past it only.  `filesize` only moves under it by a Write,
which needs a handle open for writing, of which the property does not speak, or by an
Open, which runs beside no Read.  An offset past `filesize` is outside the property:
it is the finding `past_end`.

*InventedForNew.*  The finding `removed` needs a file that somebody removes; the theorem
says that this is the only way.  `OnServer`: what is open for reading only is on the server.  The one step of the program that
takes a file away is Open's own delete, and the refinement says that the object is
then closed (`OpenThroughout` of the contract).  `CreatedToWrite` is about the callers'
flags: a file that an Open creates is not on the server before Close, so one that is
created to be read from would get an invented size.

*PgRead.*  `ChannelInv`: the field fits the open URL, or an Open is on its way with the
field already settled for its URL; a handler that is allocated remembers the channel of
the open URL, since no Open may run beside its call.  `PagesTile` needs only types and
`Division`, a lemma on quotient and remainder by the page size.  `HandlerOutlivesRead`
is inductive beside `IInv`, `AnswerInv` and `ChannelInv`: a running call has answered
nobody (`AnswerInv`), the one step that frees the handler is the answer, and after it
the call only returns.

*Whole transfers.*  `Known` collects what holds before each step: the invariants above
and `CopyInv`, which says of the single client that what each call transfers is its
chunk and that an answered Read is from where it was asked.  On it stand, one beside the
other:

* `Straight` (right bytes): when Range headers are avoided, while a file is being
  read nothing has drifted and `curr_offset` is what the client has reached, `next`
  plus the answer that waits for it.  `Aligned` turns that into davix's position.  It
  is an Open that must establish it, and Open does not set `curr_offset`: hence `OffsetFresh`.
* `UploadInv` (whole upload): the handle holds as many bytes as have been acknowledged,
  plus the chunk that is written and not yet counted.  It speaks of davix's handle,
  which each Open makes anew, so it needs nothing of the object's past.
* `CountInv` and `FakedInv` (invented size): `filesize` counts the same bytes, from
  zero: hence `SizeFresh`.  A second upload with one object starts from the first one's
  `filesize`, and Stat then invents the sum: the hazard at :368.  `WritersTruncate`, of
  the theorem on uploads, is not needed here since `filesize` never looks at the file.
* `MeasuredInv` (nothing past the end): an open file is still on the server with its
  length, `filesize` is zero or that length, and a clamped chunk is inside it.
  The theorem needs no `OffsetFresh`: a chunk read from the wrong place is no longer
  than it was asked for, so the client's offset still stays inside the file.
* `EmptyInv` (the right end): a chunk of no bytes, of a measured file, was at its end.  Short
  reads return at least a byte (Davix.tla), and a chunk at `offset < filesize` asks
  for one.

`OnceInv` is what one Open is worth: it finds the fields as the constructor left them.
Under it each of the assumptions on what an Open finds holds (`ByRange` does it for
`OffsetFresh` when no URL avoids Range headers).  `reopen` shows that two
Opens are too many for `DownloadFaithful`, and with `MaxOpens = 2` in the configuration of `copy` TLC
finds `FakedSizeIsWritten` violated too; `MeasuredEndIsEnd` and `PReadInsideFile` still hold there.

*Resources.*  `Accounts` gives for each control point what a call holds (`HeldAt`); the
exits are then its last column, and that of OK is empty.  The entry is alive at each point
where DirList still reads or closes, so the one use, or the one free, on the way to the
return finds it alive; after it the call touches it no more.

*Contexts.*  `Ownership` says whose context and client an object has: its own, private
ones, freed by nobody else, or, once the shared ones exist, those, which nobody frees:
a destructor frees only if the shared context does not exist, and then its object cannot
have taken it.  `PairInv` says that the constructor making the pair is alone unless
`raced`, so that the client it makes is made with the context that stays.

The two `Implements` are refinements of the contracts, checked by TLC and proved; by
`PgImplements`, `CopyImplements` and `ResourcesImplement` an extension inherits what
was proved of the module it extends.  Only model-checked, not proved: `LockReleased` and `CallsReturn`
(liveness under fairness is outside the prover's reach).  The inductive
invariants and their strengthenings were checked with TLC on the instances of the runs
before they were proved.

## 5. What the violated runs show

1. **past_end** (HttpFilePlugIn.cc:247).  For an offset past `filesize` the
   difference wraps and a huge `pread` is issued; the comment above the line and
   `PreReleaseNotes.txt:14` say the line prevents that.
2. **reopen** (:254).  Open does not reset `curr_offset`.  In an object used for a
   second download without Range headers the first chunk is a jump, and the next
   one is read from the start of the file and delivered as if it were the second.
3. **false_end** (:145).  A failing Stat inside Open is ignored: `filesize` stays 0
   and each Read is answered OK with 0 bytes.
4. **removed** (:217).  Stat invents a size for any open file the server does not
   have; the comment says it does so for new files only.
5. **truncated** (Posix.cc:319).  `err` is tested inside the loop, where only an
   entry leads.  If a readdirpp that fails returns NULL, the loop ends as if the
   directory did and DirList answers OK with what it has.  What davix returns then
   is not in this repository, so it is the constant `FaultEndsListing`: the code is
   right if an entry comes with the error (run `names`, theorem `WholeListing`)
   and wrong if NULL does (this run).

6. **cgi** (Posix.cc:289).  RmDir hands davix its URL as it is, with the object's CGI
   in it, where every other call goes through `SanitizedURL`, which is to "filter out
   all CGIs" for S3 (Posix.cc:172).

Two more are exceptions written into the contracts and hazards, not runs, because
nothing in the repository promises otherwise: Sync never calls its handler (:378),
and MkDir does nothing (Posix.cc:236).

## 6. What is not modelled

* Transfers of 2 GiB and more (`int` counts, Posix.cc:426), and the chunks of a
  VectorRead one by one.
* The flags inside the stat line (Posix.cc:80): what davix reports and what XrdCl reads
  into it are both outside the repository.
* Time-out values and certificate files (Posix.cc:47-63, 110-155).  `SetAuthz` is
  reduced to which kind of credential is set; `SanitizedURL` looks at the key's id alone
  and `SetAuthz` at both keys, so with the id alone CGI is filtered and a certificate
  used, which RequestUrls has and nothing forbids.
* The bytes of the checksums of PgRead, and where XrdCl expects pages to begin: the
  code cuts them from the start of the buffer (:319).
* Leaks on error exits are in the model (`held`, `subst`) and listed as hazards, but no
  property forbids them: the repository promises nothing there.  That a handler is not
  freed *too early* is a property (`HandlerOutlivesRead`).  The `delete entry` of
  Posix.cc:332 contradicts the comment at :341-343; it is harmless only because the
  exit does not close the directory as well (`EntryNotMisused`).
* `errno` after the destructor of HttpFilePlugIn, which does not put it back.  Only
  the other plug-in says that it must survive.
* A destructor while a call is running, and a proxy that stops being one.
* Several writers of `filesize`: the load and the store are separate steps, but
  `FakedSizeIsWritten` is claimed for one writer.  The lost update exists.
* Weak memory: an unsynchronized access is one of the values some interleaving of
  whole loads and stores gives.
* Properties (a map nothing reads) and logging: no state a property could be about.  Of
  the factory there is which plug-in it makes (`Kind`).  A failing credential is a fault.
* davix inside: redirects, connection reuse, parsing.  The directory is fetched at
  one moment, by opendirpp.

## 7. Plan

Done: both plug-ins with their contracts; PgRead; the sequential client; the contexts;
what DirList owns; the URLs.  Every safety and action property of the passing runs is
proved, and of the six violated ones `reopen`, `removed`, `truncated` and, for the
sequential client, `past_end` have a theorem with the assumption under which the code keeps its word.

Worth doing next:

1. *An abstract transfer* (a file arrives, a prefix at a time) that SequentialCopy is
   shown to implement under the assumptions of its theorems.
2. *Both plug-ins on one server*: Open's delete-then-create beside Mv and Rm.
3. *A numeric module*: 32-bit counts and the chunks of VectorRead, against a reference
   definition over bounded inputs.
4. *An Open that resets `curr_offset` and `filesize`*, if the code gets one: `OffsetFresh`
   and `SizeFresh` then become invariants and the run `reopen` a passing one.
