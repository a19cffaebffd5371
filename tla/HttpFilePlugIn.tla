--------------------------- MODULE HttpFilePlugIn ---------------------------
(***************************************************************************)
(* One HttpFilePlugIn object (HttpFilePlugIn.cc) shared by several         *)
(* threads, the davix handle it holds and the HTTP server behind it.       *)
(*                                                                         *)
(* A method runs in the caller's thread from its first test to its return. *)
(* Its steps are cut where another thread can get in between: at the       *)
(* davix calls, at the mutex offset_locker, and between the load and the   *)
(* store of an unsynchronized "filesize +=".  HandleResponse is the last   *)
(* thing a method does before it returns, so it belongs to the last step.  *)
(*                                                                         *)
(* Contract of the callers (XrdCl::File): Open and Close do not overlap    *)
(* any other call on the object.  Read, VectorRead, Write, Stat and Sync   *)
(* may overlap one another.                                                *)
(***************************************************************************)
EXTENDS Posix, FiniteSets

CONSTANTS
  Threads,      \* the callers' threads
  NoThread,     \* nobody: the mutex is free
  Urls,         \* the files a caller may open
  NoUrl,        \* the empty url_
  AvoidUrls,    \* URLs for which Open decides to avoid the Range header, by the
                \* environment variable or by their xrdclhttp_avoidrange parameter
  FlagSets,     \* the sets of XrdCl::OpenFlags callers pass to Open
  Offsets,      \* offsets and sizes callers ask for
  Sizes,
  UsedOps,      \* the methods the callers of this instance use
  W32, W64,     \* moduli of uint32_t and uint64_t
  MaxFilesize,  \* bound: no Write is issued that would take filesize past this
  StoreLengths, \* lengths of the files on the server, initially and when replaced
  MaxRemote     \* bound on the changes other clients make on the server

OpenFlags == {"New", "Delete", "Read", "Write", "Update"}

ASSUME ThreadsAssumption == NoThread \notin Threads
ASSUME UrlsAssumption == NoUrl \notin Urls /\ AvoidUrls \subseteq Urls
Ops == {"Open", "Close", "Stat", "Read", "VectorRead", "Write", "Sync"}

ASSUME ArgumentsAssumption ==
  /\ FlagSets \subseteq SUBSET OpenFlags
  /\ Offsets \subseteq Nat /\ Sizes \subseteq Nat
  /\ UsedOps \subseteq Ops
\* Transfers of 2 GiB and more, whose count does not fit an int, are left out.
ASSUME WordsAssumption ==
  /\ W32 \in Nat \ {0} /\ W64 \in Nat \ {0}
  /\ \A size \in Sizes : 2 * size < W32
ASSUME BoundsAssumption ==
  /\ MaxFilesize \in Nat /\ MaxRemote \in Nat
  /\ StoreLengths \subseteq Lengths

VARIABLES
  is_open_, url_, filesize, curr_offset, avoid_pread_, offset_locker,
                 \* the object's fields
  fd,            \* what davix_fd_ points at (davix's own record of the handle)
  store,         \* the server: length of each file, or Absent
  pc, call,      \* each thread's control point and call in progress
  raced,         \* history: a thread between the seek and the write of a Write
                 \* has been overtaken by a call that moves the handle
  drifted,       \* history: curr_offset no longer says where davix's position is
  remote         \* number of changes other clients have made

object == <<is_open_, url_, filesize, curr_offset, avoid_pread_, offset_locker>>
control == <<pc, call>>
history == <<raced, drifted>>
vars == <<object, fd, store, control, history, remote>>

(***************************************************************************)
(* A call: its arguments, then its locals and results.  n and at are what  *)
(* the transfer moved and where; sum is the register of "filesize +=";     *)
(* status is what the method returns, answers how often it has called the  *)
(* handler.                                                                *)
(***************************************************************************)
NoCall ==
  [op |-> "none", url |-> NoUrl, flags |-> {}, offset |-> 0, size |-> 0,
   asked |-> 0, n |-> 0, at |-> 0, sum |-> 0, faked |-> FALSE,
   status |-> "none", answers |-> 0]

Calls ==
  [op : Ops \cup {"none"}, url : Urls \cup {NoUrl}, flags : SUBSET OpenFlags,
   offset : Nat, size : Nat, asked : Nat, n : Nat, at : Nat, sum : Nat,
   faked : BOOLEAN, status : Statuses \cup {"none"}, answers : Nat]

OpenSteps == {"open_stat_delete", "open_unlink", "open_stat_read", "open_davix"}
ReadSteps == {"read_clamp", "read_range", "read_lock", "read_seq", "read_jump", "read_done"}
WriteSteps == {"write_seek", "write_davix", "write_load", "write_store"}
DataSteps == {"stat_davix", "stat_fake", "vread_davix"} \cup ReadSteps \cup WriteSteps
ControlPoints == {"idle", "returned", "close_davix"} \cup OpenSteps \cup DataSteps

Handles ==
  [open : BOOLEAN, url : Urls \cup {NoUrl}, flags : SUBSET PosixFlags,
   pos : Nat, len : Nat]

TypeOK ==
  /\ is_open_ \in BOOLEAN /\ avoid_pread_ \in BOOLEAN
  /\ url_ \in Urls \cup {NoUrl}
  /\ filesize \in Nat /\ curr_offset \in Nat
  /\ offset_locker \in Threads \cup {NoThread}
  /\ fd \in Handles
  /\ store \in [Urls -> Lengths]
  /\ pc \in [Threads -> ControlPoints]
  /\ call \in [Threads -> Calls]
  /\ raced \in [Threads -> BOOLEAN]
  /\ drifted \in BOOLEAN
  /\ remote \in Nat

Init ==
  /\ is_open_ = FALSE /\ url_ = NoUrl /\ filesize = 0 /\ curr_offset = 0
  /\ avoid_pread_ \in BOOLEAN   \* not initialized by the constructor
  /\ offset_locker = NoThread
  /\ fd = [open |-> FALSE, url |-> NoUrl, flags |-> {}, pos |-> 0, len |-> 0]
  /\ store \in [Urls -> StoreLengths]
  /\ pc = [t \in Threads |-> "idle"]
  /\ call = [t \in Threads |-> NoCall]
  /\ raced = [t \in Threads |-> FALSE]
  /\ drifted = FALSE
  /\ remote = 0

-----------------------------------------------------------------------------
(* Control: how a call starts, moves on, fails and succeeds. *)

InCall(t) == pc[t] \notin {"idle", "returned"}

\* The callers' contract.
MayStart(t, op) ==
  /\ op \in UsedOps
  /\ pc[t] = "idle"
  /\ \A s \in Threads \ {t} :
       InCall(s) => op \notin {"Open", "Close"} /\ call[s].op \notin {"Open", "Close"}

MoveTo(t, point, c) ==
  /\ pc' = [pc EXCEPT ![t] = point]
  /\ call' = [call EXCEPT ![t] = c]

\* Mutant: an error is also handed to the handler.
FailAnswering(t, c, status) ==
  MoveTo(t, "returned", [c EXCEPT !.status = status, !.answers = @ + 1])

\* An error is returned and the handler is not called.
Fail(t, c, status) == MoveTo(t, "returned", [c EXCEPT !.status = status])

\* The handler is called once, then the method returns OK.
Answer(t, c) ==
  MoveTo(t, "returned", [c EXCEPT !.status = "ok", !.answers = @ + 1])

\* The caller takes the result of its call.
Return(t) ==
  /\ pc[t] = "returned"
  /\ MoveTo(t, "idle", NoCall)
  /\ raced' = [raced EXCEPT ![t] = FALSE]
  /\ UNCHANGED <<object, fd, store, drifted, remote>>

\* The length of the file behind the handle, on the server.
Remote == IF fd.url = NoUrl THEN Absent ELSE store[fd.url]

\* t has moved the handle: whoever is between seek and write is overtaken.
Overtaken(t) ==
  [s \in Threads |-> raced[s] \/ (s # t /\ pc[s] = "write_davix")]

-----------------------------------------------------------------------------
(* Open *)

MakePosixOpenFlags(flags) ==
  (IF "New" \in flags THEN {"O_CREAT", "O_EXCL"} ELSE {}) \cup
  (IF "Delete" \in flags THEN {"O_CREAT", "O_TRUNC"} ELSE {}) \cup
  (IF "Write" \in flags THEN {"O_WRONLY"} ELSE {}) \cup
  (IF "Update" \in flags THEN {"O_RDWR"} ELSE {})

\* An existing destination is deleted first; otherwise a file opened for
\* reading is measured; otherwise Open goes straight to davix.
FirstOpenStep(flags) ==
  IF "Delete" \in flags /\ flags \cap {"Write", "Update"} # {} THEN "open_stat_delete"
  ELSE IF "Read" \in flags THEN "open_stat_read"
  ELSE "open_davix"

\* The parent directories' MkDir between the two is a no-op that returns OK.
OpenCall(t, u, flags) ==
  LET c == [NoCall EXCEPT !.op = "Open", !.url = u, !.flags = flags]
  IN  /\ MayStart(t, "Open")
      /\ \/ /\ is_open_
            /\ Fail(t, c, "errInvalidOp")
            /\ UNCHANGED avoid_pread_
         \/ /\ ~is_open_
            /\ avoid_pread_' = (u \in AvoidUrls)
            /\ MoveTo(t, FirstOpenStep(flags), c)
      /\ UNCHANGED <<is_open_, url_, filesize, curr_offset, offset_locker,
                     fd, store, history, remote>>

\* A Stat that fails, for whatever reason, counts as "nothing to delete".
OpenStatDelete(t) ==
  /\ pc[t] = "open_stat_delete"
  /\ \E r \in Stat(store[call[t].url]) :
       MoveTo(t, IF r.status = "ok" THEN "open_unlink" ELSE "open_davix", call[t])
  /\ UNCHANGED <<object, fd, store, history, remote>>

\* The answer of an Unlink that fails may be what was lost, not the request.
OpenUnlink(t) ==
  LET removed == [store EXCEPT ![call[t].url] = Absent] IN
  /\ pc[t] = "open_unlink"
  /\ \E r \in Unlink(store[call[t].url]) :
       \/ /\ r.status # "ok"
          /\ Fail(t, call[t], r.status)
          /\ store' \in {store, removed}
       \/ /\ r.status = "ok"
          /\ store' = removed
          /\ MoveTo(t, "open_davix", call[t])
  /\ UNCHANGED <<object, fd, history, remote>>

\* Mutant: the result of Stat is used without a look at its status.
UncheckedSize(r) == r.n

\* A Stat that fails leaves filesize as it was.
MeasuredSize(r) == IF r.status = "ok" THEN r.n ELSE filesize

OpenStatRead(t) ==
  /\ pc[t] = "open_stat_read"
  /\ \E r \in Stat(store[call[t].url]) : filesize' = MeasuredSize(r)
  /\ MoveTo(t, "open_davix", call[t])
  /\ UNCHANGED <<is_open_, url_, curr_offset, avoid_pread_, offset_locker,
                 fd, store, history, remote>>

OpenDavix(t) ==
  LET u == call[t].url
      flags == MakePosixOpenFlags(call[t].flags)
  IN  /\ pc[t] = "open_davix"
      /\ \E r \in Open(store[u], flags) :
           \/ /\ r.status # "ok"
              /\ Fail(t, call[t], r.status)
              /\ UNCHANGED <<fd, is_open_, url_, drifted>>
           \/ /\ r.status = "ok"
              /\ fd' = NewHandle(u, flags, store[u])
              /\ is_open_' = TRUE
              /\ url_' = u
              /\ drifted' = (curr_offset # 0)
              /\ Answer(t, call[t])
      /\ UNCHANGED <<filesize, curr_offset, avoid_pread_, offset_locker,
                     store, raced, remote>>

-----------------------------------------------------------------------------
(* Every other method starts by refusing to work on a file that is not open. *)

StartOrRefuse(t, point, c) ==
  /\ MayStart(t, c.op)
  /\ IF is_open_ THEN MoveTo(t, point, c) ELSE Fail(t, c, "errInvalidOp")
  /\ UNCHANGED <<object, fd, store, history, remote>>

CloseCall(t) == StartOrRefuse(t, "close_davix", [NoCall EXCEPT !.op = "Close"])

\* Closing a handle that can be written to uploads its content.
Stored == IF Writable(fd) THEN [store EXCEPT ![fd.url] = fd.len] ELSE store

\* Mutant: the object is marked closed before davix's answer is looked at.
CloseFailedForgets(t, r) ==
  /\ r.status # "ok"
  /\ Fail(t, call[t], r.status)
  /\ store' \in {store, Stored}
  /\ is_open_' = FALSE
  /\ url_' = NoUrl
  /\ UNCHANGED fd

\* The upload may have arrived all the same.  davix keeps the handle (see Davix).
CloseFailed(t, r) ==
  /\ r.status # "ok"
  /\ Fail(t, call[t], r.status)
  /\ store' \in {store, Stored}
  /\ UNCHANGED <<fd, is_open_, url_>>

CloseDavix(t) ==
  /\ pc[t] = "close_davix"
  /\ \E r \in Close :
       \/ CloseFailed(t, r)
       \/ /\ r.status = "ok"
          /\ fd' = [fd EXCEPT !.open = FALSE]
          /\ store' = Stored
          /\ is_open_' = FALSE
          /\ url_' = NoUrl
          /\ Answer(t, call[t])
  /\ UNCHANGED <<filesize, curr_offset, avoid_pread_, offset_locker, history, remote>>

StatCall(t) == StartOrRefuse(t, "stat_davix", [NoCall EXCEPT !.op = "Stat"])

\* kXR_NotFound is taken for a new file not yet uploaded.
StatDavix(t) ==
  /\ pc[t] = "stat_davix"
  /\ \E r \in Stat(store[url_]) :
       \/ r.status = "ok" /\ Answer(t, [call[t] EXCEPT !.n = r.n])
       \/ r.status = "NotFound" /\ MoveTo(t, "stat_fake", call[t])
       \/ r.status \notin {"ok", "NotFound"} /\ Fail(t, call[t], r.status)
  /\ UNCHANGED <<object, fd, store, history, remote>>

StatFake(t) ==
  /\ pc[t] = "stat_fake"
  /\ Answer(t, [call[t] EXCEPT !.n = filesize, !.faked = TRUE])
  /\ UNCHANGED <<object, fd, store, history, remote>>

\* Sync answers nobody.
SyncCall(t) ==
  /\ MayStart(t, "Sync")
  /\ MoveTo(t, "returned", [NoCall EXCEPT !.op = "Sync", !.status = "ok"])
  /\ UNCHANGED <<object, fd, store, history, remote>>

-----------------------------------------------------------------------------
(* Read.  PgRead is Read with a handler that repacks the answer. *)

\* The mode is read after the size has been settled.
TransferStep == IF avoid_pread_ THEN "read_lock" ELSE "read_range"

\* Mutant: only the start of the range is compared.
StartsPast(offset, size) == offset > filesize

\* size = (offset + size > filesize) ? filesize - offset : size.  filesize is not
\* protected: a Write may change it between the test and the subtraction.
ReachesPast(offset, size) == (offset + size) % W64 > filesize

\* Mutant: filesize is taken for the offset of the last byte.
RemainingBelow(offset) == ((filesize - 1 - offset) % W64) % W32

Remaining(offset) == ((filesize - offset) % W64) % W32

ReadCall(t, offset, size) ==
  StartOrRefuse(t, IF ReachesPast(offset, size) THEN "read_clamp" ELSE TransferStep,
                [NoCall EXCEPT !.op = "Read", !.offset = offset, !.size = size,
                               !.asked = size])

ReadClamp(t) ==
  /\ pc[t] = "read_clamp"
  /\ MoveTo(t, TransferStep, [call[t] EXCEPT !.asked = Remaining(call[t].offset)])
  /\ UNCHANGED <<object, fd, store, history, remote>>

\* The lock is taken and the offset compared: a read that continues where the
\* last one ended avoids the Range header.
ReadLock(t) ==
  /\ pc[t] = "read_lock"
  /\ offset_locker = NoThread
  /\ offset_locker' = t
  /\ MoveTo(t, IF call[t].offset = curr_offset THEN "read_seq" ELSE "read_jump", call[t])
  /\ UNCHANGED <<is_open_, url_, filesize, curr_offset, avoid_pread_,
                 fd, store, history, remote>>

\* Mutant: no exit of Read unlocks.
KeepLocked == UNCHANGED offset_locker

\* Both exits of Read unlock if avoid_pread_ is set at that moment.
Unlock == offset_locker' = IF avoid_pread_ THEN NoThread ELSE offset_locker

\* Mutant: the error exit returns without unlocking.
ReadFailedLocked(t) ==
  /\ Fail(t, call[t], "errInternal")
  /\ UNCHANGED offset_locker

ReadFailed(t) ==
  /\ Fail(t, call[t], "errInternal")
  /\ Unlock

ReadMoved(t, n, at) ==
  /\ MoveTo(t, "read_done", [call[t] EXCEPT !.n = n, !.at = at])
  /\ UNCHANGED offset_locker

\* curr_offset will follow a jump, davix's position does not.
ReadPositioned(t) ==
  /\ pc[t] \in {"read_range", "read_jump"}
  /\ \E r \in PRead(fd, Remote, call[t].offset, call[t].asked) :
       \/ r.status # "ok" /\ ReadFailed(t) /\ UNCHANGED drifted
       \/ /\ r.status = "ok"
          /\ ReadMoved(t, r.n, call[t].offset)
          /\ drifted' = TRUE
  /\ UNCHANGED <<is_open_, url_, filesize, curr_offset, avoid_pread_,
                 fd, store, raced, remote>>

ReadSequential(t) ==
  /\ pc[t] = "read_seq"
  /\ \E r \in Read(fd, Remote, call[t].asked) :
       \/ r.status # "ok" /\ ReadFailed(t) /\ UNCHANGED <<fd, raced>>
       \/ /\ r.status = "ok"
          /\ ReadMoved(t, r.n, fd.pos)
          /\ fd' = [fd EXCEPT !.pos = @ + r.n]
          /\ raced' = Overtaken(t)
  /\ UNCHANGED <<is_open_, url_, filesize, curr_offset, avoid_pread_, store,
                 drifted, remote>>

\* Mutant: the offset asked for is recorded, not the one reached.
OffsetAsked(c) == c.offset + c.asked

OffsetReached(c) == c.offset + c.n

ReadDone(t) ==
  /\ pc[t] = "read_done"
  /\ curr_offset' = OffsetReached(call[t])
  /\ Unlock
  /\ Answer(t, call[t])
  /\ UNCHANGED <<is_open_, url_, filesize, avoid_pread_, fd, store, history, remote>>

-----------------------------------------------------------------------------
(* VectorRead: one davix call.  The copy that follows it reads from a vector   *)
(* nobody filled and moves nothing.  The chunks are one chunk here.            *)

VectorReadCall(t, offset, size) ==
  StartOrRefuse(t, "vread_davix",
                [NoCall EXCEPT !.op = "VectorRead", !.offset = offset, !.size = size])

VectorReadDavix(t) ==
  /\ pc[t] = "vread_davix"
  /\ \E r \in PReadVec(fd, Remote, call[t].offset, call[t].size) :
       \/ r.status # "ok" /\ Fail(t, call[t], r.status)
       \/ /\ r.status = "ok"
          /\ Answer(t, [call[t] EXCEPT !.n = r.n, !.at = call[t].offset])
  /\ UNCHANGED <<object, fd, store, history, remote>>

-----------------------------------------------------------------------------
(* Write: seek, write, then count. *)

WriteCall(t, offset, size) ==
  /\ filesize + size <= MaxFilesize
  /\ StartOrRefuse(t, "write_seek",
                   [NoCall EXCEPT !.op = "Write", !.offset = offset, !.size = size])

\* Mutant: SEEK_CUR for SEEK_SET.
SeekFromHere(h, offset) == [h EXCEPT !.pos = @ + offset]

SeekTo(h, offset) == [h EXCEPT !.pos = offset]

WriteSeek(t) ==
  /\ pc[t] = "write_seek"
  /\ \E r \in PWriteSeek(call[t].offset) :
       \/ r.status # "ok" /\ Fail(t, call[t], r.status) /\ UNCHANGED <<fd, history>>
       \/ /\ r.status = "ok"
          /\ fd' = SeekTo(fd, call[t].offset)
          /\ raced' = Overtaken(t)
          /\ drifted' = TRUE
          /\ MoveTo(t, "write_davix", call[t])
  /\ UNCHANGED <<object, store, remote>>

LengthAfterWrite(h, n) == IF h.pos + n > h.len THEN h.pos + n ELSE h.len

WriteDavix(t) ==
  /\ pc[t] = "write_davix"
  /\ \E r \in PWriteWrite(fd, call[t].size) :
       \/ r.status # "ok" /\ Fail(t, call[t], r.status) /\ UNCHANGED <<fd, raced>>
       \/ /\ r.status = "ok"
          /\ MoveTo(t, "write_load", [call[t] EXCEPT !.n = r.n, !.at = fd.pos])
          /\ fd' = [fd EXCEPT !.pos = @ + r.n, !.len = LengthAfterWrite(fd, r.n)]
          /\ raced' = Overtaken(t)
  /\ UNCHANGED <<object, store, drifted, remote>>

\* filesize += n, unsynchronized: a load, then a store of the sum.
WriteLoad(t) ==
  /\ pc[t] = "write_load"
  /\ MoveTo(t, "write_store", [call[t] EXCEPT !.sum = filesize])
  /\ UNCHANGED <<object, fd, store, history, remote>>

\* Mutant: an assignment for +=.
CountedLast(c) == c.n

Counted(c) == (c.sum + c.n) % W64

WriteStore(t) ==
  /\ pc[t] = "write_store"
  /\ filesize' = Counted(call[t])
  /\ Answer(t, call[t])
  /\ UNCHANGED <<is_open_, url_, curr_offset, avoid_pread_, offset_locker,
                 fd, store, history, remote>>

-----------------------------------------------------------------------------
(* Other clients of the server replace and remove files. *)

RemoteChange(u, len) ==
  /\ remote < MaxRemote
  /\ len # store[u]
  /\ store' = [store EXCEPT ![u] = len]
  /\ remote' = remote + 1
  /\ UNCHANGED <<object, fd, control, history>>

-----------------------------------------------------------------------------
\* What a thread inside a method does next.
Steps(t) ==
  \/ OpenStatDelete(t) \/ OpenUnlink(t) \/ OpenStatRead(t) \/ OpenDavix(t)
  \/ CloseDavix(t) \/ StatDavix(t) \/ StatFake(t)
  \/ ReadClamp(t) \/ ReadLock(t) \/ ReadPositioned(t) \/ ReadSequential(t) \/ ReadDone(t)
  \/ VectorReadDavix(t)
  \/ WriteSeek(t) \/ WriteDavix(t) \/ WriteLoad(t) \/ WriteStore(t)

CallsBy(t) ==
  \/ \E u \in Urls, flags \in FlagSets : OpenCall(t, u, flags)
  \/ CloseCall(t) \/ StatCall(t) \/ SyncCall(t)
  \/ \E offset \in Offsets, size \in Sizes :
       \/ ReadCall(t, offset, size)
       \/ VectorReadCall(t, offset, size)
       \/ WriteCall(t, offset, size)

Next ==
  \/ \E t \in Threads : CallsBy(t) \/ Steps(t) \/ Return(t)
  \/ \E u \in Urls, len \in StoreLengths : RemoteChange(u, len)

Spec == Init /\ [][Next]_vars

\* A thread inside a method keeps running, and davix calls return.
Fairness == \A t \in Threads : WF_vars(Steps(t))
FairSpec == Spec /\ Fairness

-----------------------------------------------------------------------------
(* Properties *)

\* The threads that are inside the critical section of Read.
InSection(t) ==
  \/ pc[t] \in {"read_seq", "read_jump"}
  \/ pc[t] = "read_done" /\ avoid_pread_

\* offset_locker is held by exactly the reader that compares, moves and records
\* the offset, and by nobody else: no exit of Read leaves it locked, and the
\* unlock that depends on avoid_pread_ undoes the lock that depended on it
\* (HttpFilePlugIn.cc:249-271).
LockInv == \A t \in Threads : offset_locker = t <=> InSection(t)

\* is_open_ and url_ say what davix_fd_ is: no failing Open or Close leaves the
\* object open without a handle, or closed with one (HttpFilePlugIn.cc:159-171,
\* 189-197).
OpenStateMatchesHandle ==
  /\ is_open_ <=> fd.open
  /\ is_open_ => url_ = fd.url /\ url_ # NoUrl

\* Where a call is, which method it is and what it may count on: the object of a
\* Close or of a data call is open from the call's first test to its last step.
Lifecycle(t) ==
  /\ pc[t] \in OpenSteps => call[t].op = "Open" /\ call[t].url \in Urls
  /\ pc[t] = "close_davix" => call[t].op = "Close"
  /\ pc[t] \in DataSteps => call[t].op \notin {"Open", "Close"}
  /\ pc[t] \in DataSteps \cup {"close_davix"} => is_open_

\* What the callers' contract keeps true while the calls run.
Exclusive ==
  \A s, t \in Threads :
    s # t /\ InCall(s) /\ InCall(t) => call[t].op \notin {"Open", "Close"}

\* A Read that goes by the lock is on an object that avoids Range, and the other way.
ModeInv ==
  \A t \in Threads :
    /\ pc[t] \in {"read_lock", "read_seq", "read_jump"} => avoid_pread_
    /\ pc[t] = "read_range" => ~avoid_pread_

\* The inductive invariant behind LockInv and OpenStateMatchesHandle: the unlock
\* goes by avoid_pread_, which only Open changes, so it matters that no Open runs
\* while a Read does.
IInv ==
  /\ TypeOK
  /\ OpenStateMatchesHandle
  /\ \A t \in Threads : Lifecycle(t)
  /\ Exclusive
  /\ ModeInv
  /\ LockInv

\* A read that avoids the Range header starts where it was asked to, as long as
\* only such reads have moved the object since it was opened at offset 0: the
\* offset recorded after a short read is the position davix stopped at
\* (HttpFilePlugIn.cc:254-255, 270).
SequentialReadsContinue ==
  \A t \in Threads :
    pc[t] = "read_seq" /\ ~drifted => fd.pos = call[t].offset

\* From the lock to the unlock curr_offset is the holder's own: nobody takes the lock from
\* it or moves the offset it has compared with, and it lets go only as it returns, when it
\* has recorded where its read ended, or nothing of a read that failed
\* (HttpFilePlugIn.cc:253-271).
OffsetHeld ==
  [][\A t \in Threads :
       offset_locker = t =>
         \/ UNCHANGED <<offset_locker, curr_offset>> /\ pc'[t] # "returned"
         \/ /\ offset_locker' = NoThread /\ pc'[t] = "returned"
            /\ curr_offset' = IF call'[t].status = "ok"
                              THEN call'[t].offset + call'[t].n ELSE curr_offset]_vars

\* A Write that returns OK has put its bytes where it was asked to, unless another
\* call moved the handle between its seek and its write (Posix.cc:485-492).
WritesLandUnlessRaced ==
  \A t \in Threads :
    /\ call[t].op = "Write" /\ call[t].status = "ok"
    /\ ~raced[t]
    => call[t].at = call[t].offset

\* While filesize is no more than what the server has, a read of a file opened for
\* reading that starts inside filesize stays inside the file
\* (HttpFilePlugIn.cc:246-247).
ReadsStayInside ==
  \A t \in Threads :
    /\ pc[t] \in {"read_range", "read_lock", "read_seq", "read_jump"}
    /\ ~Writable(fd) /\ Remote # Absent
    /\ call[t].offset <= filesize /\ filesize <= Remote
    => call[t].offset + call[t].asked <= Remote

\* No pread goes beyond the end of the file: the clamp of HttpFilePlugIn.cc:246-247
\* and PreReleaseNotes.txt:14 ("prevent DavPosix::pread() from reading beyond the
\* actual size of a file").  It does: past filesize the difference wraps.
PReadInsideFile ==
  \A t \in Threads :
    pc[t] \in {"read_range", "read_jump"} /\ ~Writable(fd) /\ Remote # Absent
    => call[t].offset + call[t].asked <= Remote

\* Stat invents an answer only for a file this object is about to create, "the
\* only time this happen is a newly created file" (HttpFilePlugIn.cc:214-216).  It
\* does so too for a file opened for reading that somebody else has removed.
FakedStatIsNewFile ==
  \A t \in Threads : pc[t] = "stat_fake" => Writable(fd)

\* The promise to the callers (FileContract), with the davix calls, the lock and
\* the data hidden.
ContractCalls ==
  [t \in Threads |->
     [op |-> call[t].op,
      phase |-> IF pc[t] = "idle" THEN "free"
                ELSE IF pc[t] # "returned" THEN "busy"
                ELSE IF call[t].status = "ok" THEN "ok" ELSE "error",
      answers |-> call[t].answers]]

Contract == INSTANCE FileContract WITH opened <- is_open_, calls <- ContractCalls

\* HttpFilePlugIn implements FileContract.
KeepsContract == Contract!Spec

\* A reader that took offset_locker gives it back, whatever its davix call yields
\* (HttpFilePlugIn.cc:253, 265, 271).
LockReleased ==
  \A t \in Threads : offset_locker = t ~> offset_locker # t

\* A call returns, unless the others take the lock it waits for again and again
\* (a std::mutex promises no order): nothing else is waited for, and nobody waits
\* for himself (HttpFilePlugIn.cc:253).
CallsReturn ==
  \A t \in Threads :
    \/ []<>~InCall(t)
    \/ /\ []<>(\E s \in Threads \ {t} : offset_locker = s)
       /\ []<>(offset_locker = NoThread)
=============================================================================
