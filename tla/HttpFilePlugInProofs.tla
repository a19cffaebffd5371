------------------------ MODULE HttpFilePlugInProofs ------------------------
(***************************************************************************)
(* Theorems about HttpFilePlugIn, for any number of threads, any files,    *)
(* any arguments and any behaviour of the server and of davix that Davix   *)
(* allows.                                                                 *)
(***************************************************************************)
EXTENDS HttpFilePlugIn, TLAPS

(***************************************************************************)
(* What the functions of Posix.cc return: a status, and with "ok" a count. *)
(***************************************************************************)
Sound(r) == r.status \in Statuses /\ (r.status = "ok" => r.n \in Nat)

\* The two ways an error code becomes a status keep "ok" for counts.
LEMMA StatusOfResult ==
  ASSUME NEW x, x.n \in Int
  PROVE  Sound(Converted(x)) /\ Sound(Internal(x)) /\ \A r \in Filled(x) : Sound(r)
BY DEF Sound, Filled, Converted, Internal, ErrCodeConvert, Statuses, ErrorStatuses

\* A network fault carries a count, the -1 of a davix call that failed.
LEMMA FaultCount == \A x \in Fault : x.n \in Int
BY DEF Fault, Failed

\* Stat, Unlink, Open and Close.
LEMMA NameCallsSound ==
  ASSUME NEW len \in Lengths, NEW flags
  PROVE  /\ \A r \in Stat(len) : Sound(r)
         /\ \A r \in Unlink(len) : Sound(r)
         /\ \A r \in Open(len, flags) : Sound(r)
         /\ \A r \in Close : Sound(r)
<1>1. \A x \in DavixStat(len) : x.n \in Int
  BY FaultCount DEF DavixStat, Failed, Returned, Lengths
<1>2. \A x \in DavixUnlink(len) : x.n \in Int
  BY FaultCount DEF DavixUnlink, Failed, Returned
<1>3. \A x \in DavixOpen(len, flags) : x.n \in Int
  BY FaultCount DEF DavixOpen, Failed, Returned
<1>4. \A x \in DavixClose : x.n \in Int
  BY FaultCount DEF DavixClose, Returned
<1>5. QED BY <1>1, <1>2, <1>3, <1>4, StatusOfResult DEF Stat, Unlink, Open, Close

\* What a transfer moves is a number.
LEMMA CountIsInt == ASSUME NEW k \in Int, NEW short PROVE Counts(k, short) \subseteq Int
BY DEF Counts

\* The calls that move data.
LEMMA DataCallsSound ==
  ASSUME NEW h \in Handles, NEW len \in Lengths,
         NEW offset \in Nat, NEW size \in Nat
  PROVE  /\ \A r \in PRead(h, len, offset, size) : Sound(r)
         /\ \A r \in Read(h, len, size) : Sound(r)
         /\ \A r \in PReadVec(h, len, offset, size) : Sound(r)
         /\ \A r \in PWriteSeek(offset) : Sound(r)
         /\ \A r \in PWriteWrite(h, size) : Sound(r)
<1>1. \A x \in DavixPread(h, len, offset, size) : x.n \in Int
  BY FaultCount, CountIsInt DEF DavixPread, Failed, Returned
<1>2. \A g \in Handles : \A x \in DavixRead(g, len, size) : x.n \in Int
  <2> SUFFICES ASSUME NEW g \in Handles, NEW x \in DavixRead(g, len, size)
               PROVE  x.n \in Int
    OBVIOUS
  <2>1. CASE x \in Fault
    BY <2>1, FaultCount
  <2>2. CASE x = Failed("Other")
    BY <2>2 DEF Failed
  <2>3. CASE VisibleLength(g, len) # Absent
    <3>1. VisibleLength(g, len) \in Nat
      BY <2>3 DEF VisibleLength, Handles, Lengths
    <3> DEFINE left == VisibleLength(g, len) - g.pos
               most == IF left < 0 THEN 0 ELSE IF left < size THEN left ELSE size
    <3>2. most \in Int
      BY <3>1 DEF Handles
    <3>3. x \in Fault \/ x = Failed("Other") \/ x \in {Returned(k) : k \in Counts(most, ShortReads)}
      BY DEF DavixRead
    <3> HIDE DEF most
    <3>4. QED BY <3>2, <3>3, <2>1, <2>2, CountIsInt DEF Returned
  <2>4. QED BY <2>1, <2>2, <2>3 DEF DavixRead
<1>3. \A x \in DavixLseek(offset) : x.n \in Int
  BY FaultCount DEF DavixLseek, Returned
<1>4. \A x \in DavixWrite(h, size) : x.n \in Int
  BY FaultCount, CountIsInt DEF DavixWrite, Failed, Returned
<1>5. [h EXCEPT !.pos = offset] \in Handles
  BY DEF Handles
<1>6. \A r \in PReadVec(h, len, offset, size) : Sound(r)
  BY <1>2, <1>5 DEF PReadVec, Sound, Statuses, ErrorStatuses
<1>7. QED
  BY <1>1, <1>2, <1>3, <1>4, <1>6, StatusOfResult
  DEF PRead, Read, PWriteSeek, PWriteWrite

-----------------------------------------------------------------------------
(* Type correctness. *)

\* What every use of MoveTo needs and gives.
LEMMA MoveToType ==
  ASSUME TypeOK, NEW t \in Threads, NEW point \in ControlPoints, NEW c \in Calls,
         MoveTo(t, point, c)
  PROVE  /\ pc' \in [Threads -> ControlPoints]
         /\ call' \in [Threads -> Calls]
BY DEF TypeOK, MoveTo

\* The record of a thread that is in no call is a call record.
LEMMA NoCallType == NoCall \in Calls
BY DEF NoCall, Calls

\* Returning an error keeps pc and call well typed.
LEMMA FailType ==
  ASSUME TypeOK, NEW t \in Threads, NEW c \in Calls, NEW status \in Statuses,
         Fail(t, c, status)
  PROVE  pc' \in [Threads -> ControlPoints] /\ call' \in [Threads -> Calls]
<1>1. [c EXCEPT !.status = status] \in Calls
  BY DEF Calls
<1>2. QED BY <1>1, MoveToType DEF Fail, ControlPoints

\* Calling the handler and returning OK keeps pc and call well typed.
LEMMA AnswerType ==
  ASSUME TypeOK, NEW t \in Threads, NEW c \in Calls, Answer(t, c)
  PROVE  pc' \in [Threads -> ControlPoints] /\ call' \in [Threads -> Calls]
<1>1. [c EXCEPT !.status = "ok", !.answers = @ + 1] \in Calls
  <2>1. "ok" \in Statuses /\ c.answers + 1 \in Nat
    BY DEF Statuses, Calls
  <2>2. QED BY <2>1 DEF Calls
<1>2. QED BY <1>1, MoveToType DEF Answer, ControlPoints

\* The test of is_open_ every method but Open starts with keeps the types.
LEMMA StartType ==
  ASSUME TypeOK, NEW t \in Threads, NEW point \in ControlPoints, NEW c \in Calls,
         StartOrRefuse(t, point, c)
  PROVE  TypeOK'
<1>1. "errInvalidOp" \in Statuses
  BY DEF Statuses, ErrorStatuses
<1>2. pc' \in [Threads -> ControlPoints] /\ call' \in [Threads -> Calls]
  BY <1>1, FailType, MoveToType DEF StartOrRefuse
<1>3. QED BY <1>2 DEF StartOrRefuse, TypeOK, object, history

\* The length of a file, and of the file behind the handle.
LEMMA LengthsOfFiles ==
  ASSUME TypeOK
  PROVE  (\A u \in Urls : store[u] \in Lengths) /\ Remote \in Lengths
BY DEF TypeOK, Handles, Remote, Lengths

\* Open's first step keeps the types.
LEMMA OpenCallType ==
  ASSUME TypeOK, NEW t \in Threads, NEW u \in Urls, NEW flags \in FlagSets,
         OpenCall(t, u, flags)
  PROVE  TypeOK'
<1> DEFINE c == [NoCall EXCEPT !.op = "Open", !.url = u, !.flags = flags]
<1>1. c \in Calls
  <2>1. flags \in SUBSET OpenFlags
    BY ArgumentsAssumption
  <2>2. "Open" \in Ops
    BY DEF Ops
  <2>3. QED BY <2>1, <2>2, NoCallType DEF Calls
<1>2. "errInvalidOp" \in Statuses /\ FirstOpenStep(flags) \in ControlPoints
  BY DEF Statuses, ErrorStatuses, FirstOpenStep, ControlPoints, OpenSteps
<1>3. pc' \in [Threads -> ControlPoints] /\ call' \in [Threads -> Calls]
  <2>1. \/ Fail(t, c, "errInvalidOp")
        \/ MoveTo(t, FirstOpenStep(flags), c)
    BY DEF OpenCall
  <2> HIDE DEF c
  <2>2. QED BY <1>1, <1>2, <2>1, FailType, MoveToType
<1>4. avoid_pread_' \in BOOLEAN
  <2>1. avoid_pread_' = avoid_pread_ \/ avoid_pread_' = (u \in AvoidUrls)
    BY DEF OpenCall
  <2>2. avoid_pread_ \in BOOLEAN
    BY DEF TypeOK
  <2>3. (u \in AvoidUrls) \in BOOLEAN
    OBVIOUS
  <2>4. QED BY <2>1, <2>2, <2>3, Zenon
<1>5. QED BY <1>3, <1>4 DEF OpenCall, TypeOK, history

\* The Stat, the Unlink, the second Stat and the davix open inside Open keep the types.
LEMMA OpenStepsType ==
  ASSUME TypeOK, NEW t \in Threads, Lifecycle(t),
         OpenStatDelete(t) \/ OpenUnlink(t) \/ OpenStatRead(t) \/ OpenDavix(t)
  PROVE  TypeOK'
<1>1. call[t] \in Calls /\ call[t].url \in Urls
  BY DEF TypeOK, Lifecycle, OpenSteps, OpenStatDelete, OpenUnlink, OpenStatRead, OpenDavix
<1>2. store[call[t].url] \in Lengths
  BY <1>1, LengthsOfFiles
<1>3. \A r : Sound(r) /\ r.status = "ok" => r.n \in Nat
  BY DEF Sound
<1>4. CASE OpenStatDelete(t)
  <2>1. pc' \in [Threads -> ControlPoints] /\ call' \in [Threads -> Calls]
    BY <1>1, <1>4, MoveToType DEF OpenStatDelete, ControlPoints, OpenSteps
  <2>2. QED BY <1>4, <2>1 DEF OpenStatDelete, TypeOK, object, history
<1>5. CASE OpenUnlink(t)
  <2>1. \A r \in Unlink(store[call[t].url]) : Sound(r)
    BY <1>2, NameCallsSound
  <2>2. pc' \in [Threads -> ControlPoints] /\ call' \in [Threads -> Calls]
    BY <1>1, <1>5, <2>1, FailType, MoveToType DEF OpenUnlink, Sound, ControlPoints, OpenSteps
  <2>3. store' \in [Urls -> Lengths]
    BY <1>5 DEF OpenUnlink, TypeOK, Lengths
  <2>4. QED BY <1>5, <2>2, <2>3 DEF OpenUnlink, TypeOK, object, history
<1>6. CASE OpenStatRead(t)
  <2>1. \A r \in Stat(store[call[t].url]) : Sound(r)
    BY <1>2, NameCallsSound
  <2>2. filesize' \in Nat
    BY <1>6, <2>1 DEF OpenStatRead, MeasuredSize, Sound, TypeOK
  <2>3. pc' \in [Threads -> ControlPoints] /\ call' \in [Threads -> Calls]
    BY <1>1, <1>6, MoveToType DEF OpenStatRead, ControlPoints, OpenSteps
  <2>4. QED BY <1>6, <2>2, <2>3 DEF OpenStatRead, TypeOK, history
<1>7. CASE OpenDavix(t)
  <2> DEFINE flags == MakePosixOpenFlags(call[t].flags)
             u == call[t].url
  <2>1. \A r \in Open(store[u], flags) : Sound(r)
    BY <1>2, NameCallsSound
  <2>2. pc' \in [Threads -> ControlPoints] /\ call' \in [Threads -> Calls]
    BY <1>1, <1>7, <2>1, FailType, AnswerType DEF OpenDavix, Sound
  <2>3. flags \in SUBSET PosixFlags
    BY DEF MakePosixOpenFlags, PosixFlags
  <2>4. NewHandle(u, flags, store[u]) \in Handles
    <3> HIDE DEF flags
    <3>1. QED BY <1>1, <1>2, <2>3 DEF NewHandle, Handles, Lengths
  <2>5. fd' \in Handles /\ is_open_' \in BOOLEAN /\ url_' \in Urls \cup {NoUrl}
        /\ drifted' \in BOOLEAN
    BY <1>1, <1>7, <2>4 DEF OpenDavix, TypeOK
  <2>6. QED BY <1>7, <2>2, <2>5 DEF OpenDavix, TypeOK
<1>8. QED BY <1>4, <1>5, <1>6, <1>7

\* Filling in the results of a transfer keeps a call a call.
LEMMA ResultType ==
  ASSUME NEW c \in Calls, NEW n \in Nat, NEW at \in Nat, NEW faked \in BOOLEAN
  PROVE  /\ [c EXCEPT !.n = n] \in Calls
         /\ [c EXCEPT !.sum = n] \in Calls
         /\ [c EXCEPT !.asked = n] \in Calls
         /\ [c EXCEPT !.n = n, !.at = at] \in Calls
         /\ [c EXCEPT !.n = n, !.faked = faked] \in Calls
BY DEF Calls

\* The arguments of a data call.
LEMMA DataCallType ==
  ASSUME NEW op \in Ops, NEW offset \in Offsets, NEW size \in Sizes
  PROVE  /\ [NoCall EXCEPT !.op = op] \in Calls
         /\ [NoCall EXCEPT !.op = op, !.offset = offset, !.size = size] \in Calls
         /\ [NoCall EXCEPT !.op = op, !.offset = offset, !.size = size,
                           !.asked = size] \in Calls
<1>1. offset \in Nat /\ size \in Nat
  BY ArgumentsAssumption
<1>2. QED BY <1>1, NoCallType DEF Calls

\* Starting any call keeps the types.
LEMMA CallsByType ==
  ASSUME TypeOK, NEW t \in Threads, CallsBy(t)
  PROVE  TypeOK'
<1>1. /\ {"close_davix", "stat_davix", "read_clamp", "vread_davix", "write_seek"}
           \subseteq ControlPoints
      /\ TransferStep \in ControlPoints /\ "returned" \in ControlPoints
  BY DEF ControlPoints, DataSteps, ReadSteps, WriteSteps, TransferStep
<1>2. {"Close", "Stat", "Sync", "Read", "VectorRead", "Write"} \subseteq Ops
  BY DEF Ops
<1>3. ASSUME NEW u \in Urls, NEW flags \in FlagSets, OpenCall(t, u, flags)
      PROVE  TypeOK'
  BY <1>3, OpenCallType
<1>4. ASSUME NEW op \in Ops PROVE [NoCall EXCEPT !.op = op] \in Calls
  BY NoCallType DEF Calls
<1>5. CASE CloseCall(t)
  BY <1>1, <1>2, <1>4, <1>5, StartType DEF CloseCall
<1>6. CASE StatCall(t)
  BY <1>1, <1>2, <1>4, <1>6, StartType DEF StatCall
<1>7. CASE SyncCall(t)
  <2>1. [NoCall EXCEPT !.op = "Sync", !.status = "ok"] \in Calls
    BY <1>2, NoCallType DEF Calls, Statuses
  <2>2. pc' \in [Threads -> ControlPoints] /\ call' \in [Threads -> Calls]
    BY <1>1, <1>7, <2>1, MoveToType DEF SyncCall
  <2>3. QED BY <1>7, <2>2 DEF SyncCall, TypeOK, object, history
<1>8. ASSUME NEW offset \in Offsets, NEW size \in Sizes,
             \/ ReadCall(t, offset, size)
             \/ VectorReadCall(t, offset, size)
             \/ WriteCall(t, offset, size)
      PROVE  TypeOK'
  <2>1. CASE ReadCall(t, offset, size)
    <3> DEFINE point == IF ReachesPast(offset, size) THEN "read_clamp" ELSE TransferStep
               c == [NoCall EXCEPT !.op = "Read", !.offset = offset, !.size = size,
                                   !.asked = size]
    <3>1. point \in ControlPoints /\ c \in Calls
      BY <1>1, <1>2, DataCallType
    <3>2. StartOrRefuse(t, point, c)
      BY <2>1 DEF ReadCall
    <3> HIDE DEF point, c
    <3>3. QED BY <3>1, <3>2, StartType
  <2>2. CASE VectorReadCall(t, offset, size)
    BY <1>1, <1>2, <2>2, DataCallType, StartType DEF VectorReadCall
  <2>3. CASE WriteCall(t, offset, size)
    BY <1>1, <1>2, <2>3, DataCallType, StartType DEF WriteCall
  <2>4. QED BY <1>8, <2>1, <2>2, <2>3
<1>9. QED BY <1>3, <1>5, <1>6, <1>7, <1>8 DEF CallsBy

\* Close and Stat keep the types, whatever their davix calls yield.
LEMMA CloseAndStatType ==
  ASSUME TypeOK, OpenStateMatchesHandle, NEW t \in Threads, Lifecycle(t),
         CloseDavix(t) \/ StatDavix(t) \/ StatFake(t)
  PROVE  TypeOK'
<1>1. call[t] \in Calls
  BY DEF TypeOK
<1>2. \A r \in Close : Sound(r)
  BY NameCallsSound DEF Lengths
<1>3. CASE CloseDavix(t)
  <2>1. pc' \in [Threads -> ControlPoints] /\ call' \in [Threads -> Calls]
    BY <1>1, <1>2, <1>3, FailType, AnswerType DEF CloseDavix, CloseFailed, Sound
  <2>2. fd' \in Handles /\ is_open_' \in BOOLEAN /\ url_' \in Urls \cup {NoUrl}
    BY <1>3 DEF CloseDavix, CloseFailed, TypeOK, Handles
  <2>3. store' \in [Urls -> Lengths]
    <3>1. fd.len \in Lengths
      BY DEF TypeOK, Handles, Lengths
    <3>2. QED BY <1>3, <3>1 DEF CloseDavix, CloseFailed, Stored, TypeOK
  <2>4. QED BY <1>3, <2>1, <2>2, <2>3 DEF CloseDavix, TypeOK, history
<1>4. CASE StatDavix(t)
  <2>1. url_ \in Urls
    BY <1>4 DEF StatDavix, Lifecycle, DataSteps, OpenStateMatchesHandle, TypeOK
  <2>2. \A r \in Stat(store[url_]) : Sound(r)
    BY <2>1, LengthsOfFiles, NameCallsSound
  <2>3. pc' \in [Threads -> ControlPoints] /\ call' \in [Threads -> Calls]
    <3>1. "stat_fake" \in ControlPoints
      BY DEF ControlPoints, DataSteps
    <3>2. QED BY <1>1, <1>4, <2>2, <3>1, FailType, AnswerType, MoveToType, ResultType
             DEF StatDavix, Sound
  <2>4. QED BY <1>4, <2>3 DEF StatDavix, TypeOK, object, history
<1>5. CASE StatFake(t)
  <2>1. filesize \in Nat
    BY DEF TypeOK
  <2>2. pc' \in [Threads -> ControlPoints] /\ call' \in [Threads -> Calls]
    BY <1>1, <1>5, <2>1, AnswerType, ResultType DEF StatFake
  <2>3. QED BY <1>5, <2>2 DEF StatFake, TypeOK, object, history
<1>6. QED BY <1>3, <1>4, <1>5

\* Read and VectorRead.
LEMMA ReadStepsType ==
  ASSUME TypeOK, NEW t \in Threads,
         \/ ReadClamp(t) \/ ReadLock(t) \/ ReadPositioned(t) \/ ReadSequential(t)
         \/ ReadDone(t) \/ VectorReadDavix(t)
  PROVE  TypeOK'
<1>1. call[t] \in Calls /\ fd \in Handles /\ Remote \in Lengths
  BY LengthsOfFiles DEF TypeOK
<1>2. /\ call[t].offset \in Nat /\ call[t].size \in Nat /\ call[t].asked \in Nat
      /\ call[t].n \in Nat /\ fd.pos \in Nat
  BY <1>1 DEF Calls, Handles
<1>3. /\ "read_seq" \in ControlPoints /\ "read_jump" \in ControlPoints
      /\ "read_done" \in ControlPoints /\ TransferStep \in ControlPoints
  BY DEF ControlPoints, DataSteps, ReadSteps, TransferStep
<1>4. "errInternal" \in Statuses
  BY DEF Statuses, ErrorStatuses
<1>5. offset_locker \in Threads \cup {NoThread}
  BY DEF TypeOK
<1>6. CASE ReadClamp(t)
  <2>1. Remaining(call[t].offset) \in Nat
    BY <1>2, WordsAssumption DEF Remaining, TypeOK
  <2>2. pc' \in [Threads -> ControlPoints] /\ call' \in [Threads -> Calls]
    BY <1>1, <1>3, <1>6, <2>1, MoveToType, ResultType DEF ReadClamp
  <2>3. QED BY <1>6, <2>2 DEF ReadClamp, TypeOK, object, history
<1>7. CASE ReadLock(t)
  <2>1. pc' \in [Threads -> ControlPoints] /\ call' \in [Threads -> Calls]
    BY <1>1, <1>3, <1>7, MoveToType DEF ReadLock
  <2>2. QED BY <1>7, <2>1 DEF ReadLock, TypeOK, history
<1>8. CASE ReadPositioned(t)
  <2>1. \A r \in PRead(fd, Remote, call[t].offset, call[t].asked) : Sound(r)
    BY <1>1, <1>2, DataCallsSound
  <2>2. pc' \in [Threads -> ControlPoints] /\ call' \in [Threads -> Calls]
    BY <1>1, <1>2, <1>3, <1>4, <1>8, <2>1, FailType, MoveToType, ResultType
    DEF ReadPositioned, ReadFailed, ReadMoved, Sound
  <2>3. offset_locker' \in Threads \cup {NoThread} /\ drifted' \in BOOLEAN
    BY <1>5, <1>8 DEF ReadPositioned, ReadFailed, ReadMoved, Unlock, TypeOK
  <2>4. QED BY <1>8, <2>2, <2>3 DEF ReadPositioned, TypeOK
<1>9. CASE ReadSequential(t)
  <2>1. \A r \in Read(fd, Remote, call[t].asked) : Sound(r)
    BY <1>1, <1>2, DataCallsSound
  <2>2. pc' \in [Threads -> ControlPoints] /\ call' \in [Threads -> Calls]
    BY <1>1, <1>2, <1>3, <1>4, <1>9, <2>1, FailType, MoveToType, ResultType
    DEF ReadSequential, ReadFailed, ReadMoved, Sound
  <2>3. offset_locker' \in Threads \cup {NoThread}
    BY <1>5, <1>9 DEF ReadSequential, ReadFailed, ReadMoved, Unlock
  <2>4. fd' \in Handles
    BY <1>1, <1>2, <1>9, <2>1 DEF ReadSequential, Sound, Handles
  <2>5. raced' \in [Threads -> BOOLEAN]
    BY <1>9 DEF ReadSequential, Overtaken, TypeOK
  <2>6. QED BY <1>9, <2>2, <2>3, <2>4, <2>5 DEF ReadSequential, TypeOK
<1>10. CASE ReadDone(t)
  <2>1. pc' \in [Threads -> ControlPoints] /\ call' \in [Threads -> Calls]
    BY <1>1, <1>10, AnswerType DEF ReadDone
  <2>2. offset_locker' \in Threads \cup {NoThread} /\ curr_offset' \in Nat
    BY <1>2, <1>5, <1>10 DEF ReadDone, Unlock, OffsetReached
  <2>3. QED BY <1>10, <2>1, <2>2 DEF ReadDone, TypeOK, history
<1>11. CASE VectorReadDavix(t)
  <2>1. \A r \in PReadVec(fd, Remote, call[t].offset, call[t].size) : Sound(r)
    BY <1>1, <1>2, DataCallsSound
  <2>2. pc' \in [Threads -> ControlPoints] /\ call' \in [Threads -> Calls]
    BY <1>1, <1>2, <1>11, <2>1, FailType, AnswerType, ResultType DEF VectorReadDavix, Sound
  <2>3. QED BY <1>11, <2>2 DEF VectorReadDavix, TypeOK, object, history
<1>12. QED BY <1>6, <1>7, <1>8, <1>9, <1>10, <1>11

\* The seek, the write and the two halves of "filesize +=" keep the types.
LEMMA WriteStepsType ==
  ASSUME TypeOK, NEW t \in Threads,
         WriteSeek(t) \/ WriteDavix(t) \/ WriteLoad(t) \/ WriteStore(t)
  PROVE  TypeOK'
<1>1. call[t] \in Calls /\ fd \in Handles /\ Remote \in Lengths
  BY LengthsOfFiles DEF TypeOK
<1>2. /\ call[t].offset \in Nat /\ call[t].size \in Nat /\ call[t].n \in Nat
      /\ call[t].sum \in Nat /\ fd.pos \in Nat /\ fd.len \in Nat /\ filesize \in Nat
  BY <1>1 DEF Calls, Handles, TypeOK
<1>3. {"write_davix", "write_load", "write_store"} \subseteq ControlPoints
  BY DEF ControlPoints, DataSteps, ReadSteps, WriteSteps
<1>4. \A r \in PWriteSeek(call[t].offset) \cup PWriteWrite(fd, call[t].size) : Sound(r)
  BY <1>1, <1>2, DataCallsSound
<1>5. Overtaken(t) \in [Threads -> BOOLEAN]
  BY DEF Overtaken, TypeOK
<1>6. CASE WriteSeek(t)
  <2>1. pc' \in [Threads -> ControlPoints] /\ call' \in [Threads -> Calls]
    BY <1>1, <1>3, <1>4, <1>6, FailType, MoveToType DEF WriteSeek, Sound
  <2>2. fd' \in Handles /\ raced' \in [Threads -> BOOLEAN] /\ drifted' \in BOOLEAN
    BY <1>1, <1>2, <1>5, <1>6 DEF WriteSeek, SeekTo, Handles, TypeOK, history
  <2>3. QED BY <1>6, <2>1, <2>2 DEF WriteSeek, TypeOK, object
<1>7. CASE WriteDavix(t)
  <2>1. pc' \in [Threads -> ControlPoints] /\ call' \in [Threads -> Calls]
    BY <1>1, <1>2, <1>3, <1>4, <1>7, FailType, MoveToType, ResultType DEF WriteDavix, Sound
  <2>2. fd' \in Handles
    <3>1. ASSUME NEW n \in Nat
          PROVE  [fd EXCEPT !.pos = @ + n, !.len = LengthAfterWrite(fd, n)] \in Handles
      <4>1. LengthAfterWrite(fd, n) \in Nat /\ fd.pos + n \in Nat
        BY <1>2 DEF LengthAfterWrite
      <4>2. QED BY <1>1, <4>1 DEF Handles
    <3>2. fd' = fd \/ \E n \in Nat :
            fd' = [fd EXCEPT !.pos = @ + n, !.len = LengthAfterWrite(fd, n)]
      BY <1>4, <1>7 DEF WriteDavix, Sound
    <3>3. QED BY <1>1, <3>1, <3>2
  <2>3. raced' \in [Threads -> BOOLEAN]
    BY <1>5, <1>7 DEF WriteDavix, TypeOK
  <2>4. QED BY <1>7, <2>1, <2>2, <2>3 DEF WriteDavix, TypeOK, object
<1>8. CASE WriteLoad(t)
  <2>1. pc' \in [Threads -> ControlPoints] /\ call' \in [Threads -> Calls]
    BY <1>1, <1>2, <1>3, <1>8, MoveToType, ResultType DEF WriteLoad
  <2>2. QED BY <1>8, <2>1 DEF WriteLoad, TypeOK, object, history
<1>9. CASE WriteStore(t)
  <2>1. pc' \in [Threads -> ControlPoints] /\ call' \in [Threads -> Calls]
    BY <1>1, <1>9, AnswerType DEF WriteStore
  <2>2. filesize' \in Nat
    BY <1>2, <1>9, WordsAssumption DEF WriteStore, Counted
  <2>3. QED BY <1>9, <2>1, <2>2 DEF WriteStore, TypeOK, history
<1>10. QED BY <1>6, <1>7, <1>8, <1>9

\* The return to the caller and the changes other clients make keep the types.
LEMMA OthersType ==
  ASSUME TypeOK,
         \/ \E t \in Threads : Return(t)
         \/ \E u \in Urls, len \in StoreLengths : RemoteChange(u, len)
  PROVE  TypeOK'
<1>1. ASSUME NEW t \in Threads, Return(t)
      PROVE  TypeOK'
  <2>1. "idle" \in ControlPoints
    BY DEF ControlPoints
  <2>2. pc' \in [Threads -> ControlPoints] /\ call' \in [Threads -> Calls]
    BY <1>1, <2>1, NoCallType, MoveToType DEF Return
  <2>3. raced' \in [Threads -> BOOLEAN]
    BY <1>1 DEF Return, TypeOK
  <2>4. QED BY <1>1, <2>2, <2>3 DEF Return, TypeOK, object
<1>2. ASSUME NEW u \in Urls, NEW len \in StoreLengths, RemoteChange(u, len)
      PROVE  TypeOK'
  <2>1. store' \in [Urls -> Lengths] /\ remote' \in Nat
    BY <1>2, BoundsAssumption DEF RemoteChange, TypeOK
  <2>2. QED BY <1>2, <2>1 DEF RemoteChange, TypeOK, object, control, history
<1>3. QED BY <1>1, <1>2

\* No step of the system breaks a type.
LEMMA TypeStep == IInv /\ [Next]_vars => TypeOK'
<1> SUFFICES ASSUME IInv, [Next]_vars PROVE TypeOK'
  OBVIOUS
<1>1. TypeOK /\ OpenStateMatchesHandle /\ \A t \in Threads : Lifecycle(t)
  BY DEF IInv
<1>2. ASSUME NEW t \in Threads, Steps(t)
      PROVE  TypeOK'
  BY <1>1, <1>2, OpenStepsType, CloseAndStatType, ReadStepsType, WriteStepsType DEF Steps
<1>3. CASE UNCHANGED vars
  BY <1>1, <1>3 DEF TypeOK, vars, object, control, history
<1>4. QED BY <1>1, <1>2, <1>3, CallsByType, OthersType DEF Next

-----------------------------------------------------------------------------
(* What a step does to the thread that takes it, and to the others. *)

\* MoveTo changes one thread and leaves the others where they are.
LEMMA MoveToEffect ==
  ASSUME TypeOK, NEW t \in Threads, NEW point, NEW c, MoveTo(t, point, c)
  PROVE  /\ pc'[t] = point /\ call'[t] = c
         /\ \A s \in Threads \ {t} : pc'[s] = pc[s] /\ call'[s] = call[s]
BY DEF TypeOK, MoveTo

\* A call stays the call it is until it returns.
Follows(t) ==
  /\ \A s \in Threads \ {t} : pc'[s] = pc[s] /\ call'[s] = call[s]
  /\ call'[t].op = call[t].op /\ call'[t].url = call[t].url
  /\ \/ pc'[t] = "returned"
     \/ pc[t] \in OpenSteps /\ pc'[t] \in OpenSteps
     \/ pc[t] \in DataSteps /\ pc'[t] \in DataSteps
  /\ pc[t] \in OpenSteps \cup DataSteps \cup {"close_davix"}
  /\ pc'[t] # "returned" => /\ pc'[t] \in ReadSteps <=> pc[t] \in ReadSteps
                            /\ pc'[t] \in WriteSteps <=> pc[t] \in WriteSteps
  /\ avoid_pread_' = avoid_pread_
  /\ pc[t] \in DataSteps =>
       UNCHANGED <<is_open_, url_>> /\ fd'.open = fd.open /\ fd'.url = fd.url

SameCall(d, c) == d.op = c.op /\ d.url = c.url

\* t moves on to a control point, or returns, with the call it had.
Moves(t, point, c) ==
  /\ pc'[t] = point /\ SameCall(call'[t], c)
  /\ \A s \in Threads \ {t} : pc'[s] = pc[s] /\ call'[s] = call[s]

Returns(t, c) == Moves(t, "returned", c)

\* MoveTo with a record of the same method and file is a move of that call.
LEMMA MoveSame ==
  ASSUME TypeOK, NEW t \in Threads, NEW point, NEW c, NEW d,
         SameCall(d, c), MoveTo(t, point, d)
  PROVE  Moves(t, point, c)
BY MoveToEffect DEF Moves

\* An error ends the call without making it another one.
LEMMA FailEffect ==
  ASSUME TypeOK, NEW t \in Threads, NEW c \in Calls, NEW status, Fail(t, c, status)
  PROVE  Returns(t, c)
<1> DEFINE d == [c EXCEPT !.status = status]
<1>1. SameCall(d, c)
  BY DEF SameCall, Calls
<1>2. MoveTo(t, "returned", d)
  BY DEF Fail
<1> HIDE DEF d
<1>3. QED BY <1>1, <1>2, MoveSame DEF Returns

\* An answer ends the call without making it another one.
LEMMA AnswerEffect ==
  ASSUME TypeOK, NEW t \in Threads, NEW c \in Calls, NEW b, SameCall(c, b), Answer(t, c)
  PROVE  Returns(t, b)
<1> DEFINE d == [c EXCEPT !.status = "ok", !.answers = @ + 1]
<1>1. SameCall(d, b)
  BY DEF SameCall, Calls
<1>2. MoveTo(t, "returned", d)
  BY DEF Answer
<1> HIDE DEF d
<1>3. QED BY <1>1, <1>2, MoveSame DEF Returns

\* After a step of Open the thread is further on in the same Open, or returned.
LEMMA OpenStepsFollow ==
  ASSUME TypeOK, NEW t \in Threads,
         OpenStatDelete(t) \/ OpenUnlink(t) \/ OpenStatRead(t) \/ OpenDavix(t)
  PROVE  Follows(t)
<1>1. call[t] \in Calls
  BY DEF TypeOK
<1>2. CASE OpenStatDelete(t)
  BY <1>1, <1>2, MoveToEffect
  DEF OpenStatDelete, Follows, OpenSteps, DataSteps, ReadSteps, WriteSteps, object
<1>3. CASE OpenUnlink(t)
  <2>1. MoveTo(t, "open_davix", call[t]) \/ Returns(t, call[t])
    BY <1>1, <1>3, FailEffect DEF OpenUnlink
  <2>2. QED BY <1>3, <2>1, MoveToEffect
            DEF OpenUnlink, Returns, Moves, SameCall, Follows, OpenSteps, DataSteps, ReadSteps, WriteSteps, object
<1>4. CASE OpenStatRead(t)
  BY <1>1, <1>4, MoveToEffect
  DEF OpenStatRead, Follows, OpenSteps, DataSteps, ReadSteps, WriteSteps
<1>5. CASE OpenDavix(t)
  <2>1. Returns(t, call[t])
    BY <1>1, <1>5, FailEffect, AnswerEffect DEF OpenDavix, SameCall
  <2>2. QED BY <1>5, <2>1
            DEF OpenDavix, Returns, Moves, SameCall, Follows, OpenSteps, DataSteps, ReadSteps, WriteSteps
<1>6. QED BY <1>2, <1>3, <1>4, <1>5

\* After a step of Close or Stat the thread is further on in the same call, or returned.
LEMMA CloseAndStatFollow ==
  ASSUME TypeOK, OpenStateMatchesHandle, NEW t \in Threads, Lifecycle(t),
         CloseDavix(t) \/ StatDavix(t) \/ StatFake(t)
  PROVE  Follows(t)
<1>1. call[t] \in Calls
  BY DEF TypeOK
<1>2. CASE CloseDavix(t)
  <2>1. Returns(t, call[t])
    BY <1>1, <1>2, FailEffect, AnswerEffect DEF CloseDavix, CloseFailed, SameCall
  <2>2. QED BY <1>2, <2>1
            DEF CloseDavix, Returns, Moves, SameCall, Follows, OpenSteps, DataSteps, ReadSteps, WriteSteps
<1>3. CASE StatDavix(t)
  <2>1. url_ \in Urls
    BY <1>3 DEF StatDavix, Lifecycle, DataSteps, OpenStateMatchesHandle, TypeOK
  <2>2. \A r \in Stat(store[url_]) : Sound(r)
    BY <2>1, LengthsOfFiles, NameCallsSound
  <2>3. ASSUME NEW n \in Nat, Answer(t, [call[t] EXCEPT !.n = n])
        PROVE  Returns(t, call[t])
    <3> DEFINE d == [call[t] EXCEPT !.n = n]
    <3>1. d \in Calls /\ SameCall(d, call[t])
      BY <1>1, ResultType DEF SameCall, Calls
    <3>2. Answer(t, d)
      BY <2>3
    <3> HIDE DEF d
    <3>3. QED BY <3>1, <3>2, AnswerEffect
  <2>4. MoveTo(t, "stat_fake", call[t]) \/ Returns(t, call[t])
    BY <1>1, <1>3, <2>2, <2>3, FailEffect DEF StatDavix, Sound
  <2>5. QED BY <1>3, <2>4, MoveToEffect
            DEF StatDavix, Returns, Moves, SameCall, Follows, OpenSteps, DataSteps, ReadSteps, WriteSteps, object
<1>4. CASE StatFake(t)
  <2> DEFINE d == [call[t] EXCEPT !.n = filesize, !.faked = TRUE]
  <2>1. d \in Calls /\ SameCall(d, call[t])
    BY <1>1, ResultType DEF TypeOK, SameCall, Calls
  <2>2. Returns(t, call[t])
    <3>1. Answer(t, d)
      BY <1>4 DEF StatFake
    <3> HIDE DEF d
    <3>2. QED BY <2>1, <3>1, AnswerEffect
  <2>3. QED BY <1>4, <2>2
            DEF StatFake, Returns, Moves, SameCall, Follows, OpenSteps, DataSteps, ReadSteps, WriteSteps, object
<1>5. QED BY <1>2, <1>3, <1>4

\* After a step of Read or VectorRead the thread is further on in the same call, or returned.
LEMMA ReadStepsFollow ==
  ASSUME TypeOK, NEW t \in Threads,
         \/ ReadClamp(t) \/ ReadLock(t) \/ ReadPositioned(t) \/ ReadSequential(t)
         \/ ReadDone(t) \/ VectorReadDavix(t)
  PROVE  Follows(t)
<1>1. call[t] \in Calls /\ fd \in Handles /\ Remote \in Lengths
  BY LengthsOfFiles DEF TypeOK
<1>2. call[t].offset \in Nat /\ call[t].size \in Nat /\ call[t].asked \in Nat
  BY <1>1 DEF Calls
<1>3. CASE ReadClamp(t)
  <2> DEFINE d == [call[t] EXCEPT !.asked = Remaining(call[t].offset)]
  <2>1. SameCall(d, call[t])
    BY <1>1 DEF SameCall, Calls
  <2>2. MoveTo(t, TransferStep, d)
    BY <1>3 DEF ReadClamp
  <2> HIDE DEF d
  <2>3. Moves(t, TransferStep, call[t])
    BY <2>1, <2>2, MoveSame
  <2>4. QED BY <1>3, <2>3
            DEF ReadClamp, TransferStep, Moves, SameCall, Follows, DataSteps, ReadSteps, WriteSteps, object
<1>4. CASE ReadLock(t)
  BY <1>4, MoveToEffect DEF ReadLock, Follows, DataSteps, ReadSteps, WriteSteps
<1>5. ASSUME NEW n, NEW at, ReadMoved(t, n, at)
      PROVE  Moves(t, "read_done", call[t])
  <2> DEFINE d == [call[t] EXCEPT !.n = n, !.at = at]
  <2>1. SameCall(d, call[t])
    BY <1>1 DEF SameCall, Calls
  <2>2. MoveTo(t, "read_done", d)
    BY <1>5 DEF ReadMoved
  <2> HIDE DEF d
  <2>3. QED BY <2>1, <2>2, MoveSame
<1>6. CASE ReadPositioned(t)
  <2>1. \/ Returns(t, call[t])
        \/ \E n, at : ReadMoved(t, n, at)
    BY <1>1, <1>6, FailEffect DEF ReadPositioned, ReadFailed
  <2>2. QED BY <1>5, <1>6, <2>1
            DEF ReadPositioned, Returns, Moves, SameCall, Follows, DataSteps, ReadSteps, WriteSteps
<1>7. CASE ReadSequential(t)
  <2>1. \/ Returns(t, call[t])
        \/ \E n, at : ReadMoved(t, n, at)
    BY <1>1, <1>7, FailEffect DEF ReadSequential, ReadFailed
  <2>2. fd'.open = fd.open /\ fd'.url = fd.url
    BY <1>1, <1>7 DEF ReadSequential, Handles
  <2>3. QED BY <1>5, <1>7, <2>1, <2>2
            DEF ReadSequential, Returns, Moves, SameCall, Follows, DataSteps, ReadSteps, WriteSteps
<1>8. CASE ReadDone(t)
  <2>1. Returns(t, call[t])
    BY <1>1, <1>8, AnswerEffect DEF ReadDone, SameCall
  <2>2. QED BY <1>8, <2>1
            DEF ReadDone, Returns, Moves, SameCall, Follows, DataSteps, ReadSteps, WriteSteps
<1>9. CASE VectorReadDavix(t)
  <2>1. \A r \in PReadVec(fd, Remote, call[t].offset, call[t].size) : Sound(r)
    BY <1>1, <1>2, DataCallsSound
  <2>2. ASSUME NEW n \in Nat, Answer(t, [call[t] EXCEPT !.n = n, !.at = call[t].offset])
        PROVE  Returns(t, call[t])
    <3> DEFINE d == [call[t] EXCEPT !.n = n, !.at = call[t].offset]
    <3>1. d \in Calls /\ SameCall(d, call[t])
      BY <1>1, <1>2, ResultType DEF SameCall, Calls
    <3>2. Answer(t, d)
      BY <2>2
    <3> HIDE DEF d
    <3>3. QED BY <3>1, <3>2, AnswerEffect
  <2>3. Returns(t, call[t])
    BY <1>1, <1>9, <2>1, <2>2, FailEffect DEF VectorReadDavix, Sound
  <2>4. QED BY <1>9, <2>3 DEF VectorReadDavix, Returns, Moves, SameCall, Follows, DataSteps, ReadSteps, WriteSteps, object
<1>10. QED BY <1>3, <1>4, <1>6, <1>7, <1>8, <1>9

\* After a step of Write the thread is further on in the same call, or returned.
LEMMA WriteStepsFollow ==
  ASSUME TypeOK, NEW t \in Threads,
         WriteSeek(t) \/ WriteDavix(t) \/ WriteLoad(t) \/ WriteStore(t)
  PROVE  Follows(t)
<1>1. call[t] \in Calls /\ fd \in Handles
  BY DEF TypeOK
<1>2. CASE WriteSeek(t)
  <2>1. MoveTo(t, "write_davix", call[t]) \/ Returns(t, call[t])
    BY <1>1, <1>2, FailEffect DEF WriteSeek
  <2>2. fd'.open = fd.open /\ fd'.url = fd.url
    BY <1>1, <1>2 DEF WriteSeek, SeekTo, Handles
  <2>3. QED BY <1>2, <2>1, <2>2, MoveToEffect
            DEF WriteSeek, Returns, Moves, SameCall, Follows, DataSteps, ReadSteps, WriteSteps, object
<1>3. CASE WriteDavix(t)
  <2>1. \/ Returns(t, call[t])
        \/ \E n : MoveTo(t, "write_load", [call[t] EXCEPT !.n = n, !.at = fd.pos])
    BY <1>1, <1>3, FailEffect DEF WriteDavix
  <2>2. fd'.open = fd.open /\ fd'.url = fd.url
    BY <1>1, <1>3 DEF WriteDavix, Handles
  <2>3. ASSUME NEW n, MoveTo(t, "write_load", [call[t] EXCEPT !.n = n, !.at = fd.pos])
        PROVE  Moves(t, "write_load", call[t])
    <3> DEFINE d == [call[t] EXCEPT !.n = n, !.at = fd.pos]
    <3>1. SameCall(d, call[t])
      BY <1>1 DEF SameCall, Calls
    <3>2. MoveTo(t, "write_load", d)
      BY <2>3
    <3> HIDE DEF d
    <3>3. QED BY <3>1, <3>2, MoveSame
  <2>4. QED BY <1>3, <2>1, <2>2, <2>3
            DEF WriteDavix, Returns, Moves, SameCall, Follows, DataSteps, ReadSteps, WriteSteps, object
<1>4. CASE WriteLoad(t)
  <2> DEFINE d == [call[t] EXCEPT !.sum = filesize]
  <2>1. SameCall(d, call[t])
    BY <1>1 DEF SameCall, Calls
  <2>2. MoveTo(t, "write_store", d)
    BY <1>4 DEF WriteLoad
  <2> HIDE DEF d
  <2>3. Moves(t, "write_store", call[t])
    BY <2>1, <2>2, MoveSame
  <2>4. QED BY <1>4, <2>3
            DEF WriteLoad, Moves, SameCall, Follows, DataSteps, ReadSteps, WriteSteps, object
<1>5. CASE WriteStore(t)
  <2>1. Returns(t, call[t])
    BY <1>1, <1>5, AnswerEffect DEF WriteStore, SameCall
  <2>2. QED BY <1>5, <2>1
            DEF WriteStore, Returns, Moves, SameCall, Follows, DataSteps, ReadSteps, WriteSteps
<1>6. QED BY <1>2, <1>3, <1>4, <1>5

\* Every step inside a method follows the call it belongs to.
LEMMA StepsFollow ==
  ASSUME IInv, NEW t \in Threads, Steps(t)
  PROVE  Follows(t)
BY OpenStepsFollow, CloseAndStatFollow, ReadStepsFollow, WriteStepsFollow DEF IInv, Steps

\* What the first step of a call does.
Begins(t) ==
  /\ pc[t] = "idle" /\ MayStart(t, call'[t].op)
  /\ \A s \in Threads \ {t} : pc'[s] = pc[s] /\ call'[s] = call[s]
  /\ \/ pc'[t] = "returned"
     \/ pc'[t] \in OpenSteps /\ call'[t].op = "Open" /\ call'[t].url \in Urls
     \/ pc'[t] = "close_davix" /\ call'[t].op = "Close" /\ is_open_
     \/ /\ pc'[t] \in {"stat_davix", "read_clamp", TransferStep, "vread_davix", "write_seek"}
        /\ call'[t].op \notin {"Open", "Close"} /\ is_open_
        /\ call'[t].op = "Write" <=> pc'[t] = "write_seek"
  /\ UNCHANGED <<is_open_, url_, offset_locker, fd>>
  /\ avoid_pread_' = avoid_pread_ \/ call'[t].op = "Open"

\* A data call, or a Close, gets past its first test only when the file is open.
LEMMA StartEffect ==
  ASSUME TypeOK, NEW t \in Threads, NEW point, NEW c \in Calls,
         StartOrRefuse(t, point, c)
  PROVE  /\ pc[t] = "idle" /\ MayStart(t, c.op)
         /\ Moves(t, IF is_open_ THEN point ELSE "returned", c)
         /\ UNCHANGED object /\ UNCHANGED fd
<1>1. pc[t] = "idle" /\ MayStart(t, c.op) /\ UNCHANGED object /\ UNCHANGED fd
  BY DEF StartOrRefuse, MayStart
<1>2. CASE is_open_
  <2>1. MoveTo(t, point, c)
    BY <1>2 DEF StartOrRefuse
  <2>2. Moves(t, point, c)
    BY <2>1, MoveSame DEF SameCall
  <2>3. QED BY <1>1, <1>2, <2>2, Zenon
<1>3. CASE ~is_open_
  <2>1. Fail(t, c, "errInvalidOp")
    BY <1>3 DEF StartOrRefuse
  <2>2. Moves(t, "returned", c)
    BY <2>1, FailEffect DEF Returns
  <2>3. QED BY <1>1, <1>3, <2>2, Zenon
<1>4. QED BY <1>1, <1>2, <1>3

\* What the start of any call does to the thread, the object and the lock.
LEMMA CallsByBegins ==
  ASSUME TypeOK, NEW t \in Threads, CallsBy(t)
  PROVE  Begins(t)
<1>1. {"Close", "Stat", "Sync", "Read", "VectorRead", "Write"} \subseteq Ops
  BY DEF Ops
<1>2. ASSUME NEW op \in Ops \ {"Open"}, NEW c \in Calls, c.op = op, NEW point,
             StartOrRefuse(t, point, c),
             \/ op = "Close" /\ point = "close_davix"
             \/ /\ op # "Close"
                /\ point \in {"stat_davix", "read_clamp", TransferStep, "vread_davix",
                             "write_seek"}
                /\ op = "Write" <=> point = "write_seek"
      PROVE  Begins(t)
  <2>1. /\ pc[t] = "idle" /\ MayStart(t, c.op)
        /\ Moves(t, IF is_open_ THEN point ELSE "returned", c)
        /\ UNCHANGED object /\ UNCHANGED fd
    BY <1>2, StartEffect
  <2>2. QED BY <1>2, <2>1 DEF Begins, Moves, SameCall, object
<1>3. ASSUME NEW u \in Urls, NEW flags \in FlagSets, OpenCall(t, u, flags)
      PROVE  Begins(t)
  <2> DEFINE c == [NoCall EXCEPT !.op = "Open", !.url = u, !.flags = flags]
  <2>1. c \in Calls
    <3>1. flags \in SUBSET OpenFlags /\ "Open" \in Ops
      BY ArgumentsAssumption DEF Ops
    <3>2. QED BY <3>1, NoCallType DEF Calls
  <2>2. c.op = "Open" /\ c.url = u
    BY DEF NoCall
  <2>3. /\ MayStart(t, "Open")
        /\ Fail(t, c, "errInvalidOp") \/ MoveTo(t, FirstOpenStep(flags), c)
        /\ UNCHANGED <<is_open_, url_, offset_locker, fd>>
    BY <1>3 DEF OpenCall
  <2> HIDE DEF c
  <2>4. Moves(t, "returned", c) \/ Moves(t, FirstOpenStep(flags), c)
    BY <2>1, <2>3, FailEffect, MoveSame DEF Returns, SameCall
  <2>5. FirstOpenStep(flags) \in OpenSteps
    BY DEF FirstOpenStep, OpenSteps
  <2>6. QED BY <2>2, <2>3, <2>4, <2>5 DEF Begins, Moves, SameCall, MayStart
<1>4. CASE CloseCall(t)
  <2>1. [NoCall EXCEPT !.op = "Close"] \in Calls /\ [NoCall EXCEPT !.op = "Close"].op = "Close"
    BY <1>1, NoCallType DEF Calls
  <2>2. QED BY <1>1, <1>2, <1>4, <2>1 DEF CloseCall
<1>5. CASE StatCall(t)
  <2>1. [NoCall EXCEPT !.op = "Stat"] \in Calls /\ [NoCall EXCEPT !.op = "Stat"].op = "Stat"
    BY <1>1, NoCallType DEF Calls
  <2>2. QED BY <1>1, <1>2, <1>5, <2>1 DEF StatCall
<1>6. CASE SyncCall(t)
  <2> DEFINE c == [NoCall EXCEPT !.op = "Sync", !.status = "ok"]
  <2>1. c.op = "Sync"
    BY DEF NoCall
  <2>2. MoveTo(t, "returned", c) /\ MayStart(t, "Sync") /\ UNCHANGED object /\ UNCHANGED fd
    BY <1>6 DEF SyncCall
  <2> HIDE DEF c
  <2>3. QED BY <2>1, <2>2, MoveToEffect DEF Begins, MayStart, object
<1>7. ASSUME NEW offset \in Offsets, NEW size \in Sizes,
             \/ ReadCall(t, offset, size)
             \/ VectorReadCall(t, offset, size)
             \/ WriteCall(t, offset, size)
      PROVE  Begins(t)
  <2> DEFINE a(op) == [NoCall EXCEPT !.op = op, !.offset = offset, !.size = size]
             c == [NoCall EXCEPT !.op = "Read", !.offset = offset, !.size = size,
                                 !.asked = size]
             point == IF ReachesPast(offset, size) THEN "read_clamp" ELSE TransferStep
  <2>1. /\ c \in Calls /\ c.op = "Read"
        /\ a("VectorRead") \in Calls /\ a("VectorRead").op = "VectorRead"
        /\ a("Write") \in Calls /\ a("Write").op = "Write"
    BY <1>1, DataCallType DEF NoCall
  <2>2. \/ StartOrRefuse(t, point, c)
        \/ StartOrRefuse(t, "vread_davix", a("VectorRead"))
        \/ StartOrRefuse(t, "write_seek", a("Write"))
    BY <1>7 DEF ReadCall, VectorReadCall, WriteCall
  <2>3. point \in {"read_clamp", TransferStep} /\ point # "write_seek"
    BY DEF TransferStep
  <2> HIDE DEF c, a, point
  <2>4. QED BY <1>1, <1>2, <2>1, <2>2, <2>3
<1>8. QED BY <1>3, <1>4, <1>5, <1>6, <1>7 DEF CallsBy

-----------------------------------------------------------------------------
(* The lock. *)

\* A step enters the critical section with the lock, leaves it without, or has
\* nothing to do with either.
LockStep(t) ==
  /\ pc'[t] \in {"read_lock", "read_seq", "read_jump"} => avoid_pread_
  /\ pc'[t] = "read_range" => ~avoid_pread_
  /\ \/ offset_locker' = offset_locker /\ (InSection(t)' <=> InSection(t))
     \/ offset_locker = NoThread /\ offset_locker' = t /\ InSection(t)'
     \/ InSection(t) /\ ~InSection(t)' /\ offset_locker' = NoThread

\* A step outside the critical section of Read neither takes nor frees the lock.
LEMMA OtherStepsLock ==
  ASSUME IInv, NEW t \in Threads, Steps(t),
         pc[t] \notin ReadSteps
  PROVE  LockStep(t)
<1>1. Follows(t)
  BY StepsFollow
<1>2. offset_locker' = offset_locker
  BY DEF Steps, OpenStatDelete, OpenUnlink, OpenStatRead, OpenDavix, CloseDavix, StatDavix,
         StatFake, ReadClamp, ReadLock, ReadPositioned, ReadSequential, ReadDone,
         VectorReadDavix, WriteSeek, WriteDavix, WriteLoad, WriteStore, ReadSteps, object
<1>3. pc'[t] \notin ReadSteps
  BY <1>1 DEF Follows, ReadSteps
<1>4. QED BY <1>2, <1>3 DEF LockStep, InSection, ReadSteps

\* A step of Read takes the lock when it enters the critical section, and frees it when it leaves.
LEMMA ReadStepsLock ==
  ASSUME IInv, NEW t \in Threads,
         ReadClamp(t) \/ ReadLock(t) \/ ReadPositioned(t) \/ ReadSequential(t) \/ ReadDone(t)
  PROVE  LockStep(t)
<1>1. TypeOK /\ LockInv /\ ModeInv /\ call[t] \in Calls
  BY DEF IInv, TypeOK
<1>2. avoid_pread_' = avoid_pread_
  BY DEF ReadClamp, ReadLock, ReadPositioned, ReadSequential, ReadDone, object
<1>3. \A c \in Calls : \A status : Fail(t, c, status) => pc'[t] = "returned"
  BY <1>1, FailEffect DEF Returns, Moves
<1>4. \A n, at : ReadMoved(t, n, at) => pc'[t] = "read_done" /\ UNCHANGED offset_locker
  BY <1>1, MoveToEffect DEF ReadMoved
<1>5. CASE ReadClamp(t)
  BY <1>1, <1>2, <1>5, MoveToEffect
  DEF ReadClamp, TransferStep, LockStep, InSection, object
<1>6. CASE ReadLock(t)
  BY <1>1, <1>2, <1>6, MoveToEffect DEF ReadLock, LockStep, InSection, ModeInv
<1>7. CASE ReadPositioned(t)
  BY <1>1, <1>2, <1>3, <1>4, <1>7
  DEF ReadPositioned, ReadFailed, Unlock, LockStep, InSection, ModeInv, LockInv
<1>8. CASE ReadSequential(t)
  BY <1>1, <1>2, <1>3, <1>4, <1>8
  DEF ReadSequential, ReadFailed, Unlock, LockStep, InSection, ModeInv, LockInv
<1>9. CASE ReadDone(t)
  <2>1. pc'[t] = "returned"
    BY <1>1, <1>9, AnswerEffect DEF ReadDone, Returns, Moves, SameCall
  <2>2. QED BY <1>1, <1>2, <1>9, <2>1
            DEF ReadDone, Unlock, LockStep, InSection, ModeInv, LockInv
<1>10. QED BY <1>5, <1>6, <1>7, <1>8, <1>9

-----------------------------------------------------------------------------
(* The inductive invariant. *)

\* A new object, in no call, satisfies the inductive invariant, whatever value
\* avoid_pread_ was left with by the constructor (HttpFilePlugIn.cc:48-57).
THEOREM InitInv == Init => IInv
<1> SUFFICES ASSUME Init PROVE IInv
  OBVIOUS
<1>1. TypeOK
  <2>1. pc \in [Threads -> ControlPoints] /\ call \in [Threads -> Calls]
    BY NoCallType DEF Init, ControlPoints
  <2>2. store \in [Urls -> Lengths]
    BY BoundsAssumption DEF Init
  <2>3. fd \in Handles
    BY DEF Init, Handles
  <2>4. QED BY <2>1, <2>2, <2>3 DEF Init, TypeOK
<1>2. OpenStateMatchesHandle
  BY DEF Init, OpenStateMatchesHandle
<1>3. \A t \in Threads : Lifecycle(t)
  BY DEF Init, Lifecycle, OpenSteps, DataSteps, ReadSteps, WriteSteps
<1>4. Exclusive /\ ModeInv
  BY DEF Init, Exclusive, InCall, ModeInv
<1>5. LockInv
  BY ThreadsAssumption DEF Init, LockInv, InSection
<1>6. QED BY <1>1, <1>2, <1>3, <1>4, <1>5 DEF IInv

\* The object is open exactly while its handle is.
LEMMA HandleStep ==
  ASSUME IInv, [Next]_vars
  PROVE  OpenStateMatchesHandle'
<1>1. TypeOK /\ OpenStateMatchesHandle /\ \A t \in Threads : Lifecycle(t)
  BY DEF IInv
<1>2. ASSUME NEW t \in Threads, Steps(t), pc[t] \in DataSteps
      PROVE  OpenStateMatchesHandle'
  BY <1>1, <1>2, StepsFollow DEF Follows, OpenStateMatchesHandle
<1>3. ASSUME NEW t \in Threads, OpenDavix(t)
      PROVE  OpenStateMatchesHandle'
  <2>1. call[t].url \in Urls
    BY <1>1, <1>3 DEF OpenDavix, Lifecycle, OpenSteps
  <2>2. QED BY <1>1, <1>3, <2>1, UrlsAssumption DEF OpenDavix, NewHandle, OpenStateMatchesHandle
<1>4. ASSUME NEW t \in Threads, OpenStatDelete(t) \/ OpenUnlink(t) \/ OpenStatRead(t)
      PROVE  OpenStateMatchesHandle'
  BY <1>1, <1>4
  DEF OpenStatDelete, OpenUnlink, OpenStatRead, object, OpenStateMatchesHandle
<1>5. ASSUME NEW t \in Threads, CloseDavix(t)
      PROVE  OpenStateMatchesHandle'
  BY <1>1, <1>5 DEF CloseDavix, CloseFailed, OpenStateMatchesHandle, TypeOK, Handles
<1>6. ASSUME NEW t \in Threads, Steps(t)
      PROVE  OpenStateMatchesHandle'
  <2>1. \/ pc[t] \in DataSteps
        \/ OpenStatDelete(t) \/ OpenUnlink(t) \/ OpenStatRead(t) \/ OpenDavix(t)
        \/ CloseDavix(t)
    BY <1>6 DEF Steps, StatDavix, StatFake, ReadClamp, ReadLock, ReadPositioned,
                ReadSequential, ReadDone, VectorReadDavix, WriteSeek, WriteDavix, WriteLoad,
                WriteStore, DataSteps, ReadSteps, WriteSteps
  <2>2. QED BY <1>2, <1>3, <1>4, <1>5, <1>6, <2>1
<1>7. ASSUME NEW t \in Threads, CallsBy(t)
      PROVE  OpenStateMatchesHandle'
  BY <1>1, <1>7, CallsByBegins DEF Begins, OpenStateMatchesHandle
<1>8. ASSUME NEW t \in Threads, Return(t)
      PROVE  OpenStateMatchesHandle'
  BY <1>1, <1>8 DEF Return, object, OpenStateMatchesHandle
<1>9. ASSUME NEW u \in Urls, NEW len \in StoreLengths, RemoteChange(u, len)
      PROVE  OpenStateMatchesHandle'
  BY <1>1, <1>9 DEF RemoteChange, object, OpenStateMatchesHandle
<1>10. CASE UNCHANGED vars
  BY <1>1, <1>10 DEF vars, object, OpenStateMatchesHandle
<1>11. QED BY <1>6, <1>7, <1>8, <1>9, <1>10 DEF Next

\* Where the calls are, and that Open and Close run alone.
LEMMA LifecycleStep ==
  ASSUME IInv, [Next]_vars
  PROVE  (\A t \in Threads : Lifecycle(t))' /\ Exclusive'
<1>1. /\ TypeOK /\ Exclusive /\ \A t \in Threads : Lifecycle(t)
  BY DEF IInv
<1>2. ASSUME NEW t \in Threads, Steps(t)
      PROVE  (\A s \in Threads : Lifecycle(s))' /\ Exclusive'
  <2>1. Follows(t)
    BY <1>2, StepsFollow
  <2>2. ASSUME NEW s \in Threads PROVE Lifecycle(s)'
    <3>1. CASE s = t
      BY <1>1, <2>1, <3>1 DEF Follows, Lifecycle, OpenSteps, DataSteps, ReadSteps, WriteSteps
    <3>2. CASE s # t /\ pc[t] \in DataSteps
      BY <1>1, <2>1, <3>2 DEF Follows, Lifecycle
    <3>3. CASE s # t /\ pc[t] \notin DataSteps
      <4>1. InCall(t) /\ call[t].op \in {"Open", "Close"}
        BY <1>1, <2>1, <3>3
        DEF Follows, Lifecycle, InCall, OpenSteps, DataSteps, ReadSteps, WriteSteps
      <4>2. ~InCall(s)
        BY <1>1, <3>3, <4>1 DEF Exclusive
      <4>3. QED BY <2>1, <3>3, <4>2
                DEF Follows, InCall, Lifecycle, OpenSteps, DataSteps, ReadSteps, WriteSteps
    <3>4. QED BY <3>1, <3>2, <3>3
  <2>3. InCall(t)
    BY <2>1 DEF Follows, InCall, OpenSteps, DataSteps, ReadSteps, WriteSteps
  <2>4. Exclusive'
    BY <1>1, <2>1, <2>3 DEF Follows, Exclusive, InCall
  <2>5. QED BY <2>2, <2>4
<1>3. ASSUME NEW t \in Threads, CallsBy(t)
      PROVE  (\A s \in Threads : Lifecycle(s))' /\ Exclusive'
  <2>1. Begins(t)
    BY <1>1, <1>3, CallsByBegins
  <2>2. ASSUME NEW s \in Threads PROVE Lifecycle(s)'
    <3>1. CASE s = t
      BY <2>1, <3>1
      DEF Begins, Lifecycle, TransferStep, OpenSteps, DataSteps, ReadSteps, WriteSteps
    <3>2. CASE s # t
      BY <1>1, <2>1, <3>2 DEF Begins, Lifecycle
    <3>3. QED BY <3>1, <3>2
  <2>3. Exclusive'
    BY <1>1, <2>1 DEF Begins, MayStart, Exclusive, InCall
  <2>4. QED BY <2>2, <2>3
<1>4. ASSUME NEW t \in Threads, Return(t)
      PROVE  (\A s \in Threads : Lifecycle(s))' /\ Exclusive'
  <2>1. /\ pc'[t] = "idle" /\ UNCHANGED is_open_
        /\ \A s \in Threads \ {t} : pc'[s] = pc[s] /\ call'[s] = call[s]
    BY <1>1, <1>4, MoveToEffect DEF Return, object
  <2>2. QED BY <1>1, <2>1
            DEF Lifecycle, Exclusive, InCall, OpenSteps, DataSteps, ReadSteps, WriteSteps
<1>5. CASE UNCHANGED <<control, is_open_>>
  BY <1>1, <1>5 DEF control, Lifecycle, Exclusive, InCall
<1>6. CASE UNCHANGED vars
  BY <1>5, <1>6 DEF vars, object
<1>7. ASSUME NEW u \in Urls, NEW len \in StoreLengths, RemoteChange(u, len)
      PROVE  UNCHANGED <<control, is_open_>>
  BY <1>7 DEF RemoteChange, object
<1>8. QED BY <1>2, <1>3, <1>4, <1>5, <1>6, <1>7 DEF Next

\* Taking and freeing as in LockStep keeps the lock with the thread in the section.
LEMMA LockStepKeeps ==
  ASSUME IInv, [Next]_vars
  PROVE  ModeInv' /\ LockInv'
<1>1. /\ TypeOK /\ Exclusive /\ ModeInv /\ LockInv /\ \A t \in Threads : Lifecycle(t)
  BY DEF IInv
<1>2. ASSUME NEW t \in Threads, Steps(t)
      PROVE  ModeInv' /\ LockInv'
  <2>1. Follows(t)
    BY <1>2, StepsFollow
  <2>2. LockStep(t)
    <3>1. CASE pc[t] \notin ReadSteps
      BY <1>2, <3>1, OtherStepsLock
    <3>2. CASE pc[t] \in ReadSteps
      <4>1. \/ ReadClamp(t) \/ ReadLock(t) \/ ReadPositioned(t) \/ ReadSequential(t)
            \/ ReadDone(t)
        BY <1>2, <3>2
        DEF Steps, OpenStatDelete, OpenUnlink, OpenStatRead, OpenDavix, CloseDavix, StatDavix,
            StatFake, VectorReadDavix, WriteSeek, WriteDavix, WriteLoad, WriteStore, ReadSteps
      <4>2. QED BY <4>1, ReadStepsLock
    <3>3. QED BY <3>1, <3>2
  <2>3. \A s \in Threads \ {t} : InSection(s)' <=> InSection(s)
    BY <2>1 DEF Follows, InSection
  <2>4. ModeInv'
    BY <1>1, <2>1, <2>2 DEF Follows, LockStep, ModeInv
  <2>5. LockInv'
    BY <1>1, <2>2, <2>3, ThreadsAssumption DEF LockStep, LockInv
  <2>6. QED BY <2>4, <2>5
<1>3. ASSUME NEW t \in Threads, CallsBy(t)
      PROVE  ModeInv' /\ LockInv'
  <2>1. Begins(t)
    BY <1>1, <1>3, CallsByBegins
  <2>2. ~InSection(t) /\ ~InSection(t)'
    BY <2>1
    DEF Begins, InSection, TransferStep, OpenSteps, DataSteps, ReadSteps, WriteSteps
  <2>3. CASE avoid_pread_' = avoid_pread_
    <3>1. \A s \in Threads \ {t} : InSection(s)' <=> InSection(s)
      BY <2>1, <2>3 DEF Begins, InSection
    <3>2. LockInv'
      BY <1>1, <2>1, <2>2, <3>1 DEF Begins, LockInv
    <3>3. ModeInv'
      BY <1>1, <2>1, <2>3 DEF Begins, ModeInv, TransferStep, OpenSteps
    <3>4. QED BY <3>2, <3>3
  <2>4. CASE call'[t].op = "Open"
    <3>1. \A s \in Threads \ {t} : ~InCall(s) /\ pc'[s] = pc[s]
      BY <2>1, <2>4 DEF Begins, MayStart
    <3>2. \A s \in Threads \ {t} : ~InSection(s) /\ ~InSection(s)'
      BY <3>1 DEF InCall, InSection
    <3>3. LockInv'
      BY <1>1, <2>1, <2>2, <3>2 DEF Begins, LockInv
    <3>4. pc'[t] \notin {"read_lock", "read_seq", "read_jump", "read_range"}
      BY <2>1, <2>4 DEF Begins, OpenSteps
    <3>5. ModeInv'
      BY <3>1, <3>4 DEF ModeInv, InCall
    <3>6. QED BY <3>3, <3>5
  <2>5. QED BY <2>1, <2>3, <2>4 DEF Begins
<1>4. ASSUME NEW t \in Threads, Return(t)
      PROVE  ModeInv' /\ LockInv'
  <2>1. /\ pc[t] = "returned" /\ pc'[t] = "idle"
        /\ UNCHANGED <<avoid_pread_, offset_locker>>
        /\ \A s \in Threads \ {t} : pc'[s] = pc[s]
    BY <1>1, <1>4, MoveToEffect DEF Return, object
  <2>2. QED BY <1>1, <2>1 DEF ModeInv, LockInv, InSection
<1>5. CASE UNCHANGED <<pc, avoid_pread_, offset_locker>>
  BY <1>1, <1>5 DEF ModeInv, LockInv, InSection
<1>6. CASE UNCHANGED vars
  BY <1>5, <1>6 DEF vars, object, control
<1>7. ASSUME NEW u \in Urls, NEW len \in StoreLengths, RemoteChange(u, len)
      PROVE  UNCHANGED <<pc, avoid_pread_, offset_locker>>
  BY <1>7 DEF RemoteChange, object, control
<1>8. QED BY <1>2, <1>3, <1>4, <1>5, <1>6, <1>7 DEF Next

\* Every step of a method, of a caller or of another client keeps the inductive
\* invariant: the three parts are the types, the handle with the calls, and the lock.
THEOREM StepInv == IInv /\ [Next]_vars => IInv'
BY TypeStep, HandleStep, LifecycleStep, LockStepKeeps DEF IInv

\* The inductive invariant holds in every reachable state.
THEOREM Inductive == Spec => []IInv
BY InitInv, StepInv, PTL DEF Spec

\* Every variable keeps its type, with any number of threads and any faults.
THEOREM TypeCorrect == Spec => []TypeOK
<1>1. IInv => TypeOK
  BY DEF IInv
<1>2. QED BY <1>1, Inductive, PTL

\* offset_locker is held by the reader inside the critical section of
\* HttpFilePlugIn.cc:253-271, and is free when there is none.
THEOREM LockCorrect == Spec => []LockInv
<1>1. IInv => LockInv
  BY DEF IInv
<1>2. QED BY <1>1, Inductive, PTL

\* The object is open exactly while davix_fd_ is, on the same URL.
THEOREM HandleCorrect == Spec => []OpenStateMatchesHandle
<1>1. IInv => OpenStateMatchesHandle
  BY DEF IInv
<1>2. QED BY <1>1, Inductive, PTL

\* At most one reader is between lock and unlock.
THEOREM MutualExclusion ==
  Spec => [](\A s, t \in Threads : InSection(s) /\ InSection(t) => s = t)
<1>1. IInv => \A s, t \in Threads : InSection(s) /\ InSection(t) => s = t
  BY DEF IInv, LockInv
<1>2. QED BY <1>1, Inductive, PTL

-----------------------------------------------------------------------------
(* What the lock is for: the holder's offset. *)

OffsetKept(t) ==
  offset_locker = t =>
    \/ UNCHANGED <<offset_locker, curr_offset>> /\ pc'[t] # "returned"
    \/ /\ offset_locker' = NoThread /\ pc'[t] = "returned"
       /\ curr_offset' = IF call'[t].status = "ok"
                         THEN call'[t].offset + call'[t].n ELSE curr_offset

\* The holder is inside the section, on an object that avoids Range.
LEMMA HolderInside ==
  ASSUME IInv, NEW t \in Threads, offset_locker = t
  PROVE  pc[t] \in {"read_seq", "read_jump", "read_done"} /\ avoid_pread_
BY DEF IInv, LockInv, ModeInv, InSection

\* Its own steps keep the lock until the last.
LEMMA HolderSteps ==
  ASSUME IInv, NEW t \in Threads, Steps(t)
  PROVE  OffsetKept(t)
<1> SUFFICES ASSUME offset_locker = t
             PROVE  \/ UNCHANGED <<offset_locker, curr_offset>> /\ pc'[t] # "returned"
                    \/ /\ offset_locker' = NoThread /\ pc'[t] = "returned"
                       /\ curr_offset' = IF call'[t].status = "ok"
                                         THEN call'[t].offset + call'[t].n ELSE curr_offset
  BY DEF OffsetKept
<1>1. TypeOK /\ call[t] \in Calls
  BY DEF IInv, TypeOK
<1>2. pc[t] \in {"read_seq", "read_jump", "read_done"} /\ avoid_pread_
  BY HolderInside
<1>3. ReadPositioned(t) \/ ReadSequential(t) \/ ReadDone(t)
  BY <1>2 DEF Steps, OpenStatDelete, OpenUnlink, OpenStatRead, OpenDavix, CloseDavix,
              StatDavix, StatFake, ReadClamp, ReadLock, VectorReadDavix, WriteSeek,
              WriteDavix, WriteLoad, WriteStore
<1>4. ASSUME ReadFailed(t), curr_offset' = curr_offset
      PROVE  /\ offset_locker' = NoThread /\ pc'[t] = "returned"
             /\ curr_offset' = IF call'[t].status = "ok"
                               THEN call'[t].offset + call'[t].n ELSE curr_offset
  <2>1. pc'[t] = "returned" /\ call'[t] = [call[t] EXCEPT !.status = "errInternal"]
    BY <1>1, <1>4, MoveToEffect DEF ReadFailed, Fail
  <2>2. call'[t].status = "errInternal"
    BY <1>1, <2>1 DEF Calls
  <2>3. QED BY <1>2, <1>4, <2>1, <2>2 DEF ReadFailed, Unlock
<1>5. ASSUME NEW n, NEW at, ReadMoved(t, n, at)
      PROVE  offset_locker' = offset_locker /\ pc'[t] = "read_done"
  BY <1>1, <1>5, MoveToEffect DEF ReadMoved
<1>6. CASE ReadPositioned(t)
  <2>1. curr_offset' = curr_offset
    BY <1>6 DEF ReadPositioned
  <2>2. ReadFailed(t) \/ \E n, at : ReadMoved(t, n, at)
    BY <1>6 DEF ReadPositioned
  <2>3. QED BY <1>4, <1>5, <2>1, <2>2
<1>7. CASE ReadSequential(t)
  <2>1. curr_offset' = curr_offset
    BY <1>7 DEF ReadSequential
  <2>2. ReadFailed(t) \/ \E n, at : ReadMoved(t, n, at)
    BY <1>7 DEF ReadSequential
  <2>3. QED BY <1>4, <1>5, <2>1, <2>2
<1>8. CASE ReadDone(t)
  <2>1. /\ pc'[t] = "returned"
        /\ call'[t] = [call[t] EXCEPT !.status = "ok", !.answers = @ + 1]
    BY <1>1, <1>8, MoveToEffect DEF ReadDone, Answer
  <2>2. call'[t].offset = call[t].offset /\ call'[t].n = call[t].n /\ call'[t].status = "ok"
    BY <1>1, <2>1 DEF Calls
  <2>3. QED BY <1>2, <1>8, <2>1, <2>2 DEF ReadDone, Unlock, OffsetReached
<1>9. QED BY <1>3, <1>6, <1>7, <1>8

\* The steps of the others leave its lock and its offset alone.
LEMMA OthersStep ==
  ASSUME IInv, IInv', NEW t \in Threads, NEW s \in Threads \ {t}, Steps(s), offset_locker = t
  PROVE  UNCHANGED <<offset_locker, curr_offset>> /\ pc'[t] = pc[t]
<1>1. Follows(s) /\ LockInv /\ LockInv' /\ ModeInv
  BY StepsFollow DEF IInv
<1>2. pc[t] \in {"read_seq", "read_jump", "read_done"} /\ avoid_pread_
  BY HolderInside
<1>3. pc'[t] = pc[t] /\ avoid_pread_' = avoid_pread_
  BY <1>1 DEF Follows
<1>4. offset_locker' = t
  BY <1>1, <1>2, <1>3 DEF LockInv, InSection
<1>5. ~ReadDone(s)
  BY <1>1, <1>2 DEF ReadDone, LockInv, InSection
<1>6. curr_offset' = curr_offset
  BY <1>5
  DEF Steps, OpenStatDelete, OpenUnlink, OpenStatRead, OpenDavix, CloseDavix, StatDavix,
      StatFake, ReadClamp, ReadLock, ReadPositioned, ReadSequential, VectorReadDavix,
      WriteSeek, WriteDavix, WriteLoad, WriteStore, object
<1>7. QED BY <1>3, <1>4, <1>6

\* Nor do calls that start: a thread that has the lock is in a call of its own.
LEMMA OthersCall ==
  ASSUME IInv, NEW t \in Threads, NEW s \in Threads, CallsBy(s), offset_locker = t
  PROVE  UNCHANGED <<offset_locker, curr_offset>> /\ pc'[t] = pc[t]
<1>1. TypeOK /\ Begins(s)
  BY CallsByBegins DEF IInv
<1>2. s # t
  BY <1>1, HolderInside DEF Begins
<1>3. curr_offset' = curr_offset
  BY DEF CallsBy, OpenCall, CloseCall, StatCall, SyncCall, ReadCall, VectorReadCall,
         WriteCall, StartOrRefuse, object
<1>4. QED BY <1>1, <1>2, <1>3 DEF Begins

\* From the comparison of the offset to its recording it is the reader's own, in every
\* interleaving and whatever fails (HttpFilePlugIn.cc:253-271).
THEOREM HolderOwnsOffset == Spec => OffsetHeld
<1>1. IInv /\ IInv' /\ [Next]_vars => [\A t \in Threads : OffsetKept(t)]_vars
  <2> SUFFICES ASSUME IInv, IInv', Next, NEW t \in Threads, offset_locker = t
               PROVE  OffsetKept(t)
    BY DEF OffsetKept
  <2>1. TypeOK /\ pc[t] \in {"read_seq", "read_jump", "read_done"}
    BY HolderInside DEF IInv
  <2>2. ASSUME UNCHANGED <<offset_locker, curr_offset>>, pc'[t] = pc[t] PROVE OffsetKept(t)
    BY <2>1, <2>2 DEF OffsetKept
  <2>3. ASSUME NEW s \in Threads, CallsBy(s) PROVE OffsetKept(t)
    BY <2>2, <2>3, OthersCall
  <2>4. ASSUME NEW s \in Threads, Steps(s) PROVE OffsetKept(t)
    BY <2>2, <2>4, HolderSteps, OthersStep
  <2>5. ASSUME NEW s \in Threads, Return(s) PROVE OffsetKept(t)
    BY <2>1, <2>2, <2>5, MoveToEffect DEF Return, object
  <2>6. ASSUME NEW u \in Urls, NEW len \in StoreLengths, RemoteChange(u, len)
        PROVE  OffsetKept(t)
    BY <2>2, <2>6 DEF RemoteChange, object, control
  <2>7. QED BY <2>3, <2>4, <2>5, <2>6 DEF Next
<1>2. [\A t \in Threads : OffsetKept(t)]_vars
      => [\A t \in Threads :
            offset_locker = t =>
              \/ UNCHANGED <<offset_locker, curr_offset>> /\ pc'[t] # "returned"
              \/ /\ offset_locker' = NoThread /\ pc'[t] = "returned"
                 /\ curr_offset' = IF call'[t].status = "ok"
                                   THEN call'[t].offset + call'[t].n ELSE curr_offset]_vars
  BY DEF OffsetKept
<1>3. QED BY <1>1, <1>2, Inductive, PTL DEF Spec, OffsetHeld
=============================================================================
