------------------------ MODULE SequentialCopyProofs ------------------------
(***************************************************************************)
(* Theorems about whole transfers of the copying client, for any files,    *)
(* sizes and faults: an upload is stored whole; a download gets the bytes  *)
(* of the offsets it asks for, never asks for bytes past the end and stops *)
(* at the end; and the size invented for an upload is the size written.    *)
(* What an earlier transfer leaves in the object can break all but the     *)
(* first: each of those theorems says what it needs the object to be.      *)
(* What is known of single calls comes from HttpFileDataProofs.            *)
(***************************************************************************)
EXTENDS SequentialCopy, HttpFileDataProofs

\* How far the client will be when it has taken the answer that waits for it.
Reached == IF pc[Copier] = "returned" THEN After(call[Copier]) ELSE next

\* A file opened for reading, without Range headers.
Downloading == is_open_ /\ avoid_pread_ /\ ~Writable(fd)

\* A Read that has been answered.
GotChunk ==
  pc[Copier] = "returned" /\ call[Copier].op = "Read" /\ call[Copier].status = "ok"

\* What is read and what is written: the next chunk of a file opened for it.
ChunkInv ==
  /\ pc[Copier] \in OpenSteps => ~is_open_
  /\ InCall(Copier) => (call[Copier].op = "Read" <=> pc[Copier] \in ReadSteps)
  /\ pc[Copier] \in ReadSteps => call[Copier].offset = next /\ ~Writable(fd)
  /\ GotChunk => is_open_ /\ ~Writable(fd)
  /\ pc[Copier] \in WriteSteps => Writable(fd)
  /\ pc[Copier] = "returned" /\ call[Copier].op = "Write" /\ call[Copier].status = "ok"
     => Writable(fd)

\* A Read past its transfer has read where it was asked to, unless the object has lost
\* its position.
FaithfulInv ==
  pc[Copier] = "read_done" \/ GotChunk
  => call[Copier].at = call[Copier].offset \/ (Downloading /\ drifted)

\* Without Range headers, an object that has not lost its position is where the client is.
InStep ==
  Downloading /\ ~drifted => Reached = curr_offset /\ pc[Copier] # "read_jump"

CopyInv == ChunkInv /\ FaithfulInv /\ InStep

-----------------------------------------------------------------------------
(* The client's calls are calls anybody may make. *)

\* Whatever an answer says, it takes the client on by a number.
LEMMA AfterIsNat == ASSUME next \in Nat, NEW c \in Calls PROVE After(c) \in Nat
BY DEF After, Calls

\* Each of the client's steps is one step of HttpFilePlugIn, if callers may ask for any
\* offset.
LEMMA CopyStepIsStep ==
  ASSUME Offsets = Nat, next \in Nat, [CopyNext]_<<vars, client>>
  PROVE  [Next]_vars
<1>1. Copier \in Threads
  BY CopierAssumption
<1>2. CASE CopyOpen
  BY <1>1, <1>2 DEF CopyOpen, CallsBy, Next
<1>3. CASE CopyChunk
  <2>1. \E size \in Sizes : ReadCall(Copier, next, size) \/ WriteCall(Copier, next, size)
    BY <1>3 DEF CopyChunk
  <2>2. CallsBy(Copier)
    BY <2>1 DEF CallsBy
  <2>3. QED BY <1>1, <2>2 DEF Next
<1>4. CASE CopyOther
  BY <1>1, <1>4 DEF CopyOther, CallsBy, Next
<1>5. CASE CopyReturn
  BY <1>1, <1>5 DEF CopyReturn, Next
<1>6. CASE UNCHANGED <<vars, client>>
  BY <1>6
<1>7. QED BY <1>2, <1>3, <1>4, <1>5, <1>6 DEF CopyNext

\* The next chunk starts at a number.
LEMMA NextIsNat == IInv /\ next \in Nat /\ [CopyNext]_<<vars, client>> => next' \in Nat
<1> SUFFICES ASSUME IInv, next \in Nat, [CopyNext]_<<vars, client>> PROVE next' \in Nat
  OBVIOUS
<1>1. After(call[Copier]) \in Nat
  BY AfterIsNat, CopierAssumption DEF IInv, TypeOK
<1>2. QED BY <1>1 DEF CopyNext, CopyOpen, CopyChunk, CopyOther, CopyReturn, client

\* The copying client is one of the callers HttpFilePlugIn is specified for, so all
\* that is proved of the plug-in holds while it copies (test/cases/000 to 003).
THEOREM CopyImplements == ASSUME Offsets = Nat PROVE CopySpec => Spec
<1>1. CopyInit => Init /\ IInv /\ next \in Nat
  BY InitInv DEF CopyInit
<1>2. IInv /\ next \in Nat /\ [CopyNext]_<<vars, client>> => [Next]_vars
  BY CopyStepIsStep
<1>3. IInv /\ next \in Nat /\ [CopyNext]_<<vars, client>> => (IInv /\ next \in Nat)'
  BY <1>2, StepInv, NextIsNat
<1>4. QED BY <1>1, <1>2, <1>3, PTL DEF CopySpec, Spec

-----------------------------------------------------------------------------
(* What a step does to the transfer. *)

\* What is known before each step.
Known == IInv /\ AnswerInv /\ WInv /\ Aligned /\ CopyInv /\ next \in Nat

\* The types the steps below rest on.
LEMMA KnownTypes ==
  ASSUME Known
  PROVE  /\ TypeOK /\ Copier \in Threads /\ call[Copier] \in Calls /\ fd \in Handles
         /\ curr_offset \in Nat /\ Reached \in Nat /\ Lifecycle(Copier)
<1>1. TypeOK /\ Copier \in Threads /\ call[Copier] \in Calls
  BY CopierAssumption DEF Known, IInv, TypeOK
<1>2. Reached \in Nat
  BY <1>1, AfterIsNat DEF Known, Reached
<1>3. QED BY <1>1, <1>2 DEF Known, IInv, TypeOK

\* A call that is no Open, Read or Write, or fails, does not take the client on.
LEMMA NothingReached ==
  ASSUME next \in Nat, next' = next, pc[Copier] # "returned",
         pc'[Copier] = "returned" => call'[Copier].op \notin {"Open", "Read", "Write"}
                                     \/ call'[Copier].status # "ok"
  PROVE  Reached' = Reached
BY DEF Reached, After

\* A file that has been opened is read, or written, from its start.
LEMMA OpenedAtStart ==
  ASSUME Known, client' = client, OpenDavix(Copier), ~UNCHANGED <<is_open_, fd>>
  PROVE  /\ pc'[Copier] = "returned" /\ Reached' = 0 /\ drifted' = (curr_offset # 0)
         /\ fd' = NewHandle(call[Copier].url, MakePosixOpenFlags(call[Copier].flags),
                            store[call[Copier].url])
         /\ \E r \in Open(store[call[Copier].url], MakePosixOpenFlags(call[Copier].flags)) :
              r.status = "ok"
<1> DEFINE t == Copier
           c == call[t]
           d == [c EXCEPT !.status = "ok", !.answers = @ + 1]
<1>1. TypeOK /\ t \in Threads /\ Lifecycle(t) /\ c \in Calls
  BY KnownTypes
<1>2. d.op = "Open" /\ d.status = "ok"
  BY <1>1 DEF Calls, Lifecycle, OpenDavix, OpenSteps
<1>3. PICK r \in Open(store[c.url], MakePosixOpenFlags(c.flags)) :
        /\ r.status = "ok"
        /\ fd' = NewHandle(c.url, MakePosixOpenFlags(c.flags), store[c.url])
        /\ drifted' = (curr_offset # 0)
        /\ MoveTo(t, "returned", d)
  BY DEF OpenDavix, Answer
<1> HIDE DEF d
<1>4. pc'[t] = "returned" /\ call'[t] = d
  BY <1>1, <1>3, MoveToEffect
<1>5. QED BY <1>2, <1>3, <1>4 DEF Reached, After

\* The steps of Open: client and object start together, if the object is as it was
\* constructed; if not, its position is unknown.
LEMMA OpenKeeps ==
  ASSUME Known, client' = client,
         \/ OpenStatDelete(Copier) \/ OpenUnlink(Copier)
         \/ OpenStatRead(Copier) \/ OpenDavix(Copier)
  PROVE  CopyInv'
<1> DEFINE t == Copier
<1>1. TypeOK /\ t \in Threads /\ Lifecycle(t) /\ Follows(t)
  BY KnownTypes, StepsFollow DEF Known, Steps
<1>2. pc[t] \in OpenSteps /\ call'[t].op = "Open" /\ curr_offset' = curr_offset
  BY <1>1 DEF OpenStatDelete, OpenUnlink, OpenStatRead, OpenDavix, OpenSteps, Lifecycle,
              Follows, object
<1>3. pc'[t] \in OpenSteps \cup {"returned"} /\ ~is_open_
  BY <1>1, <1>2
  DEF Follows, OpenSteps, DataSteps, ReadSteps, WriteSteps, Known, CopyInv, ChunkInv
<1>4. ChunkInv' /\ FaithfulInv'
  <2>1. pc'[t] \in OpenSteps => ~is_open_'
    <3>1. CASE OpenDavix(t) /\ ~UNCHANGED <<is_open_, fd>>
      BY <3>1, OpenedAtStart DEF OpenSteps
    <3>2. CASE ~(OpenDavix(t) /\ ~UNCHANGED <<is_open_, fd>>)
      BY <1>3, <3>2 DEF OpenStatDelete, OpenUnlink, OpenStatRead, object
    <3>3. QED BY <3>1, <3>2
  <2>2. QED BY <1>2, <1>3, <2>1
    DEF ChunkInv, FaithfulInv, GotChunk, InCall, OpenSteps, ReadSteps, WriteSteps
<1>5. InStep'
  <2>1. CASE OpenDavix(t) /\ ~UNCHANGED <<is_open_, fd>>
    BY <1>2, <2>1, OpenedAtStart DEF InStep
  <2>2. CASE ~(OpenDavix(t) /\ ~UNCHANGED <<is_open_, fd>>)
    BY <1>3, <2>2 DEF OpenStatDelete, OpenUnlink, OpenStatRead, object, InStep, Downloading
  <2>3. QED BY <2>1, <2>2
<1>6. QED BY <1>4, <1>5 DEF CopyInv

\* A step that is no part of Open, Read or Write: the client stays where it is.
LEMMA OthersKeep ==
  ASSUME Known, client' = client,
         \/ CloseDavix(Copier) \/ StatDavix(Copier) \/ StatFake(Copier)
         \/ VectorReadDavix(Copier)
  PROVE  CopyInv'
<1> DEFINE t == Copier
<1>1. TypeOK /\ t \in Threads /\ Lifecycle(t) /\ Follows(t) /\ fd \in Handles /\ WriteInv(t)
  BY KnownTypes, StepsFollow DEF Known, Steps, WInv
<1>2. pc[t] \in {"close_davix", "stat_davix", "stat_fake", "vread_davix"}
  BY DEF CloseDavix, StatDavix, StatFake, VectorReadDavix
<1>3. InCall(t) /\ pc[t] \notin OpenSteps \cup ReadSteps \cup WriteSteps \cup {"returned"}
  BY <1>2 DEF InCall, OpenSteps, ReadSteps, WriteSteps
<1>4. call'[t].op \notin {"Open", "Read", "Write"}
  BY <1>1, <1>2, <1>3 DEF Known, CopyInv, ChunkInv, WriteInv, Follows, Lifecycle, DataSteps
<1>5. pc'[t] \notin OpenSteps \cup ReadSteps \cup WriteSteps
  BY <1>1, <1>3 DEF Follows, OpenSteps, DataSteps, ReadSteps, WriteSteps
<1>6. Reached' = Reached /\ next' = next
  BY <1>3, <1>4, NothingReached DEF Known, client
<1>7. /\ UNCHANGED <<curr_offset, avoid_pread_, drifted>> /\ fd'.flags = fd.flags
      /\ is_open_' => is_open_
  <2>1. CASE CloseDavix(t)
    <3>1. UNCHANGED <<curr_offset, avoid_pread_, drifted>>
      BY <2>1 DEF CloseDavix, history
    <3>2. \/ UNCHANGED <<fd, is_open_>>
          \/ fd' = [fd EXCEPT !.open = FALSE] /\ is_open_' = FALSE
      BY <2>1 DEF CloseDavix, CloseFailed
    <3>3. QED BY <1>1, <3>1, <3>2 DEF Handles
  <2>2. CASE StatDavix(t) \/ StatFake(t) \/ VectorReadDavix(t)
    <3>1. UNCHANGED <<object, fd, history>>
      BY <2>2 DEF StatDavix, StatFake, VectorReadDavix
    <3>2. QED BY <3>1 DEF object, history
  <2>3. QED BY <2>1, <2>2
<1>8. ChunkInv' /\ FaithfulInv'
  BY <1>3, <1>4, <1>5, <1>6
  DEF Known, CopyInv, ChunkInv, FaithfulInv, GotChunk, InCall, ReadSteps
<1>9. InStep'
  BY <1>5, <1>6, <1>7 DEF Known, CopyInv, InStep, Downloading, Writable, ReadSteps
<1>10. QED BY <1>8, <1>9 DEF CopyInv

\* The steps of a Write: no download is under way.
LEMMA WritesKeep ==
  ASSUME Known, client' = client,
         WriteSeek(Copier) \/ WriteDavix(Copier) \/ WriteLoad(Copier) \/ WriteStore(Copier)
  PROVE  CopyInv'
<1> DEFINE t == Copier
<1>1. TypeOK /\ t \in Threads /\ Lifecycle(t) /\ Follows(t) /\ fd \in Handles
  BY KnownTypes, StepsFollow DEF Known, Steps
<1>2. pc[t] \in WriteSteps
  BY DEF WriteSeek, WriteDavix, WriteLoad, WriteStore, WriteSteps
<1>3. InCall(t) /\ Writable(fd)
  BY <1>2 DEF Known, CopyInv, ChunkInv, InCall, WriteSteps
<1>4. Writable(fd)' /\ call'[t].op # "Read"
  <2>1. fd'.flags = fd.flags
    BY <1>1 DEF WriteSeek, WriteDavix, WriteLoad, WriteStore, SeekTo, Handles
  <2>2. call[t].op # "Read"
    BY <1>2, <1>3 DEF Known, CopyInv, ChunkInv, ReadSteps, WriteSteps
  <2>3. QED BY <1>1, <1>3, <2>1, <2>2 DEF Writable, Follows
<1>5. pc'[t] \notin OpenSteps \cup ReadSteps
  BY <1>1, <1>2 DEF Follows, OpenSteps, DataSteps, ReadSteps, WriteSteps
<1>6. QED
  BY <1>3, <1>4, <1>5
  DEF Known, CopyInv, ChunkInv, FaithfulInv, GotChunk, InStep, Downloading, client, InCall,
      ReadSteps

\* A Read that fails leaves the client and the object where they were.
LEMMA FailedReadKeeps ==
  ASSUME Known, client' = client, ReadFailed(Copier),
         pc[Copier] \in ReadSteps,
         UNCHANGED <<is_open_, curr_offset, avoid_pread_, fd, drifted>>
  PROVE  CopyInv'
<1> DEFINE t == Copier
<1>1. TypeOK /\ t \in Threads /\ call[t] \in Calls
  BY KnownTypes
<1>2. pc'[t] = "returned" /\ call'[t].status # "ok"
  BY <1>1, FailFails DEF ReadFailed, Fails
<1>3. Reached' = Reached /\ next' = next
  BY <1>2, NothingReached DEF Known, client, ReadSteps
<1>4. InCall(t)
  BY DEF InCall, ReadSteps
<1>5. QED
  BY <1>2, <1>3, <1>4
  DEF Known, CopyInv, ChunkInv, FaithfulInv, GotChunk, InStep, Downloading, Writable,
      InCall, OpenSteps, ReadSteps, WriteSteps

\* A Read that goes on, to the next of its steps.
LEMMA ReadGoesOn ==
  ASSUME Known, client' = client, NEW point \in ReadSteps, NEW d,
         MoveTo(Copier, point, d), pc[Copier] \in ReadSteps,
         d.op = call[Copier].op, d.offset = call[Copier].offset,
         point = "read_done" => d.at = d.offset \/ (Downloading /\ drifted'),
         UNCHANGED <<is_open_, curr_offset, avoid_pread_>>, fd'.flags = fd.flags,
         Downloading /\ ~drifted' => ~drifted /\ point # "read_jump"
  PROVE  CopyInv'
<1> DEFINE t == Copier
<1>1. TypeOK /\ t \in Threads
  BY KnownTypes
<1>2. pc'[t] = point /\ call'[t] = d
  BY <1>1, MoveToEffect
<1>3. Reached' = Reached /\ next' = next
  BY <1>2, NothingReached DEF Known, client, ReadSteps
<1>4. InCall(t) /\ pc[t] \notin OpenSteps
  BY DEF InCall, ReadSteps, OpenSteps
<1>5. QED
  BY <1>2, <1>3, <1>4
  DEF Known, CopyInv, ChunkInv, FaithfulInv, GotChunk, InStep, Downloading, Writable,
      InCall, OpenSteps, ReadSteps, WriteSteps

\* The steps of a Read.  One that avoids the Range header starts where davix stands, and
\* if that is known it never jumps.
LEMMA ReadsKeep ==
  ASSUME Known, client' = client,
         \/ ReadClamp(Copier) \/ ReadLock(Copier) \/ ReadPositioned(Copier)
         \/ ReadSequential(Copier) \/ ReadDone(Copier)
  PROVE  CopyInv'
<1> DEFINE t == Copier
<1>1. /\ TypeOK /\ t \in Threads /\ Lifecycle(t) /\ fd \in Handles /\ call[t] \in Calls
      /\ ModeInv /\ ChunkInv /\ InStep /\ Reached \in Nat
  BY KnownTypes DEF Known, IInv, CopyInv
<1>2. pc[t] \in ReadSteps /\ pc[t] # "returned" /\ is_open_
  BY <1>1 DEF ReadClamp, ReadLock, ReadPositioned, ReadSequential, ReadDone, ReadSteps,
              Lifecycle, DataSteps
<1>3. InCall(t) /\ call[t].op = "Read" /\ call[t].offset = next /\ Reached = next /\ ~Writable(fd)
  BY <1>1, <1>2 DEF ChunkInv, InCall, ReadSteps, Reached
<1>4. CASE ReadClamp(t)
  <2> DEFINE d == [call[t] EXCEPT !.asked = Remaining(call[t].offset)]
  <2>1. d.op = call[t].op /\ d.offset = call[t].offset
    BY <1>1 DEF Calls
  <2>2. MoveTo(t, TransferStep, d) /\ UNCHANGED <<object, fd, history>>
    BY <1>4 DEF ReadClamp
  <2>3. TransferStep \in ReadSteps \ {"read_done", "read_jump"}
    BY DEF TransferStep, ReadSteps
  <2> HIDE DEF d
  <2>4. QED BY <1>2, <2>1, <2>2, <2>3, ReadGoesOn DEF object, history
<1>5. CASE ReadLock(t)
  <2> DEFINE point == IF call[t].offset = curr_offset THEN "read_seq" ELSE "read_jump"
  <2>1. MoveTo(t, point, call[t]) /\ UNCHANGED <<is_open_, curr_offset, avoid_pread_, fd, history>>
    BY <1>5 DEF ReadLock
  <2>2. point \in ReadSteps \ {"read_done"} /\ (Downloading /\ ~drifted => point = "read_seq")
    BY <1>1, <1>3 DEF ReadSteps, InStep
  <2> HIDE DEF point
  <2>3. QED BY <1>2, <2>1, <2>2, ReadGoesOn DEF history
<1>6. ASSUME NEW n, NEW at, ReadMoved(t, n, at),
             at = call[t].offset \/ (Downloading /\ drifted'),
             UNCHANGED <<is_open_, curr_offset, avoid_pread_>>, fd'.flags = fd.flags,
             ~drifted' => ~drifted
      PROVE  CopyInv'
  <2> DEFINE d == [call[t] EXCEPT !.n = n, !.at = at]
  <2>1. d.op = call[t].op /\ d.offset = call[t].offset /\ d.at = at
    BY <1>1 DEF Calls
  <2>2. MoveTo(t, "read_done", d) /\ "read_done" \in ReadSteps
    BY <1>6 DEF ReadMoved, ReadSteps
  <2> HIDE DEF d
  <2>3. QED BY <1>2, <1>6, <2>1, <2>2, ReadGoesOn
<1>7. CASE ReadPositioned(t)
  <2>1. \/ ReadFailed(t) /\ drifted' = drifted
        \/ (\E n : ReadMoved(t, n, call[t].offset)) /\ drifted' = TRUE
    BY <1>7 DEF ReadPositioned
  <2>2. UNCHANGED <<is_open_, curr_offset, avoid_pread_, fd>>
    BY <1>7 DEF ReadPositioned
  <2>3. ~drifted' => ~drifted
    BY <2>1
  <2>4. QED BY <1>2, <1>6, <2>1, <2>2, <2>3, FailedReadKeeps
<1>8. CASE ReadSequential(t)
  <2>1. Downloading
    BY <1>1, <1>2, <1>3, <1>8 DEF ReadSequential, ModeInv, Downloading
  <2>2. fd.pos = call[t].offset \/ drifted
    BY <1>1, <1>8 DEF ReadSequential, Known, Aligned, Continues
  <2>3. UNCHANGED <<is_open_, curr_offset, avoid_pread_, drifted>>
    BY <1>8 DEF ReadSequential
  <2>4. \/ ReadFailed(t) /\ fd' = fd
        \/ \E n : ReadMoved(t, n, fd.pos) /\ fd' = [fd EXCEPT !.pos = @ + n]
    BY <1>8 DEF ReadSequential
  <2>5. \A n : fd' = [fd EXCEPT !.pos = @ + n] => fd'.flags = fd.flags
    BY <1>1 DEF Handles
  <2>6. QED BY <1>2, <1>6, <2>1, <2>2, <2>3, <2>4, <2>5, FailedReadKeeps
<1>9. CASE ReadDone(t)
  <2> DEFINE d == [call[t] EXCEPT !.status = "ok", !.answers = @ + 1]
  <2>1. /\ d.op = call[t].op /\ d.offset = call[t].offset /\ d.at = call[t].at /\ d.n = call[t].n
        /\ d.status = "ok"
    BY <1>1 DEF Calls
  <2>2. /\ MoveTo(t, "returned", d) /\ curr_offset' = call[t].offset + call[t].n
        /\ UNCHANGED <<is_open_, avoid_pread_, fd, drifted>> /\ pc[t] = "read_done"
    BY <1>9 DEF ReadDone, Answer, OffsetReached, history
  <2> HIDE DEF d
  <2>3. pc'[t] = "returned" /\ call'[t] = d
    BY <1>1, <2>2, MoveToEffect
  <2>4. Reached' = next + call[t].n /\ next' = next
    BY <1>3, <2>1, <2>3 DEF Reached, After, client
  <2>5. ChunkInv'
    BY <1>2, <1>3, <2>1, <2>2, <2>3
    DEF ChunkInv, GotChunk, InCall, OpenSteps, ReadSteps, WriteSteps, Writable
  <2>6. FaithfulInv'
    BY <1>3, <2>1, <2>2, <2>3
    DEF Known, CopyInv, FaithfulInv, Downloading, Writable
  <2>7. InStep'
    BY <1>1, <1>3, <2>2, <2>3, <2>4 DEF InStep, Downloading, Writable
  <2>8. QED BY <2>5, <2>6, <2>7 DEF CopyInv
<1>10. QED BY <1>4, <1>5, <1>7, <1>8, <1>9

\* The record of a call without arguments.
LEMMA NewType == \A op \in Ops : [NoCall EXCEPT !.op = op] \in Calls /\ [NoCall EXCEPT !.op = op].op = op
BY NoCallType DEF Calls

\* A call the object has to be open for starts, or is refused.
LEMMA StartKeeps ==
  ASSUME Known, client' = client, NEW point, NEW c \in Calls,
         StartOrRefuse(Copier, point, c),
         point \notin OpenSteps \cup {"idle", "returned", "read_done", "read_jump"},
         c.op = "Read" <=> point \in ReadSteps,
         point \in ReadSteps => c.offset = next /\ is_open_ /\ ~Writable(fd),
         point \in WriteSteps /\ is_open_ => Writable(fd)
  PROVE  CopyInv'
<1> DEFINE t == Copier
<1>1. /\ TypeOK /\ t \in Threads /\ ChunkInv /\ InStep /\ next \in Nat
      /\ is_open_ \in BOOLEAN
  BY KnownTypes DEF Known, CopyInv, TypeOK
<1>2. /\ pc[t] = "idle" /\ Reached = next /\ next' = next
      /\ UNCHANGED <<fd, is_open_, curr_offset, drifted, avoid_pread_>>
  BY DEF StartOrRefuse, MayStart, Reached, client, object, history
<1>3. \/ is_open_ /\ pc'[t] = point /\ call'[t] = c
      \/ pc'[t] = "returned" /\ call'[t].status # "ok"
  BY <1>1, MoveToEffect, FailFails DEF StartOrRefuse, Fails
<1>4. Reached' = Reached
  BY <1>1, <1>2, <1>3, NothingReached
<1>5. ChunkInv' /\ FaithfulInv'
  BY <1>2, <1>3
  DEF ChunkInv, FaithfulInv, GotChunk, Writable, InCall, OpenSteps, ReadSteps, WriteSteps
<1>6. InStep'
  BY <1>1, <1>2, <1>3, <1>4 DEF InStep, Downloading, Writable
<1>7. QED BY <1>5, <1>6 DEF CopyInv

\* An Open starts, or is refused.
LEMMA OpenStarts == ASSUME Known, CopyOpen PROVE CopyInv'
<1> DEFINE t == Copier
<1>1. /\ TypeOK /\ t \in Threads /\ ChunkInv /\ InStep
  BY KnownTypes DEF Known, CopyInv
<1>2. PICK u \in Urls, flags \in FlagSets : OpenCall(t, u, flags)
  BY DEF CopyOpen
<1>3. /\ pc[t] = "idle" /\ next' = next
      /\ UNCHANGED <<is_open_, curr_offset, fd, drifted>>
  BY <1>2 DEF CopyOpen, OpenCall, MayStart, history
<1> DEFINE c == [NoCall EXCEPT !.op = "Open", !.url = u, !.flags = flags]
<1>4. c \in Calls /\ c.op = "Open"
  BY ArgumentsAssumption, NoCallType DEF Calls, Ops
<1>5. \/ is_open_ /\ Fail(t, c, "errInvalidOp") /\ avoid_pread_' = avoid_pread_
      \/ ~is_open_ /\ MoveTo(t, FirstOpenStep(flags), c)
  BY <1>2 DEF OpenCall
<1> HIDE DEF c
<1>6. \/ /\ is_open_ /\ avoid_pread_' = avoid_pread_
         /\ pc'[t] = "returned" /\ call'[t].status # "ok"
      \/ ~is_open_ /\ pc'[t] \in OpenSteps /\ call'[t].op = "Open"
  BY <1>1, <1>4, <1>5, MoveToEffect, FailFails DEF Fails, FirstOpenStep, OpenSteps
<1>7. Reached' = Reached
  BY <1>3, <1>6, NothingReached DEF Known, OpenSteps
<1>8. ChunkInv' /\ FaithfulInv'
  BY <1>3, <1>6
  DEF ChunkInv, FaithfulInv, GotChunk, InCall, OpenSteps, ReadSteps, WriteSteps
<1>9. InStep'
  BY <1>1, <1>3, <1>6, <1>7 DEF InStep, Downloading
<1>10. QED BY <1>8, <1>9 DEF CopyInv

\* The client asks for the size, or ends the transfer.
LEMMA OtherStarts ==
  ASSUME Known, client' = client, StatCall(Copier) \/ CloseCall(Copier)
  PROVE  CopyInv'
<1>1. {"Stat", "Close"} \subseteq Ops
  BY DEF Ops
<1>2. QED
  BY <1>1, NewType, StartKeeps DEF StatCall, CloseCall, OpenSteps, ReadSteps, WriteSteps

\* The next chunk is asked for.
LEMMA ChunkStarts ==
  ASSUME Offsets = Nat, Known, CopyChunk
  PROVE  CopyInv'
<1>1. next \in Offsets /\ client' = client /\ {"Read", "Write"} \subseteq Ops
  BY DEF Known, CopyChunk, Ops
<1>2. ASSUME NEW size \in Sizes, is_open_ /\ ~Writable(fd), ReadCall(Copier, next, size)
      PROVE  CopyInv'
  <2> DEFINE point == IF ReachesPast(next, size) THEN "read_clamp" ELSE TransferStep
             c == [NoCall EXCEPT !.op = "Read", !.offset = next, !.size = size,
                                 !.asked = size]
  <2>1. c \in Calls /\ c.op = "Read" /\ c.offset = next
    BY <1>1, DataCallType DEF NoCall
  <2>2. point \in {"read_clamp", "read_lock", "read_range"}
    BY DEF TransferStep
  <2>3. StartOrRefuse(Copier, point, c)
    BY <1>2 DEF ReadCall
  <2> HIDE DEF point, c
  <2>4. QED BY <1>1, <1>2, <2>1, <2>2, <2>3, StartKeeps DEF OpenSteps, ReadSteps, WriteSteps
<1>3. ASSUME NEW size \in Sizes, ~(is_open_ /\ ~Writable(fd)), WriteCall(Copier, next, size)
      PROVE  CopyInv'
  <2> DEFINE c == [NoCall EXCEPT !.op = "Write", !.offset = next, !.size = size]
  <2>1. c \in Calls /\ c.op = "Write"
    BY <1>1, DataCallType DEF NoCall
  <2>2. StartOrRefuse(Copier, "write_seek", c)
    BY <1>3 DEF WriteCall
  <2> HIDE DEF c
  <2>3. QED BY <1>1, <1>3, <2>1, <2>2, StartKeeps DEF OpenSteps, ReadSteps, WriteSteps
<1>4. CopyChunk =>
        \E size \in Sizes :
          \/ is_open_ /\ ~Writable(fd) /\ ReadCall(Copier, next, size)
          \/ ~(is_open_ /\ ~Writable(fd)) /\ WriteCall(Copier, next, size)
  BY DEF CopyChunk
<1>5. QED BY <1>2, <1>3, <1>4

\* The client takes an answer, and with it what it says.
LEMMA ReturnKeeps == ASSUME Known, CopyReturn PROVE CopyInv'
<1> DEFINE t == Copier
<1>1. TypeOK /\ t \in Threads
  BY KnownTypes
<1>2. /\ pc[t] = "returned" /\ pc'[t] = "idle"
      /\ next' = Reached
      /\ UNCHANGED <<fd, is_open_, curr_offset, drifted, avoid_pread_>>
  BY <1>1, MoveToEffect DEF CopyReturn, Return, Reached, object
<1>3. Reached' = Reached
  BY <1>2 DEF Reached
<1>4. QED
  BY <1>2, <1>3
  DEF Known, CopyInv, ChunkInv, FaithfulInv, GotChunk, InStep, Downloading, Writable,
      InCall, OpenSteps, ReadSteps, WriteSteps

\* Every step of the client and its calls keeps the transfer in order.
LEMMA CopyStep ==
  ASSUME Offsets = Nat, Known, [CopyNext]_<<vars, client>>
  PROVE  Known'
<1>1. [Next]_vars
  BY CopyStepIsStep DEF Known
<1>2. (IInv /\ AnswerInv /\ WInv /\ Aligned)'
  BY <1>1, StepInv, AnswerStep, WriteStep, AlignedStep DEF Known
<1>3. next' \in Nat
  BY NextIsNat DEF Known
<1>4. CopyInv'
  <2>1. CASE UNCHANGED <<vars, client>>
    <3>1. UNCHANGED <<object, fd, control, drifted, client>>
      BY <2>1 DEF vars, history
    <3>2. Reached' = Reached /\ UNCHANGED <<next, pc, call>>
      BY <3>1 DEF client, control, Reached, After
    <3>3. UNCHANGED <<is_open_, curr_offset, avoid_pread_, fd, drifted>>
      BY <3>1 DEF object
    <3>4. QED
      BY <3>2, <3>3
      DEF Known, CopyInv, ChunkInv, FaithfulInv, GotChunk, InStep, Downloading, InCall, Writable
  <2>2. CASE CopyOther
    <3>1. client' = client
      BY <2>2 DEF CopyOther
    <3>2. CASE StatCall(Copier) \/ CloseCall(Copier)
      BY <3>1, <3>2, OtherStarts
    <3>3. CASE Steps(Copier)
      BY <3>1, <3>3, OpenKeeps, OthersKeep, WritesKeep, ReadsKeep DEF Steps
    <3>4. QED BY <2>2, <3>2, <3>3 DEF CopyOther
  <2>3. CASE CopyChunk
    BY <2>3, ChunkStarts
  <2>4. CASE CopyOpen \/ CopyReturn
    BY <2>4, OpenStarts, ReturnKeeps
  <2>5. QED BY <2>1, <2>2, <2>3, <2>4 DEF CopyNext
<1>5. QED BY <1>2, <1>3, <1>4 DEF Known

\* At the start there is nothing to keep in order.
LEMMA CopyStart == CopyInit => Known
<1> SUFFICES ASSUME CopyInit PROVE Known
  OBVIOUS
<1>1. Init /\ next = 0 /\ opens = 0 /\ Copier \in Threads
  BY CopierAssumption DEF CopyInit
<1>2. IInv /\ AnswerInv
  BY <1>1, InitInv, InitAnswers
<1>3. WInv /\ Aligned
  BY <1>1 DEF Init, WInv, WriteInv, InCall, Aligned, Continues
<1>4. CopyInv
  BY <1>1
  DEF Init, CopyInv, ChunkInv, FaithfulInv, GotChunk, InStep, Downloading,
      InCall, OpenSteps, ReadSteps, WriteSteps
<1>5. QED BY <1>1, <1>2, <1>3, <1>4 DEF Known

-----------------------------------------------------------------------------
(* Downloads *)

\* A download without Range headers never loses its position.
Straight == Downloading => ~drifted

\* No step loses it, if an Open finds the object as it was constructed.
LEMMA StraightStep ==
  ASSUME Offsets = Nat, Known, Straight, OffsetFresh, [CopyNext]_<<vars, client>>
  PROVE  Straight'
<1> DEFINE t == Copier
<1>1. /\ TypeOK /\ t \in Threads /\ fd \in Handles /\ ModeInv /\ InStep /\ ChunkInv
      /\ Lifecycle(t)
  BY KnownTypes DEF Known, IInv, CopyInv
<1>2. CASE UNCHANGED <<object, fd, drifted>>
  BY <1>1, <1>2 DEF object, Straight, Downloading, Writable
<1>3. UNCHANGED <<vars, client>> \/ CopyReturn => UNCHANGED <<object, fd, drifted>>
  BY DEF vars, history, CopyReturn, Return
<1>4. CASE CopyOpen
  <2>1. PICK u \in Urls, flags \in FlagSets : OpenCall(t, u, flags)
    BY <1>4 DEF CopyOpen
  <2>2. /\ UNCHANGED <<is_open_, fd, drifted>>
        /\ is_open_ => avoid_pread_' = avoid_pread_
    BY <2>1 DEF OpenCall, history
  <2>3. QED BY <2>2 DEF Straight, Downloading, Writable
<1>5. CopyChunk \/ StatCall(t) \/ CloseCall(t) => UNCHANGED <<object, fd, drifted>>
  BY DEF CopyChunk, ReadCall, WriteCall, StatCall, CloseCall, StartOrRefuse, history
<1>6. CASE Steps(t)
  <2>1. CASE OpenDavix(t)
    <3>1. \/ UNCHANGED <<is_open_, fd, drifted>>
          \/ drifted' = (curr_offset # 0)
      BY <2>1 DEF OpenDavix
    <3>2. avoid_pread_' = avoid_pread_ /\ (avoid_pread_ => curr_offset = 0)
      BY <2>1 DEF OpenDavix, OffsetFresh
    <3>3. QED BY <3>1, <3>2 DEF Straight, Downloading, Writable
  <2>2. CASE CloseDavix(t)
    BY <1>1, <2>2 DEF CloseDavix, CloseFailed, history, Straight, Downloading, Writable, Handles
  <2>3. CASE ReadPositioned(t)
    <3>1. ~Downloading
      <4>1. CASE pc[t] = "read_range"
        BY <1>1, <4>1 DEF ModeInv, Downloading
      <4>2. CASE pc[t] = "read_jump"
        BY <4>2, <1>1 DEF InStep, Straight
      <4>3. QED BY <2>3, <4>1, <4>2 DEF ReadPositioned
    <3>2. UNCHANGED <<is_open_, avoid_pread_, fd>>
      BY <2>3 DEF ReadPositioned
    <3>3. QED BY <3>1, <3>2 DEF Straight, Downloading, Writable
  <2>4. CASE ReadSequential(t)
    <3>1. UNCHANGED <<is_open_, avoid_pread_, drifted>> /\ fd'.flags = fd.flags
      BY <1>1, <2>4 DEF ReadSequential, Handles
    <3>2. QED BY <3>1 DEF Straight, Downloading, Writable
  <2>5. CASE WriteSeek(t) \/ WriteDavix(t) \/ WriteLoad(t) \/ WriteStore(t)
    <3>1. Writable(fd)
      BY <1>1, <2>5 DEF ChunkInv, WriteSeek, WriteDavix, WriteLoad, WriteStore, WriteSteps
    <3>2. fd'.flags = fd.flags
      BY <1>1, <2>5 DEF WriteSeek, WriteDavix, WriteLoad, WriteStore, SeekTo, Handles
    <3>3. QED BY <3>1, <3>2 DEF Straight, Downloading, Writable
  <2>6. UNCHANGED <<is_open_, avoid_pread_, fd, drifted>> => Straight'
    BY DEF Straight, Downloading, Writable
  <2>7. QED BY <1>6, <2>1, <2>2, <2>3, <2>4, <2>5, <2>6
    DEF Steps, OpenStatDelete, OpenUnlink, OpenStatRead, StatDavix, StatFake, ReadClamp,
        ReadLock, ReadDone, VectorReadDavix, object, history
<1>7. QED BY <1>2, <1>3, <1>4, <1>5, <1>6 DEF CopyNext, CopyOther

\* While every Open finds the object as it was constructed, every chunk of a download
\* holds the bytes of the offset it was asked for, with Range headers or without, for any
\* files and sizes, any number of transfers, and after any short and failing reads
\* (HttpFilePlugIn.cc:237-283).
THEOREM FreshDownloadsFaithful ==
  ASSUME Offsets = Nat
  PROVE  CopySpec /\ []OffsetFresh => []DownloadFaithful
<1>1. CopyInit => Known /\ Straight
  BY CopyStart DEF CopyInit, Init, Straight, Downloading
<1>2. Known /\ Straight /\ OffsetFresh /\ [CopyNext]_<<vars, client>> => (Known /\ Straight)'
  BY CopyStep, StraightStep
<1>3. Known /\ Straight => DownloadFaithful
  <2> SUFFICES ASSUME Known, Straight PROVE DownloadFaithful
    OBVIOUS
  <2>1. Unanswered(Copier) /\ Idle(Copier)
    BY KnownTypes DEF Known, AnswerInv
  <2>2. QED BY <2>1 DEF Known, Straight, CopyInv, FaithfulInv, GotChunk, DownloadFaithful,
                        Unanswered, Idle, InCall, NoCall
<1>4. QED BY <1>1, <1>2, <1>3, PTL DEF CopySpec

-----------------------------------------------------------------------------
(* Uploads *)

\* A file opened for writing starts empty: it must be new, or is truncated.
Truncates(flags) == flags \cap {"Write", "Update"} # {} => flags \cap {"New", "Delete"} # {}

WritersTruncate == \A flags \in FlagSets : Truncates(flags)

\* What the handle holds of the upload: what the client knows of, and the chunk that has
\* been written and not yet counted.
Uploaded ==
  IF pc[Copier] \in {"write_load", "write_store"} THEN next + call[Copier].size ELSE Reached

UploadInv ==
  /\ ~raced[Copier]
  /\ pc[Copier] \in OpenSteps => Truncates(call[Copier].flags)
  /\ pc[Copier] \in WriteSteps => call[Copier].offset = next
  /\ is_open_ /\ Writable(fd) => fd.len = Uploaded

\* The only steps that take the client on are the last ones of an Open, a Read and a Write.
LEMMA ReachedStays ==
  ASSUME Known, client' = client, Steps(Copier),
         ~OpenDavix(Copier), ~ReadDone(Copier), ~WriteStore(Copier)
  PROVE  Reached' = Reached
<1> DEFINE t == Copier
<1>1. /\ TypeOK /\ t \in Threads /\ Follows(t) /\ WriteInv(t) /\ call[t] \in Calls
      /\ next \in Nat /\ next' = next /\ Lifecycle(t)
  BY KnownTypes, StepsFollow DEF Known, WInv, client
<1>2. InCall(t) /\ pc[t] # "returned"
  BY <1>1 DEF Follows, InCall, OpenSteps, DataSteps, ReadSteps, WriteSteps
<1>3. CASE pc[t] \notin OpenSteps \cup ReadSteps \cup WriteSteps
  <2>1. call'[t].op \notin {"Open", "Read", "Write"}
    BY <1>1, <1>2, <1>3
    DEF Known, CopyInv, ChunkInv, WriteInv, Follows, Lifecycle, DataSteps
  <2>2. QED BY <1>1, <1>2, <2>1, NothingReached
<1>4. ASSUME NEW status, Fail(t, call[t], status), status # "ok"
      PROVE  call'[t].status # "ok"
  BY <1>1, <1>4, FailFails DEF Fails
<1>5. ASSUME NEW point, NEW d, MoveTo(t, point, d)
      PROVE  pc'[t] = point
  BY <1>1, <1>5, MoveToEffect
<1>6. CASE ReadClamp(t) \/ ReadLock(t) \/ ReadPositioned(t) \/ ReadSequential(t)
  <2>1. pc'[t] # "returned" \/ call'[t].status # "ok"
    BY <1>4, <1>5, <1>6 DEF ReadClamp, ReadLock, ReadPositioned, ReadSequential, TransferStep,
                            ReadFailed, ReadMoved
  <2>2. QED BY <1>1, <1>2, <2>1, NothingReached
<1>7. CASE WriteSeek(t) \/ WriteDavix(t) \/ WriteLoad(t)
  <2>1. pc'[t] # "returned" \/ call'[t].status # "ok"
    BY <1>4, <1>5, <1>7 DEF WriteSeek, WriteDavix, WriteLoad
  <2>2. QED BY <1>1, <1>2, <2>1, NothingReached
<1>8. CASE OpenStatDelete(t) \/ OpenUnlink(t) \/ OpenStatRead(t)
  <2>1. pc'[t] # "returned" \/ call'[t].status # "ok"
    BY <1>4, <1>5, <1>8 DEF OpenStatDelete, OpenUnlink, OpenStatRead
  <2>2. QED BY <1>1, <1>2, <2>1, NothingReached
<1>9. QED BY <1>3, <1>6, <1>7, <1>8
  DEF Steps, CloseDavix, StatDavix, StatFake, VectorReadDavix, OpenSteps, ReadSteps, WriteSteps

\* A handle davix opens for an upload is empty.
LEMMA UploadsStartEmpty ==
  ASSUME NEW flags, Truncates(flags), NEW len \in Lengths, NEW u,
         NEW r \in Open(len, MakePosixOpenFlags(flags)), r.status = "ok",
         Writable(NewHandle(u, MakePosixOpenFlags(flags), len))
  PROVE  NewHandle(u, MakePosixOpenFlags(flags), len).len = 0
<1> DEFINE posix == MakePosixOpenFlags(flags)
<1>1. flags \cap {"Write", "Update"} # {}
  BY DEF Writable, NewHandle, MakePosixOpenFlags
<1>2. "Delete" \in flags \/ "New" \in flags
  BY <1>1 DEF Truncates
<1>3. CASE "Delete" \in flags
  BY <1>3 DEF NewHandle, MakePosixOpenFlags
<1>4. CASE "New" \in flags
  <2>1. {"O_CREAT", "O_EXCL"} \subseteq posix
    BY <1>4 DEF MakePosixOpenFlags
  <2>2. PICK x \in DavixOpen(len, posix) : r = Converted(x)
    BY DEF Open
  <2>3. x.n >= 0 /\ x.n \in Int
    <3>1. x.n \in Int
      BY FaultCount DEF DavixOpen, Failed, Returned
    <3>2. ~(x.n < 0)
      BY <2>2 DEF Converted, ErrCodeConvert
    <3>3. QED BY <3>1, <3>2
  <2>4. len = Absent
    <3> HIDE DEF posix
    <3>1. QED BY <2>1, <2>3 DEF DavixOpen, Fault, Failed
  <2>5. QED BY <2>4 DEF NewHandle
<1>5. QED BY <1>2, <1>3, <1>4

\* The steps of Open keep the upload.
LEMMA OpenUploads ==
  ASSUME Known, UploadInv, client' = client, Copier \in Threads,
         \/ OpenStatDelete(Copier) \/ OpenUnlink(Copier)
         \/ OpenStatRead(Copier) \/ OpenDavix(Copier)
  PROVE  UploadInv'
<1> DEFINE t == Copier
<1>1. TypeOK /\ t \in Threads /\ Lifecycle(t) /\ call[t] \in Calls /\ Follows(t)
  BY KnownTypes, StepsFollow DEF Known, Steps
<1>2. pc[t] \in OpenSteps /\ raced' = raced /\ ~is_open_
  BY DEF OpenStatDelete, OpenUnlink, OpenStatRead, OpenDavix, OpenSteps, history,
         Known, CopyInv, ChunkInv
<1>3. pc'[t] \in OpenSteps \cup {"returned"}
  BY <1>1, <1>2 DEF Follows, OpenSteps, DataSteps, ReadSteps, WriteSteps
<1>4. Uploaded' = Reached'
  BY <1>3 DEF Uploaded, OpenSteps
<1>5. pc'[t] \in OpenSteps => call'[t] = call[t]
  <2>1. \A point : MoveTo(t, point, call[t]) => call'[t] = call[t]
    BY <1>1, MoveToEffect
  <2>2. \A c, status : Fail(t, c, status) \/ Answer(t, c) => pc'[t] = "returned"
    BY <1>1, MoveToEffect DEF Fail, Answer
  <2>3. QED BY <2>1, <2>2 DEF OpenStatDelete, OpenUnlink, OpenStatRead, OpenDavix, OpenSteps
<1>6. is_open_' /\ Writable(fd)' => fd'.len = Uploaded'
  <2>1. CASE UNCHANGED <<is_open_, fd>>
    BY <1>2, <2>1
  <2>2. CASE OpenDavix(t) /\ ~UNCHANGED <<is_open_, fd>>
    <3>1. /\ Reached' = 0
          /\ fd' = NewHandle(call[t].url, MakePosixOpenFlags(call[t].flags),
                             store[call[t].url])
          /\ \E r \in Open(store[call[t].url], MakePosixOpenFlags(call[t].flags)) :
               r.status = "ok"
      BY <2>2, OpenedAtStart
    <3>2. store[call[t].url] \in Lengths /\ Truncates(call[t].flags)
      BY <1>1, <1>2, LengthsOfFiles DEF UploadInv, Lifecycle
    <3>3. Writable(fd') => fd'.len = 0
      BY <3>1, <3>2, UploadsStartEmpty
    <3>4. QED BY <1>4, <3>1, <3>3 DEF Writable
  <2>3. QED BY <2>1, <2>2 DEF OpenStatDelete, OpenUnlink, OpenStatRead, object
<1>7. QED BY <1>2, <1>3, <1>5, <1>6 DEF UploadInv, OpenSteps, WriteSteps

\* The steps of Close, Stat and Read do.
LEMMA OthersUpload ==
  ASSUME Known, UploadInv, client' = client, Copier \in Threads,
         \/ CloseDavix(Copier) \/ StatDavix(Copier) \/ StatFake(Copier)
         \/ VectorReadDavix(Copier) \/ ReadClamp(Copier) \/ ReadLock(Copier)
         \/ ReadPositioned(Copier) \/ ReadSequential(Copier) \/ ReadDone(Copier)
  PROVE  UploadInv'
<1> DEFINE t == Copier
<1>1. TypeOK /\ fd \in Handles /\ raced \in [Threads -> BOOLEAN] /\ Follows(t)
  BY KnownTypes, StepsFollow DEF Known, Steps, TypeOK
<1>2. raced'[t] = raced[t]
  BY <1>1 DEF CloseDavix, StatDavix, StatFake, VectorReadDavix, ReadClamp, ReadLock,
              ReadPositioned, ReadSequential, ReadDone, history, Overtaken
<1>3. pc[t] \notin OpenSteps \cup WriteSteps
  BY DEF CloseDavix, StatDavix, StatFake, VectorReadDavix, ReadClamp, ReadLock,
         ReadPositioned, ReadSequential, ReadDone, OpenSteps, WriteSteps
<1>4. pc'[t] \notin OpenSteps \cup WriteSteps
  BY <1>1, <1>3 DEF Follows, OpenSteps, DataSteps, ReadSteps, WriteSteps
<1>5. CASE pc[t] \in ReadSteps
  <2>1. ~Writable(fd)
    BY <1>5 DEF Known, CopyInv, ChunkInv
  <2>2. fd'.flags = fd.flags
    BY <1>1, <1>5 DEF CloseDavix, StatDavix, StatFake, VectorReadDavix, ReadClamp, ReadLock,
              ReadPositioned, ReadSequential, ReadDone, ReadSteps, Handles
  <2>3. QED BY <1>2, <1>4, <2>1, <2>2 DEF UploadInv, Writable
<1>6. CASE pc[t] \notin ReadSteps
  <2>1. CloseDavix(t) \/ StatDavix(t) \/ StatFake(t) \/ VectorReadDavix(t)
    BY <1>6 DEF ReadClamp, ReadLock, ReadPositioned, ReadSequential, ReadDone, ReadSteps
  <2>2. Reached' = Reached
    <3>1. Steps(t) /\ ~OpenDavix(t) /\ ~ReadDone(t) /\ ~WriteStore(t)
      BY <2>1 DEF Steps, CloseDavix, StatDavix, StatFake, VectorReadDavix, OpenDavix, ReadDone,
                  WriteStore
    <3>2. QED BY <3>1, ReachedStays
  <2>3. Uploaded' = Reached' /\ Uploaded = Reached
    BY <1>3, <1>4 DEF Uploaded, WriteSteps
  <2>4. \/ UNCHANGED <<is_open_, fd>>
        \/ is_open_' = FALSE
    <3>1. CloseDavix(t) => UNCHANGED <<is_open_, fd>> \/ is_open_' = FALSE
      BY DEF CloseDavix, CloseFailed
    <3>2. StatDavix(t) \/ StatFake(t) \/ VectorReadDavix(t) => UNCHANGED <<is_open_, fd>>
      BY DEF StatDavix, StatFake, VectorReadDavix, object
    <3>3. QED BY <2>1, <3>1, <3>2
  <2>5. QED BY <1>2, <1>4, <2>2, <2>3, <2>4 DEF UploadInv, Writable
<1>7. QED BY <1>5, <1>6

\* A Write that is not cut short writes all it is asked to.
LEMMA WholeWrite ==
  ASSUME ShortWrites = FALSE, NEW h, Writable(h), NEW size \in Nat,
         NEW r \in PWriteWrite(h, size), r.status = "ok"
  PROVE  r.n = size
<1>1. PICK x \in DavixWrite(h, size) : r = Internal(x)
  BY DEF PWriteWrite
<1>2. x \notin Fault
  BY <1>1 DEF Internal, Fault, Failed
<1>3. QED BY <1>1, <1>2 DEF DavixWrite, Counts, Returned, Internal

\* The steps of a Write: its chunk is put at the end of the upload.
LEMMA WritesUpload ==
  ASSUME ShortWrites = FALSE, Known, UploadInv, client' = client, Copier \in Threads,
         WriteSeek(Copier) \/ WriteDavix(Copier) \/ WriteLoad(Copier) \/ WriteStore(Copier)
  PROVE  UploadInv'
<1> DEFINE t == Copier
<1>1. /\ TypeOK /\ fd \in Handles /\ raced \in [Threads -> BOOLEAN] /\ call[t] \in Calls
      /\ Follows(t) /\ WriteInv(t) /\ Lifecycle(t) /\ next \in Nat /\ next' = next
  BY KnownTypes, StepsFollow DEF Known, Steps, TypeOK, WInv, client
<1>2. pc[t] \in WriteSteps /\ raced'[t] = raced[t]
  BY <1>1 DEF WriteSeek, WriteDavix, WriteLoad, WriteStore, WriteSteps, history, Overtaken
<1>3. /\ is_open_ /\ Writable(fd) /\ fd.len = Uploaded /\ call[t].offset = next /\ ~raced[t]
      /\ call[t].op = "Write" /\ Reached = next
  BY <1>1, <1>2 DEF Known, CopyInv, ChunkInv, UploadInv, Lifecycle, DataSteps, WriteInv, InCall,
                    WriteSteps, Reached
<1>4. pc'[t] \notin OpenSteps
  BY <1>1, <1>2 DEF Follows, OpenSteps, DataSteps, WriteSteps
<1>5. ASSUME pc'[t] \in WriteSteps => call'[t].offset = next, fd'.len = Uploaded'
      PROVE  UploadInv'
  BY <1>1, <1>2, <1>3, <1>4, <1>5 DEF UploadInv
<1>6. ASSUME NEW status, Fail(t, call[t], status), status # "ok", fd' = fd,
             pc[t] \in {"write_seek", "write_davix"}
      PROVE  UploadInv'
  <2>1. pc'[t] = "returned" /\ call'[t].status # "ok"
    BY <1>1, <1>6, FailFails DEF Fails
  <2>2. Uploaded' = Uploaded
    BY <1>1, <1>3, <1>6, <2>1 DEF Uploaded, Reached, After
  <2>3. QED BY <1>3, <1>5, <1>6, <2>1, <2>2 DEF WriteSteps
<1>7. CASE WriteSeek(t)
  <2>1. \/ \E status : Fail(t, call[t], status) /\ status # "ok" /\ fd' = fd
        \/ MoveTo(t, "write_davix", call[t]) /\ fd' = SeekTo(fd, call[t].offset)
    BY <1>7 DEF WriteSeek
  <2>2. CASE MoveTo(t, "write_davix", call[t]) /\ fd' = SeekTo(fd, call[t].offset)
    <3>1. pc'[t] = "write_davix" /\ call'[t] = call[t] /\ fd'.len = fd.len
      BY <1>1, <2>2, MoveToEffect DEF SeekTo, Handles
    <3>2. Uploaded' = Uploaded
      BY <1>1, <1>3, <1>7, <3>1 DEF WriteSeek, Uploaded, Reached
    <3>3. QED BY <1>3, <1>5, <3>1, <3>2
  <2>3. QED BY <1>6, <1>7, <2>1, <2>2 DEF WriteSeek
<1>8. CASE WriteDavix(t)
  <2>1. pc[t] = "write_davix" /\ fd.pos = next /\ fd.len = next
    BY <1>3, <1>8, <1>1 DEF WriteDavix, WriteInv, Uploaded
  <2>2. PICK r \in PWriteWrite(fd, call[t].size) :
          \/ r.status # "ok" /\ Fail(t, call[t], r.status) /\ fd' = fd
          \/ /\ r.status = "ok"
             /\ MoveTo(t, "write_load", [call[t] EXCEPT !.n = r.n, !.at = fd.pos])
             /\ fd' = [fd EXCEPT !.pos = @ + r.n, !.len = LengthAfterWrite(fd, r.n)]
    BY <1>8 DEF WriteDavix
  <2>3. CASE r.status = "ok"
    <3> DEFINE d == [call[t] EXCEPT !.n = r.n, !.at = fd.pos]
    <3>1. d.offset = call[t].offset /\ d.size = call[t].size /\ call[t].size \in Nat
      BY <1>1 DEF Calls
    <3>2. MoveTo(t, "write_load", d)
      BY <2>2, <2>3
    <3> HIDE DEF d
    <3>3. pc'[t] = "write_load" /\ call'[t] = d
      BY <1>1, <3>2, MoveToEffect
    <3>4. r.n = call[t].size
      BY <1>3, <2>3, <3>1, WholeWrite
    <3>5. fd'.len = next + call[t].size
      <4>1. LengthAfterWrite(fd, r.n) = next + call[t].size
        BY <1>1, <2>1, <3>1, <3>4 DEF LengthAfterWrite
      <4>2. fd' = [fd EXCEPT !.pos = @ + r.n, !.len = LengthAfterWrite(fd, r.n)]
        BY <2>2, <2>3
      <4>3. QED BY <1>1, <4>1, <4>2 DEF Handles
    <3>6. QED BY <1>1, <1>3, <1>5, <3>1, <3>3, <3>5 DEF Uploaded
  <2>4. QED BY <1>6, <2>1, <2>2, <2>3
<1>9. CASE WriteLoad(t)
  <2> DEFINE d == [call[t] EXCEPT !.sum = filesize]
  <2>1. d.offset = call[t].offset /\ d.size = call[t].size
    BY <1>1 DEF Calls
  <2>2. MoveTo(t, "write_store", d) /\ fd' = fd /\ pc[t] = "write_load"
    BY <1>9 DEF WriteLoad
  <2> HIDE DEF d
  <2>3. pc'[t] = "write_store" /\ call'[t] = d
    BY <1>1, <2>2, MoveToEffect
  <2>4. QED BY <1>1, <1>3, <1>5, <2>1, <2>2, <2>3 DEF Uploaded
<1>10. CASE WriteStore(t)
  <2> DEFINE d == [call[t] EXCEPT !.status = "ok", !.answers = @ + 1]
  <2>1. d.op = "Write" /\ d.status = "ok" /\ d.size = call[t].size
    BY <1>1, <1>3 DEF Calls
  <2>2. MoveTo(t, "returned", d) /\ fd' = fd /\ pc[t] = "write_store"
    BY <1>10 DEF WriteStore, Answer
  <2> HIDE DEF d
  <2>3. pc'[t] = "returned" /\ call'[t] = d
    BY <1>1, <2>2, MoveToEffect
  <2>4. QED BY <1>1, <1>3, <1>5, <2>1, <2>2, <2>3 DEF Uploaded, Reached, After, WriteSteps
<1>11. QED BY <1>7, <1>8, <1>9, <1>10

\* The start of a call and the taking of its answer.
LEMMA CallsUpload ==
  ASSUME Offsets = Nat, WritersTruncate, Known, UploadInv,
         \/ CopyOpen \/ CopyChunk \/ CopyReturn
         \/ (StatCall(Copier) \/ CloseCall(Copier)) /\ client' = client
  PROVE  UploadInv'
<1> DEFINE t == Copier
<1>1. /\ TypeOK /\ t \in Threads /\ next \in Nat /\ raced \in [Threads -> BOOLEAN]
  BY KnownTypes DEF Known, TypeOK
<1>2. CASE CopyReturn
  <2>1. /\ pc[t] = "returned" /\ pc'[t] = "idle" /\ ~raced'[t]
        /\ next' = Reached /\ UNCHANGED <<fd, is_open_>>
    BY <1>1, <1>2, MoveToEffect DEF CopyReturn, Return, Reached, object
  <2>2. Uploaded' = Uploaded
    BY <2>1 DEF Uploaded, Reached
  <2>3. QED BY <2>1, <2>2 DEF UploadInv, OpenSteps, WriteSteps, Writable
<1>3. ASSUME CallsBy(t), raced' = raced, next' = next,
             pc'[t] \in OpenSteps => Truncates(call'[t].flags),
             pc'[t] \in WriteSteps => call'[t].offset = next'
      PROVE  UploadInv'
  <2>1. Begins(t) /\ Starts(t)
    BY <1>1, <1>3, CallsByBegins, CallsStart
  <2>2. /\ pc[t] = "idle" /\ UNCHANGED <<fd, is_open_>>
        /\ pc'[t] \notin {"write_load", "write_store"}
    BY <2>1 DEF Begins, OpenSteps, TransferStep
  <2>3. is_open_ => Uploaded' = Uploaded
    <3>1. is_open_ /\ pc'[t] = "returned" => call'[t].status # "ok" \/ call'[t].op = "Sync"
      BY <2>1 DEF Starts, InCall
    <3>2. QED BY <1>1, <1>3, <2>2, <3>1 DEF Uploaded, Reached, After
  <2>4. QED BY <1>3, <2>2, <2>3 DEF UploadInv, Writable
<1>4. CASE CopyOpen
  <2>1. PICK u \in Urls, flags \in FlagSets : OpenCall(t, u, flags)
    BY <1>4 DEF CopyOpen
  <2> DEFINE c == [NoCall EXCEPT !.op = "Open", !.url = u, !.flags = flags]
  <2>2. c.flags = flags /\ Truncates(flags)
    BY DEF NoCall, WritersTruncate
  <2>3. \/ Fail(t, c, "errInvalidOp") \/ MoveTo(t, FirstOpenStep(flags), c)
    BY <2>1 DEF OpenCall
  <2>4. raced' = raced /\ next' = next
    BY <1>4, <2>1 DEF CopyOpen, OpenCall, history
  <2>5. FirstOpenStep(flags) \notin WriteSteps
    BY DEF FirstOpenStep, WriteSteps
  <2> DEFINE d == [c EXCEPT !.status = "errInvalidOp"]
  <2>6. MoveTo(t, "returned", d) \/ MoveTo(t, FirstOpenStep(flags), c)
    BY <2>3 DEF Fail
  <2> HIDE DEF c, d
  <2>7. pc'[t] = "returned" \/ (pc'[t] = FirstOpenStep(flags) /\ call'[t] = c)
    BY <1>1, <2>6, MoveToEffect
  <2>8. CallsBy(t)
    BY <2>1 DEF CallsBy
  <2>9. QED BY <1>3, <2>2, <2>4, <2>5, <2>7, <2>8 DEF OpenSteps, WriteSteps
<1>5. ASSUME NEW point, NEW c, StartOrRefuse(t, point, c), CallsBy(t), client' = client,
             point \notin OpenSteps, point \in WriteSteps => c.offset = next
      PROVE  UploadInv'
  <2>1. raced' = raced /\ next' = next
    BY <1>5 DEF StartOrRefuse, history, client
  <2>2. pc'[t] = "returned" \/ (pc'[t] = point /\ call'[t] = c)
    <3> DEFINE d == [c EXCEPT !.status = "errInvalidOp"]
    <3>1. MoveTo(t, point, c) \/ MoveTo(t, "returned", d)
      BY <1>5 DEF StartOrRefuse, Fail
    <3> HIDE DEF d
    <3>2. QED BY <1>1, <3>1, MoveToEffect
  <2>3. QED BY <1>3, <1>5, <2>1, <2>2 DEF OpenSteps, WriteSteps
<1>6. CASE CopyChunk
  <2>1. PICK size \in Sizes : ReadCall(t, next, size) \/ WriteCall(t, next, size)
    BY <1>6 DEF CopyChunk
  <2>2. CallsBy(t) /\ client' = client
    BY <1>1, <1>6, <2>1 DEF CallsBy, CopyChunk
  <2>3. CASE ReadCall(t, next, size)
    BY <1>5, <2>2, <2>3 DEF ReadCall, TransferStep, OpenSteps, WriteSteps
  <2>4. CASE WriteCall(t, next, size)
    <3> DEFINE c == [NoCall EXCEPT !.op = "Write", !.offset = next, !.size = size]
    <3>1. c.offset = next
      BY DEF NoCall
    <3>2. StartOrRefuse(t, "write_seek", c)
      BY <2>4 DEF WriteCall
    <3> HIDE DEF c
    <3>3. QED BY <1>5, <2>2, <3>1, <3>2 DEF OpenSteps
  <2>5. QED BY <2>1, <2>3, <2>4
<1>7. CASE (StatCall(Copier) \/ CloseCall(Copier)) /\ client' = client
  BY <1>5, <1>7 DEF CallsBy, StatCall, CloseCall, OpenSteps, WriteSteps
<1>8. QED BY <1>2, <1>4, <1>6, <1>7

\* Every step of the client and its calls keeps the upload.
LEMMA UploadStep ==
  ASSUME Offsets = Nat, ShortWrites = FALSE, WritersTruncate,
         Known, UploadInv, [CopyNext]_<<vars, client>>
  PROVE  UploadInv'
<1>1. Copier \in Threads
  BY KnownTypes
<1>2. CASE UNCHANGED <<vars, client>>
  <2>1. UNCHANGED <<object, fd, control, raced, client>>
    BY <1>2 DEF vars, history
  <2>2. Uploaded' = Uploaded /\ UNCHANGED <<next, pc, call, is_open_>>
    BY <2>1 DEF client, control, object, Uploaded, Reached, After
  <2>3. QED BY <2>1, <2>2 DEF UploadInv, Writable
<1>3. CASE CopyOther
  <2>1. client' = client
    BY <1>3 DEF CopyOther
  <2>2. CASE StatCall(Copier) \/ CloseCall(Copier)
    BY <2>1, <2>2, CallsUpload
  <2>3. CASE Steps(Copier)
    BY <1>1, <2>1, <2>3, OpenUploads, OthersUpload, WritesUpload DEF Steps
  <2>4. QED BY <1>3, <2>2, <2>3 DEF CopyOther
<1>4. CASE CopyOpen \/ CopyChunk \/ CopyReturn
  BY <1>4, CallsUpload
<1>5. QED BY <1>2, <1>3, <1>4 DEF CopyNext

\* A Close that returns OK has stored what the handle holds.
LEMMA CloseStores ==
  ASSUME Offsets = Nat, Known, UploadInv, [CopyNext]_<<vars, client>>,
         call[Copier].op = "Close", call'[Copier].status = "ok", Writable(fd),
         ~UNCHANGED <<vars, client>>
  PROVE  store'[fd.url] = next
<1> DEFINE t == Copier
<1>1. /\ TypeOK /\ t \in Threads /\ pc[t] \in ControlPoints /\ Lifecycle(t) /\ fd \in Handles
      /\ OpenStateMatchesHandle /\ store \in [Urls -> Lengths]
  BY KnownTypes DEF Known, IInv, TypeOK
<1>2. pc[t] # "idle" /\ (CallsBy(t) \/ Steps(t) \/ CopyReturn)
  <2>1. next \in Nat
    BY DEF Known
  <2>2. CopyOpen \/ CopyOther => CallsBy(t) \/ Steps(t)
    BY DEF CopyOpen, CopyOther, CallsBy
  <2>3. CopyChunk => \E size \in Sizes : ReadCall(t, next, size) \/ WriteCall(t, next, size)
    BY DEF CopyChunk
  <2>4. CopyChunk => CallsBy(t)
    BY <2>1, <2>3 DEF CallsBy
  <2>5. pc[t] # "idle"
    BY <1>1 DEF Known, AnswerInv, Idle, NoCall
  <2>6. QED BY <2>2, <2>4, <2>5 DEF CopyNext
<1>3. pc[t] # "returned"
  <2> SUFFICES ASSUME pc[t] = "returned" PROVE FALSE
    OBVIOUS
  <2>1. ~Steps(t) /\ ~CallsBy(t)
    BY StepsFollow, CallsByBegins, <1>1
       DEF Known, Follows, Begins, OpenSteps, DataSteps, ReadSteps, WriteSteps
  <2>2. CopyReturn
    BY <1>2, <2>1
  <2>3. call'[t] = NoCall
    BY <1>1, <2>2, MoveToEffect DEF CopyReturn, Return
  <2>4. QED BY <2>3 DEF NoCall
<1>4. pc[t] = "close_davix"
  BY <1>1, <1>2, <1>3 DEF ControlPoints, Lifecycle
<1>5. CloseDavix(t)
  <2>1. ~CallsBy(t) /\ ~CopyReturn
    BY <1>1, <1>4, CallsByBegins DEF Begins, CopyReturn, Return
  <2>2. Steps(t)
    BY <1>2, <2>1
  <2>3. QED BY <1>4, <2>2
    DEF Steps, OpenStatDelete, OpenUnlink, OpenStatRead, OpenDavix, StatDavix,
        StatFake, ReadClamp, ReadLock, ReadPositioned, ReadSequential, ReadDone,
        VectorReadDavix, WriteSeek, WriteDavix, WriteLoad, WriteStore
<1>6. is_open_ /\ fd.url \in Urls /\ fd.len = next
  BY <1>1, <1>4 DEF Lifecycle, OpenStateMatchesHandle, Handles, UploadInv, Uploaded, Reached
<1>7. store' = [store EXCEPT ![fd.url] = fd.len]
  <2>1. \A r : ~CloseFailed(t, r)
    BY <1>1, FailFails, KnownTypes DEF CloseFailed, Fails
  <2>2. QED BY <1>1, <1>5, <2>1 DEF CloseDavix, Stored
<1>8. QED BY <1>1, <1>6, <1>7

\* The Close that returns OK has left on the server as many bytes as the client's Writes
\* were acknowledged for, failed and repeated ones included, however often the object has
\* been opened before, as long as a file opened for writing starts empty and davix writes
\* all it is asked to (HttpFilePlugIn.cc:189-201, 350-376).
THEOREM UploadsComplete ==
  ASSUME Offsets = Nat, ShortWrites = FALSE, WritersTruncate
  PROVE  CopySpec => UploadComplete
<1> DEFINE Complete == call[Copier].op = "Close" /\ call'[Copier].status = "ok" /\ Writable(fd)
                       => store'[fd.url] = next
<1>1. CopyInit => Known /\ UploadInv
  BY CopyStart, CopierAssumption
  DEF CopyInit, Init, UploadInv, OpenSteps, WriteSteps
<1>2. Known /\ UploadInv /\ [CopyNext]_<<vars, client>> => (Known /\ UploadInv)'
  BY CopyStep, UploadStep
<1>3. Known /\ UploadInv /\ [CopyNext]_<<vars, client>> => [Complete]_<<vars, client>>
  BY CloseStores
<1>4. QED BY <1>1, <1>2, <1>3, PTL DEF CopySpec, UploadComplete

-----------------------------------------------------------------------------
(* Sizes *)

\* A file is opened to be written from nothing, or to be read as it is.
Writes(flags) == flags \cap {"Write", "Update"} # {}
OneWay(flags) ==
  IF Writes(flags) THEN flags \cap {"New", "Delete"} # {} /\ "Read" \notin flags
  ELSE flags \cap {"New", "Delete"} = {}

FlagsOneWay == \A flags \in FlagSets : OneWay(flags)

\* filesize counts what the client's Writes were acknowledged for, from nothing on.
CountInv ==
  /\ pc[Copier] \in OpenSteps => OneWay(call[Copier].flags)
  /\ is_open_ /\ Writable(fd) => filesize = Reached
  /\ pc[Copier] \in WriteSteps => filesize + call[Copier].size <= MaxFilesize
  /\ pc[Copier] \in {"write_load", "write_store"} => call[Copier].n = call[Copier].size
  /\ pc[Copier] = "write_store" => call[Copier].sum = filesize

\* A size is invented for a file that is being written, and is the one counted.
FakedInv ==
  /\ is_open_ /\ ~Writable(fd) => store[fd.url] # Absent
  /\ pc[Copier] = "stat_fake" => Writable(fd)
  /\ call[Copier].faked => pc[Copier] = "returned" /\ call[Copier].n = next

SizeInv == CountInv /\ FakedInv

\* A call that ends keeps its results.
LEMMA EndKeepsResult ==
  ASSUME TypeOK, NEW t \in Threads, NEW c \in Calls, NEW status,
         Fail(t, c, status) \/ Answer(t, c)
  PROVE  pc'[t] = "returned" /\ call'[t].faked = c.faked /\ call'[t].n = c.n
<1> DEFINE d == [c EXCEPT !.status = status]
           e == [c EXCEPT !.status = "ok", !.answers = @ + 1]
<1>1. d.faked = c.faked /\ d.n = c.n /\ e.faked = c.faked /\ e.n = c.n
  BY DEF Calls
<1>2. MoveTo(t, "returned", d) \/ MoveTo(t, "returned", e)
  BY DEF Fail, Answer
<1> HIDE DEF d, e
<1>3. QED BY <1>1, <1>2, MoveToEffect

\* What may be opened to be read is there.
LEMMA ReadersFind ==
  ASSUME NEW flags, OneWay(flags), ~Writes(flags), NEW len \in Lengths,
         NEW r \in Open(len, MakePosixOpenFlags(flags)), r.status = "ok"
  PROVE  len # Absent
<1> DEFINE posix == MakePosixOpenFlags(flags)
<1>1. "O_CREAT" \notin posix
  BY DEF MakePosixOpenFlags, OneWay
<1>2. PICK x \in DavixOpen(len, posix) : r = Converted(x)
  BY DEF Open
<1>3. x \notin Fault /\ x # Failed("FileNotFound")
  BY <1>2 DEF Converted, ErrCodeConvert, Fault, Failed
<1> HIDE DEF posix
<1>4. QED BY <1>1, <1>2, <1>3 DEF DavixOpen

\* What is there is found.
LEMMA StatFinds ==
  ASSUME NEW len \in Lengths, NEW r \in Stat(len), r.status = "NotFound"
  PROVE  len = Absent
<1>1. PICK x \in DavixStat(len) : r \in Filled(x)
  BY DEF Stat
<1>2. CASE x \in Fault
  <2>1. PICK code \in Faults : x = Failed(code)
    BY <1>2 DEF Fault
  <2>2. code # "FileNotFound"
    BY DavixAssumption
  <2>3. QED BY <1>1, <2>1, <2>2 DEF Filled, Converted, ErrCodeConvert, Failed
<1>3. CASE x = Returned(len) /\ len # Absent
  <2>1. ~(x.n < 0)
    BY <1>3 DEF Returned, Lengths
  <2>2. Converted(x).status = "ok"
    BY <2>1 DEF Converted
  <2>3. r = Converted(x) \/ r.status = "errDataError"
    BY <1>1 DEF Filled
  <2>4. QED BY <2>2, <2>3
<1>4. QED BY <1>1, <1>2, <1>3 DEF DavixStat

\* The steps of Open: nothing is counted before a Write.
LEMMA OpenCounts ==
  ASSUME Known, SizeInv, SizeFresh, client' = client, Copier \in Threads,
         \/ OpenStatDelete(Copier) \/ OpenUnlink(Copier)
         \/ OpenStatRead(Copier) \/ OpenDavix(Copier)
  PROVE  SizeInv'
<1> DEFINE t == Copier
           c == call[t]
<1>1. /\ TypeOK /\ t \in Threads /\ Lifecycle(t) /\ call[t] \in Calls /\ Follows(t)
      /\ CountInv /\ FakedInv
  BY KnownTypes, StepsFollow DEF Known, Steps, SizeInv
<1>2. pc[t] \in OpenSteps
  BY DEF OpenStatDelete, OpenUnlink, OpenStatRead, OpenDavix, OpenSteps
<1>3. pc'[t] \in OpenSteps \cup {"returned"}
  BY <1>1, <1>2 DEF Follows, OpenSteps, DataSteps, ReadSteps, WriteSteps
<1>4. ~is_open_ /\ OneWay(c.flags) /\ ~c.faked /\ (Writes(c.flags) => filesize = 0)
  BY <1>1, <1>2
  DEF Known, CopyInv, ChunkInv, CountInv, FakedInv, SizeFresh, Writes, OpenSteps
<1>5. \/ pc'[t] \in {"open_unlink", "open_davix"} /\ call'[t] = c
      \/ pc'[t] = "returned" /\ ~call'[t].faked
  <2>1. \A point : MoveTo(t, point, c) => pc'[t] = point /\ call'[t] = c
    BY <1>1, MoveToEffect
  <2>2. (\E status : Fail(t, c, status)) \/ Answer(t, c) => pc'[t] = "returned" /\ ~call'[t].faked
    BY <1>1, <1>4, EndKeepsResult
  <2>3. QED BY <2>1, <2>2 DEF OpenStatDelete, OpenUnlink, OpenStatRead, OpenDavix
<1>6. OpenDavix(t) => filesize' = filesize
  BY DEF OpenDavix
<1>7. CASE is_open_' = is_open_
  BY <1>4, <1>5, <1>7 DEF SizeInv, CountInv, FakedInv, OpenSteps, WriteSteps
<1>8. CASE OpenDavix(t) /\ is_open_' # is_open_
  <2>1. PICK r \in Open(store[c.url], MakePosixOpenFlags(c.flags)) :
          /\ r.status = "ok" /\ Answer(t, c)
          /\ fd' = NewHandle(c.url, MakePosixOpenFlags(c.flags), store[c.url])
    BY <1>8 DEF OpenDavix
  <2>2. store[c.url] \in Lengths /\ store' = store /\ fd'.url = c.url
    BY <1>1, <1>2, <1>8, <2>1, LengthsOfFiles DEF OpenDavix, Lifecycle, NewHandle
  <2>3. Writable(fd') <=> Writes(c.flags)
    BY <2>1 DEF Writable, Writes, NewHandle, MakePosixOpenFlags
  <2>4. ~Writes(c.flags) => store[c.url] # Absent
    BY <1>4, <2>1, <2>2, ReadersFind
  <2>5. pc'[t] = "returned"
    BY <1>1, <2>1, EndKeepsResult
  <2>6. Reached' = 0
    BY <1>8, OpenedAtStart
  <2>7. QED
    BY <1>4, <1>5, <1>6, <1>8, <2>2, <2>3, <2>4, <2>5, <2>6
    DEF SizeInv, CountInv, FakedInv, OpenSteps, WriteSteps, Writable
<1>9. QED BY <1>7, <1>8 DEF OpenStatDelete, OpenUnlink, OpenStatRead, object

\* The steps of Close, Stat and Read: the size Stat invents is the one counted.
LEMMA OthersCount ==
  ASSUME Known, SizeInv, client' = client, Copier \in Threads,
         \/ CloseDavix(Copier) \/ StatDavix(Copier) \/ StatFake(Copier)
         \/ VectorReadDavix(Copier) \/ ReadClamp(Copier) \/ ReadLock(Copier)
         \/ ReadPositioned(Copier) \/ ReadSequential(Copier) \/ ReadDone(Copier)
  PROVE  SizeInv'
<1> DEFINE t == Copier
           c == call[t]
<1>1. /\ TypeOK /\ fd \in Handles /\ Follows(t) /\ Lifecycle(t) /\ call[t] \in Calls
      /\ CountInv /\ FakedInv /\ OpenStateMatchesHandle /\ store \in [Urls -> Lengths]
  BY KnownTypes, StepsFollow DEF Known, Steps, TypeOK, IInv, SizeInv
<1>2. /\ pc[t] \notin OpenSteps \cup WriteSteps \cup {"returned"} /\ InCall(t)
      /\ next' = next
  BY DEF CloseDavix, StatDavix, StatFake, VectorReadDavix, ReadClamp, ReadLock,
         ReadPositioned, ReadSequential, ReadDone, OpenSteps, WriteSteps, InCall, client
<1>3. pc'[t] \notin OpenSteps \cup WriteSteps
  BY <1>1, <1>2 DEF Follows, OpenSteps, DataSteps, ReadSteps, WriteSteps
<1>4. filesize' = filesize
  BY DEF CloseDavix, StatDavix, StatFake, VectorReadDavix, ReadClamp, ReadLock,
         ReadPositioned, ReadSequential, ReadDone, object
<1>5. \/ is_open_' = FALSE
      \/ /\ is_open_' = is_open_ /\ fd'.flags = fd.flags /\ fd'.url = fd.url
         /\ ~Writable(fd) => store' = store
  <2>1. CASE CloseDavix(t)
    BY <2>1 DEF CloseDavix, CloseFailed, Stored
  <2>2. CASE ~CloseDavix(t)
    BY <1>1, <2>2 DEF StatDavix, StatFake, VectorReadDavix, ReadClamp, ReadLock,
                      ReadPositioned, ReadSequential, ReadDone, object, Handles
  <2>3. QED BY <2>1, <2>2
<1>6. is_open_' /\ Writable(fd') => filesize' = Reached'
  <2>1. CASE pc[t] \in ReadSteps
    BY <1>5, <2>1 DEF Known, CopyInv, ChunkInv, Writable
  <2>2. CASE pc[t] \notin ReadSteps
    <3>1. Steps(t) /\ ~OpenDavix(t) /\ ~ReadDone(t) /\ ~WriteStore(t)
      BY <2>2 DEF Steps, CloseDavix, StatDavix, StatFake, VectorReadDavix, OpenDavix, ReadDone,
                  WriteStore,
                  ReadClamp, ReadLock, ReadPositioned, ReadSequential, ReadSteps
    <3>2. QED BY <1>1, <1>4, <1>5, <3>1, ReachedStays DEF CountInv, Writable
  <2>3. QED BY <2>1, <2>2
<1>7. ASSUME call'[t].faked => pc'[t] = "returned" /\ call'[t].n = next,
             pc'[t] = "stat_fake" => Writable(fd')
      PROVE  SizeInv'
  BY <1>1, <1>2, <1>3, <1>4, <1>5, <1>6, <1>7
  DEF SizeInv, CountInv, FakedInv, Writable, WriteSteps
<1>8. ~c.faked
  BY <1>1, <1>2 DEF FakedInv
<1>9. ASSUME NEW status, NEW d \in Calls, d.faked = c.faked, Fail(t, d, status) \/ Answer(t, d)
      PROVE  SizeInv'
  BY <1>1, <1>7, <1>8, <1>9, EndKeepsResult
<1>10. ASSUME NEW point, NEW d, MoveTo(t, point, d), d.faked = c.faked, point # "stat_fake"
       PROVE  SizeInv'
  BY <1>1, <1>7, <1>8, <1>10, MoveToEffect
<1>11. CASE StatFake(t)
  <2> DEFINE d == [c EXCEPT !.n = filesize, !.faked = TRUE]
  <2>1. d.n = filesize /\ d \in Calls
    BY <1>1 DEF Calls, TypeOK
  <2>2. Answer(t, d)
    BY <1>11 DEF StatFake
  <2> HIDE DEF d
  <2>3. pc'[t] = "returned" /\ call'[t].n = filesize
    BY <1>1, <2>1, <2>2, EndKeepsResult
  <2>4. filesize = next
    BY <1>1, <1>2, <1>11 DEF StatFake, Lifecycle, DataSteps, CountInv, FakedInv, Reached
  <2>5. QED BY <1>7, <2>3, <2>4
<1>12. CASE StatDavix(t)
  <2>1. is_open_ /\ store[url_] \in Lengths /\ fd' = fd /\ url_ = fd.url
    BY <1>1, <1>12 DEF StatDavix, Lifecycle, DataSteps, OpenStateMatchesHandle, TypeOK
  <2>2. PICK r \in Stat(store[url_]) :
          \/ r.status = "ok" /\ Answer(t, [c EXCEPT !.n = r.n])
          \/ r.status = "NotFound" /\ MoveTo(t, "stat_fake", c)
          \/ Fail(t, c, r.status)
    BY <1>12 DEF StatDavix
  <2>3. CASE r.status = "ok" /\ Answer(t, [c EXCEPT !.n = r.n])
    <3>1. Sound(r)
      BY <2>1, NameCallsSound
    <3>2. [c EXCEPT !.n = r.n] \in Calls /\ [c EXCEPT !.n = r.n].faked = c.faked
      BY <1>1, <2>3, <3>1 DEF Calls, Sound
    <3>3. QED BY <1>9, <2>3, <3>2
  <2>4. CASE r.status = "NotFound" /\ MoveTo(t, "stat_fake", c)
    <3>1. store[fd.url] = Absent
      BY <2>1, <2>4, StatFinds
    <3>2. Writable(fd)
      BY <1>1, <2>1, <3>1 DEF FakedInv
    <3>3. QED BY <1>1, <1>7, <1>8, <2>1, <2>4, <3>2, MoveToEffect
  <2>5. CASE Fail(t, c, r.status)
    BY <1>1, <1>9, <2>5
  <2>6. QED BY <2>2, <2>3, <2>4, <2>5
<1>13. CASE CloseDavix(t)
  <2>1. (\E status : Fail(t, c, status)) \/ Answer(t, c)
    BY <1>13 DEF CloseDavix, CloseFailed
  <2>2. QED BY <1>1, <1>9, <2>1
<1>14. CASE VectorReadDavix(t)
  <2>1. PICK r \in PReadVec(fd, Remote, c.offset, c.size) :
          \/ Fail(t, c, r.status)
          \/ r.status = "ok" /\ Answer(t, [c EXCEPT !.n = r.n, !.at = c.offset])
    BY <1>14 DEF VectorReadDavix
  <2>2. CASE r.status = "ok" /\ Answer(t, [c EXCEPT !.n = r.n, !.at = c.offset])
    <3>1. Sound(r)
      BY <1>1, LengthsOfFiles, DataCallsSound DEF Calls
    <3>2. [c EXCEPT !.n = r.n, !.at = c.offset] \in Calls
          /\ [c EXCEPT !.n = r.n, !.at = c.offset].faked = c.faked
      BY <1>1, <2>2, <3>1 DEF Calls, Sound
    <3>3. QED BY <1>9, <2>2, <3>2
  <2>3. QED BY <1>1, <1>9, <2>1, <2>2
<1>15. CASE ReadClamp(t) \/ ReadLock(t)
  <2>1. [c EXCEPT !.asked = Remaining(c.offset)].faked = c.faked
    BY <1>1 DEF Calls
  <2>2. QED BY <1>10, <1>15, <2>1 DEF ReadClamp, ReadLock, TransferStep
<1>16. ASSUME NEW n, NEW at, ReadMoved(t, n, at) PROVE SizeInv'
  <2>1. [c EXCEPT !.n = n, !.at = at].faked = c.faked
    BY <1>1 DEF Calls
  <2>2. QED BY <1>10, <1>16, <2>1 DEF ReadMoved
<1>17. CASE ReadPositioned(t) \/ ReadSequential(t) \/ ReadDone(t)
  <2>1. \/ Fail(t, c, "errInternal") \/ Answer(t, c)
        \/ \E n, at : ReadMoved(t, n, at)
    BY <1>17 DEF ReadPositioned, ReadSequential, ReadDone, ReadFailed
  <2>2. QED BY <1>1, <1>9, <1>16, <2>1
<1>18. QED BY <1>11, <1>12, <1>13, <1>14, <1>15, <1>17

\* The steps of a Write: what it has written is counted.
LEMMA WritesCount ==
  ASSUME ShortWrites = FALSE, MaxFilesize < W64, Known, SizeInv, client' = client,
         Copier \in Threads,
         WriteSeek(Copier) \/ WriteDavix(Copier) \/ WriteLoad(Copier) \/ WriteStore(Copier)
  PROVE  SizeInv'
<1> DEFINE t == Copier
           c == call[t]
<1>1. /\ TypeOK /\ fd \in Handles /\ call[t] \in Calls /\ Follows(t) /\ Lifecycle(t)
      /\ WriteInv(t) /\ next \in Nat /\ filesize \in Nat /\ CountInv /\ FakedInv
  BY KnownTypes, StepsFollow DEF Known, Steps, TypeOK, WInv, SizeInv
<1>2. /\ pc[t] \in WriteSteps /\ next' = next
      /\ UNCHANGED <<is_open_, store>> /\ fd'.flags = fd.flags
  BY <1>1 DEF WriteSeek, WriteDavix, WriteLoad, WriteStore, WriteSteps, client, object,
              SeekTo, Handles
<1>3. /\ is_open_ /\ Writable(fd) /\ c.op = "Write" /\ filesize = next /\ ~c.faked
      /\ filesize + c.size <= MaxFilesize /\ c.size \in Nat
  BY <1>1, <1>2 DEF Known, CopyInv, ChunkInv, CountInv, FakedInv, Lifecycle, DataSteps,
                    WriteInv, InCall, WriteSteps, Reached, Calls
<1>4. ASSUME ~call'[t].faked, pc'[t] \in WriteSteps \cup {"returned"}, filesize' = Reached',
             pc'[t] \in WriteSteps => filesize' + call'[t].size <= MaxFilesize,
             pc'[t] \in {"write_load", "write_store"} => call'[t].n = call'[t].size,
             pc'[t] = "write_store" => call'[t].sum = filesize'
      PROVE  SizeInv'
  BY <1>2, <1>3, <1>4 DEF SizeInv, CountInv, FakedInv, Writable, OpenSteps, WriteSteps
<1>5. ASSUME NEW status, Fail(t, c, status), status # "ok", filesize' = filesize
      PROVE  SizeInv'
  <2>1. pc'[t] = "returned" /\ call'[t].status # "ok" /\ ~call'[t].faked
    BY <1>1, <1>3, <1>5, FailFails, EndKeepsResult DEF Fails
  <2>2. Reached' = next
    BY <1>1, <1>2, <2>1 DEF Reached, After
  <2>3. QED BY <1>3, <1>4, <1>5, <2>1, <2>2 DEF WriteSteps
<1>6. ASSUME NEW point \in WriteSteps, NEW d, MoveTo(t, point, d), filesize' = filesize,
             ~d.faked, d.size = c.size,
             point \in {"write_load", "write_store"} => d.n = d.size,
             point = "write_store" => d.sum = filesize
      PROVE  SizeInv'
  <2>1. pc'[t] = point /\ call'[t] = d
    BY <1>1, <1>6, MoveToEffect
  <2>2. Reached' = next
    BY <1>2, <1>6, <2>1 DEF Reached, WriteSteps
  <2>3. QED BY <1>3, <1>4, <1>6, <2>1, <2>2
<1>7. CASE WriteSeek(t)
  <2>1. /\ filesize' = filesize
        /\ \/ \E status : Fail(t, c, status) /\ status # "ok"
           \/ MoveTo(t, "write_davix", c)
    BY <1>7 DEF WriteSeek, object
  <2>2. QED BY <1>3, <1>5, <1>6, <2>1 DEF WriteSteps
<1>8. CASE WriteDavix(t)
  <2>1. filesize' = filesize
    BY <1>8 DEF WriteDavix, object
  <2>2. PICK r \in PWriteWrite(fd, c.size) :
          \/ r.status # "ok" /\ Fail(t, c, r.status)
          \/ /\ r.status = "ok"
             /\ MoveTo(t, "write_load", [c EXCEPT !.n = r.n, !.at = fd.pos])
    BY <1>8 DEF WriteDavix
  <2>3. CASE r.status = "ok"
    <3> DEFINE d == [c EXCEPT !.n = r.n, !.at = fd.pos]
    <3>1. d.size = c.size /\ d.n = r.n /\ d.faked = c.faked
      BY <1>1 DEF Calls
    <3>2. r.n = c.size
      BY <1>3, <2>3, WholeWrite
    <3>3. MoveTo(t, "write_load", d)
      BY <2>2, <2>3
    <3> HIDE DEF d
    <3>4. QED BY <1>3, <1>6, <2>1, <3>1, <3>2, <3>3 DEF WriteSteps
  <2>4. QED BY <1>5, <2>1, <2>2, <2>3
<1>9. CASE WriteLoad(t)
  <2> DEFINE d == [c EXCEPT !.sum = filesize]
  <2>1. d.size = c.size /\ d.n = c.n /\ d.sum = filesize /\ d.faked = c.faked
    BY <1>1 DEF Calls
  <2>2. MoveTo(t, "write_store", d) /\ filesize' = filesize /\ c.n = c.size
    BY <1>1, <1>9 DEF WriteLoad, object, CountInv
  <2> HIDE DEF d
  <2>3. QED BY <1>3, <1>6, <2>1, <2>2 DEF WriteSteps
<1>10. CASE WriteStore(t)
  <2> DEFINE d == [c EXCEPT !.status = "ok", !.answers = @ + 1]
  <2>1. d.op = "Write" /\ d.status = "ok" /\ d.size = c.size /\ d.faked = c.faked
    BY <1>1, <1>3 DEF Calls
  <2>2. MoveTo(t, "returned", d) /\ filesize' = Counted(c) /\ c.n = c.size /\ c.sum = filesize
    BY <1>1, <1>10 DEF WriteStore, Answer, CountInv
  <2> HIDE DEF d
  <2>3. pc'[t] = "returned" /\ call'[t] = d
    BY <1>1, <2>2, MoveToEffect
  <2>4. Reached' = next + c.size
    BY <1>2, <2>1, <2>3 DEF Reached, After
  <2>5. (filesize + c.size) % W64 = filesize + c.size
    BY <1>1, <1>3, WordsAssumption, BoundsAssumption
  <2>6. QED BY <1>3, <1>4, <2>1, <2>2, <2>3, <2>4, <2>5 DEF Counted, WriteSteps
<1>11. QED BY <1>7, <1>8, <1>9, <1>10

\* The start of a call and the taking of its answer.
LEMMA CallsCount ==
  ASSUME Offsets = Nat, FlagsOneWay, Known, SizeInv,
         \/ CopyOpen \/ CopyChunk \/ CopyReturn
         \/ (StatCall(Copier) \/ CloseCall(Copier)) /\ client' = client
  PROVE  SizeInv'
<1> DEFINE t == Copier
<1>1. /\ TypeOK /\ t \in Threads /\ next \in Nat /\ CountInv /\ FakedInv
      /\ filesize \in Nat
  BY KnownTypes DEF Known, TypeOK, SizeInv
<1>2. CASE CopyReturn
  <2>1. /\ pc[t] = "returned" /\ pc'[t] = "idle" /\ call'[t] = NoCall
        /\ next' = Reached
        /\ UNCHANGED <<fd, is_open_, filesize, store>>
    BY <1>1, <1>2, MoveToEffect DEF CopyReturn, Return, Reached, object
  <2>2. Reached' = Reached /\ ~call'[t].faked
    BY <2>1 DEF Reached, NoCall
  <2>3. QED
    BY <1>1, <2>1, <2>2 DEF SizeInv, CountInv, FakedInv, OpenSteps, WriteSteps, Writable
<1>3. CASE CopyOpen
  <2>1. PICK u \in Urls, flags \in FlagSets : OpenCall(t, u, flags)
    BY <1>3 DEF CopyOpen
  <2> DEFINE c == [NoCall EXCEPT !.op = "Open", !.url = u, !.flags = flags]
  <2>2. c \in Calls /\ c.flags = flags /\ OneWay(flags) /\ ~c.faked
    BY ArgumentsAssumption, NoCallType DEF Calls, Ops, NoCall, FlagsOneWay
  <2>3. /\ UNCHANGED <<is_open_, filesize, fd, store>> /\ next' = next /\ pc[t] = "idle"
        /\ \/ is_open_ /\ Fail(t, c, "errInvalidOp")
           \/ ~is_open_ /\ MoveTo(t, FirstOpenStep(flags), c)
    BY <1>3, <2>1 DEF CopyOpen, OpenCall, MayStart
  <2>4. FirstOpenStep(flags) \in OpenSteps
    BY DEF FirstOpenStep, OpenSteps
  <2> HIDE DEF c
  <2>5. \/ is_open_ /\ pc'[t] = "returned" /\ call'[t].status # "ok" /\ ~call'[t].faked
        \/ /\ ~is_open_ /\ pc'[t] = FirstOpenStep(flags) /\ call'[t] = c
    BY <1>1, <2>2, <2>3, MoveToEffect, FailFails, EndKeepsResult DEF Fails
  <2>6. Reached' = Reached
    BY <1>1, <2>3, <2>4, <2>5, NothingReached DEF OpenSteps
  <2>7. QED
    BY <1>1, <2>2, <2>3, <2>4, <2>5, <2>6
    DEF SizeInv, CountInv, FakedInv, OpenSteps, WriteSteps, Writable
<1>4. ASSUME NEW point, NEW c, StartOrRefuse(t, point, c), client' = client, ~c.faked,
             point \notin OpenSteps \cup {"write_davix", "write_load", "write_store",
                                            "stat_fake", "returned"},
             point = "write_seek" => filesize + c.size <= MaxFilesize,
             c \in Calls
      PROVE  SizeInv'
  <2>1. /\ next' = next /\ pc[t] = "idle"
        /\ UNCHANGED <<fd, is_open_, filesize, store>>
    BY <1>4 DEF StartOrRefuse, MayStart, object, client
  <2>2. \/ is_open_ /\ pc'[t] = point /\ call'[t] = c
        \/ pc'[t] = "returned" /\ call'[t].status # "ok" /\ ~call'[t].faked
    BY <1>1, <1>4, MoveToEffect, FailFails, EndKeepsResult DEF StartOrRefuse, Fails
  <2>3. Reached' = Reached
    BY <1>1, <1>4, <2>1, <2>2, NothingReached
  <2>4. QED
    BY <1>1, <1>4, <2>1, <2>2, <2>3
    DEF SizeInv, CountInv, FakedInv, OpenSteps, WriteSteps, Writable
<1>5. CASE CopyChunk
  <2>1. client' = client /\ {"Read", "Write"} \subseteq Ops /\ next \in Offsets
    BY <1>1, <1>5 DEF CopyChunk, Ops
  <2>2. PICK size \in Sizes : ReadCall(t, next, size) \/ WriteCall(t, next, size)
    BY <1>5 DEF CopyChunk
  <2>3. CASE ReadCall(t, next, size)
    <3> DEFINE point == IF ReachesPast(next, size) THEN "read_clamp" ELSE TransferStep
               c == [NoCall EXCEPT !.op = "Read", !.offset = next, !.size = size,
                                   !.asked = size]
    <3>1. c \in Calls /\ ~c.faked
      BY <2>1, DataCallType DEF NoCall
    <3>2. point \in {"read_clamp", "read_lock", "read_range"}
      BY DEF TransferStep
    <3>3. StartOrRefuse(t, point, c)
      BY <2>3 DEF ReadCall
    <3> HIDE DEF point, c
    <3>4. QED BY <1>4, <2>1, <3>1, <3>2, <3>3 DEF OpenSteps
  <2>4. CASE WriteCall(t, next, size)
    <3> DEFINE c == [NoCall EXCEPT !.op = "Write", !.offset = next, !.size = size]
    <3>1. c \in Calls /\ ~c.faked /\ c.size = size
      BY <2>1, DataCallType DEF NoCall
    <3>2. StartOrRefuse(t, "write_seek", c) /\ filesize + size <= MaxFilesize
      BY <2>4 DEF WriteCall
    <3> HIDE DEF c
    <3>3. QED BY <1>4, <2>1, <3>1, <3>2 DEF OpenSteps
  <2>5. QED BY <2>2, <2>3, <2>4
<1>6. CASE (StatCall(t) \/ CloseCall(t)) /\ client' = client
  <2>1. {"Stat", "Close"} \subseteq Ops
    BY DEF Ops
  <2>2. \A op \in Ops : ~[NoCall EXCEPT !.op = op].faked
    BY DEF NoCall
  <2>3. QED BY <1>4, <1>6, <2>1, <2>2, NewType DEF StatCall, CloseCall, OpenSteps
<1>7. QED BY <1>2, <1>3, <1>5, <1>6

\* Every step of the client and its calls keeps the count.
LEMMA CountStep ==
  ASSUME Offsets = Nat, ShortWrites = FALSE, MaxFilesize < W64, FlagsOneWay,
         Known, SizeInv, SizeFresh, [CopyNext]_<<vars, client>>
  PROVE  SizeInv'
<1>1. Copier \in Threads
  BY KnownTypes
<1>2. CASE UNCHANGED <<vars, client>>
  <2>1. UNCHANGED <<object, fd, store, control, client>>
    BY <1>2 DEF vars
  <2>2. Reached' = Reached /\ UNCHANGED <<next, pc, call, is_open_, filesize>>
    BY <2>1 DEF client, control, object, Reached, After
  <2>3. QED BY <2>1, <2>2 DEF SizeInv, CountInv, FakedInv, Writable
<1>3. CASE CopyOther
  <2>1. client' = client
    BY <1>3 DEF CopyOther
  <2>2. CASE StatCall(Copier) \/ CloseCall(Copier)
    BY <2>1, <2>2, CallsCount
  <2>3. CASE Steps(Copier)
    BY <1>1, <2>1, <2>3, OpenCounts, OthersCount, WritesCount DEF Steps
  <2>4. QED BY <1>3, <2>2, <2>3 DEF CopyOther
<1>4. CASE CopyOpen \/ CopyChunk \/ CopyReturn
  BY <1>4, CallsCount
<1>5. QED BY <1>2, <1>3, <1>4 DEF CopyNext

\* While every Open for writing finds the object as it was constructed, the size Stat
\* invents for a file not yet on the server is what has been written to it: for any number
\* of transfers of files that are read as they are or written from nothing, as long as
\* nobody else works on them, davix writes all it is asked to and filesize does not wrap
\* (HttpFilePlugIn.cc:217-221, 368).
THEOREM FreshFakedSizes ==
  ASSUME Offsets = Nat, ShortWrites = FALSE, MaxFilesize < W64, FlagsOneWay
  PROVE  CopySpec /\ []SizeFresh => []FakedSizeIsWritten
<1>1. CopyInit => Known /\ SizeInv
  BY CopyStart, CopierAssumption
  DEF CopyInit, Init, SizeInv, CountInv, FakedInv, NoCall, OpenSteps, WriteSteps
<1>2. Known /\ SizeInv /\ SizeFresh /\ [CopyNext]_<<vars, client>> => (Known /\ SizeInv)'
  BY CopyStep, CountStep
<1>3. Known /\ SizeInv => FakedSizeIsWritten
  BY DEF SizeInv, FakedInv, FakedSizeIsWritten
<1>4. QED BY <1>1, <1>2, <1>3, PTL DEF CopySpec

-----------------------------------------------------------------------------
(* The end of a download *)

\* A file opened for reading: filesize is nothing or what the server has, the client is
\* inside it, and past the clamp a Read asks for no more than is left of it, and for less
\* than it was asked to only to read all that is left.
MeasuredInv ==
  LET c == call[Copier] IN
  /\ is_open_ /\ ~Writable(fd) => filesize \in {0, Remote} /\ Reached <= filesize
  /\ pc[Copier] \in ReadSteps => c.size \in Sizes
  /\ pc[Copier] = "read_clamp" => c.offset + c.size > filesize
  /\ pc[Copier] \in Transferring =>
       /\ c.offset + c.asked <= filesize
       /\ c.asked = c.size \/ c.offset + c.asked = filesize
  /\ pc[Copier] = "read_done" => c.offset + c.n <= filesize

\* A Read that has got nothing was at the end.
EmptyInv ==
  pc[Copier] = "read_done" \/ GotChunk =>
    (/\ call[Copier].size > 0 /\ call[Copier].n = 0
     /\ filesize = Remote
     => call[Copier].offset >= Remote)

\* As long as nothing leaves 64 bits, the test of Read is the one it is written as, and
\* so is the subtraction.
LEMMA NothingWraps ==
  ASSUME ChunksFit, filesize \in Nat, NEW offset \in Nat, offset <= filesize,
         NEW size \in Sizes
  PROVE  /\ ReachesPast(offset, size) <=> offset + size > filesize
         /\ offset + size > filesize => Remaining(offset) = filesize - offset
<1>1. size \in Nat /\ filesize + size < W64 /\ W64 \in Nat \ {0} /\ W32 \in Nat \ {0}
      /\ 2 * size < W32
  BY ArgumentsAssumption, WordsAssumption DEF ChunksFit
<1>2. (offset + size) % W64 = offset + size
  BY <1>1
<1>3. ASSUME offset + size > filesize PROVE Remaining(offset) = filesize - offset
  <2> DEFINE left == filesize - offset
  <2>1. left \in Nat /\ left < W64 /\ left < W32
    BY <1>1, <1>3
  <2>2. left % W64 = left /\ left % W32 = left
    <3> HIDE DEF left
    <3>1. QED BY <1>1, <2>1
  <2>3. QED BY <2>2 DEF Remaining, left
<1>4. QED BY <1>2, <1>3 DEF ReachesPast

\* A transfer moves no more than it is asked to, and nothing only if nothing is asked for
\* or, with read, nothing is left.
LEMMA TransfersCount ==
  ASSUME NEW h \in Handles, ~Writable(h), NEW len \in Lengths, NEW offset \in Nat,
         NEW size \in Nat
  PROVE  /\ \A r \in PRead(h, len, offset, size) :
              r.status = "ok" => r.n \in Nat /\ r.n <= size /\ (r.n = 0 => size = 0)
         /\ \A r \in Read(h, len, size) :
              r.status = "ok" => /\ r.n \in Nat /\ r.n <= size /\ len \in Nat
                                 /\ r.n = 0 => size = 0 \/ len <= h.pos
<1>1. ASSUME NEW k \in Nat, NEW short, NEW m \in Counts(k, short)
      PROVE  m \in Nat /\ m <= k /\ (m = 0 => k = 0)
  BY <1>1 DEF Counts
<1>2. VisibleLength(h, len) = len
  BY DEF VisibleLength
<1>3. ASSUME NEW x, x \in Fault PROVE Internal(x).status # "ok"
  BY <1>3 DEF Internal, Fault, Failed
<1>4. ASSUME NEW r \in PRead(h, len, offset, size), r.status = "ok"
      PROVE  r.n \in Nat /\ r.n <= size /\ (r.n = 0 => size = 0)
  <2>1. PICK x \in DavixPread(h, len, offset, size) : r = Internal(x)
    BY <1>4 DEF PRead
  <2>2. x \notin Fault /\ x # Failed("Other")
    BY <1>3, <1>4, <2>1 DEF Internal, Failed
  <2>3. PICK k \in Counts(size, ShortReads) : x = Returned(k)
    BY <2>2 DEF DavixPread
  <2>4. r.n = k
    BY <2>1, <2>3 DEF Internal, Returned
  <2>5. QED BY <1>1, <2>4
<1>5. ASSUME NEW r \in Read(h, len, size), r.status = "ok"
      PROVE  /\ r.n \in Nat /\ r.n <= size /\ len \in Nat
             /\ r.n = 0 => size = 0 \/ len <= h.pos
  <2> DEFINE left == len - h.pos
             most == IF left < 0 THEN 0 ELSE IF left < size THEN left ELSE size
  <2>1. PICK x \in DavixRead(h, len, size) : r = Internal(x)
    BY <1>5 DEF Read
  <2>2. x \notin Fault /\ x # Failed("Other")
    BY <1>3, <1>5, <2>1 DEF Internal, Failed
  <2>3. len # Absent /\ \E k \in Counts(most, ShortReads) : x = Returned(k)
    BY <1>2, <2>2 DEF DavixRead
  <2>4. PICK k \in Counts(most, ShortReads) : x = Returned(k)
    BY <2>3
  <2>5. len \in Nat /\ h.pos \in Nat
    BY <2>3 DEF Lengths, Handles
  <2>6. most \in Nat /\ most <= size /\ (most = 0 => size = 0 \/ len <= h.pos)
    BY <2>5
  <2> HIDE DEF most
  <2>7. r.n = k
    BY <2>1, <2>4 DEF Internal, Returned
  <2>8. k \in Nat /\ k <= most /\ (k = 0 => most = 0)
    BY <1>1, <2>6
  <2>9. QED BY <2>5, <2>6, <2>7, <2>8
<1>6. QED BY <1>4, <1>5

\* A file is opened for reading with the size it has, or with none.
LEMMA OpenMeasures ==
  ASSUME Known, MeasuredInv, SizeMeasured, client' = client,
         \/ OpenStatDelete(Copier) \/ OpenUnlink(Copier)
         \/ OpenStatRead(Copier) \/ OpenDavix(Copier)
  PROVE  MeasuredInv'
<1> DEFINE t == Copier
           c == call[t]
<1>1. TypeOK /\ t \in Threads /\ Lifecycle(t) /\ Follows(t) /\ filesize \in Nat
  BY KnownTypes, StepsFollow DEF Known, Steps, TypeOK
<1>2. pc[t] \in OpenSteps /\ ~is_open_
  BY DEF OpenStatDelete, OpenUnlink, OpenStatRead, OpenDavix, OpenSteps, Known, CopyInv,
         ChunkInv
<1>3. pc'[t] \notin ReadSteps \cup Transferring \cup {"read_clamp", "read_done"}
  BY <1>1, <1>2 DEF Follows, OpenSteps, DataSteps, ReadSteps, WriteSteps, Transferring
<1>4. is_open_' /\ ~Writable(fd') => filesize' \in {0, Remote'} /\ Reached' <= filesize'
  <2>1. CASE OpenDavix(t) /\ ~UNCHANGED <<is_open_, fd>>
    <3>1. /\ Reached' = 0 /\ UNCHANGED <<filesize, store>>
          /\ fd' = NewHandle(c.url, MakePosixOpenFlags(c.flags), store[c.url])
      BY <2>1, OpenedAtStart DEF OpenDavix
    <3>2. Remote' = store[c.url]
      BY <1>1, <1>2, <3>1, UrlsAssumption DEF Remote, NewHandle, Lifecycle
    <3>3. ~Writable(fd') => c.flags \cap {"Write", "Update"} = {}
      BY <3>1 DEF Writable, NewHandle, MakePosixOpenFlags
    <3>4. QED BY <1>1, <2>1, <3>1, <3>2, <3>3 DEF SizeMeasured, OpenDavix
  <2>2. CASE ~(OpenDavix(t) /\ ~UNCHANGED <<is_open_, fd>>)
    BY <1>2, <2>2 DEF OpenStatDelete, OpenUnlink, OpenStatRead, object
  <2>3. QED BY <2>1, <2>2
<1>5. QED BY <1>3, <1>4 DEF MeasuredInv, Writable

\* Steps that leave the file that is read, and the client's place in it, alone.
LEMMA PlaceStays ==
  ASSUME Known, MeasuredInv, Reached' = Reached,
         UNCHANGED <<filesize, store, is_open_>>, fd'.flags = fd.flags, fd'.url = fd.url
  PROVE  is_open_' /\ ~Writable(fd') => filesize' \in {0, Remote'} /\ Reached' <= filesize'
BY DEF MeasuredInv, Writable, Remote

\* The steps of Close, Stat and Write: there is no Read on the way.
LEMMA OthersMeasure ==
  ASSUME Known, MeasuredInv, client' = client,
         \/ CloseDavix(Copier) \/ StatDavix(Copier) \/ StatFake(Copier)
         \/ VectorReadDavix(Copier) \/ WriteSeek(Copier) \/ WriteDavix(Copier)
         \/ WriteLoad(Copier) \/ WriteStore(Copier)
  PROVE  MeasuredInv'
<1> DEFINE t == Copier
<1>1. TypeOK /\ t \in Threads /\ Follows(t) /\ fd \in Handles /\ Steps(t)
  BY KnownTypes, StepsFollow DEF Known, Steps
<1>2. pc[t] \notin ReadSteps \cup OpenSteps
  BY DEF CloseDavix, StatDavix, StatFake, VectorReadDavix, WriteSeek, WriteDavix, WriteLoad,
         WriteStore, ReadSteps, OpenSteps
<1>3. pc'[t] \notin ReadSteps \cup Transferring \cup {"read_clamp", "read_done"}
  BY <1>1, <1>2 DEF Follows, ReadSteps, Transferring
<1>4. is_open_' /\ ~Writable(fd') => filesize' \in {0, Remote'} /\ Reached' <= filesize'
  <2>1. CASE CloseDavix(t) /\ is_open_' /\ ~Writable(fd')
    <3>1. UNCHANGED <<is_open_, fd, store, filesize>>
      BY <2>1 DEF CloseDavix, CloseFailed, Stored, Writable
    <3>2. Reached' = Reached
      BY <1>1, <2>1, ReachedStays DEF CloseDavix, OpenDavix, ReadDone, WriteStore
    <3>3. QED BY <3>1, <3>2, PlaceStays
  <2>2. CASE StatDavix(t) \/ StatFake(t) \/ VectorReadDavix(t)
    <3>1. UNCHANGED <<object, fd, store>>
      BY <2>2 DEF StatDavix, StatFake, VectorReadDavix
    <3>2. Reached' = Reached
      BY <1>1, <2>2, ReachedStays
      DEF StatDavix, StatFake, VectorReadDavix, OpenDavix, ReadDone, WriteStore
    <3>3. QED BY <3>1, <3>2, PlaceStays DEF object
  <2>3. CASE WriteSeek(t) \/ WriteDavix(t) \/ WriteLoad(t) \/ WriteStore(t)
    <3>1. pc[t] \in WriteSteps
      BY <2>3 DEF WriteSeek, WriteDavix, WriteLoad, WriteStore, WriteSteps
    <3>2. Writable(fd) /\ fd'.flags = fd.flags
      BY <1>1, <2>3, <3>1
      DEF Known, CopyInv, ChunkInv, WriteSeek, WriteDavix, WriteLoad, WriteStore, SeekTo, Handles
    <3>3. QED BY <3>2 DEF Writable
  <2>4. QED BY <2>1, <2>2, <2>3
<1>5. QED BY <1>3, <1>4 DEF MeasuredInv, Writable

\* The steps of a Read: it is cut to what is left, and moves no more than that.
LEMMA ReadsMeasure ==
  ASSUME Known, MeasuredInv, ChunksFit, client' = client,
         \/ ReadClamp(Copier) \/ ReadLock(Copier) \/ ReadPositioned(Copier)
         \/ ReadSequential(Copier) \/ ReadDone(Copier)
  PROVE  MeasuredInv'
<1> DEFINE t == Copier
           c == call[t]
<1>1. /\ TypeOK /\ t \in Threads /\ Lifecycle(t) /\ Follows(t) /\ fd \in Handles
      /\ c \in Calls /\ filesize \in Nat /\ Remote \in Lengths /\ Steps(t)
  BY KnownTypes, StepsFollow, LengthsOfFiles DEF Known, Steps, TypeOK
<1>2. pc[t] \in ReadSteps /\ is_open_ /\ InCall(t)
  BY <1>1 DEF ReadClamp, ReadLock, ReadPositioned, ReadSequential, ReadDone, ReadSteps,
              Lifecycle, DataSteps, InCall
<1>3. /\ ~Writable(fd) /\ c.offset = next /\ Reached = next /\ next <= filesize /\ c.op = "Read"
      /\ c.size \in Sizes /\ c.offset \in Nat /\ c.asked \in Nat /\ c.size \in Nat /\ c.n \in Nat
  BY <1>1, <1>2, ArgumentsAssumption
  DEF Known, CopyInv, ChunkInv, Reached, ReadSteps, MeasuredInv, InCall, Calls
<1>4. UNCHANGED <<filesize, store, is_open_>> /\ fd'.flags = fd.flags /\ fd'.url = fd.url
  BY <1>1 DEF ReadClamp, ReadLock, ReadPositioned, ReadSequential, ReadDone, object, Handles
<1>5. ASSUME NEW point \in ReadSteps \ {"read_clamp"}, NEW d, MoveTo(t, point, d),
             d.size = c.size, d.offset = c.offset,
             point \in Transferring =>
               /\ d.offset + d.asked <= filesize
               /\ d.asked = d.size \/ d.offset + d.asked = filesize,
             point = "read_done" => d.offset + d.n <= filesize
      PROVE  MeasuredInv'
  <2>1. pc'[t] = point /\ call'[t] = d
    BY <1>1, <1>5, MoveToEffect
  <2>2. Reached' = Reached
    BY <1>2, <1>5, <2>1, NothingReached DEF Known, client, ReadSteps
  <2>3. QED BY <1>3, <1>4, <1>5, <2>1, <2>2, PlaceStays DEF MeasuredInv, Writable
<1>6. CASE Fail(t, c, "errInternal")
  <2>1. pc'[t] = "returned" /\ call'[t].status # "ok"
    BY <1>1, <1>6, FailFails DEF Fails
  <2>2. Reached' = Reached
    BY <1>2, <2>1, NothingReached DEF Known, client, ReadSteps
  <2>3. QED BY <1>4, <2>1, <2>2, PlaceStays DEF MeasuredInv, Writable, ReadSteps, Transferring
<1>7. CASE ReadClamp(t)
  <2> DEFINE d == [c EXCEPT !.asked = Remaining(c.offset)]
  <2>1. d.size = c.size /\ d.offset = c.offset /\ d.asked = Remaining(c.offset)
    BY <1>1 DEF Calls
  <2>2. Remaining(c.offset) = filesize - c.offset
    BY <1>1, <1>3, <1>7, NothingWraps DEF MeasuredInv, ReadClamp
  <2>3. MoveTo(t, TransferStep, d)
    BY <1>7 DEF ReadClamp
  <2>4. TransferStep \in ReadSteps \ {"read_clamp", "read_done"}
    BY DEF TransferStep, ReadSteps
  <2> HIDE DEF d
  <2>5. QED BY <1>1, <1>3, <1>5, <2>1, <2>2, <2>3, <2>4
<1>8. CASE ReadLock(t)
  <2> DEFINE point == IF c.offset = curr_offset THEN "read_seq" ELSE "read_jump"
  <2>1. MoveTo(t, point, c) /\ pc[t] \in Transferring
    BY <1>8 DEF ReadLock, Transferring
  <2>2. point \in ReadSteps \ {"read_clamp", "read_done"}
    BY DEF ReadSteps
  <2> HIDE DEF point
  <2>3. QED BY <1>5, <2>1, <2>2 DEF MeasuredInv
<1>9. ASSUME NEW n \in Nat, NEW at, ReadMoved(t, n, at), n <= c.asked, pc[t] \in Transferring
      PROVE  MeasuredInv'
  <2> DEFINE d == [c EXCEPT !.n = n, !.at = at]
  <2>1. d.size = c.size /\ d.offset = c.offset /\ d.n = n
    BY <1>1 DEF Calls
  <2>2. MoveTo(t, "read_done", d) /\ "read_done" \in ReadSteps \ {"read_clamp"}
        /\ "read_done" \notin Transferring
    BY <1>9 DEF ReadMoved, ReadSteps, Transferring
  <2>3. c.offset + n <= filesize
    BY <1>1, <1>3, <1>9 DEF MeasuredInv
  <2> HIDE DEF d
  <2>4. QED BY <1>5, <2>1, <2>2, <2>3
<1>10. CASE ReadPositioned(t)
  <2>1. PICK r \in PRead(fd, Remote, c.offset, c.asked) :
          \/ Fail(t, c, "errInternal")
          \/ r.status = "ok" /\ ReadMoved(t, r.n, c.offset)
    BY <1>10 DEF ReadPositioned, ReadFailed
  <2>2. r.status = "ok" => r.n \in Nat /\ r.n <= c.asked
    BY <1>1, <1>3, TransfersCount
  <2>3. pc[t] \in Transferring
    BY <1>10 DEF ReadPositioned, Transferring
  <2>4. QED BY <1>6, <1>9, <2>1, <2>2, <2>3
<1>11. CASE ReadSequential(t)
  <2>1. PICK r \in Read(fd, Remote, c.asked) :
          \/ Fail(t, c, "errInternal")
          \/ r.status = "ok" /\ ReadMoved(t, r.n, fd.pos)
    BY <1>11 DEF ReadSequential, ReadFailed
  <2>2. r.status = "ok" => r.n \in Nat /\ r.n <= c.asked
    BY <1>1, <1>3, TransfersCount
  <2>3. pc[t] \in Transferring
    BY <1>11 DEF ReadSequential, Transferring
  <2>4. QED BY <1>6, <1>9, <2>1, <2>2, <2>3
<1>12. CASE ReadDone(t)
  <2> DEFINE d == [c EXCEPT !.status = "ok", !.answers = @ + 1]
  <2>1. d.op = "Read" /\ d.status = "ok" /\ d.n = c.n
    BY <1>1, <1>3 DEF Calls
  <2>2. MoveTo(t, "returned", d) /\ pc[t] = "read_done"
    BY <1>12 DEF ReadDone, Answer
  <2> HIDE DEF d
  <2>3. pc'[t] = "returned" /\ call'[t] = d
    BY <1>1, <2>2, MoveToEffect
  <2>4. Reached' = next + c.n
    BY <2>1, <2>3 DEF Reached, After, client
  <2>5. Reached' <= filesize /\ filesize \in {0, Remote}
    BY <1>2, <1>3, <2>2, <2>4 DEF MeasuredInv
  <2>6. Remote' = Remote
    BY <1>4 DEF Remote
  <2>7. QED BY <1>4, <2>3, <2>5, <2>6 DEF MeasuredInv, Writable, ReadSteps, Transferring
<1>13. QED BY <1>7, <1>8, <1>10, <1>11, <1>12

\* The start of a call and the taking of its answer.
LEMMA CallsMeasure ==
  ASSUME Offsets = Nat, Known, MeasuredInv, ChunksFit,
         \/ CopyOpen \/ CopyChunk \/ CopyReturn
         \/ (StatCall(Copier) \/ CloseCall(Copier)) /\ client' = client
  PROVE  MeasuredInv'
<1> DEFINE t == Copier
<1>1. /\ TypeOK /\ t \in Threads /\ next \in Nat /\ filesize \in Nat
  BY KnownTypes DEF Known, TypeOK
<1>2. CASE CopyReturn
  <2>1. /\ pc[t] = "returned" /\ pc'[t] = "idle" /\ next' = Reached
        /\ UNCHANGED <<fd, is_open_, filesize, store>>
    BY <1>1, <1>2, MoveToEffect DEF CopyReturn, Return, Reached, object
  <2>2. Reached' = Reached
    BY <2>1 DEF Reached
  <2>3. QED BY <2>1, <2>2, PlaceStays DEF MeasuredInv, Writable, ReadSteps, Transferring
<1>3. ASSUME CallsBy(t), next' = next, UNCHANGED <<filesize, store>>,
             pc'[t] \notin ReadSteps
      PROVE  MeasuredInv'
  <2>1. Begins(t) /\ Starts(t)
    BY <1>1, <1>3, CallsByBegins, CallsStart
  <2>2. UNCHANGED <<fd, is_open_>> /\ pc[t] = "idle"
    BY <2>1 DEF Begins
  <2>3. Reached' = Reached
    <3>1. pc'[t] = "returned" => call'[t].status # "ok" \/ call'[t].op = "Sync"
      BY <2>1 DEF Starts, InCall
    <3>2. QED BY <1>1, <1>3, <2>2, <3>1, NothingReached
  <2>4. QED BY <1>3, <2>2, <2>3, PlaceStays DEF MeasuredInv, Writable, ReadSteps, Transferring
<1>4. CASE CopyOpen
  <2>1. PICK u \in Urls, flags \in FlagSets : OpenCall(t, u, flags)
    BY <1>4 DEF CopyOpen
  <2>2. CallsBy(t) /\ next' = next /\ UNCHANGED <<filesize, store>>
    BY <1>4, <2>1 DEF CopyOpen, CallsBy, OpenCall
  <2>3. Begins(t) /\ Starts(t)
    BY <1>1, <2>2, CallsByBegins, CallsStart
  <2>4. pc'[t] \in OpenSteps \cup {"returned"}
    <3> DEFINE c == [NoCall EXCEPT !.op = "Open", !.url = u, !.flags = flags]
               d == [c EXCEPT !.status = "errInvalidOp"]
    <3>1. MoveTo(t, "returned", d) \/ MoveTo(t, FirstOpenStep(flags), c)
      BY <2>1 DEF OpenCall, Fail
    <3>2. FirstOpenStep(flags) \in OpenSteps
      BY DEF FirstOpenStep, OpenSteps
    <3> HIDE DEF c, d
    <3>3. QED BY <1>1, <3>1, <3>2, MoveToEffect
  <2>5. QED BY <1>3, <2>2, <2>4 DEF OpenSteps, ReadSteps
<1>5. CASE (StatCall(t) \/ CloseCall(t)) /\ client' = client
  <2>1. CallsBy(t) /\ next' = next /\ UNCHANGED <<filesize, store>>
    BY <1>5 DEF CallsBy, StatCall, CloseCall, StartOrRefuse, object, client
  <2>2. pc'[t] \in {"stat_davix", "close_davix", "returned"}
    <3>1. ASSUME NEW point, NEW c, StartOrRefuse(t, point, c) PROVE pc'[t] \in {point, "returned"}
      BY <1>1, <3>1 DEF StartOrRefuse, Fail, MoveTo, TypeOK
    <3>2. QED BY <1>5, <3>1 DEF StatCall, CloseCall
  <2>3. QED BY <1>3, <2>1, <2>2 DEF ReadSteps
<1>6. CASE CopyChunk
  <2>1. PICK size \in Sizes :
          IF is_open_ /\ ~Writable(fd)
          THEN ReadCall(t, next, size)
          ELSE WriteCall(t, next, size)
    BY <1>6 DEF CopyChunk
  <2>2. CallsBy(t) /\ next' = next /\ UNCHANGED <<filesize, store>> /\ client' = client
    BY <1>1, <1>6, <2>1
    DEF CopyChunk, CallsBy, ReadCall, WriteCall, StartOrRefuse, object, client
  <2>3. CASE is_open_ /\ ~Writable(fd)
    <3> DEFINE point == IF ReachesPast(next, size) THEN "read_clamp" ELSE TransferStep
               c == [NoCall EXCEPT !.op = "Read", !.offset = next, !.size = size,
                                   !.asked = size]
    <3>1. c.op = "Read" /\ c.offset = next /\ c.size = size /\ c.asked = size
      BY DEF NoCall
    <3>2. MoveTo(t, point, c) /\ pc[t] = "idle"
      BY <2>1, <2>3 DEF ReadCall, StartOrRefuse, MayStart
    <3>3. next <= filesize
      BY <2>3, <3>2 DEF MeasuredInv, Reached
    <3>4. ReachesPast(next, size) <=> next + size > filesize
      BY <1>1, <3>3, NothingWraps
    <3>5. /\ point \in ReadSteps \ {"read_done"}
          /\ point = "read_clamp" => ReachesPast(next, size)
          /\ point \in Transferring => ~ReachesPast(next, size)
      BY DEF TransferStep, ReadSteps, Transferring
    <3> HIDE DEF point, c
    <3>6. pc'[t] = point /\ call'[t] = c
      BY <1>1, <3>2, MoveToEffect
    <3>7. Reached' = Reached
      BY <2>2, <3>2, <3>5, <3>6 DEF Reached, ReadSteps
    <3>8. UNCHANGED <<is_open_, fd>>
      BY <1>1, <2>2, CallsByBegins DEF Begins
    <3>9. size \in Nat
      BY ArgumentsAssumption
    <3>10. QED
      BY <1>1, <2>2, <3>1, <3>4, <3>5, <3>6, <3>7, <3>8, <3>9, PlaceStays
      DEF MeasuredInv, Writable
  <2>4. CASE ~(is_open_ /\ ~Writable(fd))
    <3>1. pc'[t] \in {"write_seek", "returned"}
      BY <1>1, <2>1, <2>4 DEF WriteCall, StartOrRefuse, Fail, MoveTo, TypeOK
    <3>2. QED BY <1>3, <2>2, <3>1 DEF ReadSteps
  <2>5. QED BY <2>3, <2>4
<1>7. QED BY <1>2, <1>4, <1>5, <1>6

\* Every step of the client and its calls keeps a measured download inside its file.
LEMMA MeasuredStep ==
  ASSUME Offsets = Nat, Known, MeasuredInv, ChunksFit, SizeMeasured,
         [CopyNext]_<<vars, client>>
  PROVE  MeasuredInv'
<1>1. CASE UNCHANGED <<vars, client>>
  <2>1. UNCHANGED <<object, fd, store, control, client>>
    BY <1>1 DEF vars
  <2>2. Reached' = Reached /\ UNCHANGED <<pc, call, is_open_, filesize>>
    BY <2>1 DEF client, control, object, Reached, After
  <2>3. QED BY <2>1, <2>2, PlaceStays DEF MeasuredInv, Writable
<1>2. CASE CopyOther
  <2>1. client' = client
    BY <1>2 DEF CopyOther
  <2>2. CASE StatCall(Copier) \/ CloseCall(Copier)
    BY <2>1, <2>2, CallsMeasure
  <2>3. CASE Steps(Copier)
    BY <2>1, <2>3, OpenMeasures, OthersMeasure, ReadsMeasure DEF Steps
  <2>4. QED BY <1>2, <2>2, <2>3 DEF CopyOther
<1>3. CASE CopyOpen \/ CopyChunk \/ CopyReturn
  BY <1>3, CallsMeasure
<1>4. QED BY <1>1, <1>2, <1>3 DEF CopyNext

\* xrdcp's downloads never ask davix for bytes past the end of the file, as long as Open
\* goes on with the size the file has or with none: for any files and sizes that stay
\* inside 64 bits, any short and failing reads, and any number of transfers
\* (HttpFilePlugIn.cc:246-247, PreReleaseNotes.txt:14).
THEOREM MeasuredReadsInside ==
  ASSUME Offsets = Nat
  PROVE  CopySpec /\ []ChunksFit /\ []SizeMeasured => []PReadInsideFile
<1>1. CopyInit => Known /\ MeasuredInv
  BY CopyStart, CopierAssumption
  DEF CopyInit, Init, MeasuredInv, ReadSteps, Transferring
<1>2. Known /\ MeasuredInv /\ ChunksFit /\ SizeMeasured /\ [CopyNext]_<<vars, client>>
      => (Known /\ MeasuredInv)'
  BY CopyStep, MeasuredStep
<1>3. Known /\ MeasuredInv => PReadInsideFile
  <2> SUFFICES ASSUME Known, MeasuredInv, NEW t \in Threads,
                      pc[t] \in {"read_range", "read_jump"}, ~Writable(fd), Remote # Absent
               PROVE  call[t].offset + call[t].asked <= Remote
    BY DEF PReadInsideFile
  <2>1. t = Copier /\ Lifecycle(t) /\ TypeOK /\ Remote \in Lengths
    BY KnownTypes, CopierAssumption, LengthsOfFiles
  <2>2. is_open_ /\ call[t].offset \in Nat /\ call[t].asked \in Nat /\ Remote \in Nat
    BY <2>1 DEF Lifecycle, DataSteps, ReadSteps, TypeOK, Calls, Lengths
  <2>3. call[t].offset + call[t].asked <= filesize /\ filesize \in {0, Remote}
    BY <2>1, <2>2 DEF MeasuredInv, Transferring
  <2>4. QED BY <2>2, <2>3
<1>4. QED BY <1>1, <1>2, <1>3, PTL DEF CopySpec

\* A Read gets nothing only at the end.
LEMMA EmptyStep ==
  ASSUME Offsets = Nat, Known, Straight, MeasuredInv, EmptyInv, [CopyNext]_<<vars, client>>
  PROVE  EmptyInv'
<1> DEFINE t == Copier
           c == call[t]
<1>1. /\ TypeOK /\ t \in Threads /\ Lifecycle(t) /\ fd \in Handles /\ c \in Calls
      /\ filesize \in Nat /\ Remote \in Lengths /\ ModeInv
  BY KnownTypes, LengthsOfFiles DEF Known, IInv, TypeOK
<1>2. CASE UNCHANGED <<vars, client>>
  BY <1>2 DEF vars, control, object, EmptyInv, GotChunk, Remote
<1>3. ASSUME pc'[t] # "read_done", pc'[t] = "returned" => call'[t].status # "ok" \/ call'[t].op # "Read"
      PROVE  EmptyInv'
  BY <1>3 DEF EmptyInv, GotChunk
<1>4. CASE CopyReturn
  BY <1>1, <1>3, <1>4, MoveToEffect DEF CopyReturn, Return
<1>5. ASSUME CallsBy(t) PROVE EmptyInv'
  <2>1. Begins(t) /\ Starts(t)
    BY <1>1, <1>5, CallsByBegins, CallsStart
  <2>2. QED BY <1>3, <2>1 DEF Begins, Starts, InCall, OpenSteps, TransferStep
<1>6. CASE Steps(t) /\ pc[t] \notin ReadSteps
  <2>1. Follows(t) /\ InCall(t)
    BY <1>1, <1>6, StepsFollow
    DEF Known, Follows, InCall, OpenSteps, DataSteps, ReadSteps, WriteSteps
  <2>2. call'[t].op # "Read"
    BY <1>6, <2>1 DEF Known, CopyInv, ChunkInv, Follows
  <2>3. pc'[t] # "read_done"
    BY <1>6, <2>1 DEF Follows, ReadSteps
  <2>4. QED BY <1>3, <2>2, <2>3
<1>7. CASE Fail(t, c, "errInternal")
  BY <1>1, <1>3, <1>7, FailFails DEF Fails
<1>8. ASSUME NEW point, NEW d, MoveTo(t, point, d), point \in ReadSteps \ {"read_done"}
      PROVE  EmptyInv'
  BY <1>1, <1>3, <1>8, MoveToEffect DEF ReadSteps
<1>9. CASE ReadClamp(t) \/ ReadLock(t)
  BY <1>8, <1>9 DEF ReadClamp, ReadLock, TransferStep, ReadSteps
<1>10. pc[t] \in ReadSteps =>
         /\ c.offset \in Nat /\ c.asked \in Nat /\ c.size \in Nat
         /\ is_open_ /\ ~Writable(fd) /\ c.op = "Read"
  BY <1>1 DEF Calls, Known, CopyInv, ChunkInv, Lifecycle, DataSteps, InCall, ReadSteps
<1>11. ASSUME NEW n, NEW at, ReadMoved(t, n, at), pc[t] \in Transferring,
              UNCHANGED <<filesize, store>>, fd'.url = fd.url,
              n = 0 => c.asked = 0 \/ Remote <= c.offset
       PROVE  EmptyInv'
  <2> DEFINE d == [c EXCEPT !.n = n, !.at = at]
  <2>1. d.size = c.size /\ d.offset = c.offset /\ d.n = n
    BY <1>1 DEF Calls
  <2>2. MoveTo(t, "read_done", d)
    BY <1>11 DEF ReadMoved
  <2> HIDE DEF d
  <2>3. pc'[t] = "read_done" /\ call'[t] = d /\ Remote' = Remote
    BY <1>1, <1>11, <2>2, MoveToEffect DEF Remote
  <2>4. ASSUME c.size > 0, n = 0, filesize = Remote PROVE c.offset >= Remote
    <3>1. c.offset \in Nat /\ c.asked \in Nat /\ c.size \in Nat
      BY <1>10, <1>11 DEF Transferring, ReadSteps
    <3>2. CASE c.asked = 0
      BY <1>1, <1>11, <2>4, <3>1, <3>2 DEF MeasuredInv
    <3>3. CASE Remote <= c.offset
      BY <1>1, <2>4, <3>1, <3>3
    <3>4. QED BY <1>11, <2>4, <3>2, <3>3
  <2>5. QED BY <1>11, <2>1, <2>3, <2>4 DEF EmptyInv
<1>12. CASE ReadPositioned(t)
  <2>1. PICK r \in PRead(fd, Remote, c.offset, c.asked) :
          \/ Fail(t, c, "errInternal")
          \/ r.status = "ok" /\ ReadMoved(t, r.n, c.offset)
    BY <1>12 DEF ReadPositioned, ReadFailed
  <2>2. pc[t] \in Transferring /\ pc[t] \in ReadSteps /\ UNCHANGED <<filesize, store, fd>>
    BY <1>12 DEF ReadPositioned, Transferring, ReadSteps
  <2>3. r.status = "ok" /\ r.n = 0 => c.asked = 0
    BY <1>1, <1>10, <2>2, TransfersCount
  <2>4. QED BY <1>7, <1>11, <2>1, <2>2, <2>3
<1>13. CASE ReadSequential(t)
  <2>1. PICK r \in Read(fd, Remote, c.asked) :
          \/ Fail(t, c, "errInternal")
          \/ r.status = "ok" /\ ReadMoved(t, r.n, fd.pos)
    BY <1>13 DEF ReadSequential, ReadFailed
  <2>2. /\ pc[t] \in Transferring /\ pc[t] \in ReadSteps /\ UNCHANGED <<filesize, store>>
        /\ fd'.url = fd.url
    BY <1>1, <1>13 DEF ReadSequential, Transferring, ReadSteps, Handles
  <2>3. Downloading /\ ~drifted
    BY <1>1, <1>10, <1>13, <2>2 DEF ReadSequential, ModeInv, Downloading, Straight
  <2>4. fd.pos = c.offset
    BY <1>1, <1>13, <2>3 DEF ReadSequential, Known, Aligned, Continues
  <2>5. r.status = "ok" /\ r.n = 0 => c.asked = 0 \/ Remote <= c.offset
    BY <1>1, <1>10, <2>2, <2>4, TransfersCount
  <2>6. QED BY <1>7, <1>11, <2>1, <2>2, <2>5
<1>14. CASE ReadDone(t)
  <2> DEFINE d == [c EXCEPT !.status = "ok", !.answers = @ + 1]
  <2>1. d.size = c.size /\ d.offset = c.offset /\ d.n = c.n
    BY <1>1 DEF Calls
  <2>2. MoveTo(t, "returned", d) /\ UNCHANGED <<filesize, store, fd>> /\ pc[t] = "read_done"
    BY <1>14 DEF ReadDone, Answer
  <2> HIDE DEF d
  <2>3. pc'[t] = "returned" /\ call'[t] = d /\ Remote' = Remote
    BY <1>1, <2>2, MoveToEffect DEF Remote
  <2>4. QED BY <2>1, <2>2, <2>3 DEF EmptyInv, GotChunk
<1>15. CASE Steps(t) /\ pc[t] \in ReadSteps
  BY <1>9, <1>12, <1>13, <1>14, <1>15
  DEF Steps, OpenStatDelete, OpenUnlink, OpenStatRead, OpenDavix, CloseDavix, StatDavix,
      StatFake, VectorReadDavix, WriteSeek, WriteDavix, WriteLoad, WriteStore, ReadSteps
<1>16. CASE CopyOpen \/ CopyOther
  BY <1>5, <1>6, <1>15, <1>16 DEF CopyOpen, CopyOther, CallsBy
<1>17. CASE CopyChunk
  <2>1. \E size \in Sizes : ReadCall(t, next, size) \/ WriteCall(t, next, size)
    BY <1>17 DEF CopyChunk
  <2>2. CallsBy(t)
    BY <2>1 DEF CallsBy, Known
  <2>3. QED BY <1>5, <2>2
<1>18. QED BY <1>2, <1>4, <1>16, <1>17 DEF CopyNext

\* xrdcp never stops a download short: a chunk of no bytes is asked for at the end of the
\* file and nowhere before, as long as filesize is what the server has and every Open
\* finds the object as it was constructed (HttpFilePlugIn.cc:247, 254-271).
THEOREM MeasuredDownloadsEnd ==
  ASSUME Offsets = Nat
  PROVE  CopySpec /\ []ChunksFit /\ []SizeMeasured /\ []OffsetFresh => []MeasuredEndIsEnd
<1> DEFINE All == Known /\ Straight /\ MeasuredInv /\ EmptyInv
<1>1. CopyInit => All
  BY CopyStart, CopierAssumption
  DEF CopyInit, Init, MeasuredInv, EmptyInv, GotChunk, Straight, Downloading, ReadSteps,
      Transferring
<1>2. All /\ ChunksFit /\ SizeMeasured /\ OffsetFresh /\ [CopyNext]_<<vars, client>> => All'
  BY CopyStep, StraightStep, MeasuredStep, EmptyStep
<1>3. All => MeasuredEndIsEnd
  <2> SUFFICES ASSUME All PROVE MeasuredEndIsEnd
    OBVIOUS
  <2>1. Unanswered(Copier) /\ Idle(Copier)
    BY KnownTypes DEF Known, AnswerInv
  <2>2. QED BY <2>1 DEF EmptyInv, GotChunk, MeasuredEndIsEnd, Unanswered, Idle, InCall, NoCall
<1> HIDE DEF All
<1>4. QED BY <1>1, <1>2, <1>3, PTL DEF CopySpec

-----------------------------------------------------------------------------
(* One transfer *)

\* Until its only Open is over, nothing has happened to the object but its measuring.
OnceInv ==
  /\ opens \in {0, 1}
  /\ opens = 0 => ~is_open_ /\ ~InCall(Copier) /\ curr_offset = 0 /\ filesize = 0
  /\ pc[Copier] \in OpenSteps => curr_offset = 0 /\ call[Copier].flags \in FlagSets
  /\ pc[Copier] \in OpenSteps \ {"open_davix"} => filesize = 0
  /\ pc[Copier] = "open_stat_read" => "Read" \in call[Copier].flags
  /\ pc[Copier] = "open_davix" =>
       \/ filesize = 0
       \/ "Read" \in call[Copier].flags /\ filesize = store[call[Copier].url]

\* What Stat tells of a file is its length.
LEMMA StatMeasures ==
  ASSUME NEW len, NEW r \in Stat(len), r.status = "ok"
  PROVE  r.n = len
<1>1. PICK x \in DavixStat(len) : r \in Filled(x)
  BY DEF Stat
<1>2. r = Converted(x)
  BY <1>1 DEF Filled
<1>3. x \notin Fault /\ x # Failed("FileNotFound")
  BY <1>2 DEF Converted, ErrCodeConvert, Fault, Failed
<1>4. x = Returned(len)
  BY <1>3 DEF DavixStat
<1>5. QED BY <1>2, <1>4 DEF Converted, Returned

\* The steps of that Open, and what comes after it.
LEMMA OnceSteps ==
  ASSUME Known, OnceInv, client' = client, Steps(Copier)
  PROVE  OnceInv'
<1> DEFINE t == Copier
           c == call[t]
<1>1. TypeOK /\ t \in Threads /\ Follows(t)
  BY KnownTypes, StepsFollow DEF Known
<1>2. InCall(t) /\ opens = 1 /\ opens' = 1
  BY <1>1
  DEF Follows, InCall, OnceInv, client, OpenSteps, DataSteps, ReadSteps, WriteSteps
<1>3. CASE pc[t] \notin OpenSteps
  <2>1. pc'[t] \notin OpenSteps
    BY <1>1, <1>3 DEF Follows, OpenSteps, DataSteps, ReadSteps, WriteSteps
  <2>2. QED BY <1>2, <2>1 DEF OnceInv, OpenSteps
<1>4. CASE pc[t] \in OpenSteps
  <2>1. curr_offset' = curr_offset
    BY <1>4 DEF Steps, OpenStatDelete, OpenUnlink, OpenStatRead, OpenDavix, CloseDavix, StatDavix,
       StatFake, ReadClamp, ReadLock, ReadPositioned, ReadSequential, ReadDone,
       VectorReadDavix, WriteSeek, WriteDavix, WriteLoad, WriteStore, object, OpenSteps
  <2>2. ASSUME pc'[t] = "returned" PROVE OnceInv'
    BY <1>2, <2>2 DEF OnceInv, OpenSteps
  <2>3. ASSUME NEW point \in {"open_unlink", "open_davix"}, MoveTo(t, point, c),
               \/ filesize' = 0
               \/ /\ point = "open_davix" /\ "Read" \in c.flags
                  /\ filesize' = store'[c.url]
        PROVE  OnceInv'
    <3>1. pc'[t] = point /\ call'[t] = c
      BY <1>1, <2>3, MoveToEffect
    <3>2. QED BY <1>2, <1>4, <2>1, <2>3, <3>1 DEF OnceInv, OpenSteps
  <2>4. \A status : Fail(t, c, status) \/ Answer(t, c) => pc'[t] = "returned"
    BY <1>1 DEF Fail, Answer, MoveTo, TypeOK
  <2>5. CASE OpenStatDelete(t)
    <3>1. filesize' = 0
      BY <2>5 DEF OpenStatDelete, object, OnceInv, OpenSteps
    <3>2. QED BY <2>3, <2>5, <3>1 DEF OpenStatDelete
  <2>6. CASE OpenUnlink(t)
    <3>1. filesize' = 0
      BY <2>6 DEF OpenUnlink, object, OnceInv, OpenSteps
    <3>2. QED BY <2>2, <2>3, <2>4, <2>6, <3>1 DEF OpenUnlink
  <2>7. CASE OpenStatRead(t)
    <3>1. filesize = 0 /\ "Read" \in c.flags /\ MoveTo(t, "open_davix", c) /\ store' = store
      BY <2>7 DEF OpenStatRead, OnceInv, OpenSteps
    <3>2. PICK r \in Stat(store[c.url]) : filesize' = MeasuredSize(r)
      BY <2>7 DEF OpenStatRead
    <3>3. r.status = "ok" => r.n = store[c.url]
      BY <3>2, StatMeasures
    <3>4. filesize' = 0 \/ filesize' = store'[c.url]
      BY <3>1, <3>2, <3>3 DEF MeasuredSize
    <3>5. QED BY <2>3, <3>1, <3>4
  <2>8. CASE OpenDavix(t)
    BY <2>2, <2>4, <2>8 DEF OpenDavix
  <2>9. QED BY <1>4, <2>5, <2>6, <2>7, <2>8
    DEF Steps, CloseDavix, StatDavix, StatFake, ReadClamp, ReadLock, ReadPositioned,
        ReadSequential, ReadDone, VectorReadDavix, WriteSeek, WriteDavix, WriteLoad,
        WriteStore, OpenSteps
<1>5. QED BY <1>3, <1>4

\* Every step of a client that opens the object once.
LEMMA OnceStep ==
  ASSUME Offsets = Nat, MaxOpens <= 1, Known, OnceInv, [CopyNext]_<<vars, client>>
  PROVE  OnceInv'
<1> DEFINE t == Copier
<1>1. TypeOK /\ t \in Threads /\ MaxOpens \in Nat /\ next \in Nat
  BY KnownTypes, CopierAssumption DEF Known
<1>2. CASE UNCHANGED <<vars, client>>
  BY <1>2 DEF vars, object, control, client, OnceInv, InCall
<1>3. CASE CopyReturn
  <2>1. /\ pc'[t] = "idle" /\ opens' = opens /\ UNCHANGED <<is_open_, curr_offset, filesize>>
    BY <1>1, <1>3, MoveToEffect DEF CopyReturn, Return, object
  <2>2. QED BY <2>1 DEF OnceInv, InCall, OpenSteps
<1>4. CASE CopyOpen
  <2>1. PICK u \in Urls, flags \in FlagSets : OpenCall(t, u, flags)
    BY <1>4 DEF CopyOpen
  <2> DEFINE c == [NoCall EXCEPT !.op = "Open", !.url = u, !.flags = flags]
  <2>2. opens = 0 /\ opens' = 1 /\ ~is_open_ /\ curr_offset = 0 /\ filesize = 0
    BY <1>1, <1>4 DEF CopyOpen, OnceInv
  <2>3. MoveTo(t, FirstOpenStep(flags), c) /\ UNCHANGED <<curr_offset, filesize>>
    BY <2>1, <2>2 DEF OpenCall
  <2>4. c.flags = flags
    BY DEF NoCall
  <2> HIDE DEF c
  <2>5. pc'[t] = FirstOpenStep(flags) /\ call'[t] = c
    BY <1>1, <2>3, MoveToEffect
  <2>6. QED BY <2>2, <2>3, <2>4, <2>5 DEF OnceInv, FirstOpenStep
<1>5. ASSUME NEW point, NEW c, StartOrRefuse(t, point, c), client' = client, point \notin OpenSteps
      PROVE  OnceInv'
  <2>1. pc'[t] = "returned" \/ (is_open_ /\ pc'[t] = point)
    BY <1>1, <1>5 DEF StartOrRefuse, Fail, MoveTo, TypeOK
  <2>2. opens' = opens /\ UNCHANGED <<is_open_, curr_offset, filesize>>
    BY <1>5 DEF StartOrRefuse, object, client
  <2>3. QED BY <1>5, <2>1, <2>2 DEF OnceInv, InCall, OpenSteps
<1>6. CASE CopyChunk
  <2>1. \E size \in Sizes : ReadCall(t, next, size) \/ WriteCall(t, next, size)
    BY <1>6 DEF CopyChunk
  <2>2. QED BY <1>5, <1>6, <2>1 DEF CopyChunk, ReadCall, WriteCall, TransferStep, OpenSteps
<1>7. CASE CopyOther
  <2>1. CASE StatCall(t) \/ CloseCall(t)
    BY <1>5, <1>7, <2>1 DEF CopyOther, StatCall, CloseCall, OpenSteps
  <2>2. QED BY <1>7, <2>1, OnceSteps DEF CopyOther
<1>8. QED BY <1>2, <1>3, <1>4, <1>6, <1>7 DEF CopyNext

\* A client that opens the object once finds it as it was constructed.
LEMMA OnceFresh ==
  ASSUME Offsets = Nat, MaxOpens <= 1
  PROVE  CopySpec => []OnceInv
<1>1. CopyInit => Known /\ OnceInv
  BY CopyStart, CopierAssumption DEF CopyInit, Init, OnceInv, InCall, OpenSteps
<1>2. Known /\ OnceInv /\ [CopyNext]_<<vars, client>> => (Known /\ OnceInv)'
  BY CopyStep, OnceStep
<1>3. QED BY <1>1, <1>2, PTL DEF CopySpec

\* An object none of whose URLs avoids the Range header never goes by its offset.
ByRange == pc[Copier] \in OpenSteps => ~avoid_pread_

LEMMA RangesFresh ==
  ASSUME Offsets = Nat, AvoidUrls = {}
  PROVE  CopySpec => []OffsetFresh
<1>1. CopyInit => Known /\ ByRange
  BY CopyStart, CopierAssumption DEF CopyInit, Init, OpenSteps, ByRange
<1>2. Known /\ ByRange /\ [CopyNext]_<<vars, client>> => (Known /\ ByRange)'
  <2> SUFFICES ASSUME Known, ByRange, [CopyNext]_<<vars, client>> PROVE ByRange'
    BY CopyStep
  <2>1. TypeOK /\ Copier \in Threads /\ next \in Nat
    BY KnownTypes DEF Known
  <2>2. CASE Steps(Copier)
    BY <2>1, <2>2, StepsFollow
    DEF ByRange, Known, Follows, OpenSteps, DataSteps, ReadSteps, WriteSteps
  <2>3. ASSUME CallsBy(Copier) PROVE ByRange'
    <3>1. Begins(Copier)
      BY <2>1, <2>3, CallsByBegins
    <3>2. CASE \E u \in Urls, flags \in FlagSets : OpenCall(Copier, u, flags)
      <4>1. PICK u \in Urls, flags \in FlagSets : OpenCall(Copier, u, flags)
        BY <3>2
      <4> DEFINE c == [NoCall EXCEPT !.op = "Open", !.url = u, !.flags = flags]
      <4>2. \/ Fail(Copier, c, "errInvalidOp") /\ UNCHANGED avoid_pread_
            \/ avoid_pread_' = (u \in AvoidUrls)
        BY <4>1 DEF OpenCall
      <4>3. Fail(Copier, c, "errInvalidOp") => pc'[Copier] = "returned"
        BY <2>1 DEF Fail, MoveTo, TypeOK
      <4>4. QED BY <4>2, <4>3 DEF ByRange, OpenSteps
    <3>3. CASE ~\E u \in Urls, flags \in FlagSets : OpenCall(Copier, u, flags)
      <4>1. ASSUME NEW point, NEW c, StartOrRefuse(Copier, point, c), point \notin OpenSteps
            PROVE  pc'[Copier] \notin OpenSteps
        BY <2>1, <4>1 DEF StartOrRefuse, Fail, MoveTo, TypeOK, OpenSteps
      <4>2. SyncCall(Copier) => pc'[Copier] = "returned"
        BY <2>1 DEF SyncCall, MoveTo, TypeOK
      <4>3. CloseCall(Copier) \/ StatCall(Copier) => pc'[Copier] \notin OpenSteps
        BY <4>1 DEF CloseCall, StatCall, OpenSteps
      <4>4. ASSUME NEW offset, NEW size
            PROVE  ReadCall(Copier, offset, size) \/ VectorReadCall(Copier, offset, size)
                   \/ WriteCall(Copier, offset, size) => pc'[Copier] \notin OpenSteps
        BY <4>1 DEF ReadCall, VectorReadCall, WriteCall, TransferStep, OpenSteps
      <4>5. pc'[Copier] \notin OpenSteps
        BY <2>3, <3>3, <4>2, <4>3, <4>4 DEF CallsBy, OpenSteps
      <4>6. QED BY <4>5 DEF ByRange
    <3>4. QED BY <3>2, <3>3
  <2>4. CASE CopyReturn
    BY <2>1, <2>4, MoveToEffect DEF ByRange, CopyReturn, Return, OpenSteps
  <2>5. CASE UNCHANGED <<vars, client>>
    BY <2>5 DEF ByRange, vars, object, control
  <2>6. CASE CopyChunk
    <3>1. \E size \in Sizes : ReadCall(Copier, next, size) \/ WriteCall(Copier, next, size)
      BY <2>6 DEF CopyChunk
    <3>2. QED BY <2>1, <2>3, <3>1 DEF CallsBy
  <2>7. CASE CopyOpen \/ CopyOther
    BY <2>2, <2>3, <2>7 DEF CopyOpen, CopyOther, CallsBy
  <2>8. QED BY <2>4, <2>5, <2>6, <2>7 DEF CopyNext
<1>3. ByRange => OffsetFresh
  BY DEF ByRange, OffsetFresh, OpenSteps
<1>4. QED BY <1>1, <1>2, <1>3, PTL DEF CopySpec

\* Every chunk of a download holds the bytes of the offset it was asked for, after any
\* short and failing reads: of any number of files read with Range headers, or of one
\* read either way (HttpFilePlugIn.cc:237-283, test/cases/000-simple-download/main.sh:27).
THEOREM DownloadsFaithful ==
  ASSUME Offsets = Nat, MaxOpens <= 1 \/ AvoidUrls = {}
  PROVE  CopySpec => []DownloadFaithful
<1>1. OnceInv => OffsetFresh
  BY DEF OnceInv, OffsetFresh, OpenSteps
<1>2. CopySpec => []OffsetFresh
  <2>1. CASE MaxOpens <= 1
    BY <1>1, <2>1, OnceFresh, PTL
  <2>2. CASE AvoidUrls = {}
    BY <2>2, RangesFresh
  <2>3. QED BY <2>1, <2>2
<1>3. QED BY <1>2, FreshDownloadsFaithful, PTL

\* The download of one file never asks davix for bytes past its end, whatever fails
\* (HttpFilePlugIn.cc:246-247, PreReleaseNotes.txt:14).
THEOREM DownloadReadsInside ==
  ASSUME Offsets = Nat, MaxOpens <= 1
  PROVE  CopySpec /\ []ChunksFit => []PReadInsideFile
<1>1. OnceInv => SizeMeasured
  BY DEF OnceInv, SizeMeasured
<1>2. QED BY <1>1, OnceFresh, MeasuredReadsInside, PTL

\* The download of one file that has been measured goes on to its end, after any short
\* and failing reads (HttpFilePlugIn.cc:143-155, 247).
THEOREM DownloadEnds ==
  ASSUME Offsets = Nat, MaxOpens <= 1
  PROVE  CopySpec /\ []ChunksFit => []MeasuredEndIsEnd
<1>1. OnceInv => SizeMeasured /\ OffsetFresh
  BY DEF OnceInv, SizeMeasured, OffsetFresh, OpenSteps
<1>2. QED BY <1>1, OnceFresh, MeasuredDownloadsEnd, PTL

\* The size Stat invents for the upload of one file is what has been written to it
\* (HttpFilePlugIn.cc:217-221, 368).
THEOREM FakedSizes ==
  ASSUME Offsets = Nat, MaxOpens <= 1, ShortWrites = FALSE, MaxFilesize < W64, FlagsOneWay
  PROVE  CopySpec => []FakedSizeIsWritten
<1>1. OnceInv => SizeFresh
  BY DEF OnceInv, SizeFresh, FlagsOneWay, OneWay, Writes, OpenSteps
<1>2. QED BY <1>1, OnceFresh, FreshFakedSizes, PTL
=============================================================================
