------------------------- MODULE HttpFileDataProofs -------------------------
(***************************************************************************)
(* Where the bytes go: a Write lands where it was asked to unless it was   *)
(* raced, and reads that avoid the Range header continue where davix is.   *)
(***************************************************************************)
EXTENDS HttpFileContractProofs

-----------------------------------------------------------------------------
(* Writes *)

\* A Write is one from its first step on, and knows where it writes unless another
\* call has come between its seek and its write.
WriteInv(t) ==
  /\ InCall(t) => (call[t].op = "Write" <=> pc[t] \in WriteSteps)
  /\ pc[t] = "write_davix" /\ ~raced[t] => fd.pos = call[t].offset
  /\ pc[t] \in {"write_load", "write_store"} /\ ~raced[t] => call[t].at = call[t].offset
  /\ pc[t] = "returned" /\ call[t].op = "Write" /\ call[t].status = "ok" /\ ~raced[t]
     => call[t].at = call[t].offset

WInv == \A t \in Threads : WriteInv(t)

\* What a step of t does to a thread that is between seek and write: nothing, or it
\* marks it as overtaken.
Overtakes(t) ==
  \A s \in Threads \ {t} :
    /\ raced[s] => raced'[s]
    /\ pc[s] = "write_davix" => fd'.pos = fd.pos \/ raced'[s]

\* No step of another thread breaks WriteInv.
LEMMA OthersWrite ==
  ASSUME WInv, NEW t \in Threads, Overtakes(t), raced \in [Threads -> BOOLEAN],
         \A s \in Threads \ {t} : pc'[s] = pc[s] /\ call'[s] = call[s]
  PROVE  \A s \in Threads \ {t} : WriteInv(s)'
BY DEF WInv, WriteInv, Overtakes, InCall

\* Every step that moves the handle marks those it overtakes.
LEMMA StepsOvertake ==
  ASSUME IInv, NEW t \in Threads, Steps(t)
  PROVE  Overtakes(t)
<1>1. /\ TypeOK /\ Exclusive /\ \A s \in Threads : Lifecycle(s)
      /\ fd \in Handles /\ raced \in [Threads -> BOOLEAN]
  BY DEF IInv, TypeOK
<1>2. CASE UNCHANGED <<fd, raced>>
  BY <1>2 DEF Overtakes
<1>3. CASE raced' = Overtaken(t)
  BY <1>3 DEF Overtakes, Overtaken
<1>4. CASE OpenDavix(t) \/ CloseDavix(t)
  <2>1. InCall(t) /\ call[t].op \in {"Open", "Close"} /\ raced' = raced
    BY <1>1, <1>4 DEF OpenDavix, CloseDavix, CloseFailed, history, InCall, Lifecycle, OpenSteps
  <2>2. \A s \in Threads \ {t} : ~InCall(s)
    BY <1>1, <2>1 DEF Exclusive
  <2>3. QED BY <2>1, <2>2 DEF Overtakes, InCall
<1>5. QED BY <1>2, <1>3, <1>4
  DEF Steps, OpenStatDelete, OpenUnlink, OpenStatRead, StatDavix,
      StatFake, ReadClamp, ReadLock, ReadPositioned, ReadSequential, ReadDone,
      VectorReadDavix, WriteSeek, WriteDavix, WriteLoad, WriteStore, history

\* The step of a call that is not a Write.
LEMMA OtherSteps ==
  ASSUME IInv, WInv, NEW t \in Threads, Steps(t), pc[t] \notin WriteSteps
  PROVE  WriteInv(t)'
<1>1. Follows(t)
  BY StepsFollow
<1>2. InCall(t)
  BY <1>1 DEF Follows, InCall, OpenSteps, DataSteps, ReadSteps, WriteSteps
<1>3. call'[t].op # "Write"
  BY <1>1, <1>2 DEF Follows, WInv, WriteInv
<1>4. pc'[t] \notin WriteSteps
  BY <1>1 DEF Follows, WriteSteps
<1>5. QED BY <1>3, <1>4 DEF WriteInv, WriteSteps

\* The steps of a Write.
LEMMA OwnSteps ==
  ASSUME IInv, AnswerInv, WInv, NEW t \in Threads,
         WriteSeek(t) \/ WriteDavix(t) \/ WriteLoad(t) \/ WriteStore(t)
  PROVE  WriteInv(t)'
<1>1. /\ TypeOK /\ WriteInv(t) /\ call[t] \in Calls /\ fd \in Handles
      /\ raced \in [Threads -> BOOLEAN]
  BY DEF IInv, TypeOK, WInv
<1>2. pc[t] \in WriteSteps /\ InCall(t)
  BY DEF WriteSeek, WriteDavix, WriteLoad, WriteStore, WriteSteps, InCall
<1>3. call[t].op = "Write"
  BY <1>1, <1>2 DEF WriteInv
<1>4. Ends(t) /\ Follows(t)
  BY StepsEnd, StepsFollow DEF Steps
<1>5. call'[t].op = "Write"
  BY <1>3, <1>4 DEF Follows
<1>6. CASE Fails(t, call[t])
  BY <1>5, <1>6 DEF Fails, WriteInv, InCall
<1>7. ASSUME NEW c, Fail(t, call[t], c), c # "ok"
      PROVE  Fails(t, call[t])
  BY <1>1, <1>7, FailFails
<1>8. CASE WriteSeek(t)
  <2>1. \/ Fails(t, call[t])
        \/ MoveTo(t, "write_davix", call[t]) /\ fd' = SeekTo(fd, call[t].offset)
    BY <1>7, <1>8 DEF WriteSeek
  <2>2. SeekTo(fd, call[t].offset).pos = call[t].offset
    BY <1>1 DEF SeekTo, Handles
  <2>3. CASE MoveTo(t, "write_davix", call[t]) /\ fd' = SeekTo(fd, call[t].offset)
    <3>1. pc'[t] = "write_davix" /\ call'[t] = call[t] /\ fd'.pos = call[t].offset
      BY <1>1, <2>2, <2>3, MoveToEffect
    <3>2. QED BY <1>5, <3>1 DEF WriteInv, InCall, WriteSteps
  <2>4. QED BY <1>6, <2>1, <2>3
<1>9. CASE WriteDavix(t)
  <2>1. \/ Fails(t, call[t])
        \/ /\ raced' = Overtaken(t)
           /\ \E n : MoveTo(t, "write_load", [call[t] EXCEPT !.n = n, !.at = fd.pos])
    BY <1>7, <1>9 DEF WriteDavix
  <2>2. ASSUME raced' = Overtaken(t), NEW n,
               MoveTo(t, "write_load", [call[t] EXCEPT !.n = n, !.at = fd.pos])
        PROVE  WriteInv(t)'
    <3> DEFINE d == [call[t] EXCEPT !.n = n, !.at = fd.pos]
    <3>1. d.at = fd.pos /\ d.offset = call[t].offset
      BY <1>1 DEF Calls
    <3>2. MoveTo(t, "write_load", d)
      BY <2>2
    <3> HIDE DEF d
    <3>3. pc'[t] = "write_load" /\ call'[t] = d
      BY <1>1, <3>2, MoveToEffect
    <3>4. raced'[t] = raced[t]
      BY <1>1, <2>2 DEF Overtaken
    <3>5. pc[t] = "write_davix"
      BY <1>9 DEF WriteDavix
    <3>6. QED BY <1>1, <1>5, <3>1, <3>3, <3>4, <3>5 DEF WriteInv, InCall, WriteSteps
  <2>3. QED BY <1>6, <2>1, <2>2
<1>10. CASE WriteLoad(t)
  <2> DEFINE d == [call[t] EXCEPT !.sum = filesize]
  <2>1. d.at = call[t].at /\ d.offset = call[t].offset
    BY <1>1 DEF Calls
  <2>2. MoveTo(t, "write_store", d) /\ raced' = raced /\ pc[t] = "write_load"
    BY <1>10 DEF WriteLoad, history
  <2> HIDE DEF d
  <2>3. pc'[t] = "write_store" /\ call'[t] = d
    BY <1>1, <2>2, MoveToEffect
  <2>4. QED BY <1>1, <1>5, <2>1, <2>2, <2>3 DEF WriteInv, InCall, WriteSteps
<1>11. CASE WriteStore(t)
  <2> DEFINE d == [call[t] EXCEPT !.status = "ok", !.answers = @ + 1]
  <2>1. d.at = call[t].at /\ d.offset = call[t].offset
    BY <1>1 DEF Calls
  <2>2. MoveTo(t, "returned", d) /\ raced' = raced /\ pc[t] = "write_store"
    BY <1>11 DEF WriteStore, Answer, history
  <2> HIDE DEF d
  <2>3. pc'[t] = "returned" /\ call'[t] = d
    BY <1>1, <2>2, MoveToEffect
  <2>4. QED BY <1>1, <1>5, <2>1, <2>2, <2>3 DEF WriteInv, InCall
<1>12. QED BY <1>8, <1>9, <1>10, <1>11

\* The start of a call.
LEMMA CallsWrite ==
  ASSUME IInv, WInv, NEW t \in Threads, CallsBy(t)
  PROVE  WInv'
<1>1. TypeOK /\ raced \in [Threads -> BOOLEAN]
  BY DEF IInv, TypeOK
<1>2. Begins(t) /\ Starts(t)
  BY <1>1, CallsByBegins, CallsStart
<1>3. raced' = raced
  BY DEF CallsBy, OpenCall, CloseCall, StatCall, SyncCall, ReadCall, VectorReadCall, WriteCall,
         StartOrRefuse, history
<1>4. WriteInv(t)'
  BY <1>2 DEF Begins, Starts, WriteInv, InCall, WriteSteps, OpenSteps, TransferStep
<1>5. \A s \in Threads \ {t} : WriteInv(s)'
  BY <1>1, <1>2, <1>3, OthersWrite DEF Begins, Overtakes
<1>6. QED BY <1>4, <1>5 DEF WInv

\* Every step keeps WInv.
LEMMA WriteStep == IInv /\ AnswerInv /\ WInv /\ [Next]_vars => WInv'
<1> SUFFICES ASSUME IInv, AnswerInv, WInv, [Next]_vars PROVE WInv'
  OBVIOUS
<1>1. TypeOK /\ raced \in [Threads -> BOOLEAN]
  BY DEF IInv, TypeOK
<1>2. ASSUME NEW t \in Threads, Steps(t) PROVE WInv'
  <2>1. \A s \in Threads \ {t} : WriteInv(s)'
    BY <1>1, <1>2, StepsFollow, StepsOvertake, OthersWrite DEF Follows
  <2>2. WriteInv(t)'
    <3>1. CASE pc[t] \notin WriteSteps
      BY <1>2, <3>1, OtherSteps
    <3>2. CASE pc[t] \in WriteSteps
      <4>1. WriteSeek(t) \/ WriteDavix(t) \/ WriteLoad(t) \/ WriteStore(t)
        BY <1>2, <3>2
        DEF Steps, OpenStatDelete, OpenUnlink, OpenStatRead, OpenDavix, CloseDavix, StatDavix,
            StatFake, ReadClamp, ReadLock, ReadPositioned, ReadSequential, ReadDone,
            VectorReadDavix, WriteSteps
      <4>2. QED BY <4>1, OwnSteps
    <3>3. QED BY <3>1, <3>2
  <2>3. QED BY <2>1, <2>2 DEF WInv
<1>3. ASSUME NEW t \in Threads, Return(t) PROVE WInv'
  <2>1. /\ pc'[t] = "idle" /\ call'[t] = NoCall /\ fd' = fd
        /\ \A s \in Threads \ {t} : pc'[s] = pc[s] /\ call'[s] = call[s] /\ raced'[s] = raced[s]
    BY <1>1, <1>3, MoveToEffect DEF Return
  <2>2. \A s \in Threads \ {t} : WriteInv(s)'
    BY <1>1, <2>1, OthersWrite DEF Overtakes
  <2>3. WriteInv(t)'
    BY <2>1 DEF WriteInv, InCall
  <2>4. QED BY <2>2, <2>3 DEF WInv
<1>4. CASE UNCHANGED <<control, fd, raced>>
  BY <1>4 DEF control, WInv, WriteInv, InCall
<1>5. ASSUME NEW u \in Urls, NEW len \in StoreLengths, RemoteChange(u, len)
      PROVE  UNCHANGED <<control, fd, raced>>
  BY <1>5 DEF RemoteChange, history
<1>6. CASE UNCHANGED vars
  BY <1>4, <1>6 DEF vars, history
<1>7. QED BY <1>2, <1>3, <1>4, <1>5, <1>6, CallsWrite DEF Next

\* A Write that returns OK has put its bytes where it was asked to, unless another
\* call moved the handle between its seek and its write (Posix.cc:485-492), for any
\* number of threads and any short or failing writes.
THEOREM WritesLand == Spec => []WritesLandUnlessRaced
<1>1. Init => WInv
  BY DEF Init, WInv, WriteInv, InCall
<1>2. IInv /\ AnswerInv /\ WInv => WritesLandUnlessRaced
  BY DEF AnswerInv, Unanswered, Idle, WInv, WriteInv, WritesLandUnlessRaced, InCall, NoCall
<1>3. QED BY <1>1, <1>2, WriteStep, Inductive, AnswersLast, PTL DEF Spec

-----------------------------------------------------------------------------
(* Sequential reads *)

\* While only reads that avoid the Range header have moved the object, curr_offset is
\* davix's position, except between the transfer of such a read and its last step.
Continues(t) ==
  /\ pc[t] # "write_davix"
  /\ pc[t] = "read_seq" => fd.pos = call[t].offset
  /\ pc[t] \in {"read_seq", "read_jump"} => fd.pos = curr_offset
  /\ pc[t] = "read_done" => avoid_pread_ /\ fd.pos = OffsetReached(call[t])

Aligned ==
  ~drifted =>
    /\ is_open_ /\ offset_locker = NoThread => fd.pos = curr_offset
    /\ \A t \in Threads : Continues(t)

\* The control points at which a thread counts on davix's position.
Moving == {"write_davix", "read_seq", "read_jump", "read_done"}

\* A step that touches neither position, nor the lock, keeps them aligned.
LEMMA QuietAligned ==
  ASSUME Aligned, NEW t \in Threads, pc'[t] \notin Moving,
         UNCHANGED <<fd, curr_offset, drifted, offset_locker, is_open_>>,
         \A s \in Threads \ {t} : pc'[s] = pc[s] /\ call'[s] = call[s],
         \/ avoid_pread_' = avoid_pread_
         \/ \A s \in Threads \ {t} : ~InCall(s)
  PROVE  Aligned'
<1>1. ASSUME ~drifted, NEW s \in Threads PROVE Continues(s)'
  <2>1. CASE s = t
    BY <2>1 DEF Continues, Moving
  <2>2. CASE s # t
    <3>1. Continues(s) /\ pc'[s] = pc[s] /\ call'[s] = call[s]
      BY <1>1, <2>2 DEF Aligned
    <3>2. CASE avoid_pread_' = avoid_pread_
      BY <3>1, <3>2 DEF Continues, OffsetReached
    <3>3. CASE ~InCall(s)
      BY <3>1, <3>3 DEF Continues, InCall
    <3>4. QED BY <2>2, <3>2, <3>3
  <2>3. QED BY <2>1, <2>2
<1>2. QED BY <1>1 DEF Aligned

\* Open and Close.
LEMMA OpenCloseAligned ==
  ASSUME IInv, Aligned, NEW t \in Threads, OpenDavix(t) \/ CloseDavix(t)
  PROVE  Aligned'
<1>1. /\ TypeOK /\ Exclusive /\ Lifecycle(t) /\ Follows(t) /\ fd \in Handles
  BY StepsFollow DEF IInv, TypeOK, Steps
<1>2. InCall(t) /\ call[t].op \in {"Open", "Close"} /\ pc[t] \notin DataSteps
  BY <1>1 DEF OpenDavix, CloseDavix, InCall, Lifecycle, OpenSteps,
              DataSteps, ReadSteps, WriteSteps
<1>3. \A s \in Threads \ {t} : ~InCall(s)
  BY <1>1, <1>2 DEF Exclusive
<1>4. \A s \in Threads : pc'[s] \notin Moving
  BY <1>1, <1>2, <1>3
  DEF Follows, Moving, InCall, OpenSteps, DataSteps, ReadSteps, WriteSteps
<1>5. \A s \in Threads : Continues(s)'
  BY <1>4 DEF Continues, Moving
<1>6. CASE OpenDavix(t)
  <2>1. \/ UNCHANGED <<fd, is_open_, drifted, curr_offset, offset_locker>>
        \/ /\ fd'.pos = 0 /\ drifted' = (curr_offset # 0) /\ curr_offset' = curr_offset
    BY <1>6 DEF OpenDavix, NewHandle
  <2>2. QED BY <1>5, <2>1 DEF Aligned
<1>7. CASE CloseDavix(t)
  <2>1. /\ fd'.pos = fd.pos
        /\ is_open_' => is_open_
        /\ UNCHANGED <<drifted, curr_offset, offset_locker>>
    BY <1>1, <1>7 DEF CloseDavix, CloseFailed, history, Handles
  <2>2. QED BY <1>5, <2>1 DEF Aligned
<1>8. QED BY <1>6, <1>7

\* A Write drifts at its seek, if not before.
LEMMA WriteAligned ==
  ASSUME IInv, Aligned, NEW t \in Threads,
         WriteSeek(t) \/ WriteDavix(t) \/ WriteLoad(t) \/ WriteStore(t)
  PROVE  Aligned'
<1>1. TypeOK /\ Follows(t)
  BY StepsFollow DEF IInv, Steps
<1>2. CASE WriteDavix(t)
  BY <1>2 DEF WriteDavix, Aligned, Continues
<1>3. CASE WriteSeek(t)
  <2>1. \/ drifted'
        \/ /\ UNCHANGED <<fd, history, object>>
           /\ \E status : Fail(t, call[t], status)
    BY <1>3 DEF WriteSeek
  <2>2. (\E status : Fail(t, call[t], status)) => pc'[t] = "returned"
    BY <1>1, FailEffect DEF Returns, Moves, TypeOK
  <2>3. CASE drifted'
    BY <2>3 DEF Aligned
  <2>4. CASE UNCHANGED <<fd, history, object>> /\ pc'[t] = "returned"
    BY <1>1, <2>4, QuietAligned DEF Follows, history, object, Moving
  <2>5. QED BY <2>1, <2>2, <2>3, <2>4
<1>4. CASE WriteLoad(t)
  <2>1. pc'[t] = "write_store"
    BY <1>1, <1>4, MoveToEffect DEF WriteLoad
  <2>2. QED BY <1>1, <1>4, <2>1, QuietAligned DEF WriteLoad, Follows, history, object, Moving
<1>5. CASE WriteStore(t)
  <2>1. pc'[t] = "returned"
    BY <1>1, <1>5, AnswerEffect DEF WriteStore, Returns, Moves, SameCall, TypeOK
  <2>2. QED BY <1>1, <1>5, <2>1, QuietAligned DEF WriteStore, Follows, history, Moving
<1>6. QED BY <1>2, <1>3, <1>4, <1>5

\* With nothing drifted, one thread at most counts on davix's position.
LEMMA OneReader ==
  ASSUME IInv, Aligned, ~drifted, NEW t \in Threads, InSection(t)
  PROVE  \A s \in Threads \ {t} : pc[s] \notin Moving
BY DEF IInv, LockInv, Aligned, Continues, InSection, Moving

\* A Read that goes by the lock leaves the two positions where they were, or both
\* where it stopped.
LEMMA ReadAligned ==
  ASSUME IInv, Aligned, NEW t \in Threads,
         ReadLock(t) \/ ReadPositioned(t) \/ ReadSequential(t) \/ ReadDone(t)
  PROVE  Aligned'
<1>1. /\ TypeOK /\ LockInv /\ ModeInv /\ Lifecycle(t) /\ Follows(t)
      /\ call[t] \in Calls /\ fd \in Handles
  BY StepsFollow DEF IInv, TypeOK, Steps
<1>2. is_open_ /\ is_open_' = is_open_ /\ avoid_pread_' = avoid_pread_
  BY <1>1 DEF ReadLock, ReadPositioned, ReadSequential, ReadDone, Lifecycle, Follows,
              DataSteps, ReadSteps
<1> SUFFICES ASSUME ~drifted' PROVE Aligned'
  BY DEF Aligned
<1>3. ~drifted
  BY DEF ReadLock, ReadPositioned, ReadSequential, ReadDone, history
<1>4. Continues(t) /\ (offset_locker = NoThread => fd.pos = curr_offset)
  BY <1>2, <1>3 DEF Aligned
<1>5. \A s \in Threads \ {t} : pc'[s] = pc[s] /\ call'[s] = call[s]
  BY <1>1 DEF Follows
<1>6. Fail(t, call[t], "errInternal") => pc'[t] = "returned"
  BY <1>1, FailEffect DEF Returns, Moves
<1>7. CASE ReadLock(t)
  <2>1. /\ offset_locker = NoThread /\ offset_locker' = t /\ UNCHANGED <<fd, curr_offset>>
        /\ call'[t] = call[t]
        /\ pc'[t] = IF call[t].offset = curr_offset THEN "read_seq" ELSE "read_jump"
    BY <1>1, <1>7, MoveToEffect DEF ReadLock
  <2>2. Continues(t)'
    BY <1>4, <2>1 DEF Continues
  <2>3. \A s \in Threads \ {t} : Continues(s)'
    BY <1>2, <1>3, <1>5, <2>1 DEF Aligned, Continues, OffsetReached
  <2>4. offset_locker' # NoThread
    BY <2>1, ThreadsAssumption
  <2>5. QED BY <2>2, <2>3, <2>4 DEF Aligned
<1>8. CASE ReadFailed(t) /\ UNCHANGED <<fd, curr_offset>>
            /\ pc[t] \in {"read_range", "read_jump", "read_seq"}
  <2>1. pc'[t] = "returned"
    BY <1>6, <1>8 DEF ReadFailed
  <2>2. Continues(t)'
    BY <2>1 DEF Continues
  <2>3. \A s \in Threads \ {t} : Continues(s)'
    BY <1>2, <1>3, <1>5, <1>8 DEF Aligned, Continues, OffsetReached
  <2>4. offset_locker' = NoThread => fd'.pos = curr_offset'
    BY <1>1, <1>4, <1>8 DEF ReadFailed, Unlock, ModeInv, Continues
  <2>5. QED BY <2>2, <2>3, <2>4 DEF Aligned
<1>9. CASE ReadPositioned(t)
  <2>1. ReadFailed(t) /\ UNCHANGED <<fd, curr_offset>>
    BY <1>9 DEF ReadPositioned
  <2>2. QED BY <1>8, <1>9, <2>1 DEF ReadPositioned
<1>10. CASE ReadSequential(t)
  <2>1. pc[t] = "read_seq" /\ InSection(t) /\ avoid_pread_
    BY <1>1, <1>10 DEF ReadSequential, InSection, ModeInv
  <2>2. \/ ReadFailed(t) /\ UNCHANGED <<fd, curr_offset>>
        \/ \E n : /\ ReadMoved(t, n, fd.pos)
                  /\ fd' = [fd EXCEPT !.pos = @ + n]
    BY <1>10 DEF ReadSequential
  <2>3. ASSUME NEW n, ReadMoved(t, n, fd.pos), fd' = [fd EXCEPT !.pos = @ + n]
        PROVE  Aligned'
    <3> DEFINE d == [call[t] EXCEPT !.n = n, !.at = fd.pos]
    <3>1. OffsetReached(d) = call[t].offset + n
      BY <1>1 DEF Calls, OffsetReached
    <3>2. MoveTo(t, "read_done", d) /\ offset_locker' = offset_locker
      BY <2>3 DEF ReadMoved
    <3> HIDE DEF d
    <3>3. pc'[t] = "read_done" /\ call'[t] = d
      BY <1>1, <3>2, MoveToEffect
    <3>4. fd'.pos = call[t].offset + n
      BY <1>1, <1>4, <2>1, <2>3 DEF Continues, Handles
    <3>5. Continues(t)'
      BY <1>2, <2>1, <3>1, <3>3, <3>4 DEF Continues, OffsetReached
    <3>6. \A s \in Threads \ {t} : Continues(s)'
      BY <1>3, <1>5, <2>1, OneReader DEF Continues, Moving
    <3>7. offset_locker' # NoThread
      BY <1>1, <2>1, <3>2, ThreadsAssumption DEF LockInv
    <3>8. QED BY <3>5, <3>6, <3>7 DEF Aligned
  <2>4. QED BY <1>8, <2>1, <2>2, <2>3
<1>11. CASE ReadDone(t)
  <2>1. /\ pc[t] = "read_done" /\ curr_offset' = OffsetReached(call[t])
        /\ fd' = fd
    BY <1>11 DEF ReadDone
  <2>2. InSection(t) /\ fd'.pos = curr_offset'
    BY <1>4, <2>1 DEF Continues, InSection
  <2>3. pc'[t] = "returned"
    BY <1>1, <1>11, AnswerEffect DEF ReadDone, Returns, Moves, SameCall
  <2>4. Continues(t)'
    BY <2>3 DEF Continues
  <2>5. \A s \in Threads \ {t} : Continues(s)'
    BY <1>3, <1>5, <2>2, OneReader DEF Continues, Moving
  <2>6. QED BY <2>2, <2>4, <2>5 DEF Aligned
<1>12. QED BY <1>7, <1>9, <1>10, <1>11

\* The steps that have to do with neither position.
LEMMA OtherAligned ==
  ASSUME IInv, Aligned, NEW t \in Threads,
         \/ OpenStatDelete(t) \/ OpenUnlink(t) \/ OpenStatRead(t)
         \/ StatDavix(t) \/ StatFake(t) \/ ReadClamp(t) \/ VectorReadDavix(t)
  PROVE  Aligned'
<1>1. TypeOK /\ Follows(t)
  BY StepsFollow DEF IInv, Steps
<1>2. UNCHANGED <<fd, curr_offset, drifted, offset_locker, is_open_>>
  BY DEF OpenStatDelete, OpenUnlink, OpenStatRead, StatDavix, StatFake, ReadClamp,
         VectorReadDavix, object, history
<1>3. pc'[t] \notin Moving
  <2>1. CASE ReadClamp(t)
    BY <1>1, <2>1, MoveToEffect DEF ReadClamp, TransferStep, Moving
  <2>2. CASE ~ReadClamp(t)
    <3>1. pc[t] \notin ReadSteps \cup WriteSteps
      BY <2>2 DEF OpenStatDelete, OpenUnlink, OpenStatRead, StatDavix, StatFake,
                  VectorReadDavix, ReadSteps, WriteSteps
    <3>2. QED BY <1>1, <3>1 DEF Follows, Moving, ReadSteps, WriteSteps
  <2>3. QED BY <2>1, <2>2
<1>4. QED BY <1>1, <1>2, <1>3, QuietAligned DEF Follows

\* Every step keeps the two positions aligned.
LEMMA AlignedStep == IInv /\ Aligned /\ [Next]_vars => Aligned'
<1> SUFFICES ASSUME IInv, Aligned, [Next]_vars PROVE Aligned'
  OBVIOUS
<1>1. TypeOK
  BY DEF IInv
<1>2. ASSUME NEW t \in Threads, Steps(t) PROVE Aligned'
  BY <1>2, OpenCloseAligned, WriteAligned, ReadAligned, OtherAligned DEF Steps
<1>3. ASSUME NEW t \in Threads, CallsBy(t) PROVE Aligned'
  <2>1. Begins(t)
    BY <1>1, <1>3, CallsByBegins
  <2>2. UNCHANGED <<curr_offset, drifted>>
    BY <1>3
    DEF CallsBy, OpenCall, CloseCall, StatCall, SyncCall, ReadCall, VectorReadCall, WriteCall,
        StartOrRefuse, history, object
  <2>3. pc'[t] \notin Moving
    BY <2>1 DEF Begins, Moving, TransferStep, OpenSteps
  <2>4. \/ avoid_pread_' = avoid_pread_
        \/ \A s \in Threads \ {t} : ~InCall(s)
    BY <2>1 DEF Begins, MayStart
  <2>5. QED BY <2>1, <2>2, <2>3, <2>4, QuietAligned DEF Begins
<1>4. ASSUME NEW t \in Threads, Return(t) PROVE Aligned'
  <2>1. /\ pc'[t] = "idle"
        /\ \A s \in Threads \ {t} : pc'[s] = pc[s] /\ call'[s] = call[s]
        /\ UNCHANGED <<fd, curr_offset, drifted, offset_locker, is_open_, avoid_pread_>>
    BY <1>1, <1>4, MoveToEffect DEF Return, object
  <2>2. QED BY <2>1, QuietAligned DEF Moving
<1>5. CASE UNCHANGED <<object, control, fd, drifted>>
  BY <1>5 DEF object, control, Aligned, Continues, OffsetReached
<1>6. ASSUME NEW u \in Urls, NEW len \in StoreLengths, RemoteChange(u, len)
      PROVE  UNCHANGED <<object, control, fd, drifted>>
  BY <1>6 DEF RemoteChange, history
<1>7. CASE UNCHANGED vars
  BY <1>5, <1>7 DEF vars, history
<1>8. QED BY <1>2, <1>3, <1>4, <1>5, <1>6, <1>7 DEF Next

\* A read that avoids the Range header starts where it was asked to, as long as only
\* such reads have moved the object since it was opened at offset 0, in every
\* interleaving and after any short or failing reads (HttpFilePlugIn.cc:249-271).
THEOREM ReadsContinue == Spec => []SequentialReadsContinue
<1>1. Init => Aligned
  BY DEF Init, Aligned, Continues
<1>2. Aligned => SequentialReadsContinue
  BY DEF Aligned, Continues, SequentialReadsContinue
<1>3. QED BY <1>1, <1>2, AlignedStep, Inductive, PTL DEF Spec

-----------------------------------------------------------------------------
(* Reads that stay inside the file *)

\* No offset and size add up past uint64_t: XRootD's offsets are signed.
NoWrap == \A offset \in Offsets, size \in Sizes : offset + size < W64

Transferring == {"read_range", "read_lock", "read_seq", "read_jump"}

\* Past the clamp, a read of a file opened for reading asks for no more than filesize;
\* nothing has been written to such a file, so filesize stays what it was.
InsideOf(t) ==
  /\ pc[t] \in {"write_load", "write_store"} => Writable(fd)
  /\ pc[t] \in Transferring /\ ~Writable(fd) /\ call[t].offset <= filesize
     => call[t].offset + call[t].asked <= filesize

Inside == \A t \in Threads : InsideOf(t)

\* The first steps of a Read: past the test, or past the subtraction.
LEMMA ClampedStep ==
  ASSUME IInv, NoWrap, NEW t \in Threads,
         ReadClamp(t) \/ \E offset \in Offsets, size \in Sizes : ReadCall(t, offset, size)
  PROVE  InsideOf(t)' /\ UNCHANGED <<fd, filesize>>
<1>1. TypeOK /\ filesize \in Nat /\ call[t] \in Calls /\ W64 \in Nat \ {0} /\ W32 \in Nat \ {0}
  BY WordsAssumption DEF IInv, TypeOK
<1>2. CASE ReadClamp(t)
  <2> DEFINE d == [call[t] EXCEPT !.asked = Remaining(call[t].offset)]
  <2>1. d.offset = call[t].offset /\ d.asked = Remaining(call[t].offset) /\ d.offset \in Nat
    BY <1>1 DEF Calls
  <2>2. MoveTo(t, TransferStep, d) /\ UNCHANGED <<fd, filesize>>
    BY <1>2 DEF ReadClamp, object
  <2> HIDE DEF d
  <2>3. pc'[t] = TransferStep /\ call'[t] = d
    BY <1>1, <2>2, MoveToEffect
  <2>4. ASSUME d.offset <= filesize PROVE d.offset + d.asked <= filesize
    <3> DEFINE left == filesize - d.offset
               a == left % W64
               b == a % W32
    <3>1. left \in Nat
      BY <1>1, <2>1, <2>4
    <3> HIDE DEF left
    <3>2. a \in Nat /\ a <= left
      BY <1>1, <3>1
    <3> HIDE DEF a
    <3>3. b \in Nat /\ b <= a
      BY <1>1, <3>2
    <3>4. d.asked = b
      BY <2>1 DEF Remaining, a, left
    <3> HIDE DEF b
    <3>5. QED BY <1>1, <2>1, <3>1, <3>2, <3>3, <3>4 DEF left
  <2>5. QED BY <2>2, <2>3, <2>4 DEF InsideOf, TransferStep
<1>3. ASSUME NEW offset \in Offsets, NEW size \in Sizes, ReadCall(t, offset, size)
      PROVE  InsideOf(t)' /\ UNCHANGED <<fd, filesize>>
  <2> DEFINE c == [NoCall EXCEPT !.op = "Read", !.offset = offset, !.size = size,
                                 !.asked = size]
             point == IF ReachesPast(offset, size) THEN "read_clamp" ELSE TransferStep
  <2>1. c.offset = offset /\ c.asked = size /\ offset \in Nat /\ size \in Nat
    BY ArgumentsAssumption DEF NoCall
  <2>2. /\ MoveTo(t, point, c) \/ Fail(t, c, "errInvalidOp")
        /\ UNCHANGED <<fd, filesize>>
    BY <1>3 DEF ReadCall, StartOrRefuse, object
  <2>3. CASE Fail(t, c, "errInvalidOp")
    <3>1. pc'[t] = "returned"
      BY <1>1, <2>3 DEF Fail, MoveTo, TypeOK
    <3>2. QED BY <2>2, <3>1 DEF InsideOf, Transferring
  <2>4. CASE MoveTo(t, point, c)
    <3>1. offset + size < W64
      BY DEF NoWrap
    <3>2. ~ReachesPast(offset, size) => offset + size <= filesize
      BY <1>1, <2>1, <3>1 DEF ReachesPast
    <3>3. point \notin {"write_load", "write_store"}
          /\ (point \in Transferring => ~ReachesPast(offset, size))
      BY DEF TransferStep, Transferring
    <3> HIDE DEF c, point
    <3>4. pc'[t] = point /\ call'[t] = c
      BY <1>1, <2>4, MoveToEffect
    <3>5. QED BY <2>1, <2>2, <3>2, <3>3, <3>4 DEF InsideOf
  <2>5. QED BY <2>2, <2>3, <2>4
<1>4. QED BY <1>2, <1>3

\* What other steps do to the flags of the handle and to filesize.
LEMMA SizeStays ==
  ASSUME IInv, Inside, NEW t \in Threads, Steps(t), ~ReadClamp(t)
  PROVE  /\ \/ Writable(fd)' = Writable(fd) /\ (filesize' = filesize \/ Writable(fd))
            \/ \A s \in Threads \ {t} : ~InCall(s)
         /\ InsideOf(t)'
<1>1. /\ TypeOK /\ Follows(t) /\ Exclusive /\ Lifecycle(t) /\ InsideOf(t)
      /\ call[t] \in Calls /\ fd \in Handles
  BY StepsFollow DEF IInv, TypeOK, Inside
<1>2. \A status : Fail(t, call[t], status) => pc'[t] = "returned"
  BY <1>1, FailEffect DEF Returns, Moves
<1>3. pc'[t] = "returned" => InsideOf(t)'
  BY DEF InsideOf, Transferring
<1>4. CASE pc[t] \in OpenSteps \cup {"close_davix"}
  <2>1. InCall(t) /\ call[t].op \in {"Open", "Close"}
    BY <1>1, <1>4 DEF InCall, Lifecycle, OpenSteps
  <2>2. pc'[t] \notin DataSteps
    BY <1>1, <1>4 DEF Follows, OpenSteps, DataSteps, ReadSteps, WriteSteps
  <2>3. InsideOf(t)'
    BY <2>2 DEF InsideOf, Transferring, DataSteps, ReadSteps, WriteSteps
  <2>4. QED BY <1>1, <2>1, <2>3 DEF Exclusive
<1>5. CASE pc[t] \in {"stat_davix", "stat_fake", "vread_davix"}
  <2>1. UNCHANGED <<fd, filesize>>
    BY <1>5 DEF Steps, OpenStatDelete, OpenUnlink, OpenStatRead, OpenDavix, CloseDavix,
       StatDavix, StatFake, ReadClamp, ReadLock, ReadPositioned, ReadSequential, ReadDone,
       VectorReadDavix, WriteSeek, WriteDavix, WriteLoad, WriteStore, object
  <2>2. pc'[t] \notin ReadSteps \cup WriteSteps
    BY <1>1, <1>5 DEF Follows, ReadSteps, WriteSteps
  <2>3. QED BY <2>1, <2>2 DEF InsideOf, Writable, Transferring, ReadSteps, WriteSteps
<1>6. ASSUME ReadLock(t)
      PROVE  UNCHANGED <<fd, filesize>> /\ InsideOf(t)'
  <2>1. UNCHANGED <<fd, filesize>> /\ pc[t] \in Transferring /\ call'[t] = call[t]
        /\ pc'[t] \in {"read_seq", "read_jump"}
    BY <1>1, <1>6, MoveToEffect DEF ReadLock, Transferring
  <2>2. QED BY <1>1, <2>1 DEF InsideOf, Writable
<1>7. ASSUME ReadPositioned(t) \/ ReadSequential(t) \/ ReadDone(t)
      PROVE  /\ Writable(fd)' = Writable(fd) /\ filesize' = filesize
             /\ InsideOf(t)'
  <2>1. fd'.flags = fd.flags /\ filesize' = filesize
    BY <1>1, <1>7 DEF ReadPositioned, ReadSequential, ReadDone, Handles
  <2>2. pc'[t] \in {"returned", "read_done"}
    <3>1. ASSUME NEW n, NEW at, ReadMoved(t, n, at) PROVE pc'[t] = "read_done"
      BY <1>1, <3>1, MoveToEffect DEF ReadMoved
    <3>2. ReadDone(t) => pc'[t] = "returned"
      BY <1>1 DEF ReadDone, Answer, MoveTo, TypeOK
    <3>3. QED BY <1>2, <1>7, <3>1, <3>2 DEF ReadPositioned, ReadSequential, ReadFailed
  <2>3. QED BY <2>1, <2>2 DEF InsideOf, Transferring, Writable
<1>8. ASSUME WriteSeek(t) \/ WriteDavix(t) \/ WriteLoad(t) \/ WriteStore(t)
      PROVE  /\ Writable(fd)' = Writable(fd) /\ (filesize' = filesize \/ Writable(fd))
             /\ InsideOf(t)'
  <2>1. fd'.flags = fd.flags
    BY <1>1, <1>8 DEF WriteSeek, WriteDavix, WriteLoad, WriteStore, SeekTo, Handles
  <2>2. pc'[t] \notin Transferring
    BY <1>1, <1>8 DEF Follows, WriteSeek, WriteDavix, WriteLoad, WriteStore, Transferring,
       ReadSteps, WriteSteps
  <2>3. filesize' = filesize \/ Writable(fd)
    BY <1>1, <1>8 DEF WriteSeek, WriteDavix, WriteLoad, WriteStore, InsideOf, object
  <2>4. pc'[t] \in {"write_load", "write_store"} => Writable(fd)
    <3>1. CASE WriteSeek(t)
      BY <1>1, <1>2, <3>1, MoveToEffect DEF WriteSeek
    <3>2. CASE WriteDavix(t)
      <4>1. ASSUME NEW r \in PWriteWrite(fd, call[t].size), r.status = "ok"
            PROVE  Writable(fd)
        BY <4>1 DEF PWriteWrite, DavixWrite, Internal, Fault, Failed
      <4>2. QED BY <1>2, <3>2, <4>1 DEF WriteDavix
    <3>3. CASE WriteLoad(t) \/ WriteStore(t)
      BY <1>1, <3>3 DEF WriteLoad, WriteStore, InsideOf
    <3>4. QED BY <1>8, <3>1, <3>2, <3>3
  <2>5. QED BY <2>1, <2>2, <2>3, <2>4 DEF InsideOf, Writable
<1>9. CASE pc[t] \in (ReadSteps \cup WriteSteps)
  <2>1. \/ ReadLock(t) \/ ReadPositioned(t) \/ ReadSequential(t) \/ ReadDone(t)
        \/ WriteSeek(t) \/ WriteDavix(t) \/ WriteLoad(t) \/ WriteStore(t)
    BY <1>9 DEF Steps, OpenStatDelete, OpenUnlink, OpenStatRead, OpenDavix, CloseDavix,
       StatDavix, StatFake, VectorReadDavix, ReadSteps, WriteSteps
  <2>2. QED BY <1>6, <1>7, <1>8, <2>1 DEF Writable
<1>10. QED BY <1>1, <1>4, <1>5, <1>9 DEF Follows, DataSteps

LEMMA InsideStep == NoWrap => (IInv /\ Inside /\ [Next]_vars => Inside')
<1> SUFFICES ASSUME NoWrap, IInv, Inside, [Next]_vars PROVE Inside'
  OBVIOUS
<1>1. TypeOK
  BY DEF IInv
<1>2. ASSUME NEW t \in Threads,
             \A s \in Threads \ {t} : pc'[s] = pc[s] /\ call'[s] = call[s],
             \/ Writable(fd)' = Writable(fd) /\ (filesize' = filesize \/ Writable(fd))
             \/ \A s \in Threads \ {t} : ~InCall(s),
             InsideOf(t)'
      PROVE  Inside'
  BY <1>2 DEF Inside, InsideOf, InCall, Transferring
<1>3. ASSUME NEW t \in Threads, Steps(t) PROVE Inside'
  <2>1. CASE ReadClamp(t)
    BY <1>2, <1>3, <2>1, ClampedStep, StepsFollow DEF Follows, Writable
  <2>2. CASE ~ReadClamp(t)
    BY <1>2, <1>3, <2>2, SizeStays, StepsFollow DEF Follows
  <2>3. QED BY <2>1, <2>2
<1>4. ASSUME NEW t \in Threads, CallsBy(t) PROVE Inside'
  <2>1. Begins(t)
    BY <1>1, <1>4, CallsByBegins
  <2>2. filesize' = filesize
    BY <1>4 DEF CallsBy, OpenCall, CloseCall, StatCall, SyncCall, ReadCall, VectorReadCall,
       WriteCall, StartOrRefuse, object
  <2>3. InsideOf(t)'
    <3>1. CASE \E offset \in Offsets, size \in Sizes : ReadCall(t, offset, size)
      BY <3>1, ClampedStep
    <3>2. CASE ~(\E offset \in Offsets, size \in Sizes : ReadCall(t, offset, size))
      <4>1. ASSUME NEW c, NEW point \in {"close_davix", "stat_davix", "vread_davix", "write_seek"},
                   StartOrRefuse(t, point, c)
            PROVE  pc'[t] \in {point, "returned"}
        BY <1>1, <4>1 DEF StartOrRefuse, Fail, MoveTo, TypeOK
      <4>2. SyncCall(t) => pc'[t] = "returned"
        BY <1>1 DEF SyncCall, MoveTo, TypeOK
      <4>3. ASSUME NEW u \in Urls, NEW flags \in FlagSets, OpenCall(t, u, flags)
            PROVE  pc'[t] \in OpenSteps \cup {"returned"}
        BY <1>1, <4>3 DEF OpenCall, Fail, MoveTo, TypeOK, FirstOpenStep, OpenSteps
      <4>4. pc'[t] \notin Transferring \cup {"write_load", "write_store"}
        BY <1>4, <3>2, <4>1, <4>2, <4>3
        DEF CallsBy, CloseCall, StatCall, VectorReadCall, WriteCall, Transferring, OpenSteps
      <4>5. QED BY <4>4 DEF InsideOf
    <3>3. QED BY <3>1, <3>2
  <2>4. QED BY <1>2, <2>1, <2>2, <2>3 DEF Begins, Writable
<1>5. ASSUME NEW t \in Threads, Return(t) PROVE Inside'
  <2>1. /\ pc'[t] = "idle" /\ UNCHANGED <<fd, filesize>>
        /\ \A s \in Threads \ {t} : pc'[s] = pc[s] /\ call'[s] = call[s]
    BY <1>1, <1>5, MoveToEffect DEF Return, object
  <2>2. QED BY <1>2, <2>1 DEF InsideOf, Writable, Transferring
<1>6. CASE UNCHANGED <<object, control, fd>>
  BY <1>6 DEF object, control, Inside, InsideOf, Writable
<1>7. ASSUME NEW u \in Urls, NEW len \in StoreLengths, RemoteChange(u, len)
      PROVE  UNCHANGED <<object, control, fd>>
  BY <1>7 DEF RemoteChange
<1>8. CASE UNCHANGED vars
  BY <1>6, <1>8 DEF vars
<1>9. QED BY <1>3, <1>4, <1>5, <1>6, <1>7, <1>8 DEF Next

\* While filesize is no more than what the server has, a read of a file opened for
\* reading that starts inside filesize stays inside the file, whatever the interleaving
\* and however the file changes on the server (HttpFilePlugIn.cc:246-247).
THEOREM StayInside == ASSUME NoWrap PROVE Spec => []ReadsStayInside
<1>0. IInv /\ Inside /\ [Next]_vars => Inside'
  BY InsideStep
<1>1. Init => Inside
  BY DEF Init, Inside, InsideOf, Transferring
<1>2. IInv /\ Inside => ReadsStayInside
  <2> SUFFICES ASSUME IInv, Inside, NEW t \in Threads, pc[t] \in Transferring,
                      ~Writable(fd), Remote # Absent,
                      call[t].offset <= filesize, filesize <= Remote
               PROVE  call[t].offset + call[t].asked <= Remote
    BY DEF ReadsStayInside, Transferring
  <2>1. call[t].offset \in Nat /\ call[t].asked \in Nat /\ filesize \in Nat /\ Remote \in Nat
    BY LengthsOfFiles DEF IInv, TypeOK, Calls, Lengths
  <2>2. QED BY <2>1 DEF Inside, InsideOf
<1>3. QED BY <1>0, <1>1, <1>2, Inductive, PTL DEF Spec

-----------------------------------------------------------------------------
(* Sizes Stat invents *)

\* No caller creates a file to read from it.
CreatedToWrite ==
  \A flags \in FlagSets :
    flags \cap {"New", "Delete"} # {} => flags \cap {"Write", "Update"} # {}

\* No other client removes a file; they may replace it, and make new ones.
NothingRemoved ==
  [][remote' # remote => \A u \in Urls : store[u] # Absent => store'[u] # Absent]_vars

\* A file opened for reading is on the server; an Open keeps the flags it began with.
OnServer ==
  /\ is_open_ /\ ~Writable(fd) => store[fd.url] # Absent
  /\ \A t \in Threads :
       /\ pc[t] = "stat_fake" => Writable(fd)
       /\ pc[t] \in OpenSteps => call[t].flags \in FlagSets

\* A data call changes neither the flags of the handle nor what is on the server.
LEMMA DataStepsKeepHandle ==
  ASSUME IInv, NEW t \in Threads, Steps(t), pc[t] \in DataSteps
  PROVE  fd'.flags = fd.flags /\ store' = store
<1>1. fd \in Handles
  BY DEF IInv, TypeOK
<1>2. \/ StatDavix(t) \/ StatFake(t) \/ ReadClamp(t) \/ ReadLock(t) \/ ReadPositioned(t)
      \/ ReadSequential(t) \/ ReadDone(t) \/ VectorReadDavix(t) \/ WriteSeek(t)
      \/ WriteDavix(t) \/ WriteLoad(t) \/ WriteStore(t)
  BY DEF Steps, OpenStatDelete, OpenUnlink, OpenStatRead, OpenDavix, CloseDavix, DataSteps,
         ReadSteps, WriteSteps
<1>3. CASE ReadSequential(t) \/ WriteSeek(t) \/ WriteDavix(t)
  BY <1>1, <1>3 DEF ReadSequential, WriteSeek, WriteDavix, SeekTo, Handles
<1>4. CASE ~(ReadSequential(t) \/ WriteSeek(t) \/ WriteDavix(t))
  BY <1>2, <1>4 DEF StatDavix, StatFake, ReadClamp, ReadLock, ReadPositioned, ReadDone,
     VectorReadDavix, WriteLoad, WriteStore
<1>5. QED BY <1>3, <1>4

\* Only a file the server does not have gets an invented size.
LEMMA InventedIsAbsent ==
  ASSUME IInv, OnServer, NEW t \in Threads, Steps(t), pc'[t] = "stat_fake"
  PROVE  Writable(fd)
<1>1. /\ TypeOK /\ Follows(t) /\ Lifecycle(t) /\ OpenStateMatchesHandle
  BY StepsFollow DEF IInv
<1>2. pc[t] \in DataSteps \ (ReadSteps \cup WriteSteps) /\ is_open_ /\ url_ = fd.url
  BY <1>1 DEF Follows, Lifecycle, OpenStateMatchesHandle, OpenSteps, DataSteps, ReadSteps,
     WriteSteps
<1>3. \A c : Answer(t, c) => pc'[t] = "returned"
  BY <1>1 DEF Answer, MoveTo, TypeOK
<1>4. \A c, status : Fail(t, c, status) => pc'[t] = "returned"
  BY <1>1 DEF Fail, MoveTo, TypeOK
<1>5. StatDavix(t)
  BY <1>2, <1>3, <1>4
  DEF Steps, OpenStatDelete, OpenUnlink, OpenStatRead, OpenDavix, CloseDavix, StatFake,
      ReadClamp, ReadLock, ReadPositioned, ReadSequential, ReadDone, VectorReadDavix,
      WriteSeek, WriteDavix, WriteLoad, WriteStore, OpenSteps, DataSteps, ReadSteps,
      WriteSteps
<1>6. PICK r \in Stat(store[url_]) : r.status = "NotFound"
  BY <1>3, <1>4, <1>5 DEF StatDavix
<1>7. store[url_] = Absent
  <2>1. PICK d \in DavixStat(store[url_]) : r \in Filled(d)
    BY <1>6 DEF Stat
  <2>2. d \in Fault \/ d \in {Failed("FileNotFound")} \/ d = Returned(store[url_])
    BY <2>1 DEF DavixStat
  <2>3. r = Converted(d)
    BY <1>6, <2>1 DEF Filled
  <2>4. CASE d \in Fault
    <3>1. PICK code \in {"PermissionRefused", "Other"} : d = Failed(code)
      BY <2>4, DavixAssumption DEF Fault
    <3>2. r.status = ErrCodeConvert(code)
      BY <2>3, <3>1 DEF Converted, Failed
    <3>3. QED BY <1>6, <3>1, <3>2 DEF ErrCodeConvert
  <2>5. CASE d \notin Fault
    <3>1. store[url_] # Absent => store[url_] \in Nat
      BY <1>1, <1>2, UrlsAssumption DEF TypeOK, Lengths, OpenStateMatchesHandle
    <3>2. store[url_] # Absent => d = Returned(store[url_])
      BY <2>1, <2>5 DEF DavixStat
    <3>3. store[url_] # Absent => r.status = "ok"
      BY <2>3, <3>1, <3>2 DEF Converted, Returned
    <3>4. QED BY <1>6, <3>3
  <2>6. QED BY <2>4, <2>5
<1>8. QED BY <1>2, <1>7 DEF OnServer

\* An Open that succeeds without writing has found the file.
LEMMA OpenFindsFile ==
  ASSUME CreatedToWrite, IInv, OnServer, NEW t \in Threads, OpenDavix(t),
         ~is_open_, is_open_', ~Writable(fd)'
  PROVE  store'[fd'.url] # Absent
<1> DEFINE u == call[t].url
           flags == MakePosixOpenFlags(call[t].flags)
<1>1. PICK r \in Open(store[u], flags) :
        r.status = "ok" /\ fd' = NewHandle(u, flags, store[u]) /\ store' = store
  BY DEF OpenDavix
<1>2. fd'.flags = flags /\ fd'.url = u
  BY <1>1 DEF NewHandle
<1>3. call[t].flags \in FlagSets /\ call[t].flags \cap {"Write", "Update"} = {}
  BY <1>2 DEF OpenDavix, OnServer, OpenSteps, Writable, MakePosixOpenFlags
<1>4. "O_CREAT" \notin flags
  BY <1>3 DEF CreatedToWrite, MakePosixOpenFlags
<1> HIDE DEF flags, u
<1>5. ASSUME store[u] = Absent PROVE FALSE
  <2>1. PICK d \in DavixOpen(store[u], flags) : r = Converted(d)
    BY <1>1 DEF Open
  <2>2. d.n < 0 /\ d.err \in {"PermissionRefused", "Other", "FileNotFound"}
    BY <1>4, <1>5, <2>1, DavixAssumption DEF DavixOpen, Fault, Failed
  <2>3. r.status # "ok"
    BY <2>1, <2>2 DEF Converted, ErrCodeConvert
  <2>4. QED BY <1>1, <2>3
<1>6. QED BY <1>1, <1>2, <1>5

\* What OnServer says of the threads, when none of them comes to invent a size.
LEMMA ThreadsOnServer ==
  ASSUME TypeOK, OnServer, NEW t \in Threads,
         \A s \in Threads \ {t} : pc'[s] = pc[s] /\ call'[s] = call[s],
         \/ Writable(fd)' = Writable(fd)
         \/ \A s \in Threads \ {t} : ~InCall(s),
         pc'[t] # "stat_fake", pc'[t] \in OpenSteps => call'[t].flags \in FlagSets
  PROVE  \A s \in Threads : /\ pc'[s] = "stat_fake" => Writable(fd)'
                            /\ pc'[s] \in OpenSteps => call'[s].flags \in FlagSets
BY DEF OnServer, InCall

LEMMA OnServerStep ==
  ASSUME CreatedToWrite
  PROVE  IInv /\ OnServer /\ Contract!Promises /\ [Next]_vars
         /\ [remote' # remote => \A u \in Urls : store[u] # Absent => store'[u] # Absent]_vars
         => OnServer'
<1> SUFFICES ASSUME IInv, OnServer, Contract!Promises, [Next]_vars,
                    [remote' # remote =>
                       \A u \in Urls : store[u] # Absent => store'[u] # Absent]_vars
             PROVE  OnServer'
  OBVIOUS
<1>1. TypeOK /\ Exclusive /\ OpenStateMatchesHandle /\ \A t \in Threads : Lifecycle(t)
  BY DEF IInv
<1>2. ASSUME NEW t \in Threads, Steps(t), pc[t] \in DataSteps PROVE OnServer'
  <2>1. /\ Follows(t) /\ fd'.flags = fd.flags /\ fd'.url = fd.url /\ store' = store
        /\ is_open_' = is_open_
    BY <1>2, StepsFollow, DataStepsKeepHandle DEF Follows
  <2>2. is_open_' /\ ~Writable(fd)' => store'[fd'.url] # Absent
    BY <2>1 DEF OnServer, Writable
  <2>3. CASE pc'[t] = "stat_fake"
    <3>1. Writable(fd)'
      BY <1>2, <2>1, <2>3, InventedIsAbsent DEF Writable
    <3>2. \A s \in Threads : pc'[s] \in OpenSteps => call'[s].flags \in FlagSets
      BY <2>1, <2>3 DEF Follows, OnServer, OpenSteps
    <3>3. QED BY <2>2, <3>1, <3>2 DEF OnServer
  <2>4. CASE pc'[t] # "stat_fake"
    <3>1. pc'[t] \notin OpenSteps
      BY <1>2, <2>1 DEF Follows, OpenSteps, DataSteps, ReadSteps, WriteSteps
    <3>2. Writable(fd)' = Writable(fd)
      BY <2>1 DEF Writable
    <3>3. \A s \in Threads : /\ pc'[s] = "stat_fake" => Writable(fd)'
                             /\ pc'[s] \in OpenSteps => call'[s].flags \in FlagSets
      BY <1>1, <2>1, <2>4, <3>1, <3>2, ThreadsOnServer DEF Follows
    <3>4. QED BY <2>2, <3>3 DEF OnServer
  <2>5. QED BY <2>3, <2>4
<1>3. ASSUME NEW t \in Threads, Steps(t), pc[t] \in OpenSteps \cup {"close_davix"}
      PROVE  OnServer'
  <2>1. /\ Follows(t) /\ InCall(t) /\ call[t].op \in {"Open", "Close"}
        /\ pc[t] \in OpenSteps => call[t].op = "Open" /\ call[t].flags \in FlagSets
    BY <1>1, <1>3, StepsFollow DEF Lifecycle, InCall, OpenSteps, OnServer
  <2>2. \A s \in Threads \ {t} : ~InCall(s)
    BY <1>1, <2>1 DEF Exclusive
  <2>3. \/ OpenStatDelete(t) \/ OpenUnlink(t) \/ OpenStatRead(t) \/ OpenDavix(t)
        \/ CloseDavix(t)
    BY <1>3 DEF Steps, StatDavix, StatFake, ReadClamp, ReadLock, ReadPositioned,
       ReadSequential, ReadDone, VectorReadDavix, WriteSeek, WriteDavix, WriteLoad,
       WriteStore, OpenSteps
  <2>4. pc'[t] # "stat_fake" /\ (pc'[t] \in OpenSteps => pc[t] \in OpenSteps)
    BY <1>3, <2>1 DEF Follows, OpenSteps, DataSteps, ReadSteps, WriteSteps
  <2>5. pc'[t] \in OpenSteps => call'[t].flags \in FlagSets
    <3>1. \A c, status : Fail(t, c, status) => pc'[t] = "returned"
      BY <1>1 DEF Fail, MoveTo, TypeOK
    <3>2. \A c : Answer(t, c) => pc'[t] = "returned"
      BY <1>1 DEF Answer, MoveTo, TypeOK
    <3>3. \A point : MoveTo(t, point, call[t]) => call'[t] = call[t]
      BY <1>1, MoveToEffect
    <3>4. pc'[t] \in OpenSteps => call'[t] = call[t]
      BY <2>3, <3>1, <3>2, <3>3
      DEF OpenStatDelete, OpenUnlink, OpenStatRead, OpenDavix, CloseDavix, CloseFailed,
          OpenSteps
    <3>5. QED BY <2>1, <2>4, <3>4
  <2>6. \A s \in Threads : /\ pc'[s] = "stat_fake" => Writable(fd)'
                           /\ pc'[s] \in OpenSteps => call'[s].flags \in FlagSets
    BY <1>1, <2>1, <2>2, <2>4, <2>5, ThreadsOnServer DEF Follows
  <2>7. pc[t] \in OpenSteps => ~is_open_
    <3>1. Contract!OpenThroughout(t) /\ ContractCalls[t].op = call[t].op
      BY DEF Contract!Promises, ContractCalls
    <3>2. pc[t] \in OpenSteps => Contract!Busy(t)
      BY DEF Contract!Busy, ContractCalls, OpenSteps
    <3>3. QED BY <2>1, <3>1, <3>2 DEF Contract!OpenThroughout
  <2>8. is_open_' /\ ~Writable(fd)' => store'[fd'.url] # Absent
    <3>1. CASE OpenDavix(t)
      BY <2>7, <3>1, OpenFindsFile DEF OpenDavix, OpenSteps
    <3>2. CASE OpenStatDelete(t) \/ OpenUnlink(t) \/ OpenStatRead(t)
      BY <2>7, <3>2 DEF OpenStatDelete, OpenUnlink, OpenStatRead, OpenSteps, object
    <3>3. CASE CloseDavix(t)
      <4>1. ~is_open_' \/ (UNCHANGED <<fd, is_open_>> /\ store' \in {store, Stored})
        BY <3>3 DEF CloseDavix, CloseFailed
      <4>2. QED BY <4>1 DEF OnServer, Stored, Writable
    <3>4. QED BY <2>3, <3>1, <3>2, <3>3
  <2>9. QED BY <2>6, <2>8 DEF OnServer
<1>4. ASSUME NEW t \in Threads, CallsBy(t) PROVE OnServer'
  <2>1. Begins(t) /\ UNCHANGED <<is_open_, fd>>
    BY <1>1, <1>4, CallsByBegins DEF Begins
  <2>2. store' = store
    BY <1>4 DEF CallsBy, OpenCall, CloseCall, StatCall, SyncCall, ReadCall, VectorReadCall,
       WriteCall, StartOrRefuse
  <2>3. pc'[t] # "stat_fake"
    BY <2>1 DEF Begins, OpenSteps, TransferStep
  <2>4. pc'[t] \in OpenSteps => call'[t].flags \in FlagSets
    <3>1. CASE \E u \in Urls, flags \in FlagSets : OpenCall(t, u, flags)
      <4>1. PICK u \in Urls, flags \in FlagSets : OpenCall(t, u, flags)
        BY <3>1
      <4> DEFINE c == [NoCall EXCEPT !.op = "Open", !.url = u, !.flags = flags]
      <4>2. c.flags = flags
        BY DEF NoCall
      <4>3. Fail(t, c, "errInvalidOp") \/ MoveTo(t, FirstOpenStep(flags), c)
        BY <4>1 DEF OpenCall
      <4> HIDE DEF c
      <4>4. Fail(t, c, "errInvalidOp") => pc'[t] = "returned"
        BY <1>1 DEF Fail, MoveTo, TypeOK
      <4>5. MoveTo(t, FirstOpenStep(flags), c) => call'[t] = c
        BY <1>1, MoveToEffect
      <4>6. QED BY <4>2, <4>3, <4>4, <4>5 DEF OpenSteps
    <3>2. CASE ~\E u \in Urls, flags \in FlagSets : OpenCall(t, u, flags)
      <4>1. ASSUME NEW c, NEW point, StartOrRefuse(t, point, c), point \notin OpenSteps
            PROVE  pc'[t] \notin OpenSteps
        BY <1>1, <4>1 DEF StartOrRefuse, Fail, MoveTo, TypeOK, OpenSteps
      <4>2. SyncCall(t) => pc'[t] = "returned"
        BY <1>1 DEF SyncCall, MoveTo, TypeOK
      <4>3. CloseCall(t) \/ StatCall(t) => pc'[t] \notin OpenSteps
        BY <4>1 DEF CloseCall, StatCall, OpenSteps
      <4>4. ASSUME NEW offset, NEW size
            PROVE  ReadCall(t, offset, size) \/ VectorReadCall(t, offset, size)
                   \/ WriteCall(t, offset, size) => pc'[t] \notin OpenSteps
        BY <4>1 DEF ReadCall, VectorReadCall, WriteCall, TransferStep, OpenSteps
      <4>5. QED BY <1>4, <3>2, <4>2, <4>3, <4>4 DEF CallsBy, OpenSteps
    <3>3. QED BY <3>1, <3>2
  <2>5. Writable(fd)' = Writable(fd)
    BY <2>1 DEF Writable
  <2>6. \A s \in Threads : /\ pc'[s] = "stat_fake" => Writable(fd)'
                           /\ pc'[s] \in OpenSteps => call'[s].flags \in FlagSets
    BY <1>1, <2>1, <2>3, <2>4, <2>5, ThreadsOnServer DEF Begins
  <2>7. QED BY <2>1, <2>2, <2>5, <2>6 DEF OnServer
<1>5. ASSUME NEW t \in Threads, Return(t) PROVE OnServer'
  <2>1. /\ pc'[t] = "idle" /\ UNCHANGED <<is_open_, fd, store>>
        /\ \A s \in Threads \ {t} : pc'[s] = pc[s] /\ call'[s] = call[s]
    BY <1>1, <1>5, MoveToEffect DEF Return, object
  <2>2. QED BY <2>1 DEF OnServer, Writable, OpenSteps
<1>6. ASSUME NEW u \in Urls, NEW len \in StoreLengths, RemoteChange(u, len) PROVE OnServer'
  <2>1. UNCHANGED <<is_open_, url_, fd, pc, call>> /\ remote' = remote + 1
    BY <1>6 DEF RemoteChange, object, control
  <2>2. remote' # remote
    BY <1>1, <2>1 DEF TypeOK
  <2>3. \A v \in Urls : store[v] # Absent => store'[v] # Absent
    BY <2>2 DEF vars
  <2>4. is_open_ => fd.url \in Urls
    BY <1>1 DEF OpenStateMatchesHandle, TypeOK
  <2>5. QED BY <2>1, <2>3, <2>4 DEF OnServer, Writable
<1>7. CASE UNCHANGED vars
  BY <1>7 DEF vars, object, control, OnServer, Writable
<1>8. ASSUME NEW t \in Threads, Steps(t) PROVE OnServer'
  BY <1>2, <1>3, <1>8, StepsFollow DEF Follows
<1>9. QED BY <1>4, <1>5, <1>6, <1>7, <1>8 DEF Next

\* The comment "the only time this happen is a newly created file" is right as long as
\* nobody else removes files: then Stat invents a size for files open for writing only,
\* with any number of threads and under every fault of davix (HttpFilePlugIn.cc:214-221).
THEOREM InventedForNew ==
  ASSUME CreatedToWrite
  PROVE  Spec /\ NothingRemoved => []FakedStatIsNewFile
<1>1. Init => OnServer
  BY DEF Init, OnServer, OpenSteps
<1>2. OnServer => FakedStatIsNewFile
  BY DEF OnServer, FakedStatIsNewFile
<1>3. IInv /\ OnServer /\ Contract!Promises /\ [Next]_vars
      /\ [remote' # remote => \A u \in Urls : store[u] # Absent => store'[u] # Absent]_vars
      => OnServer'
  BY OnServerStep
<1>4. QED BY <1>1, <1>2, <1>3, Inductive, PromisesKept, PTL DEF Spec, NothingRemoved
=============================================================================
