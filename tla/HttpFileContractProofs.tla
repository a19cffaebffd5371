----------------------- MODULE HttpFileContractProofs -----------------------
(***************************************************************************)
(* HttpFilePlugIn implements FileContract.  HttpFilePlugInProofs says      *)
(* where a step takes a thread; here is added what it does to the answer   *)
(* of the call, and each step is matched with a step of the contract.      *)
(***************************************************************************)
EXTENDS HttpFilePlugInProofs

\* A call under way has answered nobody and has no status yet.
Unanswered(t) == InCall(t) => call[t].status = "none" /\ call[t].answers = 0

\* A thread between two calls has no call.
Idle(t) == pc[t] = "idle" => call[t] = NoCall

AnswerInv == \A t \in Threads : Unanswered(t) /\ Idle(t)

-----------------------------------------------------------------------------
(* What a step does to the answer. *)

SameAnswer(d, c) == d.op = c.op /\ d.status = c.status /\ d.answers = c.answers

\* t goes on with the call b, ends it well, or ends it in an error.
GoesOn(t, b) == InCall(t)' /\ SameAnswer(call'[t], b)

Succeeds(t, b) ==
  /\ pc'[t] = "returned" /\ call'[t].op = b.op
  /\ call'[t].status = "ok" /\ call'[t].answers = b.answers + 1

Fails(t, b) ==
  /\ pc'[t] = "returned" /\ call'[t].op = b.op
  /\ call'[t].status # "ok" /\ call'[t].answers = b.answers

\* MoveTo a point inside a method goes on with the call.
LEMMA MoveGoesOn ==
  ASSUME TypeOK, NEW t \in Threads, NEW point, point \notin {"idle", "returned"},
         NEW b, NEW d, SameAnswer(d, b), MoveTo(t, point, d)
  PROVE  GoesOn(t, b)
BY MoveToEffect DEF GoesOn, InCall

\* Fail with an error status ends the call in an error and answers nobody.
LEMMA FailFails ==
  ASSUME TypeOK, NEW t \in Threads, NEW c \in Calls, NEW status, status # "ok",
         Fail(t, c, status)
  PROVE  Fails(t, c)
<1> DEFINE d == [c EXCEPT !.status = status]
<1>1. d.op = c.op /\ d.status = status /\ d.answers = c.answers
  BY DEF Calls
<1>2. MoveTo(t, "returned", d)
  BY DEF Fail
<1> HIDE DEF d
<1>3. QED BY <1>1, <1>2, MoveToEffect DEF Fails

\* Answer ends the call well and answers once.
LEMMA AnswerSucceeds ==
  ASSUME TypeOK, NEW t \in Threads, NEW c \in Calls, NEW b, SameAnswer(c, b), Answer(t, c)
  PROVE  Succeeds(t, b)
<1> DEFINE d == [c EXCEPT !.status = "ok", !.answers = @ + 1]
<1>1. d.op = b.op /\ d.status = "ok" /\ d.answers = b.answers + 1
  BY DEF Calls, SameAnswer
<1>2. MoveTo(t, "returned", d)
  BY DEF Answer
<1> HIDE DEF d
<1>3. QED BY <1>1, <1>2, MoveToEffect DEF Succeeds

\* The results of a call do not touch its answer.
LEMMA ResultsKeepAnswer ==
  ASSUME NEW c \in Calls, NEW n, NEW at, NEW k
  PROVE  /\ SameAnswer(c, c)
         /\ SameAnswer([c EXCEPT !.n = n], c)
         /\ SameAnswer([c EXCEPT !.n = n, !.at = at], c)
         /\ SameAnswer([c EXCEPT !.n = n, !.faked = TRUE], c)
         /\ SameAnswer([c EXCEPT !.asked = k], c)
         /\ SameAnswer([c EXCEPT !.sum = k], c)
BY DEF Calls, SameAnswer

-----------------------------------------------------------------------------
(* How the steps of the methods end. *)

\* What any step inside a method comes to, for its caller.
Ends(t) ==
  \/ GoesOn(t, call[t]) /\ is_open_' = is_open_
  \/ Succeeds(t, call[t]) /\ is_open_' = (call[t].op # "Close")
  \/ Fails(t, call[t]) /\ is_open_' = is_open_

\* Open.
LEMMA OpenEnds ==
  ASSUME IInv, NEW t \in Threads,
         OpenStatDelete(t) \/ OpenUnlink(t) \/ OpenStatRead(t) \/ OpenDavix(t)
  PROVE  Ends(t)
<1>1. TypeOK /\ call[t] \in Calls /\ Lifecycle(t)
  BY DEF IInv, TypeOK
<1>2. SameAnswer(call[t], call[t])
  BY DEF SameAnswer
<1>3. CASE OpenStatDelete(t)
  <2>1. \/ MoveTo(t, "open_unlink", call[t])
        \/ MoveTo(t, "open_davix", call[t])
    BY <1>3 DEF OpenStatDelete
  <2>2. GoesOn(t, call[t])
    BY <1>1, <1>2, <2>1, MoveGoesOn
  <2>3. QED BY <1>3, <2>2 DEF OpenStatDelete, object, Ends
<1>4. CASE OpenUnlink(t)
  <2>1. GoesOn(t, call[t]) \/ Fails(t, call[t])
    BY <1>1, <1>2, <1>4, MoveGoesOn, FailFails DEF OpenUnlink
  <2>2. QED BY <1>4, <2>1 DEF OpenUnlink, object, Ends
<1>5. CASE OpenStatRead(t)
  <2>1. GoesOn(t, call[t])
    BY <1>1, <1>2, <1>5, MoveGoesOn DEF OpenStatRead
  <2>2. QED BY <1>5, <2>1 DEF OpenStatRead, Ends
<1>6. CASE OpenDavix(t)
  <2>1. call[t].op = "Open"
    BY <1>1, <1>6 DEF OpenDavix, Lifecycle, OpenSteps
  <2>2. \/ Fails(t, call[t]) /\ is_open_' = is_open_
        \/ Succeeds(t, call[t]) /\ is_open_' = TRUE
    BY <1>1, <1>2, <1>6, FailFails, AnswerSucceeds DEF OpenDavix
  <2>3. QED BY <2>1, <2>2 DEF Ends
<1>7. QED BY <1>3, <1>4, <1>5, <1>6

\* Close.
LEMMA CloseEnds ==
  ASSUME IInv, NEW t \in Threads, CloseDavix(t)
  PROVE  Ends(t)
<1>1. TypeOK /\ call[t] \in Calls /\ call[t].op = "Close"
  BY DEF IInv, TypeOK, Lifecycle, CloseDavix
<1>2. SameAnswer(call[t], call[t])
  BY DEF SameAnswer
<1>3. \/ Fails(t, call[t]) /\ is_open_' = is_open_
      \/ Succeeds(t, call[t]) /\ is_open_' = FALSE
  BY <1>1, <1>2, FailFails, AnswerSucceeds DEF CloseDavix, CloseFailed
<1>4. QED BY <1>1, <1>3 DEF Ends

\* A step of a data call finds the object open and leaves it so.
LEMMA DataStepOpen ==
  ASSUME IInv, NEW t \in Threads, Steps(t), pc[t] \in DataSteps
  PROVE  is_open_ /\ is_open_' /\ call[t].op \notin {"Open", "Close"}
BY StepsFollow DEF IInv, Lifecycle, Follows

\* Stat.
LEMMA StatEnds ==
  ASSUME IInv, NEW t \in Threads, StatDavix(t) \/ StatFake(t)
  PROVE  Ends(t)
<1>1. /\ TypeOK /\ OpenStateMatchesHandle /\ Lifecycle(t)
      /\ call[t] \in Calls /\ filesize \in Nat
  BY DEF IInv, TypeOK
<1>2. pc[t] \in DataSteps
  BY DEF StatDavix, StatFake, DataSteps
<1>3. is_open_ /\ is_open_' /\ call[t].op \notin {"Open", "Close"}
  BY <1>2, DataStepOpen DEF Steps
<1>4. url_ \in Urls
  BY <1>1, <1>3 DEF OpenStateMatchesHandle, TypeOK
<1>5. \A r \in Stat(store[url_]) : Sound(r)
  BY <1>1, <1>4, LengthsOfFiles, NameCallsSound
<1>6. ASSUME NEW n \in Nat, Answer(t, [call[t] EXCEPT !.n = n])
      PROVE  Succeeds(t, call[t])
  <2> DEFINE d == [call[t] EXCEPT !.n = n]
  <2>1. d \in Calls /\ SameAnswer(d, call[t])
    BY <1>1, ResultType, ResultsKeepAnswer
  <2>2. Answer(t, d)
    BY <1>6
  <2> HIDE DEF d
  <2>3. QED BY <1>1, <2>1, <2>2, AnswerSucceeds
<1>7. CASE StatDavix(t)
  <2>1. SameAnswer(call[t], call[t])
    BY DEF SameAnswer
  <2>2. Succeeds(t, call[t]) \/ GoesOn(t, call[t]) \/ Fails(t, call[t])
    BY <1>1, <1>5, <1>6, <1>7, <2>1, MoveGoesOn, FailFails DEF StatDavix, Sound
  <2>3. QED BY <1>3, <2>2 DEF Ends
<1>8. CASE StatFake(t)
  <2> DEFINE d == [call[t] EXCEPT !.n = filesize, !.faked = TRUE]
  <2>1. d \in Calls /\ SameAnswer(d, call[t])
    BY <1>1, ResultType, ResultsKeepAnswer
  <2>2. Answer(t, d)
    BY <1>8 DEF StatFake
  <2> HIDE DEF d
  <2>3. Succeeds(t, call[t])
    BY <1>1, <2>1, <2>2, AnswerSucceeds
  <2>4. QED BY <1>3, <2>3 DEF Ends
<1>9. QED BY <1>7, <1>8

\* Read and VectorRead.
LEMMA ReadEnds ==
  ASSUME IInv, NEW t \in Threads,
         \/ ReadClamp(t) \/ ReadLock(t) \/ ReadPositioned(t) \/ ReadSequential(t)
         \/ ReadDone(t) \/ VectorReadDavix(t)
  PROVE  Ends(t)
<1>1. /\ TypeOK /\ call[t] \in Calls /\ fd \in Handles /\ Remote \in Lengths
      /\ call[t].offset \in Nat /\ call[t].size \in Nat
  BY LengthsOfFiles DEF IInv, TypeOK, Calls
<1>2. pc[t] \in DataSteps
  BY DEF ReadClamp, ReadLock, ReadPositioned, ReadSequential, ReadDone, VectorReadDavix,
         DataSteps, ReadSteps
<1>3. is_open_ /\ is_open_' /\ call[t].op \notin {"Open", "Close"}
  BY <1>2, DataStepOpen DEF Steps
<1>4. SameAnswer(call[t], call[t])
  BY DEF SameAnswer
<1>5. Fail(t, call[t], "errInternal") => Fails(t, call[t])
  BY <1>1, FailFails
<1>6. ASSUME NEW n, NEW at, ReadMoved(t, n, at)
      PROVE  GoesOn(t, call[t])
  <2> DEFINE d == [call[t] EXCEPT !.n = n, !.at = at]
  <2>1. SameAnswer(d, call[t])
    BY <1>1, ResultsKeepAnswer
  <2>2. MoveTo(t, "read_done", d)
    BY <1>6 DEF ReadMoved
  <2> HIDE DEF d
  <2>3. QED BY <1>1, <2>1, <2>2, MoveGoesOn
<1>7. CASE ReadClamp(t)
  <2> DEFINE d == [call[t] EXCEPT !.asked = Remaining(call[t].offset)]
  <2>1. SameAnswer(d, call[t])
    BY <1>1, ResultsKeepAnswer
  <2>2. MoveTo(t, TransferStep, d) /\ TransferStep \notin {"idle", "returned"}
    BY <1>7 DEF ReadClamp, TransferStep
  <2> HIDE DEF d
  <2>3. GoesOn(t, call[t])
    BY <1>1, <2>1, <2>2, MoveGoesOn
  <2>4. QED BY <1>3, <2>3 DEF Ends
<1>8. CASE ReadLock(t)
  <2>1. MoveTo(t, "read_seq", call[t]) \/ MoveTo(t, "read_jump", call[t])
    BY <1>8 DEF ReadLock
  <2>2. GoesOn(t, call[t])
    BY <1>1, <1>4, <2>1, MoveGoesOn
  <2>3. QED BY <1>3, <2>2 DEF Ends
<1>9. CASE ReadPositioned(t) \/ ReadSequential(t)
  <2>1. Fails(t, call[t]) \/ GoesOn(t, call[t])
    BY <1>5, <1>6, <1>9 DEF ReadPositioned, ReadSequential, ReadFailed
  <2>2. QED BY <1>3, <2>1 DEF Ends
<1>10. CASE ReadDone(t)
  <2>1. Succeeds(t, call[t])
    BY <1>1, <1>4, <1>10, AnswerSucceeds DEF ReadDone
  <2>2. QED BY <1>3, <2>1 DEF Ends
<1>11. CASE VectorReadDavix(t)
  <2>1. \A r \in PReadVec(fd, Remote, call[t].offset, call[t].size) : Sound(r)
    BY <1>1, DataCallsSound
  <2>2. ASSUME NEW n \in Nat, Answer(t, [call[t] EXCEPT !.n = n, !.at = call[t].offset])
        PROVE  Succeeds(t, call[t])
    <3> DEFINE d == [call[t] EXCEPT !.n = n, !.at = call[t].offset]
    <3>1. d \in Calls /\ SameAnswer(d, call[t])
      BY <1>1, ResultType, ResultsKeepAnswer
    <3>2. Answer(t, d)
      BY <2>2
    <3> HIDE DEF d
    <3>3. QED BY <1>1, <3>1, <3>2, AnswerSucceeds
  <2>3. Fails(t, call[t]) \/ Succeeds(t, call[t])
    BY <1>1, <1>11, <2>1, <2>2, FailFails DEF VectorReadDavix, Sound
  <2>4. QED BY <1>3, <2>3 DEF Ends
<1>12. QED BY <1>7, <1>8, <1>9, <1>10, <1>11

\* Write.
LEMMA WriteEnds ==
  ASSUME IInv, NEW t \in Threads,
         WriteSeek(t) \/ WriteDavix(t) \/ WriteLoad(t) \/ WriteStore(t)
  PROVE  Ends(t)
<1>1. TypeOK /\ call[t] \in Calls
  BY DEF IInv, TypeOK
<1>2. pc[t] \in DataSteps
  BY DEF WriteSeek, WriteDavix, WriteLoad, WriteStore, DataSteps, WriteSteps
<1>3. is_open_ /\ is_open_' /\ call[t].op \notin {"Open", "Close"}
  BY <1>2, DataStepOpen DEF Steps
<1>4. SameAnswer(call[t], call[t])
  BY DEF SameAnswer
<1>5. CASE WriteSeek(t)
  <2>1. GoesOn(t, call[t]) \/ Fails(t, call[t])
    BY <1>1, <1>4, <1>5, MoveGoesOn, FailFails DEF WriteSeek
  <2>2. QED BY <1>3, <2>1 DEF Ends
<1>6. CASE WriteDavix(t)
  <2>1. ASSUME NEW n, MoveTo(t, "write_load", [call[t] EXCEPT !.n = n, !.at = fd.pos])
        PROVE  GoesOn(t, call[t])
    <3> DEFINE d == [call[t] EXCEPT !.n = n, !.at = fd.pos]
    <3>1. SameAnswer(d, call[t])
      BY <1>1, ResultsKeepAnswer
    <3>2. MoveTo(t, "write_load", d)
      BY <2>1
    <3> HIDE DEF d
    <3>3. QED BY <1>1, <3>1, <3>2, MoveGoesOn
  <2>2. Fails(t, call[t]) \/ GoesOn(t, call[t])
    BY <1>1, <1>6, <2>1, FailFails DEF WriteDavix
  <2>3. QED BY <1>3, <2>2 DEF Ends
<1>7. CASE WriteLoad(t)
  <2> DEFINE d == [call[t] EXCEPT !.sum = filesize]
  <2>1. SameAnswer(d, call[t])
    BY <1>1, ResultsKeepAnswer
  <2>2. MoveTo(t, "write_store", d)
    BY <1>7 DEF WriteLoad
  <2> HIDE DEF d
  <2>3. GoesOn(t, call[t])
    BY <1>1, <2>1, <2>2, MoveGoesOn
  <2>4. QED BY <1>3, <2>3 DEF Ends
<1>8. CASE WriteStore(t)
  <2>1. Succeeds(t, call[t])
    BY <1>1, <1>4, <1>8, AnswerSucceeds DEF WriteStore
  <2>2. QED BY <1>3, <2>1 DEF Ends
<1>9. QED BY <1>5, <1>6, <1>7, <1>8

\* Every step inside a method goes on, or ends the call well or in an error.
LEMMA StepsEnd ==
  ASSUME IInv, NEW t \in Threads, Steps(t)
  PROVE  Ends(t)
BY OpenEnds, CloseEnds, StatEnds, ReadEnds, WriteEnds DEF Steps

-----------------------------------------------------------------------------
(* How the calls start. *)

\* A call starts unanswered: it goes on if the object is as it needs it, fails if it
\* is not, or is a Sync, which is over with that.
Starts(t) ==
  LET c == call'[t] IN
  \/ /\ InCall(t)' /\ c.status = "none" /\ c.answers = 0
     /\ c.op \in Ops \ {"Sync"} /\ is_open_ = (c.op # "Open")
  \/ /\ pc'[t] = "returned" /\ c.status # "ok" /\ c.answers = 0
     /\ c.op \in Ops \ {"Sync"} /\ is_open_ = (c.op = "Open")
  \/ pc'[t] = "returned" /\ c.status = "ok" /\ c.answers = 0 /\ c.op = "Sync"

\* A new call has no status and no answers.
NewCall(c, op) == c \in Calls /\ c.op = op /\ c.status = "none" /\ c.answers = 0

\* A data call, or a Close, that passes its first test, or does not.
LEMMA StartStarts ==
  ASSUME TypeOK, NEW t \in Threads, NEW op \in Ops \ {"Open", "Sync"}, NEW c,
         NewCall(c, op), NEW point, point \notin {"idle", "returned"},
         StartOrRefuse(t, point, c)
  PROVE  Starts(t)
<1>1. is_open_ \in BOOLEAN /\ SameAnswer(c, c) /\ c \in Calls
  BY DEF TypeOK, SameAnswer, NewCall
<1>2. CASE is_open_
  <2>1. GoesOn(t, c)
    BY <1>1, <1>2, MoveGoesOn DEF StartOrRefuse
  <2>2. QED BY <1>2, <2>1 DEF GoesOn, SameAnswer, Starts, NewCall
<1>3. CASE ~is_open_
  <2>1. Fail(t, c, "errInvalidOp")
    BY <1>3 DEF StartOrRefuse
  <2>2. Fails(t, c)
    BY <1>1, <2>1, FailFails
  <2>3. is_open_ = FALSE
    BY <1>1, <1>3
  <2>4. QED BY <2>2, <2>3 DEF Fails, Starts, NewCall
<1>4. QED BY <1>2, <1>3

\* Every call of a caller starts as it should.
LEMMA CallsStart ==
  ASSUME TypeOK, NEW t \in Threads, CallsBy(t)
  PROVE  Starts(t)
<1>1. Ops = {"Open", "Close", "Stat", "Read", "VectorRead", "Write", "Sync"}
  BY DEF Ops
<1>2. ASSUME NEW u \in Urls, NEW flags \in FlagSets, OpenCall(t, u, flags)
      PROVE  Starts(t)
  <2> DEFINE c == [NoCall EXCEPT !.op = "Open", !.url = u, !.flags = flags]
  <2>1. c \in Calls
    <3>1. flags \in SUBSET OpenFlags /\ "Open" \in Ops
      BY <1>1, ArgumentsAssumption
    <3>2. QED BY <3>1, NoCallType DEF Calls
  <2>2. NewCall(c, "Open")
    BY <2>1 DEF NoCall, NewCall
  <2>3. \/ is_open_ /\ Fail(t, c, "errInvalidOp")
        \/ ~is_open_ /\ MoveTo(t, FirstOpenStep(flags), c)
    BY <1>2 DEF OpenCall
  <2> HIDE DEF c
  <2>4. FirstOpenStep(flags) \notin {"idle", "returned"}
    BY DEF FirstOpenStep
  <2>5. CASE is_open_ /\ Fail(t, c, "errInvalidOp")
    <3>1. Fails(t, c)
      BY <2>1, <2>5, FailFails
    <3>2. is_open_ = TRUE
      BY <2>5 DEF TypeOK
    <3>3. QED BY <1>1, <2>2, <3>1, <3>2 DEF Fails, Starts, NewCall
  <2>6. CASE ~is_open_ /\ MoveTo(t, FirstOpenStep(flags), c)
    <3>1. GoesOn(t, c)
      BY <2>4, <2>6, MoveGoesOn DEF SameAnswer
    <3>2. is_open_ = FALSE
      BY <2>6 DEF TypeOK
    <3>3. QED BY <1>1, <2>2, <3>1, <3>2 DEF GoesOn, SameAnswer, Starts, NewCall
  <2>7. QED BY <2>3, <2>5, <2>6
<1>3. CASE CloseCall(t)
  <2>1. NewCall([NoCall EXCEPT !.op = "Close"], "Close")
    BY <1>1, NoCallType DEF NoCall, NewCall, Calls
  <2>2. QED BY <1>1, <1>3, <2>1, StartStarts DEF CloseCall
<1>4. CASE StatCall(t)
  <2>1. NewCall([NoCall EXCEPT !.op = "Stat"], "Stat")
    BY <1>1, NoCallType DEF NoCall, NewCall, Calls
  <2>2. QED BY <1>1, <1>4, <2>1, StartStarts DEF StatCall
<1>5. CASE SyncCall(t)
  <2> DEFINE c == [NoCall EXCEPT !.op = "Sync", !.status = "ok"]
  <2>1. c.op = "Sync" /\ c.status = "ok" /\ c.answers = 0
    BY DEF NoCall
  <2>2. MoveTo(t, "returned", c)
    BY <1>5 DEF SyncCall
  <2> HIDE DEF c
  <2>3. QED BY <2>1, <2>2, MoveToEffect DEF Starts
<1>6. ASSUME NEW offset \in Offsets, NEW size \in Sizes,
             \/ ReadCall(t, offset, size)
             \/ VectorReadCall(t, offset, size)
             \/ WriteCall(t, offset, size)
      PROVE  Starts(t)
  <2> DEFINE a(op) == [NoCall EXCEPT !.op = op, !.offset = offset, !.size = size]
             c == [NoCall EXCEPT !.op = "Read", !.offset = offset, !.size = size,
                                 !.asked = size]
             point == IF ReachesPast(offset, size) THEN "read_clamp" ELSE TransferStep
  <2>1. /\ NewCall(c, "Read")
        /\ NewCall(a("VectorRead"), "VectorRead")
        /\ NewCall(a("Write"), "Write")
    BY <1>1, DataCallType DEF NoCall, NewCall
  <2>2. \/ StartOrRefuse(t, point, c)
        \/ StartOrRefuse(t, "vread_davix", a("VectorRead"))
        \/ StartOrRefuse(t, "write_seek", a("Write"))
    BY <1>6 DEF ReadCall, VectorReadCall, WriteCall
  <2>3. point \notin {"idle", "returned"}
    BY DEF TransferStep
  <2> HIDE DEF c, a, point
  <2>4. QED BY <1>1, <2>1, <2>2, <2>3, StartStarts
<1>7. QED BY <1>2, <1>3, <1>4, <1>5, <1>6 DEF CallsBy

-----------------------------------------------------------------------------
(* The invariant of the answers. *)

\* Before the first call nobody has been answered.
LEMMA InitAnswers == Init => AnswerInv
BY DEF Init, AnswerInv, Unanswered, Idle, InCall

\* A step leaves a call under way unanswered, and a thread between calls without one.
LEMMA AnswerStep == IInv /\ AnswerInv /\ [Next]_vars => AnswerInv'
<1> SUFFICES ASSUME IInv, AnswerInv, [Next]_vars PROVE AnswerInv'
  OBVIOUS
<1>1. TypeOK
  BY DEF IInv
<1>2. ASSUME NEW t \in Threads, Steps(t) PROVE AnswerInv'
  <2>1. Ends(t) /\ Follows(t)
    BY <1>2, StepsEnd, StepsFollow
  <2>2. InCall(t) /\ call[t].status = "none" /\ call[t].answers = 0
    BY <2>1 DEF Follows, InCall, AnswerInv, Unanswered,
                OpenSteps, DataSteps, ReadSteps, WriteSteps
  <2>3. Unanswered(t)' /\ Idle(t)'
    BY <2>1, <2>2
    DEF Ends, GoesOn, Succeeds, Fails, SameAnswer, InCall, Unanswered, Idle
  <2>4. \A s \in Threads \ {t} : Unanswered(s)' /\ Idle(s)'
    BY <2>1 DEF Follows, AnswerInv, Unanswered, Idle, InCall
  <2>5. QED BY <2>3, <2>4 DEF AnswerInv
<1>3. ASSUME NEW t \in Threads, CallsBy(t) PROVE AnswerInv'
  <2>1. Starts(t) /\ Begins(t)
    BY <1>1, <1>3, CallsStart, CallsByBegins
  <2>2. Unanswered(t)' /\ Idle(t)'
    BY <2>1 DEF Starts, InCall, Unanswered, Idle
  <2>3. \A s \in Threads \ {t} : Unanswered(s)' /\ Idle(s)'
    BY <2>1 DEF Begins, AnswerInv, Unanswered, Idle, InCall
  <2>4. QED BY <2>2, <2>3 DEF AnswerInv
<1>4. ASSUME NEW t \in Threads, Return(t) PROVE AnswerInv'
  <2>1. /\ pc'[t] = "idle" /\ call'[t] = NoCall
        /\ \A s \in Threads \ {t} : pc'[s] = pc[s] /\ call'[s] = call[s]
    BY <1>1, <1>4, MoveToEffect DEF Return
  <2>2. QED BY <2>1 DEF AnswerInv, Unanswered, Idle, InCall
<1>5. CASE UNCHANGED control
  BY <1>5 DEF control, AnswerInv, Unanswered, Idle, InCall
<1>6. ASSUME NEW u \in Urls, NEW len \in StoreLengths, RemoteChange(u, len)
      PROVE  UNCHANGED control
  BY <1>6 DEF RemoteChange
<1>7. QED BY <1>2, <1>3, <1>4, <1>5, <1>6 DEF Next, vars

\* No call is answered before it is over, and none is answered that has not begun
\* (every HandleResponse of HttpFilePlugIn.cc is followed by the method's return).
THEOREM AnswersLast == Spec => []AnswerInv
BY InitAnswers, AnswerStep, Inductive, PTL DEF Spec

-----------------------------------------------------------------------------
(* The plug-in implements FileContract. *)

\* What the contract sees of a call.
View(point, c) ==
  [op |-> c.op,
   phase |-> IF point = "idle" THEN "free"
             ELSE IF point # "returned" THEN "busy"
             ELSE IF c.status = "ok" THEN "ok" ELSE "error",
   answers |-> c.answers]

\* A step of one thread changes what the contract sees of that thread only.
LEMMA ViewMoves ==
  ASSUME NEW t \in Threads,
         \A s \in Threads \ {t} : pc'[s] = pc[s] /\ call'[s] = call[s]
  PROVE  ContractCalls' = [ContractCalls EXCEPT ![t] = View(pc'[t], call'[t])]
BY DEF ContractCalls, View

\* The contract begins with the file closed and nobody in a call.
LEMMA InitImplements == Init => Contract!Init
BY DEF Init, Contract!Init, Contract!Free, ContractCalls, NoCall

\* A call starts in the contract as it does here, and the callers keep to MayCall.
LEMMA CallImplements ==
  ASSUME IInv, AnswerInv, NEW t \in Threads, CallsBy(t)
  PROVE  Contract!Next
<1>1. Starts(t) /\ Begins(t) /\ is_open_' = is_open_
  BY CallsStart, CallsByBegins DEF IInv, Begins
<1> DEFINE op == call'[t].op
<1>2. ContractCalls[t].phase = "free"
  BY <1>1 DEF Begins, ContractCalls
<1>3. ASSUME NEW s \in Threads \ {t}, ContractCalls[s].phase = "busy"
      PROVE  {op, ContractCalls[s].op} \cap {"Open", "Close"} = {}
  <2>1. InCall(s) /\ ContractCalls[s].op = call[s].op
    BY <1>3 DEF ContractCalls, InCall
  <2>2. op \notin {"Open", "Close"} /\ call[s].op \notin {"Open", "Close"}
    BY <1>1, <2>1 DEF Begins, MayStart
  <2>3. QED BY <2>1, <2>2
<1>4. Contract!MayCall(t, op)
  BY <1>2, <1>3 DEF Contract!MayCall
<1>5. ContractCalls' = [ContractCalls EXCEPT ![t] = View(pc'[t], call'[t])]
  BY <1>1, ViewMoves DEF Begins
<1>6. \/ /\ View(pc'[t], call'[t]) = [op |-> op, phase |-> "busy", answers |-> 0]
         /\ op \in Ops \ {"Sync"} /\ is_open_ = (op # "Open")
      \/ /\ View(pc'[t], call'[t]) = [op |-> op, phase |-> "error", answers |-> 0]
         /\ op \in Ops \ {"Sync"} /\ is_open_ = (op = "Open")
      \/ /\ View(pc'[t], call'[t]) = [op |-> op, phase |-> "ok", answers |-> 0]
         /\ op = "Sync"
  BY <1>1 DEF Starts, View, InCall
<1> HIDE DEF op
<1>7. \/ op \in Ops \ {"Sync"} /\ (Contract!Begin(t, op) \/ Contract!Refuse(t, op))
      \/ Contract!Acknowledge(t)
  BY <1>1, <1>4, <1>5, <1>6
  DEF Contract!Begin, Contract!Refuse, Contract!Acknowledge, Contract!Set
<1>8. QED BY <1>7 DEF Contract!Next

\* A step inside a method ends the call in the contract, or is not seen there.
LEMMA StepsImplement ==
  ASSUME IInv, AnswerInv, NEW t \in Threads, Steps(t)
  PROVE  Contract!Next \/ UNCHANGED Contract!vars
<1>1. Ends(t) /\ Follows(t)
  BY StepsEnd, StepsFollow
<1>2. InCall(t) /\ call[t].status = "none" /\ call[t].answers = 0
  BY <1>1 DEF Follows, InCall, AnswerInv, Unanswered,
              OpenSteps, DataSteps, ReadSteps, WriteSteps
<1>3. ContractCalls' = [ContractCalls EXCEPT ![t] = View(pc'[t], call'[t])]
  BY <1>1, ViewMoves DEF Follows
<1>4. ContractCalls[t] = [op |-> call[t].op, phase |-> "busy", answers |-> 0]
  BY <1>2 DEF ContractCalls, InCall
<1>5. CASE GoesOn(t, call[t]) /\ is_open_' = is_open_
  <2>1. View(pc'[t], call'[t]) = ContractCalls[t]
    BY <1>2, <1>4, <1>5 DEF GoesOn, SameAnswer, InCall, View
  <2>2. ContractCalls' = ContractCalls
    BY <1>3, <2>1 DEF ContractCalls
  <2>3. QED BY <1>5, <2>2 DEF Contract!vars
<1>6. CASE Succeeds(t, call[t]) /\ is_open_' = (call[t].op # "Close")
  <2>1. View(pc'[t], call'[t]) = [op |-> call[t].op, phase |-> "ok", answers |-> 1]
    BY <1>2, <1>6 DEF Succeeds, View
  <2>2. Contract!Succeed(t)
    BY <1>3, <1>4, <1>6, <2>1 DEF Contract!Succeed, Contract!Set
  <2>3. QED BY <2>2 DEF Contract!Next
<1>7. CASE Fails(t, call[t]) /\ is_open_' = is_open_
  <2>1. View(pc'[t], call'[t]) = [op |-> call[t].op, phase |-> "error", answers |-> 0]
    BY <1>2, <1>7 DEF Fails, View
  <2>2. Contract!GiveUp(t)
    BY <1>3, <1>4, <1>7, <2>1 DEF Contract!GiveUp, Contract!Set
  <2>3. QED BY <2>2 DEF Contract!Next
<1>8. QED BY <1>1, <1>5, <1>6, <1>7 DEF Ends

\* Every step is one of the contract, or is not seen there.
LEMMA StepImplements ==
  IInv /\ AnswerInv /\ [Next]_vars => [Contract!Next]_(Contract!vars)
<1> SUFFICES ASSUME IInv, AnswerInv, [Next]_vars
             PROVE  Contract!Next \/ UNCHANGED Contract!vars
  OBVIOUS
<1>1. TypeOK
  BY DEF IInv
<1>2. ASSUME NEW t \in Threads, Return(t) PROVE Contract!Next
  <2>1. /\ pc[t] = "returned" /\ pc'[t] = "idle" /\ call'[t] = NoCall
        /\ \A s \in Threads \ {t} : pc'[s] = pc[s] /\ call'[s] = call[s]
        /\ is_open_' = is_open_
    BY <1>1, <1>2, MoveToEffect DEF Return, object
  <2>2. ContractCalls' = [ContractCalls EXCEPT ![t] = View(pc'[t], call'[t])]
    BY <2>1, ViewMoves
  <2>3. View("idle", NoCall) = Contract!Free
    BY DEF View, NoCall, Contract!Free
  <2>4. ContractCalls[t].phase \in {"ok", "error"}
    BY <2>1 DEF ContractCalls
  <2>5. Contract!Return(t)
    BY <2>1, <2>2, <2>3, <2>4 DEF Contract!Return
  <2>6. QED BY <2>5 DEF Contract!Next
<1>3. ASSUME NEW u \in Urls, NEW len \in StoreLengths, RemoteChange(u, len)
      PROVE  UNCHANGED Contract!vars
  BY <1>3 DEF RemoteChange, object, control, ContractCalls, Contract!vars
<1>4. CASE UNCHANGED vars
  BY <1>4 DEF vars, object, control, ContractCalls, Contract!vars
<1>5. QED BY <1>2, <1>3, <1>4, CallImplements, StepsImplement DEF Next

\* HttpFilePlugIn implements FileContract: whatever davix does and however the calls
\* overlap, a method that returns OK has called its handler once (Sync: not at all),
\* one that returns an error has not and has not opened or closed the file
\* (HttpFilePlugIn.cc:82-434).
THEOREM Implements == Spec => KeepsContract
<1>1. Init => Contract!Init
  BY InitImplements
<1>2. IInv /\ AnswerInv /\ [Next]_vars => [Contract!Next]_(Contract!vars)
  BY StepImplements
<1>3. QED BY <1>1, <1>2, Inductive, AnswersLast, PTL DEF Spec, KeepsContract, Contract!Spec

-----------------------------------------------------------------------------
(* What FileContract is worth to a caller. *)

ContractTypes ==
  /\ is_open_ \in BOOLEAN
  /\ ContractCalls \in
       [Threads -> [op : Ops \cup {"none"}, phase : {"free", "busy", "ok", "error"}, answers : Nat]]

\* Set changes the call of one thread.
LEMMA SetEffect ==
  ASSUME ContractTypes, NEW t \in Threads, NEW op, NEW phase, NEW answers,
         Contract!Set(t, op, phase, answers)
  PROVE  /\ ContractCalls'[t] = [op |-> op, phase |-> phase, answers |-> answers]
         /\ \A s \in Threads \ {t} : ContractCalls'[s] = ContractCalls[s]
BY DEF ContractTypes, Contract!Set

\* What the contract promises t; a Sync is over before anything else happens.
Kept(t) ==
  /\ Contract!AnsweredIffOk(t) /\ Contract!OpenThroughout(t) /\ Contract!Alone(t)
  /\ Contract!Busy(t) => ContractCalls[t].op # "Sync"

PromiseInv == ContractTypes /\ \A t \in Threads : Kept(t)

\* A step that changes the call of t and keeps the file as it is keeps what is promised the
\* others, unless it begins a call beside an Open or a Close.
LEMMA OthersPromised ==
  ASSUME PromiseInv, NEW t \in Threads, NEW s \in Threads \ {t}, is_open_' = is_open_,
         \A r \in Threads \ {t} : ContractCalls'[r] = ContractCalls[r],
         Contract!Busy(s) /\ ContractCalls[s].op \in {"Open", "Close"} => ~Contract!Busy(t)'
  PROVE  Kept(s)'
<1>1. Kept(s) /\ ContractCalls'[s] = ContractCalls[s]
  BY DEF PromiseInv
<1>2. Contract!AnsweredIffOk(s)' /\ Contract!OpenThroughout(s)'
  BY <1>1 DEF Kept, Contract!AnsweredIffOk, Contract!OpenThroughout, Contract!Busy
<1>3. Contract!Alone(s)'
  BY <1>1 DEF Kept, Contract!Alone, Contract!Busy
<1>4. QED BY <1>1, <1>2, <1>3 DEF Kept, Contract!Busy

\* A call that ends, or is over with its first step.
LEMMA CallEnds ==
  ASSUME PromiseInv, NEW t \in Threads, NEW op \in Ops \cup {"none"},
         NEW phase \in {"free", "ok", "error"},
         Contract!Set(t, op, phase, IF phase = "ok" /\ op # "Sync" THEN 1 ELSE 0),
         is_open_' = is_open_
  PROVE  PromiseInv'
<1> DEFINE answers == IF phase = "ok" /\ op # "Sync" THEN 1 ELSE 0
<1>1. ContractTypes /\ answers \in Nat
  BY DEF PromiseInv
<1>2. /\ ContractCalls'[t] = [op |-> op, phase |-> phase, answers |-> answers]
      /\ \A s \in Threads \ {t} : ContractCalls'[s] = ContractCalls[s]
  BY <1>1, SetEffect
<1>3. ContractTypes'
  BY <1>1 DEF ContractTypes, Contract!Set
<1>4. Kept(t)' /\ ~Contract!Busy(t)'
  BY <1>2 DEF Kept, Contract!AnsweredIffOk, Contract!OpenThroughout, Contract!Alone,
              Contract!Busy
<1>5. QED BY <1>2, <1>3, <1>4, OthersPromised DEF PromiseInv

\* Begin: the file is as the call needs it, and no other call is in its way.
LEMMA BeginPromised ==
  ASSUME PromiseInv, NEW t \in Threads, NEW op \in Ops \ {"Sync"}, Contract!Begin(t, op)
  PROVE  PromiseInv'
<1>1. /\ Contract!MayCall(t, op) /\ Contract!Set(t, op, "busy", 0)
      /\ is_open_ = (op # "Open") /\ is_open_' = is_open_ /\ ContractTypes
  BY DEF Contract!Begin, PromiseInv
<1>2. /\ ContractCalls'[t] = [op |-> op, phase |-> "busy", answers |-> 0]
      /\ \A s \in Threads \ {t} : ContractCalls'[s] = ContractCalls[s]
  BY <1>1, SetEffect
<1>3. ContractTypes'
  BY <1>1 DEF ContractTypes, Contract!Set
<1>4. \A s \in Threads \ {t} :
        Contract!Busy(s) => {op, ContractCalls[s].op} \cap {"Open", "Close"} = {}
  BY <1>1 DEF Contract!MayCall, Contract!Busy
<1>5. Contract!AnsweredIffOk(t)' /\ Contract!OpenThroughout(t)'
  BY <1>1, <1>2 DEF Contract!AnsweredIffOk, Contract!OpenThroughout, Contract!Busy
<1>6. Contract!Alone(t)'
  <2>1. ASSUME op \in {"Open", "Close"}, NEW s \in Threads \ {t} PROVE ~Contract!Busy(s)
    BY <1>4, <2>1
  <2>2. ASSUME NEW s \in Threads \ {t} PROVE Contract!Busy(s)' = Contract!Busy(s)
    BY <1>2, <2>2 DEF Contract!Busy
  <2>3. ContractCalls'[t].op = op
    BY <1>2
  <2>4. QED BY <2>1, <2>2, <2>3 DEF Contract!Alone
<1>7. Kept(t)'
  BY <1>2, <1>5, <1>6 DEF Kept
<1>8. \A s \in Threads \ {t} :
        Contract!Busy(s) => ContractCalls[s].op \notin {"Open", "Close"}
  BY <1>4
<1>9. \A s \in Threads \ {t} : Kept(s)'
  BY <1>1, <1>2, <1>8, OthersPromised
<1>10. QED BY <1>3, <1>7, <1>9 DEF PromiseInv

\* Succeed: an Open or a Close that changes the file is alone with it.
LEMMA SucceedPromised ==
  ASSUME PromiseInv, NEW t \in Threads, Contract!Succeed(t)
  PROVE  PromiseInv'
<1> DEFINE op == ContractCalls[t].op
<1>1. /\ Contract!Set(t, op, "ok", 1) /\ is_open_' = (op # "Close") /\ Contract!Busy(t)
      /\ ContractTypes /\ Kept(t) /\ op \in Ops \cup {"none"} /\ op # "Sync"
  BY DEF Contract!Succeed, Contract!Busy, PromiseInv, ContractTypes, Kept
<1>2. CASE op \in {"Open", "Close"}
  <2>1. \A s \in Threads \ {t} : ~Contract!Busy(s) /\ Kept(s)
    BY <1>1, <1>2 DEF Kept, Contract!Alone, PromiseInv
  <2> HIDE DEF op
  <2>2. /\ ContractCalls'[t] = [op |-> op, phase |-> "ok", answers |-> 1]
        /\ \A s \in Threads \ {t} : ContractCalls'[s] = ContractCalls[s]
    BY <1>1, SetEffect
  <2>3. ContractTypes'
    BY <1>1 DEF ContractTypes, Contract!Set
  <2>4. Kept(t)'
    BY <1>1, <2>2 DEF Kept, Contract!AnsweredIffOk, Contract!OpenThroughout, Contract!Alone,
                      Contract!Busy
  <2>5. ASSUME NEW s \in Threads \ {t} PROVE Kept(s)'
    BY <2>1, <2>2 DEF Kept, Contract!AnsweredIffOk, Contract!OpenThroughout, Contract!Alone,
                      Contract!Busy
  <2>6. QED BY <2>3, <2>4, <2>5 DEF PromiseInv
<1>3. CASE op \notin {"Open", "Close"}
  <2>1. is_open_' = is_open_
    BY <1>1, <1>3 DEF Kept, Contract!OpenThroughout
  <2> HIDE DEF op
  <2>2. QED BY <1>1, <2>1, CallEnds
<1>4. QED BY <1>2, <1>3

\* Every step of the contract keeps its promises.
LEMMA PromiseStep == PromiseInv /\ [Contract!Next]_(Contract!vars) => PromiseInv'
<1> SUFFICES ASSUME PromiseInv, [Contract!Next]_(Contract!vars) PROVE PromiseInv'
  OBVIOUS
<1>1. ASSUME NEW t \in Threads, NEW op \in Ops \ {"Sync"}, Contract!Refuse(t, op)
      PROVE  PromiseInv'
  BY <1>1, CallEnds DEF Contract!Refuse
<1>2. ASSUME NEW t \in Threads, Contract!Acknowledge(t) PROVE PromiseInv'
  <2>1. "Sync" \in Ops
    BY DEF Ops
  <2>2. QED BY <1>2, <2>1, CallEnds DEF Contract!Acknowledge
<1>3. ASSUME NEW t \in Threads, Contract!GiveUp(t) PROVE PromiseInv'
  <2>1. ContractCalls[t].op \in Ops \cup {"none"}
    BY DEF PromiseInv, ContractTypes
  <2>2. QED BY <1>3, <2>1, CallEnds DEF Contract!GiveUp
<1>4. ASSUME NEW t \in Threads, Contract!Return(t) PROVE PromiseInv'
  <2>1. Contract!Set(t, "none", "free", 0) /\ is_open_' = is_open_
    BY <1>4 DEF Contract!Return, Contract!Set, Contract!Free
  <2>2. QED BY <2>1, CallEnds
<1>5. CASE UNCHANGED Contract!vars
  <2>1. is_open_' = is_open_ /\ ContractCalls' = ContractCalls
    BY <1>5 DEF Contract!vars
  <2>2. QED BY <2>1
    DEF PromiseInv, ContractTypes, Kept, Contract!AnsweredIffOk, Contract!OpenThroughout,
        Contract!Alone, Contract!Busy
<1>6. QED BY <1>1, <1>2, <1>3, <1>4, <1>5, BeginPromised, SucceedPromised
  DEF Contract!Next

\* Whoever keeps to FileContract says OK and calls the handler together, Sync aside, and
\* nobody opens or closes a file under a call (HttpFilePlugIn.cc:82-434).
THEOREM ContractPromises == Contract!Spec => []Contract!Promises
<1>1. Contract!Init => PromiseInv
  <2> SUFFICES ASSUME Contract!Init PROVE PromiseInv
    OBVIOUS
  <2>1. is_open_ = FALSE /\ ContractCalls = [t \in Threads |-> Contract!Free]
    BY DEF Contract!Init
  <2>2. ContractTypes
    BY <2>1 DEF ContractTypes, Contract!Free
  <2>3. ASSUME NEW t \in Threads PROVE Kept(t)
    <3>1. ContractCalls[t] = [op |-> "none", phase |-> "free", answers |-> 0]
      BY <2>1 DEF Contract!Free
    <3>2. QED BY <3>1 DEF Kept, Contract!AnsweredIffOk, Contract!OpenThroughout,
                          Contract!Alone, Contract!Busy
  <2>4. QED BY <2>2, <2>3 DEF PromiseInv
<1>2. PromiseInv => Contract!Promises
  BY DEF PromiseInv, Kept, Contract!Promises
<1>3. QED BY <1>1, <1>2, PromiseStep, PTL DEF Contract!Spec

\* So HttpFilePlugIn does, in every interleaving and under every fault.
THEOREM PromisesKept == Spec => []Contract!Promises
BY Implements, ContractPromises DEF KeepsContract
=============================================================================
