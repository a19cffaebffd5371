------------------------ MODULE HttpFileSystemProofs ------------------------
(***************************************************************************)
(* Proofs about HttpFileSystemPlugIn: its inductive invariant, and that it *)
(* implements FileSystemContract, for any number of threads and names.     *)
(***************************************************************************)
EXTENDS HttpFileSystemPlugIn, TLAPS

\* What a request leaves of the directory is a directory.
LEMMA EffectType ==
  ASSUME NEW e \in [Names -> Kinds], NEW r \in Requests
  PROVE  Effect(r.op, r.name, r.dest, e) \in [Names -> Kinds]
BY DEF Effect, Requests, Kinds

\* The request a call stands for.
Asked(c) == [op |-> c.op, name |-> c.name, dest |-> c.dest]

\* What a request finds are entries.
LEMMA FoundType ==
  ASSUME NEW e \in [Names -> Kinds], NEW op, NEW name
  PROVE  Found(op, name, e) \subseteq Entries
BY DEF Found, Entries

\* The results of a request, whatever goes wrong: a count is 0 or -1, the error code
\* becomes one of Statuses, and OK means the server has done it.
LEMMA OutcomesSound ==
  ASSUME NEW op, NEW name, NEW e, NEW o \in Outcomes(op, name, e)
  PROVE  /\ StatusOf(op, o.result) \subseteq Statuses
         /\ "ok" \in StatusOf(op, o.result) => o.done
         /\ o.done \in BOOLEAN
         /\ o.done => Possible(op, name, e)
<1>1. \A x \in Fault : x.n = -1
  BY DEF Fault, Failed
<1>2. /\ o.done \in BOOLEAN /\ (o.done => Possible(op, name, e))
      /\ o.result.n = -1 \/ o.done
  <2>1. CASE Possible(op, name, e)
    <3>1. \/ o = [result |-> Returned(0), done |-> TRUE]
          \/ \E f \in Fault, d \in BOOLEAN : o = [result |-> f, done |-> d]
      BY <2>1 DEF Outcomes
    <3>2. CASE o = [result |-> Returned(0), done |-> TRUE]
      BY <2>1, <3>2
    <3>3. CASE \E f \in Fault, d \in BOOLEAN : o = [result |-> f, done |-> d]
      <4>1. PICK f \in Fault, d \in BOOLEAN : o = [result |-> f, done |-> d]
        BY <3>3
      <4>2. o.done \in BOOLEAN /\ o.result.n = -1
        BY <1>1, <4>1
      <4>3. QED BY <2>1, <4>2
    <3>4. QED BY <3>1, <3>2, <3>3
  <2>2. CASE ~Possible(op, name, e)
    <3>1. PICK r \in Fault \cup {Failed("FileNotFound"), Failed("Other")} :
            o = [result |-> r, done |-> FALSE]
      BY <2>2 DEF Outcomes
    <3>2. r.n = -1
      BY <1>1, <3>1 DEF Failed
    <3>3. QED BY <3>1, <3>2
  <2>3. QED BY <2>1, <2>2
<1>3. o.result.n = -1 \/ o.result.n = 0
  BY <1>1 DEF Outcomes, Returned, Failed
<1>4. /\ StatusOf(op, o.result) \subseteq Statuses
      /\ "ok" \in StatusOf(op, o.result) => o.result.n = 0
  BY <1>3 DEF StatusOf, Filled, Converted, Internal, ErrCodeConvert, Statuses, ErrorStatuses
<1>5. "ok" \in StatusOf(op, o.result) => o.done
  BY <1>2, <1>4
<1>6. QED BY <1>2, <1>4, <1>5

-----------------------------------------------------------------------------
(* The inductive invariant. *)

\* Nothing is going on at first.
LEMMA InitInv == Init => IInv
<1> SUFFICES ASSUME Init PROVE IInv
  OBVIOUS
<1>1. NoCall \in Calls
  BY DEF NoCall, Calls
<1>2. TypeOK
  BY <1>1 DEF Init, TypeOK, ControlPoints
<1>3. \A t \in Threads : Lifecycle(t)
  BY DEF Init, Lifecycle, NoCall
<1>4. ListingComplete
  BY DEF Init, ListingComplete, NoCall
<1>5. QED BY <1>2, <1>3, <1>4 DEF IInv

\* What holds of one thread.
ListedWhole(t) ==
  ~FaultEndsListing =>
    (call[t].op = "DirList" /\ call[t].status = "ok" => call[t].list = call[t].found)

\* A step that moves one thread keeps the invariant if it does for that thread.
LEMMA MoveKeeps ==
  ASSUME IInv, NEW t \in Threads, NEW point \in ControlPoints, NEW c \in Calls,
         MoveTo(t, point, c),
         s3' = s3, entries' \in [Names -> Kinds], remote' \in Nat,
         Lifecycle(t)', ListedWhole(t)'
  PROVE  IInv'
<1>1. TypeOK'
  BY DEF IInv, TypeOK, MoveTo
<1>2. \A s \in Threads \ {t} : pc'[s] = pc[s] /\ call'[s] = call[s]
  BY DEF IInv, TypeOK, MoveTo
<1>3. \A s \in Threads : Lifecycle(s)'
  BY <1>2 DEF IInv, Lifecycle
<1>4. ~FaultEndsListing => ListingComplete'
  BY <1>2 DEF IInv, ListingComplete, ListedWhole
<1>5. QED BY <1>1, <1>3, <1>4 DEF IInv

\* After MoveTo the thread is where it was sent, with the call it was given.
LEMMA MoveToEffect ==
  ASSUME TypeOK, NEW t \in Threads, NEW point, NEW c, MoveTo(t, point, c)
  PROVE  /\ pc' = [pc EXCEPT ![t] = point] /\ call' = [call EXCEPT ![t] = c]
         /\ pc'[t] = point /\ call'[t] = c
BY DEF MoveTo, TypeOK

\* A call that ends keeps its arguments and what it found.
LEMMA EndedCall ==
  ASSUME NEW c \in Calls, NEW status \in Statuses
  PROVE  /\ [c EXCEPT !.status = status] \in Calls
         /\ [c EXCEPT !.status = status, !.answers = @ + 1] \in Calls
         /\ \A d \in {[c EXCEPT !.status = status],
                     [c EXCEPT !.status = status, !.answers = @ + 1]} :
              /\ d.op = c.op /\ d.name = c.name /\ d.dest = c.dest
              /\ d.found = c.found /\ d.list = c.list
              /\ d.status = status
<1>1. c.answers + 1 \in Nat
  BY DEF Calls
<1>2. QED BY <1>1 DEF Calls

\* The end of a call, as Answer and Fail end it, keeps the invariant when the call
\* may say what it says.
LEMMA EndKeeps ==
  ASSUME IInv, NEW t \in Threads, NEW c \in Calls, NEW status \in Statuses,
         \/ Fail(t, c, status) /\ status # "ok"
         \/ /\ Answer(t, c)
            /\ c.op = "DirList" /\ ~FaultEndsListing => c.list = c.found,
         Asked(c) \in Requests,
         s3' = s3, entries' \in [Names -> Kinds], remote' \in Nat
  PROVE  IInv'
<1>1. TypeOK /\ "ok" \in Statuses /\ "returned" \in ControlPoints
  BY DEF IInv, Statuses, ControlPoints
<1>2. PICK d \in Calls :
        /\ MoveTo(t, "returned", d) /\ d.status \in Statuses
        /\ d.op = c.op /\ d.list = c.list /\ d.found = c.found /\ Asked(d) = Asked(c)
        /\ \/ d.status # "ok"
           \/ c.op = "DirList" /\ ~FaultEndsListing => c.list = c.found
  <2>1. CASE Fail(t, c, status) /\ status # "ok"
    <3> DEFINE d == [c EXCEPT !.status = status]
    <3>1. /\ d \in Calls /\ d.status = status
          /\ d.op = c.op /\ d.list = c.list /\ d.found = c.found /\ Asked(d) = Asked(c)
      BY EndedCall DEF Asked
    <3>2. MoveTo(t, "returned", d)
      BY <2>1 DEF Fail
    <3> HIDE DEF d
    <3>3. QED BY <2>1, <3>1, <3>2
  <2>2. CASE /\ Answer(t, c)
             /\ c.op = "DirList" /\ ~FaultEndsListing => c.list = c.found
    <3> DEFINE d == [c EXCEPT !.status = "ok", !.answers = @ + 1]
    <3>1. /\ d \in Calls /\ d.status = "ok"
          /\ d.op = c.op /\ d.list = c.list /\ d.found = c.found /\ Asked(d) = Asked(c)
      BY <1>1, EndedCall DEF Asked
    <3>2. MoveTo(t, "returned", d)
      BY <2>2 DEF Answer
    <3> HIDE DEF d
    <3>3. QED BY <1>1, <2>2, <3>1, <3>2
  <2>3. QED BY <2>1, <2>2
<1>3. pc'[t] = "returned" /\ call'[t] = d
  BY <1>1, <1>2, MoveToEffect
<1>4. d.status # "none"
  BY <1>2 DEF Statuses, ErrorStatuses
<1>5. Lifecycle(t)' /\ ListedWhole(t)'
  BY <1>2, <1>3, <1>4 DEF Lifecycle, ListedWhole, Asked
<1>6. QED BY <1>1, <1>2, <1>5, MoveKeeps

\* The record a call starts with.
LEMMA NewCall ==
  ASSUME NEW r \in Requests
  PROVE  LET c == [NoCall EXCEPT !.op = r.op, !.name = r.name, !.dest = r.dest]
         IN  /\ c \in Calls
             /\ c.op = r.op /\ c.name = r.name /\ c.dest = r.dest
             /\ c.status = "none" /\ c.answers = 0
             /\ c.found = {} /\ c.list = {}
             /\ Asked(c) \in Requests
<1>1. NoCall \in Calls
  BY DEF NoCall, Calls
<1>2. r.op \in Ops /\ r.name \in Names \cup {NoName} /\ r.dest \in Names \cup {NoName}
  BY DEF Requests, Ops
<1>3. /\ NoCall.status = "none" /\ NoCall.answers = 0
      /\ NoCall.found = {} /\ NoCall.list = {}
  BY DEF NoCall
<1>4. r = [op |-> r.op, name |-> r.name, dest |-> r.dest]
  BY DEF Requests
<1> HIDE DEF NoCall
<1>5. QED BY <1>1, <1>2, <1>3, <1>4 DEF Calls, Asked

\* The beginning and the end of a call.
LEMMA CallKeeps ==
  ASSUME IInv, NEW t \in Threads,
         (\E r \in Requests : Call(t, r)) \/ Return(t)
  PROVE  IInv'
<1>1. TypeOK /\ NoCall \in Calls
  BY DEF IInv, NoCall, Calls
<1>2. s3' = s3 /\ entries' \in [Names -> Kinds] /\ remote' \in Nat
  BY <1>1 DEF Call, Return, TypeOK
<1>3. ASSUME NEW r \in Requests, Call(t, r) PROVE IInv'
  <2> DEFINE c == [NoCall EXCEPT !.op = r.op, !.name = r.name, !.dest = r.dest]
  <2>1. /\ c \in Calls
        /\ c.op = r.op /\ c.status = "none" /\ c.answers = 0
        /\ c.found = {} /\ c.list = {}
        /\ Asked(c) \in Requests
    BY NewCall
  <2>2. \/ Answer(t, c) \/ Fail(t, c, "Unsupported")
        \/ MoveTo(t, "request", c) /\ r.op \in {"Mv", "Rm", "RmDir", "Stat"}
        \/ MoveTo(t, "list_open", c) /\ r.op = "DirList"
    BY <1>3 DEF Call, MkDir, Rename
  <2> HIDE DEF c
  <2>3. CASE Answer(t, c) \/ Fail(t, c, "Unsupported")
    <3>1. "Unsupported" \in Statuses /\ "Unsupported" # "ok"
      BY DEF Statuses, ErrorStatuses
    <3>2. QED BY <1>2, <2>1, <2>3, <3>1, EndKeeps
  <2>4. CASE MoveTo(t, "request", c) /\ r.op \in {"Mv", "Rm", "RmDir", "Stat"}
    <3>1. pc'[t] = "request" /\ call'[t] = c
      BY <1>1, <2>4, MoveToEffect
    <3>2. Lifecycle(t)' /\ ListedWhole(t)'
      BY <2>1, <2>4, <3>1 DEF Lifecycle, ListedWhole, Asked
    <3>3. QED BY <1>2, <2>1, <2>4, <3>2, MoveKeeps DEF ControlPoints
  <2>5. CASE MoveTo(t, "list_open", c) /\ r.op = "DirList"
    <3>1. pc'[t] = "list_open" /\ call'[t] = c
      BY <1>1, <2>5, MoveToEffect
    <3>2. Lifecycle(t)' /\ ListedWhole(t)'
      BY <2>1, <2>5, <3>1 DEF Lifecycle, ListedWhole, Asked
    <3>3. QED BY <1>2, <2>1, <2>5, <3>2, MoveKeeps DEF ControlPoints
  <2>6. QED BY <2>2, <2>3, <2>4, <2>5
<1>4. CASE Return(t)
  <2>1. MoveTo(t, "idle", NoCall) /\ pc'[t] = "idle" /\ call'[t] = NoCall
    BY <1>1, <1>4, MoveToEffect DEF Return
  <2>2. Lifecycle(t)' /\ ListedWhole(t)'
    BY <2>1 DEF Lifecycle, ListedWhole, NoCall
  <2>3. QED BY <1>1, <1>2, <2>1, <2>2, MoveKeeps DEF ControlPoints
<1>5. QED BY <1>3, <1>4

\* Mv, Rm, RmDir and Stat.
LEMMA RequestKeeps ==
  ASSUME IInv, NEW t \in Threads, Request(t)
  PROVE  IInv'
<1> DEFINE c == call[t]
<1>1. /\ TypeOK /\ pc[t] = "request" /\ c \in Calls
      /\ c.op \in {"Mv", "Rm", "RmDir", "Stat"} /\ Asked(c) \in Requests
  BY DEF IInv, TypeOK, Lifecycle, Request, Asked
<1>2. PICK o, status :
        /\ o \in Outcomes(c.op, c.name, entries) /\ status \in StatusOf(c.op, o.result)
        /\ entries' = IF o.done THEN Effect(c.op, c.name, c.dest, entries) ELSE entries
        /\ \/ MoveTo(t, "request", [c EXCEPT !.attempt = @ + 1])
           \/ Answer(t, [c EXCEPT !.found = Found(c.op, c.name, entries)])
           \/ Fail(t, c, status) /\ status # "ok"
  BY DEF Request
<1>3. s3' = s3 /\ entries' \in [Names -> Kinds] /\ remote' \in Nat
  <2>1. Effect(c.op, c.name, c.dest, entries) \in [Names -> Kinds]
    BY <1>1, EffectType DEF Asked, TypeOK
  <2>2. QED BY <1>1, <1>2, <2>1 DEF Request, TypeOK
<1>4. CASE MoveTo(t, "request", [c EXCEPT !.attempt = @ + 1])
  <2> DEFINE d == [c EXCEPT !.attempt = @ + 1]
  <2>1. d \in Calls
    BY <1>1 DEF Calls
  <2>2. pc'[t] = "request" /\ call'[t] = d
    BY <1>1, <1>4, MoveToEffect
  <2>3. /\ d.op = c.op /\ d.found = c.found /\ d.list = c.list
        /\ d.status = c.status /\ d.answers = c.answers /\ Asked(d) = Asked(c)
    BY <1>1 DEF Calls, Asked
  <2>4. Lifecycle(t)' /\ ListedWhole(t)'
    <3> HIDE DEF d
    <3>1. Lifecycle(t)
      BY DEF IInv
    <3>2. QED BY <1>1, <2>2, <2>3, <3>1 DEF Lifecycle, ListedWhole, Asked
  <2>5. QED BY <1>3, <1>4, <2>1, <2>4, MoveKeeps DEF ControlPoints
<1>5. CASE Answer(t, [c EXCEPT !.found = Found(c.op, c.name, entries)])
  <2> DEFINE d == [c EXCEPT !.found = Found(c.op, c.name, entries)]
  <2>1. d \in Calls /\ d.op = c.op /\ Asked(d) = Asked(c)
    BY <1>1, FoundType DEF Calls, TypeOK, Asked
  <2> HIDE DEF d
  <2>2. Answer(t, d) /\ "ok" \in Statuses
    BY <1>5 DEF d, Statuses
  <2>3. QED BY <1>1, <1>3, <2>1, <2>2, EndKeeps
<1>6. CASE Fail(t, c, status) /\ status # "ok"
  <2>1. status \in Statuses
    BY <1>2, OutcomesSound
  <2>2. QED BY <1>1, <1>3, <1>6, <2>1, EndKeeps
<1>7. QED BY <1>2, <1>4, <1>5, <1>6

\* DirList.
LEMMA ListingKeeps ==
  ASSUME IInv, NEW t \in Threads,
         \/ ListOpen(t) \/ ListEntry(t) \/ ListDataError(t) \/ ListEnd(t) \/ ListFault(t)
         \/ ListClose(t)
  PROVE  IInv'
<1> DEFINE c == call[t]
<1>1. TypeOK /\ c \in Calls /\ Lifecycle(t) /\ Asked(c) \in Requests
  BY DEF IInv, TypeOK, Lifecycle, Asked, ListOpen, ListEntry, ListDataError, ListEnd,
         ListFault, ListClose
<1>2. s3' = s3 /\ entries' \in [Names -> Kinds] /\ remote' \in Nat
  BY <1>1 DEF TypeOK, ListOpen, ListEntry, ListDataError, ListEnd, ListFault, ListClose
<1>3. "errInternal" \in Statuses /\ "errInternal" # "ok" /\ "ok" \in Statuses
  BY DEF Statuses, ErrorStatuses
\* The step that goes on with a changed record d.
<1>4. ASSUME NEW point \in {"list_read", "list_close"}, NEW d \in Calls,
             MoveTo(t, point, d),
             d.op = "DirList", d.status = "none", d.answers = 0, Asked(d) \in Requests,
             point = "list_read" => d.list \cup d.unread = d.found,
             point = "list_close" /\ ~FaultEndsListing => d.list = d.found
      PROVE  IInv'
  <2>1. pc'[t] = point /\ call'[t] = d
    BY <1>1, <1>4, MoveToEffect
  <2>2. Lifecycle(t)' /\ ListedWhole(t)'
    BY <1>4, <2>1 DEF Lifecycle, ListedWhole, Asked
  <2>3. QED BY <1>2, <1>4, <2>2, MoveKeeps DEF ControlPoints
<1>5. CASE ListOpen(t)
  <2>1. CASE Fail(t, c, "errInternal")
    BY <1>1, <1>2, <1>3, <2>1, EndKeeps
  <2>2. CASE ~Fail(t, c, "errInternal")
    <3> DEFINE found == Found("DirList", c.name, entries)
               d == [c EXCEPT !.found = found, !.unread = found]
    <3>1. found \subseteq Entries
      BY <1>1, FoundType DEF TypeOK
    <3>2. MoveTo(t, "list_read", d)
      BY <1>5, <2>2 DEF ListOpen
    <3>3. /\ c.op = "DirList" /\ c.status = "none" /\ c.answers = 0 /\ c.list = {}
      BY <1>1, <1>5 DEF ListOpen, Lifecycle
    <3> HIDE DEF found
    <3>4. /\ d \in Calls /\ d.op = c.op /\ d.status = c.status /\ d.answers = c.answers
          /\ d.list = c.list /\ d.unread = found /\ d.found = found /\ Asked(d) = Asked(c)
      BY <1>1, <3>1 DEF Calls, Asked
    <3> HIDE DEF d
    <3>5. QED BY <1>1, <1>4, <3>2, <3>3, <3>4
  <2>3. QED BY <2>1, <2>2
<1>6. ASSUME pc[t] = "list_read"
      PROVE  /\ c.op = "DirList" /\ c.status = "none" /\ c.answers = 0
             /\ c.list \cup c.unread = c.found
  BY <1>1, <1>6 DEF Lifecycle
<1>7. CASE ListEntry(t)
  <2>1. PICK entry \in c.unread :
          MoveTo(t, "list_read", [c EXCEPT !.unread = @ \ {entry}, !.list = @ \cup {entry}])
    BY <1>7 DEF ListEntry
  <2> DEFINE d == [c EXCEPT !.unread = @ \ {entry}, !.list = @ \cup {entry}]
  <2>2. /\ d \in Calls /\ d.op = c.op /\ d.status = c.status /\ d.answers = c.answers
        /\ d.list = c.list \cup {entry} /\ d.unread = c.unread \ {entry} /\ d.found = c.found
        /\ Asked(d) = Asked(c)
    BY <1>1 DEF Calls, Asked
  <2> HIDE DEF d
  <2>3. MoveTo(t, "list_read", d)
    BY <2>1 DEF d
  <2>4. d.list \cup d.unread = d.found
    BY <1>6, <1>7, <2>2 DEF ListEntry
  <2>5. QED BY <1>1, <1>4, <1>6, <1>7, <2>2, <2>3, <2>4 DEF ListEntry
<1>8. CASE ListEnd(t)
  <2>1. pc[t] = "list_read" /\ c.unread = {} /\ MoveTo(t, "list_close", c)
    BY <1>8 DEF ListEnd
  <2>2. c.list = c.found
    BY <1>6, <2>1
  <2> HIDE DEF c
  <2>3. QED BY <1>1, <1>4, <1>6, <2>1, <2>2
<1>9. CASE ListFault(t)
  <2>1. pc[t] = "list_read"
    BY <1>9 DEF ListFault
  <2>2. CASE FaultEndsListing
    <3>1. MoveTo(t, "list_close", c)
      BY <1>9, <2>2 DEF ListFault, ListError
    <3> HIDE DEF c
    <3>2. QED BY <1>1, <1>4, <1>6, <2>1, <2>2, <3>1
  <2>3. CASE ~FaultEndsListing
    <3>1. Fail(t, c, "errInternal")
      BY <1>9, <2>3 DEF ListFault, ListError
    <3>2. QED BY <1>1, <1>2, <1>3, <3>1, EndKeeps
  <2>4. QED BY <2>2, <2>3
<1>10. CASE ListClose(t)
  <2>1. ~FaultEndsListing => c.list = c.found
    BY <1>1, <1>10 DEF ListClose, Lifecycle
  <2>2. Fail(t, c, "errInternal") \/ Answer(t, c)
    BY <1>10 DEF ListClose
  <2>3. QED BY <1>1, <1>2, <1>3, <2>1, <2>2, EndKeeps
<1>11. CASE ListDataError(t)
  <2>1. Fail(t, c, "errDataError") /\ "errDataError" \in Statuses
    BY <1>11 DEF ListDataError, Statuses, ErrorStatuses
  <2>2. QED BY <1>1, <1>2, <2>1, EndKeeps
<1>12. QED BY <1>5, <1>7, <1>8, <1>9, <1>10, <1>11

\* Every step keeps the inductive invariant.
LEMMA StepInv == IInv /\ [Next]_vars => IInv'
<1> SUFFICES ASSUME IInv, [Next]_vars PROVE IInv'
  OBVIOUS
<1>1. CASE UNCHANGED vars
  <2>1. UNCHANGED <<s3, entries, pc, call, remote>>
    BY <1>1 DEF vars, control
  <2>2. TypeOK' /\ (\A t \in Threads : Lifecycle(t)') /\ (~FaultEndsListing => ListingComplete')
    BY <2>1 DEF IInv, TypeOK, Lifecycle, ListingComplete
  <2>3. QED BY <2>2 DEF IInv
<1>2. ASSUME NEW t \in Threads, (\E r \in Requests : Call(t, r)) \/ Return(t) PROVE IInv'
  BY <1>2, CallKeeps
<1>3. ASSUME NEW t \in Threads, Steps(t) PROVE IInv'
  BY <1>3, RequestKeeps, ListingKeeps DEF Steps
<1>4. ASSUME NEW name \in Names, NEW kind \in Kinds, OtherClient(name, kind) PROVE IInv'
  <2>1. TypeOK'
    BY <1>4 DEF IInv, TypeOK, OtherClient, control
  <2>2. /\ \A t \in Threads : Lifecycle(t)'
        /\ ~FaultEndsListing => ListingComplete'
    BY <1>4 DEF IInv, OtherClient, control, Lifecycle, ListingComplete
  <2>3. QED BY <2>1, <2>2 DEF IInv
<1>5. QED BY <1>1, <1>2, <1>3, <1>4 DEF Next

\* The inductive invariant holds in every reachable state.
THEOREM Inductive == Spec => []IInv
BY InitInv, StepInv, PTL DEF Spec

\* Every variable keeps its type whatever davix answers: each error code of a request
\* becomes one of the statuses (Posix.cc:181-192).
THEOREM TypeCorrect == Spec => []TypeOK
<1>1. IInv => TypeOK
  BY DEF IInv
<1>2. QED BY <1>1, Inductive, PTL

\* If a readdirpp that fails still returns an entry, as the loop of Posix.cc:319-325
\* takes for granted, a DirList that returns OK hands over the whole directory.
THEOREM WholeListing ==
  ASSUME ~FaultEndsListing
  PROVE  Spec => []ListingComplete
<1>1. IInv => ListingComplete
  BY DEF IInv
<1>2. QED BY <1>1, Inductive, PTL

-----------------------------------------------------------------------------
(* The plug-in implements FileSystemContract. *)

\* The contract sees one call move when a thread moves.
LEMMA ViewMoves ==
  ASSUME TypeOK, NEW t \in Threads, NEW point, NEW c, MoveTo(t, point, c)
  PROVE  ContractCalls' = [ContractCalls EXCEPT ![t] = View(point, c)]
BY DEF TypeOK, MoveTo, ContractCalls

\* The contract speaks of the same server.
LEMMA SameServer ==
  /\ Contract!Kinds = Kinds /\ Contract!Requests = Requests
  /\ \A op, name, e : Contract!Possible(op, name, e) <=> Possible(op, name, e)
  /\ \A op, name, dest, e : Contract!Effect(op, name, dest, e) = Effect(op, name, dest, e)
  /\ \A op, name, e : Contract!Found(op, name, e) = Found(op, name, e)
BY DEF Contract!Kinds, Kinds, Contract!Requests, Requests, Contract!Possible, Possible,
       Contract!Effect, Effect, Contract!Found, Found

\* The initial states are initial states of the contract.
LEMMA InitImplements == Init => Contract!Init
<1> SUFFICES ASSUME Init PROVE Contract!Init
  OBVIOUS
<1>1. ContractCalls = [t \in Threads |-> Contract!Free]
  BY DEF Init, ContractCalls, View, NoCall, Contract!Free
<1>2. QED BY <1>1, SameServer DEF Init, Contract!Init

\* An ended call as the contract sees it.
LEMMA EndedView ==
  ASSUME NEW c \in Calls, NEW status \in Statuses
  PROVE  /\ status # "ok" =>
              View("returned", [c EXCEPT !.status = status]) =
                [op |-> c.op, name |-> c.name, dest |-> c.dest,
                 phase |-> "error", told |-> {}, answers |-> c.answers]
         /\ View("returned", [c EXCEPT !.status = "ok", !.answers = @ + 1]) =
                [op |-> c.op, name |-> c.name, dest |-> c.dest, phase |-> "ok",
                 told |-> IF c.op = "DirList" THEN c.list ELSE c.found,
                 answers |-> c.answers + 1]
BY DEF View, Calls

\* The beginning of a call begins it in the contract, or refuses it, or agrees to MkDir.
LEMMA CallImplements ==
  ASSUME TypeOK, NEW t \in Threads, NEW r \in Requests, Call(t, r), Lifecycle(t)
  PROVE  Contract!Begin(t, r) \/ Contract!Refuse(t, r) \/ Contract!AgreeToMkDir(t, r)
<1> DEFINE c == [NoCall EXCEPT !.op = r.op, !.name = r.name, !.dest = r.dest]
<1>1. ContractCalls[t].phase = "free"
  BY DEF Call, ContractCalls, View
<1>2. UNCHANGED <<entries, remote>>
  BY DEF Call
<1>3. /\ c \in Calls
      /\ c.op = r.op /\ c.name = r.name /\ c.dest = r.dest
      /\ c.found = {} /\ c.list = {} /\ c.answers = 0
  BY NewCall
<1>4. \/ r.op = "MkDir" /\ Answer(t, c)
      \/ Fail(t, c, "Unsupported")
      \/ MoveTo(t, "request", c)
      \/ MoveTo(t, "list_open", c)
  BY DEF Call, MkDir, Rename
<1> HIDE DEF c
<1>5. "Unsupported" \in Statuses /\ "Unsupported" # "ok"
  BY DEF Statuses, ErrorStatuses
<1>6. CASE r.op = "MkDir" /\ Answer(t, c)
  <2>1. ContractCalls' = [ContractCalls EXCEPT ![t] =
          [op |-> r.op, name |-> r.name, dest |-> r.dest,
           phase |-> "ok", told |-> {}, answers |-> 1]]
    <3> DEFINE d == [c EXCEPT !.status = "ok", !.answers = @ + 1]
    <3>1. View("returned", d) = [op |-> r.op, name |-> r.name, dest |-> r.dest,
                                 phase |-> "ok", told |-> {}, answers |-> 1]
      <4>1. c.answers + 1 = 1 /\ (IF c.op = "DirList" THEN c.list ELSE c.found) = {}
        BY <1>3
      <4>2. View("returned", d) =
              [op |-> c.op, name |-> c.name, dest |-> c.dest, phase |-> "ok",
               told |-> IF c.op = "DirList" THEN c.list ELSE c.found,
               answers |-> c.answers + 1]
        BY <1>3, <1>5, EndedView
      <4> HIDE DEF d
      <4>3. QED BY <1>3, <4>1, <4>2
    <3>2. MoveTo(t, "returned", d)
      BY <1>6 DEF Answer
    <3> HIDE DEF d
    <3>3. QED BY <3>1, <3>2, ViewMoves
  <2>2. QED BY <1>1, <1>2, <1>6, <2>1 DEF Contract!AgreeToMkDir, Contract!Start
<1>7. CASE Fail(t, c, "Unsupported")
  <2>1. ContractCalls' = [ContractCalls EXCEPT ![t] =
          [op |-> r.op, name |-> r.name, dest |-> r.dest,
           phase |-> "error", told |-> {}, answers |-> 0]]
    <3> DEFINE d == [c EXCEPT !.status = "Unsupported"]
    <3>1. View("returned", d) = [op |-> r.op, name |-> r.name, dest |-> r.dest,
                                 phase |-> "error", told |-> {}, answers |-> 0]
      BY <1>3, <1>5, EndedView
    <3>2. MoveTo(t, "returned", d)
      BY <1>7 DEF Fail
    <3> HIDE DEF d
    <3>3. QED BY <3>1, <3>2, ViewMoves
  <2>2. QED BY <1>1, <1>2, <2>1 DEF Contract!Refuse, Contract!Start
<1>8. CASE MoveTo(t, "request", c) \/ MoveTo(t, "list_open", c)
  <2>1. /\ View("request", c) = [op |-> r.op, name |-> r.name, dest |-> r.dest,
                                phase |-> "busy", told |-> {}, answers |-> 0]
        /\ View("list_open", c) = View("request", c)
    BY <1>3 DEF View
  <2>2. ContractCalls' = [ContractCalls EXCEPT ![t] = View("request", c)]
    BY <1>8, <2>1, ViewMoves
  <2>3. QED BY <1>1, <1>2, <2>1, <2>2 DEF Contract!Begin, Contract!Start
<1>9. QED BY <1>4, <1>6, <1>7, <1>8

\* A call that ends in an error gives up in the contract; if the request was carried
\* out and the answer lost, the contract carries it out.
LEMMA FailImplements ==
  ASSUME TypeOK, NEW t \in Threads, Lifecycle(t), NEW status \in Statuses,
         pc[t] \in {"request", "list_open", "list_read", "list_close"},
         Fail(t, call[t], status), status # "ok", UNCHANGED remote
  PROVE  /\ UNCHANGED entries => Contract!GiveUp(t)
         /\ /\ pc[t] = "request"
            /\ Possible(call[t].op, call[t].name, entries)
            /\ entries' = Effect(call[t].op, call[t].name, call[t].dest, entries)
            => Contract!CarryOut(t)
<1> DEFINE c == call[t]
           v == ContractCalls[t]
<1>1. /\ c \in Calls /\ c.answers = 0
      /\ v = View(pc[t], c) /\ v.op = c.op /\ v.name = c.name /\ v.dest = c.dest
      /\ v.phase \in {"busy", "carried_out"}
      /\ pc[t] = "request" => v.phase = "busy"
  BY DEF TypeOK, Lifecycle, ContractCalls, View
<1>2. ContractCalls' = [ContractCalls EXCEPT ![t] =
        [op |-> c.op, name |-> c.name, dest |-> c.dest,
         phase |-> "error", told |-> {}, answers |-> 0]]
  <2> DEFINE d == [c EXCEPT !.status = status]
  <2>1. View("returned", d) = [op |-> c.op, name |-> c.name, dest |-> c.dest,
                               phase |-> "error", told |-> {}, answers |-> 0]
    BY <1>1, EndedView
  <2>2. MoveTo(t, "returned", d)
    BY DEF Fail
  <2> HIDE DEF d, c
  <2>3. QED BY <2>1, <2>2, ViewMoves
<1>3. Contract!Move(t, "error", {}, 0)
  <2> HIDE DEF c
  <2>1. QED BY <1>1, <1>2 DEF Contract!Move
<1>4. UNCHANGED entries => Contract!GiveUp(t)
  BY <1>1, <1>3 DEF Contract!GiveUp
<1>5. ASSUME pc[t] = "request", Possible(c.op, c.name, entries),
             entries' = Effect(c.op, c.name, c.dest, entries)
      PROVE  Contract!CarryOut(t)
  BY <1>1, <1>3, <1>5, SameServer DEF Contract!CarryOut
<1>6. QED BY <1>4, <1>5

\* Mv, Rm, RmDir and Stat are carried out in one step, or give up.  Attempts = 1 is
\* what keeps a request that may have been carried out from being made again.
LEMMA RequestImplements ==
  ASSUME TypeOK, NEW t \in Threads, Lifecycle(t), Request(t)
  PROVE  Contract!CarryOut(t) \/ Contract!GiveUp(t)
<1> DEFINE c == call[t]
           v == ContractCalls[t]
<1>1. /\ c \in Calls /\ c.answers = 0 /\ pc[t] = "request" /\ c.op # "DirList"
      /\ v.op = c.op /\ v.name = c.name /\ v.dest = c.dest /\ v.phase = "busy"
      /\ UNCHANGED remote
  BY DEF TypeOK, Lifecycle, ContractCalls, View, Request
<1>2. ~(c.attempt < Attempts)
  BY <1>1 DEF Attempts, Calls
<1>3. PICK o, status :
        /\ o \in Outcomes(c.op, c.name, entries) /\ status \in StatusOf(c.op, o.result)
        /\ entries' = IF o.done THEN Effect(c.op, c.name, c.dest, entries) ELSE entries
        /\ \/ status = "ok" /\ Answer(t, [c EXCEPT !.found = Found(c.op, c.name, entries)])
           \/ status # "ok" /\ Fail(t, c, status)
  BY <1>2 DEF Request
<1>4. /\ status \in Statuses
      /\ status = "ok" => o.done
      /\ o.done => Possible(c.op, c.name, entries)
  BY <1>3, OutcomesSound
<1>5. CASE status # "ok"
  BY <1>1, <1>3, <1>4, <1>5, FailImplements
<1>6. CASE status = "ok"
  <2> DEFINE found == Found(c.op, c.name, entries)
             d == [c EXCEPT !.found = found]
             e == [d EXCEPT !.status = "ok", !.answers = @ + 1]
  <2>1. found \subseteq Entries
    BY FoundType DEF TypeOK
  <2> HIDE DEF found
  <2>2. /\ d \in Calls /\ d.op = c.op /\ d.name = c.name /\ d.dest = c.dest
        /\ d.found = found /\ d.answers = 0
    BY <1>1, <2>1 DEF Calls
  <2> HIDE DEF d
  <2>3. MoveTo(t, "returned", e)
    BY <1>3, <1>6 DEF Answer, d, found
  <2>4. View("returned", e) =
          [op |-> c.op, name |-> c.name, dest |-> c.dest, phase |-> "ok",
           told |-> found, answers |-> 1]
    <3>1. d.answers + 1 = 1 /\ (IF d.op = "DirList" THEN d.list ELSE d.found) = found
      BY <1>1, <2>2
    <3>2. View("returned", e) =
            [op |-> d.op, name |-> d.name, dest |-> d.dest, phase |-> "ok",
             told |-> IF d.op = "DirList" THEN d.list ELSE d.found,
             answers |-> d.answers + 1]
      BY <2>2, EndedView DEF Statuses
    <3> HIDE DEF e
    <3>3. QED BY <2>2, <3>1, <3>2
  <2> HIDE DEF e
  <2>5. Contract!Move(t, "ok", found, 1)
    <3> HIDE DEF c
    <3>1. QED BY <1>1, <2>3, <2>4, ViewMoves DEF Contract!Move
  <2>6. found = Contract!Found(c.op, c.name, entries)
    BY SameServer DEF found
  <2>7. /\ Contract!Possible(c.op, c.name, entries)
        /\ entries' = Contract!Effect(c.op, c.name, c.dest, entries)
    BY <1>3, <1>4, <1>6, SameServer
  <2>8. QED BY <1>1, <2>5, <2>6, <2>7 DEF Contract!CarryOut
<1>7. QED BY <1>5, <1>6

\* DirList is carried out when the directory is fetched; reading it entry by entry is
\* invisible, and closing it tells the caller.
LEMMA ListingImplements ==
  ASSUME TypeOK, NEW t \in Threads, Lifecycle(t), ~FaultEndsListing,
         \/ ListOpen(t) \/ ListEntry(t) \/ ListDataError(t) \/ ListEnd(t) \/ ListFault(t)
         \/ ListClose(t)
  PROVE  \/ Contract!CarryOut(t) \/ Contract!GiveUp(t) \/ Contract!Tell(t)
         \/ UNCHANGED <<entries, ContractCalls, remote>>
<1> DEFINE c == call[t]
           v == ContractCalls[t]
<1>1. /\ c \in Calls /\ c.answers = 0 /\ c.op = "DirList" /\ c.status = "none"
      /\ v = View(pc[t], c) /\ v.op = c.op /\ v.name = c.name /\ v.dest = c.dest
      /\ UNCHANGED <<entries, remote>>
      /\ pc[t] \in {"list_open", "list_read", "list_close"}
  BY DEF TypeOK, Lifecycle, ContractCalls, View,
         ListOpen, ListEntry, ListDataError, ListEnd, ListFault, ListClose
<1>2. CASE Fail(t, c, "errInternal") \/ Fail(t, c, "errDataError")
  BY <1>1, <1>2, FailImplements DEF Statuses, ErrorStatuses
\* A step that leaves what the contract sees.
<1>3. ASSUME pc[t] = "list_read", NEW point \in {"list_read", "list_close"},
             NEW d, d.op = c.op, d.name = c.name, d.dest = c.dest, d.found = c.found,
             d.answers = c.answers, MoveTo(t, point, d)
      PROVE  UNCHANGED <<entries, ContractCalls, remote>>
  <2>1. View(point, d) = v
    BY <1>1, <1>3 DEF View
  <2>2. ContractCalls' = [ContractCalls EXCEPT ![t] = v]
    BY <1>3, <2>1, ViewMoves
  <2>3. ContractCalls' = ContractCalls
    BY <2>2 DEF ContractCalls
  <2>4. QED BY <1>1, <2>3
<1>4. CASE ListOpen(t) /\ ~Fail(t, c, "errInternal")
  <2> DEFINE found == Found("DirList", c.name, entries)
             d == [c EXCEPT !.found = found, !.unread = found]
  <2>1. MoveTo(t, "list_read", d) /\ v.phase = "busy"
    BY <1>1, <1>4 DEF ListOpen, View
  <2> HIDE DEF found
  <2>2. View("list_read", d) = [op |-> c.op, name |-> c.name, dest |-> c.dest,
                                phase |-> "carried_out", told |-> found, answers |-> 0]
    BY <1>1 DEF View, Calls
  <2> HIDE DEF d
  <2>3. Contract!Move(t, "carried_out", found, 0)
    <3> HIDE DEF c
    <3>1. QED BY <1>1, <2>1, <2>2, ViewMoves DEF Contract!Move
  <2>4. /\ found = Contract!Found(c.op, c.name, entries)
        /\ Contract!Possible(c.op, c.name, entries)
        /\ entries' = Contract!Effect(c.op, c.name, c.dest, entries)
    BY <1>1, SameServer DEF found, Possible, Effect
  <2>5. QED BY <1>1, <2>1, <2>3, <2>4 DEF Contract!CarryOut
<1>5. CASE ListEntry(t)
  <2>1. PICK entry \in c.unread :
          MoveTo(t, "list_read", [c EXCEPT !.unread = @ \ {entry}, !.list = @ \cup {entry}])
    BY <1>5 DEF ListEntry
  <2> DEFINE d == [c EXCEPT !.unread = @ \ {entry}, !.list = @ \cup {entry}]
  <2>2. /\ d.op = c.op /\ d.name = c.name /\ d.dest = c.dest
        /\ d.found = c.found /\ d.answers = c.answers
    BY <1>1 DEF Calls
  <2>3. MoveTo(t, "list_read", d) /\ pc[t] = "list_read"
    BY <1>5, <2>1 DEF ListEntry
  <2> HIDE DEF d, c
  <2>4. QED BY <1>3, <2>2, <2>3
<1>6. CASE ListEnd(t)
  <2>1. MoveTo(t, "list_close", c) /\ pc[t] = "list_read"
    BY <1>6 DEF ListEnd
  <2> HIDE DEF c
  <2>2. QED BY <1>3, <2>1
<1>7. CASE ListClose(t) /\ ~Fail(t, c, "errInternal")
  <2> DEFINE d == [c EXCEPT !.status = "ok", !.answers = @ + 1]
  <2>1. MoveTo(t, "returned", d) /\ c.list = c.found /\ v.phase = "carried_out"
        /\ v.told = c.found
    BY <1>1, <1>7 DEF ListClose, Answer, Lifecycle, View
  <2>2. View("returned", d) = [op |-> c.op, name |-> c.name, dest |-> c.dest,
                               phase |-> "ok", told |-> v.told, answers |-> 1]
    <3>1. c.answers + 1 = 1 /\ (IF c.op = "DirList" THEN c.list ELSE c.found) = v.told
      BY <1>1, <2>1
    <3>2. View("returned", d) =
            [op |-> c.op, name |-> c.name, dest |-> c.dest, phase |-> "ok",
             told |-> IF c.op = "DirList" THEN c.list ELSE c.found,
             answers |-> c.answers + 1]
      BY <1>1, EndedView DEF Statuses
    <3> HIDE DEF d, v
    <3>3. QED BY <3>1, <3>2
  <2> HIDE DEF d
  <2>3. Contract!Move(t, "ok", v.told, 1)
    <3> HIDE DEF c
    <3>1. QED BY <1>1, <2>1, <2>2, ViewMoves DEF Contract!Move
  <2>4. QED BY <1>1, <2>1, <2>3 DEF Contract!Tell
<1>8. (ListFault(t) => Fail(t, c, "errInternal")) /\ (ListDataError(t) => Fail(t, c, "errDataError"))
  BY DEF ListFault, ListError, ListDataError
<1>9. QED BY <1>2, <1>4, <1>5, <1>6, <1>7, <1>8

\* Every step is a step of the contract, or one it does not see.
LEMMA StepImplements ==
  ASSUME ~FaultEndsListing
  PROVE  IInv /\ [Next]_vars => [Contract!Next]_(Contract!vars)
<1> SUFFICES ASSUME IInv, [Next]_vars PROVE [Contract!Next]_(Contract!vars)
  OBVIOUS
<1>1. TypeOK /\ \A t \in Threads : Lifecycle(t)
  BY DEF IInv
<1>2. CASE UNCHANGED vars
  BY <1>2 DEF vars, control, Contract!vars, ContractCalls
<1>3. ASSUME NEW t \in Threads, NEW r \in Requests, Call(t, r)
      PROVE  Contract!Next
  <2>1. r \in Contract!Requests
    BY SameServer
  <2>2. Contract!Begin(t, r) \/ Contract!Refuse(t, r) \/ Contract!AgreeToMkDir(t, r)
    BY <1>1, <1>3, CallImplements
  <2>3. QED BY <2>1, <2>2 DEF Contract!Next
<1>4. ASSUME NEW t \in Threads, Return(t) PROVE Contract!Next
  <2>1. MoveTo(t, "idle", NoCall) /\ UNCHANGED <<entries, remote>>
    BY <1>4 DEF Return
  <2>2. View("idle", NoCall) = Contract!Free
    BY DEF View, NoCall, Contract!Free
  <2>3. ContractCalls[t].phase \in {"ok", "error"}
    BY <1>4 DEF Return, ContractCalls, View
  <2>4. Contract!Return(t)
    BY <1>1, <2>1, <2>2, <2>3, ViewMoves DEF Contract!Return
  <2>5. QED BY <2>4 DEF Contract!Next
<1>5. ASSUME NEW t \in Threads, Steps(t)
      PROVE  Contract!Next \/ UNCHANGED Contract!vars
  <2>1. \/ Contract!CarryOut(t) \/ Contract!GiveUp(t) \/ Contract!Tell(t)
        \/ UNCHANGED <<entries, ContractCalls, remote>>
    BY <1>1, <1>5, RequestImplements, ListingImplements DEF Steps
  <2>2. QED BY <2>1 DEF Contract!Next, Contract!vars
<1>6. ASSUME NEW name \in Names, NEW kind \in Kinds, OtherClient(name, kind)
      PROVE  Contract!Next
  <2>1. ContractCalls' = ContractCalls
    BY <1>6 DEF OtherClient, control, ContractCalls
  <2>2. entries' \in [Names -> Kinds] /\ remote' = remote + 1
    BY <1>1, <1>6 DEF OtherClient, TypeOK
  <2>3. QED BY <2>1, <2>2, SameServer DEF Contract!Next, Contract!Others
<1>7. QED BY <1>2, <1>3, <1>4, <1>5, <1>6 DEF Next

\* HttpFileSystemPlugIn implements FileSystemContract: a call that returns OK has been
\* carried out once, at one moment, one that fails at most once, and a listing is the
\* directory of one moment (HttpFileSystemPlugIn.cc:57-215, Posix.cc:61, 299-354).
THEOREM Implements ==
  ASSUME ~FaultEndsListing
  PROVE  Spec => KeepsContract
<1>1. Init => Contract!Init
  BY InitImplements
<1>2. IInv /\ [Next]_vars => [Contract!Next]_(Contract!vars)
  BY StepImplements
<1>3. QED BY <1>1, <1>2, Inductive, PTL DEF Spec, KeepsContract, Contract!Spec
=============================================================================
