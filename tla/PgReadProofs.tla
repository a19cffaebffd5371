---------------------------- MODULE PgReadProofs ----------------------------
(***************************************************************************)
(* Proofs about PgRead: it is an HttpFilePlugIn, so all that is proved of  *)
(* one holds with PgRead too; its pages have checksums when the channel is *)
(* encrypted, and make up the answer, for every page size.                 *)
(***************************************************************************)
EXTENDS PgRead, HttpFileContractProofs

\* PgRead adds to HttpFilePlugIn and changes nothing of it: whatever holds of Read
\* holds of a Read with the substitution handler (HttpFilePlugIn.cc:342-348).
THEOREM PgImplements == PgSpec => Spec
<1>1. PgInit => Init
  BY DEF PgInit
<1>2. [PgNext]_<<vars, paging>> => [Next]_vars
  <2>1. ASSUME NEW t \in Threads, PgCall(t) \/ PgReadCall(t) PROVE CallsBy(t)
    BY <2>1 DEF PgCall, PgReadCall, CallsBy
  <2>2. QED BY <2>1 DEF PgNext, PgStep, PgReturn, PgRemote, Next
<1>3. QED BY <1>1, <1>2, PTL DEF PgSpec, Spec

-----------------------------------------------------------------------------
(* The channel. *)

\* An Open that may still succeed has settled the channel; a handler that waits for its
\* answer belongs to a Read.
ChannelOf(t) ==
  /\ pc[t] \in OpenSteps => isChannelEncrypted = (call[t].url \in HttpsUrls)
  /\ pc[t] = "idle" => subst[t] = NoHandler
  /\ pc[t] # "idle" /\ subst[t].state = "allocated" => call[t].op = "Read"
  /\ InCall(t) /\ subst[t].state = "allocated" =>
       subst[t].encrypted = (url_ \in HttpsUrls)

ChannelInv ==
  /\ PgTypeOK
  /\ is_open_ => isChannelEncrypted = (url_ \in HttpsUrls)
  /\ \A t \in Threads : ChannelOf(t)

\* A handler that is called is deleted, otherwise it stays what it is.
LEMMA HandlerType ==
  ASSUME NEW h \in Handlers, NEW c
  PROVE  /\ HandleResponse(h, c) \in Handlers
         /\ HandleResponse(h, c).state = "allocated" => h.state = "allocated"
         /\ HandleResponse(h, c).encrypted = h.encrypted
BY DEF HandleResponse, Handlers

\* url_ changes when no data call runs.
LEMMA StepsChangeUrlAlone ==
  ASSUME IInv, NEW t \in Threads, Steps(t)
  PROVE  \/ UNCHANGED <<is_open_, url_>>
         \/ /\ ~is_open_' \/ (pc[t] \in OpenSteps /\ url_' = call[t].url)
            /\ call[t].op \in {"Open", "Close"}
            /\ \A s \in Threads \ {t} : ~InCall(s)
<1>1. /\ Follows(t) /\ Lifecycle(t) /\ Exclusive
  BY StepsFollow DEF IInv
<1>2. CASE pc[t] \in DataSteps
  BY <1>1, <1>2 DEF Follows
<1>3. CASE OpenDavix(t)
  <2>1. InCall(t) /\ call[t].op = "Open" /\ pc[t] \in OpenSteps
    BY <1>1, <1>3 DEF OpenDavix, InCall, Lifecycle, OpenSteps
  <2>2. UNCHANGED <<is_open_, url_>> \/ url_' = call[t].url
    BY <1>3 DEF OpenDavix
  <2>3. QED BY <1>1, <2>1, <2>2 DEF Exclusive
<1>4. CASE CloseDavix(t)
  <2>1. InCall(t) /\ call[t].op = "Close"
    BY <1>1, <1>4 DEF CloseDavix, InCall, Lifecycle
  <2>2. UNCHANGED <<is_open_, url_>> \/ ~is_open_'
    BY <1>4 DEF CloseDavix, CloseFailed
  <2>3. QED BY <1>1, <2>1, <2>2 DEF Exclusive
<1>5. CASE OpenStatDelete(t) \/ OpenUnlink(t) \/ OpenStatRead(t)
  BY <1>5 DEF OpenStatDelete, OpenUnlink, OpenStatRead, object
<1>6. QED BY <1>1, <1>2, <1>3, <1>4, <1>5
  DEF Steps, StatDavix, StatFake, ReadClamp, ReadLock, ReadPositioned, ReadSequential,
      ReadDone, VectorReadDavix, WriteSeek, WriteDavix, WriteLoad, WriteStore,
      DataSteps, ReadSteps, WriteSteps

\* A PgRead is a Read, which gets past its first test if the file is open.
LEMMA PgReadCallReads ==
  ASSUME TypeOK, NEW t \in Threads, PgReadCall(t)
  PROVE  call'[t].op = "Read" /\ (pc'[t] # "returned" => is_open_)
<1>1. PICK offset \in Offsets, size \in Sizes : ReadCall(t, offset, size)
  BY DEF PgReadCall
<1> DEFINE c == [NoCall EXCEPT !.op = "Read", !.offset = offset, !.size = size,
                               !.asked = size]
<1>2. c \in Calls /\ c.op = "Read"
  BY DataCallType DEF Ops, NoCall
<1>3. PICK point : StartOrRefuse(t, point, c)
  BY <1>1 DEF ReadCall
<1> HIDE DEF c
<1>4. QED BY <1>2, <1>3, StartEffect DEF Moves, SameCall

LEMMA ChannelStep == IInv /\ ChannelInv /\ [PgNext]_<<vars, paging>> => ChannelInv'
<1> SUFFICES ASSUME IInv, ChannelInv, [PgNext]_<<vars, paging>> PROVE ChannelInv'
  OBVIOUS
<1>0. /\ TypeOK /\ PgTypeOK /\ \A t \in Threads : ChannelOf(t) /\ Lifecycle(t)
      /\ subst \in [Threads -> Handlers] /\ isChannelEncrypted \in BOOLEAN
  BY DEF IInv, ChannelInv, PgTypeOK
<1>1. ASSUME NEW t \in Threads, PgStep(t) PROVE ChannelInv'
  <2>1. /\ Steps(t) /\ Follows(t) /\ isChannelEncrypted' = isChannelEncrypted
        /\ subst' = [subst EXCEPT ![t] = HandleResponse(@, call'[t])]
    BY <1>1, StepsFollow DEF PgStep
  <2>2. PgTypeOK'
    BY <1>0, <2>1, HandlerType DEF PgTypeOK
  <2>3. is_open_' => isChannelEncrypted' = (url_' \in HttpsUrls)
    BY <1>0, <2>1, StepsChangeUrlAlone DEF ChannelInv, ChannelOf
  <2>4. ChannelOf(t)'
    <3>1. pc[t] # "idle" /\ pc'[t] # "idle"
      BY <2>1 DEF Follows, OpenSteps, DataSteps, ReadSteps, WriteSteps
    <3>2. /\ subst'[t].state = "allocated" => subst[t].state = "allocated"
          /\ subst'[t].encrypted = subst[t].encrypted
      BY <1>0, <2>1, HandlerType
    <3>3. subst'[t].state = "allocated" => call'[t].op = "Read" /\ call[t].op = "Read"
      BY <1>0, <2>1, <3>1, <3>2 DEF ChannelOf, Follows
    <3>4. pc'[t] \in OpenSteps => pc[t] \in OpenSteps
      BY <2>1 DEF Follows, OpenSteps, DataSteps, ReadSteps, WriteSteps
    <3>5. InCall(t)' => InCall(t)
      BY <2>1 DEF InCall, Follows, OpenSteps, DataSteps, ReadSteps, WriteSteps
    <3>6. subst'[t].state = "allocated" => url_' = url_
      BY <2>1, <3>3, StepsChangeUrlAlone
    <3>7. QED BY <1>0, <2>1, <3>1, <3>2, <3>3, <3>4, <3>5, <3>6 DEF ChannelOf, Follows
  <2>5. ASSUME NEW s \in Threads, s # t PROVE ChannelOf(s)'
    <3>1. pc'[s] = pc[s] /\ call'[s] = call[s] /\ subst'[s] = subst[s]
      BY <1>0, <2>1, <2>5 DEF Follows
    <3>2. InCall(s) => url_' = url_
      BY <2>1, <2>5, StepsChangeUrlAlone
    <3>3. QED BY <1>0, <2>1, <3>1, <3>2 DEF ChannelOf, InCall
  <2>6. QED BY <2>2, <2>3, <2>4, <2>5 DEF ChannelInv
<1>2. ASSUME NEW t \in Threads, PgCall(t) PROVE ChannelInv'
  <2>1. /\ CallsBy(t) /\ Begins(t) /\ subst' = subst
        /\ isChannelEncrypted' =
             IF call'[t].op = "Open" THEN Channel(call'[t].url) ELSE isChannelEncrypted
    BY <1>0, <1>2, CallsByBegins DEF PgCall
  <2>2. PgTypeOK'
    <3>1. Channel(call'[t].url) \in BOOLEAN
      <4>1. CASE is_open_
        <5>1. Channel(call'[t].url) = isChannelEncrypted
          BY <4>1 DEF Channel
        <5>2. QED BY <1>0, <5>1
      <4>2. CASE ~is_open_
        <5>1. CASE call'[t].url \in HttpsUrls
          BY <4>2, <5>1 DEF Channel
        <5>2. CASE call'[t].url \notin HttpsUrls
          BY <4>2, <5>2 DEF Channel
        <5>3. QED BY <5>1, <5>2
      <4>3. QED BY <4>1, <4>2
    <3>2. isChannelEncrypted' \in BOOLEAN
      BY <1>0, <2>1, <3>1, Zenon
    <3>3. QED BY <1>0, <2>1, <3>2 DEF PgTypeOK
  <2>3. is_open_ => isChannelEncrypted' = isChannelEncrypted
    BY <2>1 DEF Channel
  <2>4. is_open_' => isChannelEncrypted' = (url_' \in HttpsUrls)
    BY <2>1, <2>3 DEF Begins, ChannelInv
  <2>5. subst[t] = NoHandler
    BY <1>0, <2>1 DEF Begins, ChannelOf
  <2>6. pc'[t] \in OpenSteps => isChannelEncrypted' = (call'[t].url \in HttpsUrls)
    <3>1. CASE is_open_
      <4>1. pc'[t] \notin OpenSteps
        <5>1. ASSUME NEW u \in Urls, NEW flags \in FlagSets, OpenCall(t, u, flags)
              PROVE  pc'[t] = "returned"
          BY <1>0, <3>1, <5>1 DEF OpenCall, Fail, MoveTo, TypeOK
        <5>2. ASSUME NEW c, NEW point, point \notin OpenSteps, StartOrRefuse(t, point, c)
              PROVE  pc'[t] \notin OpenSteps
          BY <1>0, <3>1, <5>2 DEF StartOrRefuse, MoveTo, TypeOK
        <5>3. SyncCall(t) => pc'[t] \notin OpenSteps
          BY <1>0 DEF SyncCall, MoveTo, TypeOK, OpenSteps
        <5>4. {"close_davix", "stat_davix", "read_clamp", TransferStep, "vread_davix",
               "write_seek", "returned"} \cap OpenSteps = {}
          BY DEF OpenSteps, TransferStep
        <5>5. QED BY <2>1, <5>1, <5>2, <5>3, <5>4
          DEF CallsBy, CloseCall, StatCall, ReadCall, VectorReadCall, WriteCall
      <4>2. QED BY <4>1
    <3>2. CASE ~is_open_
      BY <2>1, <3>2 DEF Begins, Channel, OpenSteps, TransferStep
    <3>3. QED BY <3>1, <3>2
  <2>7. ChannelOf(t)'
    BY <2>1, <2>5, <2>6 DEF ChannelOf, NoHandler, Begins
  <2>8. ASSUME NEW s \in Threads, s # t PROVE ChannelOf(s)'
    <3>1. pc'[s] = pc[s] /\ call'[s] = call[s] /\ subst'[s] = subst[s] /\ url_' = url_
      BY <2>1, <2>8 DEF Begins
    <3>2. pc[s] \in OpenSteps => isChannelEncrypted' = isChannelEncrypted
      <4>1. pc[s] \in OpenSteps => InCall(s) /\ call[s].op = "Open"
        BY <1>0 DEF InCall, OpenSteps, Lifecycle
      <4>2. QED BY <2>1, <2>8, <4>1 DEF Begins, MayStart
    <3>3. QED BY <1>0, <3>1, <3>2 DEF ChannelOf, InCall
  <2>9. QED BY <2>2, <2>4, <2>7, <2>8 DEF ChannelInv
<1>3. ASSUME NEW t \in Threads, PgReadCall(t) PROVE ChannelInv'
  <2> DEFINE h == [state |-> "allocated", encrypted |-> isChannelEncrypted]
  <2>1. /\ CallsBy(t) /\ Begins(t) /\ isChannelEncrypted' = isChannelEncrypted
        /\ subst' = [subst EXCEPT ![t] = h]
    BY <1>0, <1>3, CallsByBegins DEF PgReadCall, CallsBy
  <2>2. PgTypeOK'
    BY <1>0, <2>1 DEF PgTypeOK, Handlers
  <2>3. is_open_' => isChannelEncrypted' = (url_' \in HttpsUrls)
    BY <2>1 DEF Begins, ChannelInv
  <2>5. call'[t].op = "Read" /\ (pc'[t] # "returned" => is_open_)
    BY <1>0, <1>3, PgReadCallReads
  <2>6. ChannelOf(t)'
    BY <1>0, <2>1, <2>5 DEF ChannelOf, Begins, InCall, ChannelInv, OpenSteps, TransferStep
  <2>7. ASSUME NEW s \in Threads, s # t PROVE ChannelOf(s)'
    BY <1>0, <2>1, <2>7 DEF Begins, ChannelOf, InCall
  <2>8. QED BY <2>2, <2>3, <2>6, <2>7 DEF ChannelInv
<1>4. ASSUME NEW t \in Threads, PgReturn(t) PROVE ChannelInv'
  <2>1. /\ pc'[t] = "idle" /\ subst' = [subst EXCEPT ![t] = NoHandler]
        /\ \A s \in Threads \ {t} : pc'[s] = pc[s] /\ call'[s] = call[s]
        /\ UNCHANGED <<is_open_, url_, isChannelEncrypted>>
    BY <1>0, <1>4, MoveToEffect DEF PgReturn, Return, object
  <2>2. NoHandler \in Handlers
    BY DEF NoHandler, Handlers
  <2>3. PgTypeOK'
    BY <1>0, <2>1, <2>2 DEF PgTypeOK
  <2>4. \A s \in Threads : ChannelOf(s)'
    BY <1>0, <2>1 DEF ChannelOf, InCall, OpenSteps
  <2>5. QED BY <2>1, <2>3, <2>4 DEF ChannelInv
<1>5. CASE UNCHANGED <<object, control, paging>>
  BY <1>5 DEF object, control, paging, ChannelInv, PgTypeOK, ChannelOf, InCall
<1>6. CASE PgRemote
  BY <1>5, <1>6 DEF PgRemote, RemoteChange
<1>7. CASE UNCHANGED <<vars, paging>>
  BY <1>5, <1>7 DEF vars
<1>8. QED BY <1>1, <1>2, <1>3, <1>4, <1>6, <1>7 DEF PgNext

\* The handler of a PgRead knows whether the file it reads is an https file, however
\* Opens that are refused and Closes come between.
THEOREM Summed == PgSpec => []SummedIffHttps
<1>1. PgInit => ChannelInv
  BY DEF PgInit, Init, ChannelInv, PgTypeOK, ChannelOf, NoHandler, Handlers, InCall, OpenSteps
<1>2. ChannelInv => SummedIffHttps
  BY DEF ChannelInv, ChannelOf, SummedIffHttps
<1>3. QED BY <1>1, <1>2, ChannelStep, Inductive, PgImplements, PTL DEF PgSpec

\* Its callers are answered as those of any other method: once, and only when it
\* returns OK.
THEOREM PgKeepsContract == PgSpec => KeepsContract
BY PgImplements, Implements

-----------------------------------------------------------------------------
(* The handler. *)

HandlerAt(t) ==
  /\ InCall(t) => subst[t].state # "deleted"
  /\ pc[t] = "returned" /\ subst[t].state = "deleted" => call[t].status = "ok"
  /\ pc[t] = "returned" /\ subst[t].state = "allocated" => call[t].status # "ok"

\* Every step keeps a running call's handler and deletes that of a call it answers.
LEMMA HandlerStep ==
  IInv /\ AnswerInv /\ ChannelInv /\ HandlerOutlivesRead /\ [PgNext]_<<vars, paging>>
  => HandlerOutlivesRead'
<1> SUFFICES ASSUME IInv, AnswerInv, ChannelInv, HandlerOutlivesRead,
                    [PgNext]_<<vars, paging>>, NEW s \in Threads
             PROVE  HandlerAt(s)'
  BY DEF HandlerOutlivesRead, HandlerAt
<1>1. /\ TypeOK /\ subst \in [Threads -> Handlers] /\ HandlerAt(s)
      /\ \A t \in Threads : pc[t] = "idle" => subst[t] = NoHandler
  BY DEF IInv, ChannelInv, PgTypeOK, ChannelOf, HandlerOutlivesRead, HandlerAt
<1>2. ASSUME NEW t \in Threads, PgStep(t) PROVE HandlerAt(s)'
  <2>1. /\ Ends(t) /\ Follows(t)
        /\ subst' = [subst EXCEPT ![t] = HandleResponse(@, call'[t])]
    BY <1>2, StepsEnd, StepsFollow DEF PgStep
  <2>2. CASE s = t
    <3>1. InCall(t) /\ call[t].answers = 0 /\ subst[t].state # "deleted"
      BY <1>1, <2>1, <2>2
      DEF Follows, InCall, AnswerInv, Unanswered, HandlerAt, OpenSteps, DataSteps, ReadSteps,
          WriteSteps
    <3>2. subst'[t] = HandleResponse(subst[t], call'[t]) /\ subst[t] \in Handlers
      BY <1>1, <2>1
    <3>3. CASE GoesOn(t, call[t]) \/ Fails(t, call[t])
      <4>1. call'[t].answers = 0 /\ (pc'[t] = "returned" => call'[t].status # "ok")
        BY <3>1, <3>3 DEF GoesOn, Fails, SameAnswer, InCall
      <4>2. subst'[t] = subst[t]
        BY <3>2, <4>1 DEF HandleResponse
      <4>3. QED BY <2>2, <3>1, <4>1, <4>2 DEF HandlerAt
    <3>4. CASE Succeeds(t, call[t])
      <4>1. call'[t].answers = 1 /\ pc'[t] = "returned" /\ call'[t].status = "ok"
        BY <3>1, <3>4 DEF Succeeds
      <4>2. subst'[t].state # "allocated"
        BY <3>2, <4>1 DEF HandleResponse, Handlers
      <4>3. QED BY <2>2, <4>1, <4>2 DEF HandlerAt, InCall
    <3>5. QED BY <2>1, <3>3, <3>4 DEF Ends
  <2>3. CASE s # t
    BY <1>1, <2>1, <2>3 DEF Follows, HandlerAt, InCall
  <2>4. QED BY <2>2, <2>3
<1>3. ASSUME NEW t \in Threads, PgCall(t) PROVE HandlerAt(s)'
  <2>1. Begins(t) /\ subst' = subst
    BY <1>1, <1>3, CallsByBegins DEF PgCall
  <2>2. QED BY <1>1, <2>1 DEF Begins, NoHandler, HandlerAt, InCall
<1>4. ASSUME NEW t \in Threads, PgReadCall(t) PROVE HandlerAt(s)'
  <2>1. /\ CallsBy(t) /\ Begins(t) /\ Starts(t) /\ call'[t].op = "Read"
        /\ subst' = [subst EXCEPT ![t] = [state |-> "allocated",
                                         encrypted |-> isChannelEncrypted]]
    BY <1>1, <1>4, CallsByBegins, CallsStart, PgReadCallReads DEF PgReadCall, CallsBy
  <2>2. CASE s = t
    BY <1>1, <2>1, <2>2 DEF Starts, HandlerAt, InCall
  <2>3. CASE s # t
    BY <1>1, <2>1, <2>3 DEF Begins, HandlerAt, InCall
  <2>4. QED BY <2>2, <2>3
<1>5. ASSUME NEW t \in Threads, PgReturn(t) PROVE HandlerAt(s)'
  <2>1. /\ pc'[t] = "idle" /\ subst' = [subst EXCEPT ![t] = NoHandler]
        /\ \A r \in Threads \ {t} : pc'[r] = pc[r] /\ call'[r] = call[r]
    BY <1>1, <1>5, MoveToEffect DEF PgReturn, Return
  <2>2. QED BY <1>1, <2>1 DEF HandlerAt, InCall, NoHandler
<1>6. CASE PgRemote
  BY <1>1, <1>6 DEF PgRemote, RemoteChange, control, paging, HandlerAt, InCall
<1>7. CASE UNCHANGED <<vars, paging>>
  BY <1>1, <1>7 DEF vars, control, paging, HandlerAt, InCall
<1>8. QED BY <1>2, <1>3, <1>4, <1>5, <1>6, <1>7 DEF PgNext

\* The handler of a PgRead is alive as long as its Read runs, and a PgRead that returns OK
\* has deleted it, in every interleaving (HttpFilePlugIn.cc:285-348).
THEOREM HandlerOutlives == PgSpec => []HandlerOutlivesRead
<1>1. PgInit => ChannelInv /\ HandlerOutlivesRead
  BY DEF PgInit, Init, ChannelInv, PgTypeOK, ChannelOf, NoHandler, Handlers, InCall,
         OpenSteps, HandlerOutlivesRead
<1>2. QED BY <1>1, ChannelStep, HandlerStep, Inductive, AnswersLast, PgImplements, PTL
         DEF PgSpec

-----------------------------------------------------------------------------
(* The pages. *)

\* Division by the page size.
LEMMA Division ==
  ASSUME NEW n \in Nat
  PROVE  /\ n \div PageSize \in Nat /\ n % PageSize \in 0..PageSize - 1
         /\ n = PageSize * (n \div PageSize) + (n % PageSize)
BY PagesAssumption

\* All pages but the last are full, the last is what is left and never empty.
LEMMA LengthOfPage ==
  ASSUME NEW n \in Nat, NEW pg \in 1..NbPages(n)
  PROVE  /\ PageLengths(n)[pg] \in 1..PageSize
         /\ pg < NbPages(n) => PageLengths(n)[pg] = PageSize
         /\ (pg - 1) * PageSize + PageLengths(n)[pg] = n \/ PageLengths(n)[pg] = PageSize
<1> DEFINE q == n \div PageSize
           r == n % PageSize
<1>1. /\ q \in Nat /\ r \in 0..PageSize - 1 /\ n = PageSize * q + r
      /\ PageSize \in Nat \ {0}
  BY Division, PagesAssumption
<1>2. pg \in Nat \ {0} /\ NbPages(n) = q + (IF r # 0 THEN 1 ELSE 0)
  BY <1>1 DEF NbPages
<1> HIDE DEF q, r
<1> DEFINE left == n - (pg - 1) * PageSize
<1>3. PageLengths(n)[pg] = IF PageSize > left THEN left ELSE PageSize
  BY DEF PageLengths
<1>4. left = PageSize * (q - (pg - 1)) + r
  BY <1>1, <1>2
<1>5. CASE pg - 1 < q
  <2>1. q - (pg - 1) \in Nat \ {0}
    BY <1>1, <1>2, <1>5
  <2>2. PageSize * (q - (pg - 1)) >= PageSize
    BY <1>1, <2>1
  <2>3. left \in Nat /\ left >= PageSize
    BY <1>1, <1>4, <2>1, <2>2
  <2> HIDE DEF left
  <2>4. QED BY <1>1, <1>3, <2>3
<1>6. CASE pg - 1 >= q
  <2>1. pg - 1 = q /\ r # 0 /\ pg = NbPages(n)
    BY <1>1, <1>2, <1>6
  <2>2. left = r
    BY <1>1, <1>4, <2>1
  <2>3. n = (pg - 1) * PageSize + r
    BY <1>1, <2>1
  <2> HIDE DEF left
  <2>4. QED BY <1>1, <1>3, <2>1, <2>2, <2>3
<1>7. QED BY <1>1, <1>2, <1>5, <1>6

\* The page the i-th byte is on.
LEMMA PageOfByte ==
  ASSUME NEW n \in Nat, NEW i \in 0..n - 1
  PROVE  \E pg \in 1..NbPages(n) :
           (pg - 1) * PageSize <= i /\ i < (pg - 1) * PageSize + PageLengths(n)[pg]
<1> DEFINE q == i \div PageSize
           r == i % PageSize
           Q == n \div PageSize
           R == n % PageSize
           pg == q + 1
<1>1. /\ q \in Nat /\ r \in 0..PageSize - 1 /\ i = PageSize * q + r
      /\ Q \in Nat /\ R \in 0..PageSize - 1 /\ n = PageSize * Q + R
      /\ PageSize \in Nat \ {0} /\ i \in Nat /\ i < n
  BY Division, PagesAssumption
<1>2. NbPages(n) = Q + (IF R # 0 THEN 1 ELSE 0)
  BY DEF NbPages
<1> HIDE DEF q, r, Q, R
<1>3. q < Q \/ (q = Q /\ R # 0)
  <2>1. CASE q > Q
    <3>1. PageSize * q >= PageSize * (Q + 1)
      BY <1>1, <2>1
    <3>2. PageSize * (Q + 1) = PageSize * Q + PageSize
      BY <1>1
    <3>3. QED BY <1>1, <3>1, <3>2
  <2>2. CASE q = Q /\ R = 0
    BY <1>1, <2>2
  <2>3. QED BY <1>1, <2>1, <2>2
<1>4. pg \in 1..NbPages(n) /\ pg - 1 = q
  BY <1>1, <1>2, <1>3
<1>5. (pg - 1) * PageSize = PageSize * q
  BY <1>1, <1>4
<1>6. \/ (pg - 1) * PageSize + PageLengths(n)[pg] = n
      \/ PageLengths(n)[pg] = PageSize
  BY <1>4, LengthOfPage
<1> HIDE DEF pg
<1>7. (pg - 1) * PageSize <= i
  BY <1>1, <1>5
<1>8. i < (pg - 1) * PageSize + PageLengths(n)[pg]
  BY <1>1, <1>5, <1>6
<1>9. QED BY <1>4, <1>7, <1>8

\* The pages of an answer tile it, for every page size and every length.
THEOREM PagesTile == PgSpec => []PagesTileChunk
<1>1. TypeOK => PagesTileChunk
  <2> SUFFICES ASSUME TypeOK, NEW t \in Threads
               PROVE  LET n == call[t].n
                          pages == PageLengths(n)
                          Covers(pg) == {i \in 0..n - 1 : (pg - 1) * PageSize <= i
                                           /\ i < (pg - 1) * PageSize + pages[pg]}
                      IN  /\ \A pg \in DOMAIN pages : pages[pg] \in 1..PageSize
                          /\ \A pg \in DOMAIN pages :
                               pg < NbPages(n) => pages[pg] = PageSize
                          /\ \A i \in 0..n - 1 : \E pg \in DOMAIN pages : i \in Covers(pg)
    BY DEF PagesTileChunk
  <2>1. call[t].n \in Nat
    BY DEF TypeOK, Calls
  <2>2. DOMAIN PageLengths(call[t].n) = 1..NbPages(call[t].n)
    BY DEF PageLengths
  <2>3. QED BY <2>1, <2>2, LengthOfPage, PageOfByte
<1>2. QED BY <1>1, TypeCorrect, PgImplements, PTL
=============================================================================
