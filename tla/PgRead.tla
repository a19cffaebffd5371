------------------------------- MODULE PgRead -------------------------------
(***************************************************************************)
(* PgRead: a Read whose answer goes to a substitution handler, which cuts  *)
(* it into pages, adds their checksums if the channel is encrypted, and    *)
(* hands the pages to the caller's handler (HttpFilePlugIn.cc:285-348).    *)
(*                                                                         *)
(* Every step is a step of HttpFilePlugIn.  Added are the field            *)
(* isChannelEncrypted, which Open sets, and each thread's handler.         *)
(***************************************************************************)
EXTENDS HttpFilePlugIn

CONSTANTS
  HttpsUrls,   \* the URLs whose protocol is https
  PageSize     \* XrdSys::PageSize

ASSUME PagesAssumption == HttpsUrls \subseteq Urls /\ PageSize \in Nat \ {0}

VARIABLES
  isChannelEncrypted,
  subst        \* the substitution handler of each thread's call

paging == <<isChannelEncrypted, subst>>

NoHandler == [state |-> "none", encrypted |-> FALSE]
Handlers == [state : {"none", "allocated", "deleted"}, encrypted : BOOLEAN]

PgTypeOK ==
  /\ isChannelEncrypted \in BOOLEAN
  /\ subst \in [Threads -> Handlers]

PgInit ==
  /\ Init
  /\ isChannelEncrypted \in BOOLEAN   \* not initialized by the constructor
  /\ subst = [t \in Threads |-> NoHandler]

\* Mutant: the field is set before the object is found to be open already.
SetAtOnce(u) == u \in HttpsUrls

\* Open has refused an object that is open before it comes to the field.
Channel(u) == IF is_open_ THEN isChannelEncrypted ELSE u \in HttpsUrls

\* The handler is allocated before Read looks at anything.
PgReadCall(t) ==
  /\ \E offset \in Offsets, size \in Sizes : ReadCall(t, offset, size)
  /\ subst' = [subst EXCEPT ![t] = [state |-> "allocated", encrypted |-> isChannelEncrypted]]
  /\ UNCHANGED isChannelEncrypted

\* Any other call has no handler of this kind; Open settles the channel.
PgCall(t) ==
  /\ CallsBy(t)
  /\ isChannelEncrypted' =
       IF call'[t].op = "Open" THEN Channel(call'[t].url) ELSE isChannelEncrypted
  /\ UNCHANGED subst

\* Mutant: the handler does not delete itself.
NotDeleted(h, c) == h

\* HandleResponse deletes the handler.  Nobody calls it when Read returns an error.
HandleResponse(h, c) ==
  IF c.answers > 0 /\ h.state = "allocated" THEN [h EXCEPT !.state = "deleted"] ELSE h

PgStep(t) ==
  /\ Steps(t)
  /\ subst' = [subst EXCEPT ![t] = HandleResponse(@, call'[t])]
  /\ UNCHANGED isChannelEncrypted

PgReturn(t) ==
  /\ Return(t)
  /\ subst' = [subst EXCEPT ![t] = NoHandler]
  /\ UNCHANGED isChannelEncrypted

PgRemote ==
  /\ \E u \in Urls, len \in StoreLengths : RemoteChange(u, len)
  /\ UNCHANGED paging

PgNext ==
  \/ \E t \in Threads :
       PgCall(t) \/ PgReadCall(t) \/ PgStep(t) \/ PgReturn(t)
  \/ PgRemote

PgSpec == PgInit /\ [][PgNext]_<<vars, paging>>

-----------------------------------------------------------------------------
(* The answer. *)

\* Mutant: the last page, which is not full, is not counted.
FullPages(length) == length \div PageSize

NbPages(length) ==
  length \div PageSize + (IF length % PageSize # 0 THEN 1 ELSE 0)

\* The lengths of the pages HandleResponse sums, from the start of the buffer.
PageLengths(length) ==
  [pg \in 1..NbPages(length) |->
     LET left == length - (pg - 1) * PageSize
     IN  IF PageSize > left THEN left ELSE PageSize]

\* t's PgRead has been answered.
Paged(t) == pc[t] = "returned" /\ subst[t].state = "deleted"

-----------------------------------------------------------------------------
(* Properties *)

\* The pages of an https file come with checksums, those of an http file without: what
\* the handler remembers of the channel when the read begins is still true when the
\* answer comes, and is true of the file that is open, not of the one somebody tried to
\* open in its place (HttpFilePlugIn.cc:85-93, 311, 345).
SummedIffHttps ==
  /\ is_open_ => isChannelEncrypted = (url_ \in HttpsUrls)
  /\ \A t \in Threads :
       InCall(t) /\ subst[t].state = "allocated"
       => subst[t].encrypted = (url_ \in HttpsUrls)

\* The handler a PgRead allocates outlives the Read it is given to, and a PgRead that
\* returns OK leaves none behind: it is deleted by the answer, which is the last thing that
\* happens to it (HttpFilePlugIn.cc:330-348).
HandlerOutlivesRead ==
  \A t \in Threads :
    /\ InCall(t) => subst[t].state # "deleted"
    /\ pc[t] = "returned" /\ subst[t].state = "deleted" => call[t].status = "ok"
    /\ pc[t] = "returned" /\ subst[t].state = "allocated" => call[t].status # "ok"

\* Every byte of an answer that has checksums is in exactly one page, no page is empty
\* or longer than PageSize, and only the last is shorter, after short reads too
\* (HttpFilePlugIn.cc:313-329).
PagesTileChunk ==
  \A t \in Threads : Paged(t) /\ subst[t].encrypted =>
    LET n == call[t].n
        pages == PageLengths(n)
        Covers(pg) == {i \in 0..n - 1 : (pg - 1) * PageSize <= i
                                        /\ i < (pg - 1) * PageSize + pages[pg]}
    IN  /\ \A pg \in DOMAIN pages : pages[pg] \in 1..PageSize
        /\ \A pg \in DOMAIN pages : pg < NbPages(n) => pages[pg] = PageSize
        /\ \A i \in 0..n - 1 : \E pg \in DOMAIN pages : i \in Covers(pg)
=============================================================================
