------------------------ MODULE HttpFileSystemPlugIn ------------------------
(***************************************************************************)
(* HttpFileSystemPlugIn.cc and the calls of Posix.cc on names and          *)
(* directories, used by several threads (of one object or of several: the  *)
(* object itself changes nothing after its construction), with the         *)
(* directory they work on and the other clients that change it.            *)
(*                                                                         *)
(* A method is cut at its davix calls.  All but DirList make one.          *)
(***************************************************************************)
EXTENDS Posix, HttpServer

CONSTANTS
  Threads,
  FaultEndsListing,   \* whether a readdirpp that fails returns NULL, or an entry
  MaxRemote           \* bound on the changes other clients make

ASSUME ListingAssumption == FaultEndsListing \in BOOLEAN /\ MaxRemote \in Nat

VARIABLES
  s3,        \* AWS_ACCESS_KEY_ID is in the environment
  entries,   \* the server's directory
  pc, call,  \* each thread's control point and call in progress
  remote     \* number of changes other clients have made

control == <<pc, call>>
vars == <<s3, entries, control, remote>>

(***************************************************************************)
(* unread is what davix has of the directory and not yet handed out, list  *)
(* the DirectoryList being filled; found is history: what the call found   *)
(* when it was carried out.                                                *)
(***************************************************************************)
NoCall ==
  [op |-> "none", name |-> NoName, dest |-> NoName, attempt |-> 1,
   unread |-> {}, list |-> {}, found |-> {}, status |-> "none", answers |-> 0]

Entries == Names \X Kinds
Calls ==
  [op : Ops \cup {"none"}, name : Names \cup {NoName}, dest : Names \cup {NoName},
   attempt : Nat \ {0}, unread : SUBSET Entries, list : SUBSET Entries,
   found : SUBSET Entries, status : Statuses \cup {"none"}, answers : Nat]

ControlPoints == {"idle", "request", "list_open", "list_read", "list_close", "returned"}

TypeOK ==
  /\ s3 \in BOOLEAN
  /\ entries \in [Names -> Kinds]
  /\ pc \in [Threads -> ControlPoints]
  /\ call \in [Threads -> Calls]
  /\ remote \in Nat

Init ==
  /\ s3 \in BOOLEAN
  /\ entries \in [Names -> Kinds]
  /\ pc = [t \in Threads |-> "idle"]
  /\ call = [t \in Threads |-> NoCall]
  /\ remote = 0

-----------------------------------------------------------------------------
MoveTo(t, point, c) ==
  /\ pc' = [pc EXCEPT ![t] = point]
  /\ call' = [call EXCEPT ![t] = c]

Fail(t, c, status) == MoveTo(t, "returned", [c EXCEPT !.status = status])

\* The handler is called with the list and the method returns OK.
Answer(t, c) == MoveTo(t, "returned", [c EXCEPT !.status = "ok", !.answers = @ + 1])

\* Posix::MkDir returns OK before it does anything.
MkDir(t, c) == Answer(t, c)

\* Posix::Rename refuses on S3.
Rename(t, c) == IF s3 THEN Fail(t, c, "Unsupported") ELSE MoveTo(t, "request", c)

\* A method is called, and runs up to its first davix call.
Call(t, r) ==
  LET c == [NoCall EXCEPT !.op = r.op, !.name = r.name, !.dest = r.dest] IN
  /\ pc[t] = "idle"
  /\ \/ r.op = "MkDir" /\ MkDir(t, c)
     \/ r.op = "Mv" /\ Rename(t, c)
     \/ r.op \in {"Rm", "RmDir", "Stat"} /\ MoveTo(t, "request", c)
     \/ r.op = "DirList" /\ MoveTo(t, "list_open", c)
  /\ UNCHANGED <<s3, entries, remote>>

Return(t) ==
  /\ pc[t] = "returned"
  /\ MoveTo(t, "idle", NoCall)
  /\ UNCHANGED <<s3, entries, remote>>

-----------------------------------------------------------------------------
(* Mv, Rm, RmDir and Stat: one request. *)

\* What may come of a request: the result davix returns, and whether the server
\* has done what it was asked.  The answer may be lost after it has.
Outcomes(op, name, e) ==
  IF Possible(op, name, e)
  THEN {[result |-> Returned(0), done |-> TRUE]} \cup
       {[result |-> f, done |-> d] : f \in Fault, d \in BOOLEAN}
  ELSE {[result |-> r, done |-> FALSE] :
          r \in Fault \cup {Failed(IF e[name] = "absent" THEN "FileNotFound" ELSE "Other")}}

\* Mutant: davix's code is returned as it is.
RawStatus(op, r) == {IF r.n < 0 THEN r.err ELSE "ok"}

\* Stat converts the error code, and parses what davix answers; the others carry the
\* code inside errInternal.
StatusOf(op, r) ==
  {x.status : x \in IF op = "Stat" THEN Filled(r) ELSE {Internal(r)}}

\* Mutant: one retry.
AttemptsAndRetry == 2

\* How often davix tries a request that fails: setOperationRetry(0).
Attempts == 1

Request(t) ==
  LET c == call[t] IN
  /\ pc[t] = "request"
  /\ \E o \in Outcomes(c.op, c.name, entries) : \E status \in StatusOf(c.op, o.result) :
       /\ entries' = IF o.done THEN Effect(c.op, c.name, c.dest, entries) ELSE entries
       /\ IF o.result \in Fault /\ c.attempt < Attempts
          THEN MoveTo(t, "request", [c EXCEPT !.attempt = @ + 1])
          ELSE IF status = "ok"
          THEN Answer(t, [c EXCEPT !.found = Found(c.op, c.name, entries)])
          ELSE Fail(t, c, status)
  /\ UNCHANGED <<s3, remote>>

-----------------------------------------------------------------------------
(* DirList: opendirpp, which fetches the directory, readdirpp entry by entry, *)
(* closedirpp.  The order of the entries is left out.                         *)

ListOpen(t) ==
  /\ pc[t] = "list_open"
  /\ \/ Fault # {} /\ Fail(t, call[t], "errInternal")
     \/ LET found == Found("DirList", call[t].name, entries)
        IN  MoveTo(t, "list_read", [call[t] EXCEPT !.found = found, !.unread = found])
  /\ UNCHANGED <<s3, entries, remote>>

ListEntry(t) ==
  /\ pc[t] = "list_read"
  /\ \E entry \in call[t].unread :
       MoveTo(t, "list_read", [call[t] EXCEPT !.unread = @ \ {entry}, !.list = @ \cup {entry}])
  /\ UNCHANGED <<s3, entries, remote>>

\* With details, each entry's line is parsed too.
ListDataError(t) ==
  /\ pc[t] = "list_read" /\ call[t].unread # {} /\ BadStats
  /\ Fail(t, call[t], "errDataError")
  /\ UNCHANGED <<s3, entries, remote>>

ListEnd(t) ==
  /\ pc[t] = "list_read" /\ call[t].unread = {}
  /\ MoveTo(t, "list_close", call[t])
  /\ UNCHANGED <<s3, entries, remote>>

\* Mutant: an error ends the loop like the end of the directory does.
EndOnError(t) == MoveTo(t, "list_close", call[t])

\* The error is looked at inside the loop, where only an entry leads.
ListError(t) ==
  IF FaultEndsListing THEN MoveTo(t, "list_close", call[t])
  ELSE Fail(t, call[t], "errInternal")

ListFault(t) ==
  /\ pc[t] = "list_read" /\ Fault # {}
  /\ ListError(t)
  /\ UNCHANGED <<s3, entries, remote>>

ListClose(t) ==
  /\ pc[t] = "list_close"
  /\ \/ Fault # {} /\ Fail(t, call[t], "errInternal")
     \/ Answer(t, call[t])
  /\ UNCHANGED <<s3, entries, remote>>

-----------------------------------------------------------------------------
OtherClient(name, kind) ==
  /\ remote < MaxRemote /\ kind # entries[name]
  /\ entries' = [entries EXCEPT ![name] = kind]
  /\ remote' = remote + 1
  /\ UNCHANGED <<s3, control>>

Steps(t) ==
  \/ Request(t)
  \/ ListOpen(t) \/ ListEntry(t) \/ ListDataError(t) \/ ListEnd(t) \/ ListFault(t) \/ ListClose(t)

Next ==
  \/ \E t \in Threads :
       \/ \E r \in Requests : Call(t, r)
       \/ Steps(t) \/ Return(t)
  \/ \E name \in Names, kind \in Kinds : OtherClient(name, kind)

Spec == Init /\ [][Next]_vars

-----------------------------------------------------------------------------
(* Properties *)

\* Where a call is and what it may count on: while DirList runs, what it has listed
\* and what davix still has to hand out make up the directory as it was fetched
\* (Posix.cc:319-344); no other call is past its only request.
Lifecycle(t) ==
  /\ pc[t] = "idle" => call[t] = NoCall
  /\ pc[t] # "idle" =>
       [op |-> call[t].op, name |-> call[t].name, dest |-> call[t].dest] \in Requests
  /\ pc[t] \in {"idle", "request", "list_open"} => call[t].found = {}
  /\ pc[t] = "list_open" => call[t].list = {}
  /\ pc[t] = "request" => call[t].op \in {"Mv", "Rm", "RmDir", "Stat"}
  /\ pc[t] \in {"list_open", "list_read", "list_close"} => call[t].op = "DirList"
  /\ pc[t] # "returned" => call[t].status = "none" /\ call[t].answers = 0
  /\ pc[t] = "returned" => call[t].status # "none"
  /\ pc[t] = "list_read" => call[t].list \cup call[t].unread = call[t].found
  /\ pc[t] = "list_close" /\ ~FaultEndsListing => call[t].list = call[t].found

\* A DirList that returns OK hands over the whole directory: readdirpp returns NULL
\* "when there is no more directory entry to return" (Posix.cc:341-342).
ListingComplete ==
  \A t \in Threads :
    call[t].op = "DirList" /\ call[t].status = "ok" => call[t].list = call[t].found

\* The inductive invariant behind ListingComplete and KeepsContract.
IInv ==
  /\ TypeOK
  /\ \A t \in Threads : Lifecycle(t)
  /\ ~FaultEndsListing => ListingComplete

\* What a caller sees of a call, with the davix calls hidden.
View(point, c) ==
  [op |-> c.op, name |-> c.name, dest |-> c.dest,
   phase |-> CASE point = "idle" -> "free"
               [] point \in {"request", "list_open"} -> "busy"
               [] point \in {"list_read", "list_close"} -> "carried_out"
               [] point = "returned" /\ c.status = "ok" -> "ok"
               [] OTHER -> "error",
   told |-> IF point = "returned" /\ c.status # "ok" THEN {}
            ELSE IF point = "returned" /\ c.op = "DirList" THEN c.list
            ELSE c.found,
   answers |-> c.answers]

ContractCalls == [t \in Threads |-> View(pc[t], call[t])]

Contract == INSTANCE FileSystemContract WITH calls <- ContractCalls

\* HttpFileSystemPlugIn implements FileSystemContract: a call that returns OK has
\* been carried out once, one that fails at most once, also when answers are lost.
KeepsContract == Contract!Spec
=============================================================================
