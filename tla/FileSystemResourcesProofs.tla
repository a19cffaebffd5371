--------------------- MODULE FileSystemResourcesProofs ---------------------
(***************************************************************************)
(* Proofs about FileSystemResources, for any number of threads and names.  *)
(***************************************************************************)
EXTENDS FileSystemResources, HttpFileSystemProofs

\* Accounting for resources changes nothing: what is proved of HttpFileSystemPlugIn
\* holds here.
THEOREM ResourcesImplement == ResourcesSpec => Spec
<1>1. ResourcesInit => Init
  BY DEF ResourcesInit
<1>2. [ResourcesNext]_<<vars, resources>> => [Next]_vars
  BY DEF ResourcesNext, Begin, RequestEnds, Opened, Listed, NothingMore, FaultExit,
     DataErrorExit, Closed, End, Next, Steps
<1>3. QED BY <1>1, <1>2, PTL DEF ResourcesSpec, Spec

\* What a call holds at each point.  While DirList reads it holds the list and the
\* directory, and the entry of that directory is alive until DirList is about to return.
HeldAt(t) ==
  /\ pc[t] \in {"list_read", "list_close"} => dirent[t] = "live"
  /\ dirent[t] # "misused"
  /\ pc[t] = "request" => held[t] \subseteq {"stat_info"}
  /\ pc[t] = "list_open" => held[t] = {"dir_list"}
  /\ pc[t] = "list_read" => held[t] = {"dir_list", "dir_fd"}
  /\ pc[t] = "list_close" /\ ~FaultEndsListing => held[t] = {"dir_list", "dir_fd"}
  /\ pc[t] = "returned" /\ call[t].status = "ok" /\ ~FaultEndsListing => held[t] = {}

Accounts == ResourcesTypeOK /\ \A t \in Threads : HeldAt(t)

\* A step of one thread keeps the accounts if it does for that thread.
LEMMA HoldsKeeps ==
  ASSUME TypeOK, Accounts, NEW t \in Threads, NEW what \in SUBSET Resources,
         NEW entry \in EntryStates, Holds(t, what, entry), NEW point, NEW c, MoveTo(t, point, c),
         (held'[t] = what /\ dirent'[t] = entry /\ pc'[t] = point /\ call'[t] = c) => HeldAt(t)'
  PROVE  Accounts'
<1>1. /\ held \in [Threads -> SUBSET Resources] /\ dirent \in [Threads -> EntryStates]
      /\ held' = [held EXCEPT ![t] = what] /\ dirent' = [dirent EXCEPT ![t] = entry]
  BY DEF Accounts, ResourcesTypeOK, Holds
<1>2. ResourcesTypeOK'
  BY <1>1 DEF ResourcesTypeOK
<1>3. /\ held'[t] = what /\ dirent'[t] = entry
      /\ \A s \in Threads \ {t} : held'[s] = held[s] /\ dirent'[s] = dirent[s]
  BY <1>1
<1>4. /\ pc'[t] = point /\ call'[t] = c
      /\ \A s \in Threads \ {t} : pc'[s] = pc[s] /\ call'[s] = call[s]
  BY DEF TypeOK, MoveTo
<1>5. HeldAt(t)'
  BY <1>3, <1>4
<1>6. \A s \in Threads \ {t} : HeldAt(s)'
  BY <1>3, <1>4 DEF Accounts, HeldAt
<1>7. QED BY <1>2, <1>5, <1>6 DEF Accounts

\* So does a step that ends its call with an error, or with nothing held.
LEMMA ErrorKeeps ==
  ASSUME TypeOK, Accounts, NEW t \in Threads, NEW what \in SUBSET Resources,
         NEW entry \in EntryStates \ {"misused"}, Holds(t, what, entry),
         NEW c, MoveTo(t, "returned", c), c.status # "ok"
  PROVE  Accounts'
BY HoldsKeeps DEF HeldAt

LEMMA NothingHeldKeeps ==
  ASSUME TypeOK, Accounts, NEW t \in Threads, NEW entry \in EntryStates \ {"misused"},
         Holds(t, {}, entry), NEW c, MoveTo(t, "returned", c)
  PROVE  Accounts'
BY HoldsKeeps DEF HeldAt

\* The records a call ends with.
LEMMA EndedStatus ==
  ASSUME NEW c \in Calls, NEW status
  PROVE  /\ [c EXCEPT !.status = status].status = status
         /\ [c EXCEPT !.status = status, !.answers = @ + 1].status = status
BY DEF Calls

LEMMA AccountsStep == IInv /\ Accounts /\ [ResourcesNext]_<<vars, resources>> => Accounts'
<1> SUFFICES ASSUME IInv, Accounts, [ResourcesNext]_<<vars, resources>> PROVE Accounts'
  OBVIOUS
<1>1. TypeOK
  BY DEF IInv
<1>2. \A t \in Threads : held[t] \in SUBSET Resources /\ dirent[t] \in EntryStates /\ HeldAt(t)
  BY DEF Accounts, ResourcesTypeOK
<1>4. CASE UNCHANGED <<control, resources>>
  BY <1>4 DEF control, resources, Accounts, ResourcesTypeOK, HeldAt
<1>5. ASSUME NEW t \in Threads, NEW r \in Requests, Begin(t, r) PROVE Accounts'
  <2> DEFINE c == [NoCall EXCEPT !.op = r.op, !.name = r.name, !.dest = r.dest]
  <2>1. c \in Calls
    BY NewCall
  <2>2. Holds(t, Allocated(r.op), "none") /\ Allocated(r.op) \in SUBSET Resources
    BY <1>5 DEF Begin, Allocated, Resources
  <2> USE DEF EntryStates
  <2>3. \/ Answer(t, c) /\ r.op = "MkDir"
        \/ Fail(t, c, "Unsupported")
        \/ MoveTo(t, "request", c) /\ r.op \in {"Mv", "Rm", "RmDir", "Stat"}
        \/ MoveTo(t, "list_open", c) /\ r.op = "DirList"
    BY <1>5 DEF Begin, Call, MkDir, Rename
  <2> HIDE DEF c
  <2>4. CASE Answer(t, c) /\ r.op = "MkDir"
    BY <1>1, <2>2, <2>4, HoldsKeeps DEF Answer, HeldAt, Allocated
  <2>5. CASE Fail(t, c, "Unsupported")
    <3>1. [c EXCEPT !.status = "Unsupported"].status # "ok"
      BY <2>1, EndedStatus
    <3> DEFINE d == [c EXCEPT !.status = "Unsupported"]
    <3>2. MoveTo(t, "returned", d)
      BY <2>5 DEF Fail
    <3>3. d.status # "ok"
      BY <3>1
    <3> HIDE DEF d
    <3>4. QED BY <1>1, <2>2, <3>2, <3>3, ErrorKeeps
  <2>6. CASE MoveTo(t, "request", c) /\ r.op \in {"Mv", "Rm", "RmDir", "Stat"}
    BY <1>1, <2>2, <2>6, HoldsKeeps DEF HeldAt, Allocated
  <2>7. CASE MoveTo(t, "list_open", c) /\ r.op = "DirList"
    BY <1>1, <2>2, <2>7, HoldsKeeps DEF HeldAt, Allocated
  <2>8. QED BY <2>3, <2>4, <2>5, <2>6, <2>7
<1>6. ASSUME NEW t \in Threads, RequestEnds(t) PROVE Accounts'
  <2>1. /\ pc[t] = "request" /\ held[t] \subseteq {"stat_info"}
        /\ dirent[t] \in EntryStates \ {"misused"}
    BY <1>2, <1>6 DEF RequestEnds, Request, HeldAt
  <2>2. PICK point, c : MoveTo(t, point, c) /\ point \in {"request", "returned"}
    BY <1>6 DEF RequestEnds, Request, Answer, Fail
  <2>3. call'[t] = c
    BY <1>1, <2>2, MoveToEffect
  <2>4. CASE c.status = "ok"
    <3>1. Holds(t, {}, dirent[t])
      BY <1>6, <2>1, <2>3, <2>4 DEF RequestEnds, Done, Holds
    <3>2. CASE point = "request"
      BY <1>1, <2>1, <2>2, <3>1, <3>2, HoldsKeeps DEF HeldAt
    <3>3. CASE point = "returned"
      BY <1>1, <2>1, <2>2, <3>1, <3>3, NothingHeldKeeps
    <3>4. QED BY <2>2, <3>2, <3>3
  <2>5. CASE c.status # "ok"
    <3>1. Holds(t, held[t], dirent[t]) /\ held[t] \in SUBSET Resources
      BY <1>2, <1>6, <2>1, <2>3, <2>5 DEF RequestEnds, Done, Holds
    <3>2. CASE point = "request"
      BY <1>1, <2>1, <2>2, <3>1, <3>2, HoldsKeeps DEF HeldAt
    <3>3. CASE point = "returned"
      BY <1>1, <2>1, <2>2, <2>5, <3>1, <3>3, ErrorKeeps
    <3>4. QED BY <2>2, <3>2, <3>3
  <2>6. QED BY <2>4, <2>5
<1>7. ASSUME NEW t \in Threads, Opened(t) PROVE Accounts'
  <2>1. pc[t] = "list_open" /\ held[t] = {"dir_list"} /\ call[t] \in Calls
        /\ dirent[t] \in EntryStates \ {"misused"}
    BY <1>1, <1>2, <1>7 DEF Opened, ListOpen, HeldAt, TypeOK
  <2>2. PICK point, c : /\ MoveTo(t, point, c)
                        /\ \/ point = "list_read"
                           \/ point = "returned" /\ c.status # "ok"
    <3>1. [call[t] EXCEPT !.status = "errInternal"].status # "ok"
      BY <2>1, EndedStatus
    <3>2. QED BY <1>7, <3>1 DEF Opened, ListOpen, Fail
  <2>3. pc'[t] = point
    BY <1>1, <2>2, MoveToEffect
  <2>4. CASE point = "list_read"
    <3>1. Holds(t, {"dir_list", "dir_fd"}, "live")
      BY <1>7, <2>1, <2>3, <2>4 DEF Opened, Holds
    <3>2. QED BY <1>1, <2>2, <2>4, <3>1, HoldsKeeps DEF HeldAt, Resources, EntryStates
  <2>5. CASE point = "returned"
    <3>1. Holds(t, {"dir_list"}, dirent[t])
      BY <1>7, <2>1, <2>3, <2>5 DEF Opened, Holds
    <3>2. QED BY <1>1, <2>1, <2>2, <2>5, <3>1, ErrorKeeps DEF Resources
  <2>6. QED BY <2>2, <2>4, <2>5
<1>8. ASSUME NEW t \in Threads, Listed(t) \/ NothingMore(t) PROVE Accounts'
  <2>1. pc[t] = "list_read" /\ held[t] = {"dir_list", "dir_fd"} /\ dirent[t] = "live"
    BY <1>2, <1>8 DEF Listed, NothingMore, ListEntry, ListEnd, HeldAt
  <2>2. PICK point \in {"list_read", "list_close"}, c \in Calls \cup {call'[t]} :
          MoveTo(t, point, c)
    <3>1. PICK point \in {"list_read", "list_close"} : \E c : MoveTo(t, point, c)
      BY <1>8 DEF Listed, NothingMore, ListEntry, ListEnd
    <3>2. QED BY <1>1, <3>1, MoveToEffect
  <2>3. Holds(t, {"dir_list", "dir_fd"}, "live")
    BY <1>8, <2>1 DEF Listed, NothingMore, EntryRead, Used, Holds
  <2>4. QED BY <1>1, <2>2, <2>3, HoldsKeeps DEF HeldAt, Resources, EntryStates
<1>9. ASSUME NEW t \in Threads, FaultExit(t) \/ DataErrorExit(t) PROVE Accounts'
  <2>1. /\ pc[t] = "list_read" /\ held[t] = {"dir_list", "dir_fd"} /\ dirent[t] = "live"
        /\ call[t] \in Calls
    BY <1>1, <1>2, <1>9 DEF FaultExit, DataErrorExit, ListFault, ListDataError, HeldAt, TypeOK
  <2> DEFINE internal == [call[t] EXCEPT !.status = "errInternal"]
             data     == [call[t] EXCEPT !.status = "errDataError"]
  <2>2. internal.status # "ok" /\ data.status # "ok"
    BY <2>1, EndedStatus
  <2>3. CASE FaultExit(t) /\ FaultEndsListing
    <3>1. MoveTo(t, "list_close", call[t])
      BY <2>3 DEF FaultExit, ListFault, ListError
    <3>2. pc'[t] = "list_close"
      BY <1>1, <3>1, MoveToEffect
    <3>3. Holds(t, {"dir_list", "dir_fd", "err"}, "live")
      BY <2>1, <2>3, <3>2 DEF FaultExit, Used, Holds
    <3>4. QED BY <1>1, <2>3, <3>1, <3>3, HoldsKeeps DEF HeldAt, Resources, EntryStates
  <2>4. CASE FaultExit(t) /\ ~FaultEndsListing
    <3>1. MoveTo(t, "returned", internal)
      BY <2>4 DEF FaultExit, ListFault, ListError, Fail
    <3>2. pc'[t] = "returned"
      BY <1>1, <3>1, MoveToEffect
    <3>3. Holds(t, {"dir_list", "dir_fd"}, "live")
      BY <2>1, <2>4, <3>2 DEF FaultExit, Used, Holds
    <3> HIDE DEF internal
    <3>4. QED BY <1>1, <2>2, <3>1, <3>3, ErrorKeeps DEF Resources, EntryStates
  <2>5. CASE DataErrorExit(t)
    <3>1. MoveTo(t, "returned", data)
      BY <2>5 DEF DataErrorExit, ListDataError, Fail
    <3>2. Holds(t, {"dir_list", "dir_fd"}, "freed")
      BY <2>1, <2>5 DEF DataErrorExit, Used, Freed, Holds
    <3> HIDE DEF data
    <3>3. QED BY <1>1, <2>2, <3>1, <3>2, ErrorKeeps DEF Resources, EntryStates
  <2>6. QED BY <1>9, <2>3, <2>4, <2>5
<1>10. ASSUME NEW t \in Threads, Closed(t) PROVE Accounts'
  <2>1. /\ pc[t] = "list_close" /\ dirent[t] = "live" /\ held[t] \in SUBSET Resources
        /\ ~FaultEndsListing => held[t] = {"dir_list", "dir_fd"}
    BY <1>2, <1>10 DEF Closed, ListClose, HeldAt
  <2>2. PICK c : MoveTo(t, "returned", c)
    BY <1>10 DEF Closed, ListClose, Answer, Fail
  <2>3. call'[t] = c
    BY <1>1, <2>2, MoveToEffect
  <2> USE DEF EntryStates
  <2>4. CASE c.status = "ok"
    <3>1. Holds(t, (held[t] \ {"dir_fd"}) \ {"dir_list"}, "freed")
      BY <1>10, <2>1, <2>3, <2>4 DEF Closed, Done, AfterClose, Freed
    <3>2. QED BY <1>1, <2>1, <2>2, <3>1, HoldsKeeps DEF HeldAt
  <2>5. CASE c.status # "ok"
    <3>1. Holds(t, held[t] \ {"dir_fd"}, "freed") \/ Holds(t, held[t], "live")
      BY <1>10, <2>1, <2>3, <2>5 DEF Closed, Done, AfterClose, Freed, Used
    <3>2. QED BY <1>1, <2>1, <2>2, <2>5, <3>1, ErrorKeeps
  <2>6. QED BY <2>4, <2>5
<1>11. ASSUME NEW t \in Threads, End(t) PROVE Accounts'
  BY <1>1, <1>11, HoldsKeeps DEF End, Return, HeldAt, EntryStates
<1>12. ASSUME NEW name \in Names, NEW kind \in Kinds, OtherClient(name, kind),
              UNCHANGED resources
       PROVE  Accounts'
  BY <1>4, <1>12 DEF OtherClient
<1>13. CASE UNCHANGED <<vars, resources>>
  BY <1>4, <1>13 DEF vars
<1>14. QED BY <1>5, <1>6, <1>7, <1>8, <1>9, <1>10, <1>11, <1>12, <1>13 DEF ResourcesNext

LEMMA AccountsInit == ResourcesInit => Accounts
BY DEF ResourcesInit, Init, Accounts, ResourcesTypeOK, HeldAt, EntryStates

\* A call that returns OK leaves nothing behind, if readdirpp reports its errors inside
\* the loop (Posix.cc:319-325); else the error itself is left.
THEOREM NothingLeaks ==
  ASSUME ~FaultEndsListing
  PROVE  ResourcesSpec => []OkLeaksNothing
<1>1. IInv /\ Accounts => OkLeaksNothing
  BY DEF IInv, Lifecycle, Accounts, HeldAt, OkLeaksNothing, NoCall
<1>2. QED BY <1>1, AccountsInit, AccountsStep, Inductive, ResourcesImplement, PTL
      DEF ResourcesSpec

\* No call uses or frees davix's directory entry after it was freed, whichever of its
\* exits it takes and wherever closedirpp fails (Posix.cc:319-346).
THEOREM EntryStaysAlive == ResourcesSpec => []EntryNotMisused
<1>1. Accounts => EntryNotMisused
  BY DEF Accounts, HeldAt, EntryNotMisused
<1>2. QED BY <1>1, AccountsInit, AccountsStep, Inductive, ResourcesImplement, PTL
      DEF ResourcesSpec
=============================================================================
