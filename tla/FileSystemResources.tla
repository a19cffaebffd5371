------------------------ MODULE FileSystemResources ------------------------
(***************************************************************************)
(* What DirList and Stat allocate, and what becomes of it: freed, handed   *)
(* to the caller, or leaked at an error exit (Posix.cc:299-354,            *)
(* HttpFileSystemPlugIn.cc:171-214).  Every step is a step of              *)
(* HttpFileSystemPlugIn.                                                   *)
(*                                                                         *)
(* A directory handle of davix owns one directory entry.  opendirpp makes  *)
(* both; each readdirpp fills the entry anew and returns it; closedirpp    *)
(* frees the entry with the handle.  What DirList does with the entry it   *)
(* is handed, and when it closes the handle, is up to DirList.             *)
(***************************************************************************)
EXTENDS HttpFileSystemPlugIn

VARIABLES
  held,    \* what each call has allocated and neither freed nor handed over
  dirent   \* the entry of the directory each call reads

resources == <<held, dirent>>

\* "err" is the DavixError of a call that failed.
Resources == {"dir_list", "dir_fd", "stat_info", "err"}

\* "misused": used or freed after it was freed.
EntryStates == {"none", "live", "freed", "misused"}

ResourcesTypeOK ==
  /\ held \in [Threads -> SUBSET Resources]
  /\ dirent \in [Threads -> EntryStates]

ResourcesInit ==
  /\ Init
  /\ held = [t \in Threads |-> {}]
  /\ dirent = [t \in Threads |-> "none"]

Used(entry) == IF entry = "live" THEN "live" ELSE "misused"
Freed(entry) == IF entry = "live" THEN "freed" ELSE "misused"

Holds(t, what, entry) ==
  /\ held' = [held EXCEPT ![t] = what]
  /\ dirent' = [dirent EXCEPT ![t] = entry]

Done(t) == call'[t].status = "ok"

\* DirList and Stat begin with a new result.
Allocated(op) ==
  CASE op = "DirList" -> {"dir_list"}
    [] op = "Stat"    -> {"stat_info"}
    [] OTHER          -> {}

Begin(t, r) == Call(t, r) /\ Holds(t, Allocated(r.op), "none")

RequestEnds(t) ==
  /\ Request(t)
  /\ Holds(t, IF Done(t) THEN held[t] \ {"stat_info"} ELSE held[t], dirent[t])

Opened(t) ==
  /\ ListOpen(t)
  /\ IF pc'[t] = "list_read" THEN Holds(t, held[t] \cup {"dir_fd"}, "live")
     ELSE Holds(t, held[t], dirent[t])

\* Mutant: the "delete entry" that is commented out at the end of the loop is back.
EntryDeleted(entry) == Freed(Used(entry))

\* readdirpp fills the entry, the loop takes its name and leaves it to davix.
EntryRead(entry) == Used(entry)

\* With details, a StatInfo goes into the list with the entry.
Listed(t) == ListEntry(t) /\ Holds(t, held[t], EntryRead(dirent[t]))

NothingMore(t) == ListEnd(t) /\ Holds(t, held[t], Used(dirent[t]))

\* Inside the loop the error is deleted, after it nobody does.
FaultExit(t) ==
  /\ ListFault(t)
  /\ Holds(t, IF pc'[t] = "returned" THEN held[t] ELSE held[t] \cup {"err"}, Used(dirent[t]))

\* "delete entry", but neither the list nor the directory.
DataErrorExit(t) ==
  /\ ListDataError(t)
  /\ Holds(t, held[t], Freed(Used(dirent[t])))

\* Mutant: closedirpp is not called.
NotClosed(t) == held[t]

AfterClose(t) == held[t] \ {"dir_fd"}

\* The list goes to the caller.  A closedirpp that fails has freed the handle and its entry,
\* or has not.
Closed(t) ==
  /\ ListClose(t)
  /\ \/ Done(t) /\ Holds(t, AfterClose(t) \ {"dir_list"}, Freed(dirent[t]))
     \/ ~Done(t) /\ Holds(t, AfterClose(t), Freed(dirent[t]))
     \/ ~Done(t) /\ Holds(t, held[t], Used(dirent[t]))

\* What the call still holds is lost.
End(t) == Return(t) /\ Holds(t, {}, "none")

ResourcesNext ==
  \/ \E t \in Threads :
       \/ \E r \in Requests : Begin(t, r)
       \/ RequestEnds(t) \/ Opened(t) \/ Listed(t) \/ NothingMore(t) \/ FaultExit(t)
       \/ DataErrorExit(t) \/ Closed(t) \/ End(t)
  \/ \E name \in Names, kind \in Kinds : OtherClient(name, kind) /\ UNCHANGED resources

ResourcesSpec == ResourcesInit /\ [][ResourcesNext]_<<vars, resources>>

-----------------------------------------------------------------------------
(* Properties *)

\* A call that returns OK leaves nothing behind: all it allocated on its way is freed
\* or in the caller's hands (Posix.cc:306-353, HttpFileSystemPlugIn.cc:180-183, 199-211).
\* Calls that fail do leave things behind.
OkLeaksNothing ==
  \A t \in Threads : call[t].status = "ok" => held[t] = {}

\* davix's directory entry is alive whenever davix fills or frees it and whenever the loop
\* reads it: "do not delete entry ... readdirpp() always return the same address"
\* (Posix.cc:341-342).  One exit deletes it all the same (Posix.cc:332); it gets away with
\* it because it does not close the directory, which would free the entry again.
EntryNotMisused == \A t \in Threads : dirent[t] # "misused"
=============================================================================
