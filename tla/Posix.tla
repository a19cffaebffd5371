------------------------------- MODULE Posix -------------------------------
(***************************************************************************)
(* Posix.cc: every function there makes one davix call (PWrite makes two)  *)
(* and turns its result into an XRootDStatus.  As in Davix, an operator is *)
(* the set of results, here records [n, status].  The URL and credentials  *)
(* of a request are the subject of RequestUrls; time-outs are left out.    *)
(***************************************************************************)
EXTENDS Davix

CONSTANT BadStats  \* whether XrdCl may refuse the line FillStatInfo writes for it

ASSUME BadStatsAssumption == BadStats \in BOOLEAN

\* XRootDStatus values the two plug-ins can return.
ErrorStatuses == {"NotFound", "ItExists", "NotAuthorized", "InvalidRequest",
                  "Unsupported", "errInternal", "errUnknown", "errInvalidOp", "errDataError"}
Statuses == {"ok"} \cup ErrorStatuses

ErrCodeConvert(code) ==
  CASE code = "FileNotFound"      -> "NotFound"
    [] code = "FileExist"         -> "ItExists"
    [] code = "PermissionRefused" -> "NotAuthorized"
    [] OTHER                      -> "InvalidRequest"

\* The status of a result whose error code is converted, and of one whose
\* code is only carried along inside errInternal.
Converted(r) == [n |-> r.n, status |-> IF r.n < 0 THEN ErrCodeConvert(r.err) ELSE "ok"]
Internal(r) == [n |-> r.n, status |-> IF r.n < 0 THEN "errInternal" ELSE "ok"]

\* Stat, once davix has answered: FillStatInfo writes what davix says of the file as a
\* line, which XrdCl parses.
Filled(r) ==
  {Converted(r)} \cup
  (IF BadStats /\ r.n >= 0 THEN {[n |-> r.n, status |-> "errDataError"]} ELSE {})

Open(len, flags) == {Converted(r) : r \in DavixOpen(len, flags)}
Close == {Internal(r) : r \in DavixClose}
Stat(len) == UNION {Filled(r) : r \in DavixStat(len)}
Unlink(len) == {Internal(r) : r \in DavixUnlink(len)}

PRead(h, len, offset, size) == {Internal(r) : r \in DavixPread(h, len, offset, size)}
Read(h, len, size) == {Internal(r) : r \in DavixRead(h, len, size)}
PReadVec(h, len, offset, size) ==
  {[n |-> r.n, status |-> IF r.n < 0 THEN "errUnknown" ELSE "ok"] :
     r \in DavixRead([h EXCEPT !.pos = offset], len, size)}

\* The two halves of PWrite; other calls may run between them.
PWriteSeek(offset) == {Internal(r) : r \in DavixLseek(offset)}
PWriteWrite(h, size) == {Internal(r) : r \in DavixWrite(h, size)}
=============================================================================
