------------------------------- MODULE Davix -------------------------------
(***************************************************************************)
(* The davix client library as the plug-in uses it: not part of this       *)
(* repository, modelled from the calls Posix.cc makes and from what its    *)
(* comments say of the library.  A call yields a record [n, err]: n is -1  *)
(* and err a davix status code when it fails, otherwise n is the number    *)
(* the call returns and err is "none".  Every operator below is the SET of *)
(* results one call may have; a network fault is always one of them.       *)
(*                                                                         *)
(* A file is known by its length alone.  What a byte is does not matter to *)
(* the plug-in; where it comes from, or lands, does, so a transfer is      *)
(* described by a position and a count.                                    *)
(***************************************************************************)
EXTENDS Integers

CONSTANTS
  Absent,       \* the "length" of a file the server does not have
  Faults,       \* davix status codes of a failing network or server
  ShortReads,   \* whether a read, or a write, may move fewer bytes than it could
  ShortWrites

StatusCodes == {"FileNotFound", "FileExist", "PermissionRefused", "Other"}

ASSUME DavixAssumption ==
  /\ Absent \notin Nat
  /\ Faults \subseteq {"PermissionRefused", "Other"}
  /\ ShortReads \in BOOLEAN /\ ShortWrites \in BOOLEAN

Lengths == Nat \cup {Absent}

Failed(code) == [n |-> -1, err |-> code]
Returned(k) == [n |-> k, err |-> "none"]
Fault == {Failed(code) : code \in Faults}

(***************************************************************************)
(* What a handle (DAVIX_FD) is: the POSIX flags it was opened with, its    *)
(* position, and the length of its content once it can be written to,      *)
(* which close uploads.                                                    *)
(***************************************************************************)
PosixFlags == {"O_CREAT", "O_EXCL", "O_TRUNC", "O_WRONLY", "O_RDWR"}
Readable(h) == "O_WRONLY" \notin h.flags
Writable(h) == h.flags \cap {"O_WRONLY", "O_RDWR"} # {}

NewHandle(url, flags, len) ==
  [open |-> TRUE, url |-> url, flags |-> flags, pos |-> 0,
   len |-> IF len = Absent \/ "O_TRUNC" \in flags THEN 0 ELSE len]

\* The length a handle reads from: its own content once it can be written to.
VisibleLength(h, len) == IF Writable(h) THEN h.len ELSE len

\* How many bytes move when k could.
Counts(k, short) == IF short /\ k > 0 THEN 1..k ELSE {k}

DavixStat(len) ==
  Fault \cup (IF len = Absent THEN {Failed("FileNotFound")} ELSE {Returned(len)})

DavixUnlink(len) ==
  Fault \cup (IF len = Absent THEN {Failed("FileNotFound")} ELSE {Returned(0)})

DavixOpen(len, flags) ==
  Fault \cup
  (IF len = Absent /\ "O_CREAT" \notin flags THEN {Failed("FileNotFound")}
   ELSE IF len # Absent /\ {"O_CREAT", "O_EXCL"} \subseteq flags
        THEN {Failed("FileExist")}
   ELSE {Returned(0)})

\* ASSUMED: a close that fails leaves the handle as it was, so that it can be closed again.
\* Nothing in this repository says that davix does not release it.
DavixClose == Fault \cup {Returned(0)}

\* pread does not move the position, and "will return -1 if the pread goes
\* beyond the file size" (HttpFilePlugIn.cc:246).
DavixPread(h, len, offset, size) ==
  Fault \cup
  (IF \/ ~Readable(h)
      \/ VisibleLength(h, len) = Absent
      \/ offset + size > VisibleLength(h, len)
   THEN {Failed("Other")}
   ELSE {Returned(k) : k \in Counts(size, ShortReads)})

\* read "continues from the current offset position" (Posix.cc:427) and stops
\* at the end of the file; a vector read is bounded the same way.
DavixRead(h, len, size) ==
  Fault \cup
  (IF ~Readable(h) \/ VisibleLength(h, len) = Absent THEN {Failed("Other")}
   ELSE LET left == VisibleLength(h, len) - h.pos
            most == IF left < 0 THEN 0 ELSE IF left < size THEN left ELSE size
        IN  {Returned(k) : k \in Counts(most, ShortReads)})

DavixLseek(offset) == Fault \cup {Returned(offset)}

DavixWrite(h, size) ==
  Fault \cup
  (IF Writable(h) THEN {Returned(k) : k \in Counts(size, ShortWrites)}
   ELSE {Failed("Other")})
=============================================================================
