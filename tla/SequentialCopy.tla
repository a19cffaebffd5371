--------------------------- MODULE SequentialCopy ---------------------------
(***************************************************************************)
(* The client the plug-in is written for: xrdcp, one thread that opens the *)
(* object, reads or writes the file chunk after chunk, each chunk where    *)
(* the last one ended, asks for its size, and closes it.  test/cases       *)
(* 000 to 003 do this; the client itself is not part of the repository.    *)
(*                                                                         *)
(* Every step is a step of HttpFilePlugIn.  The client adds the offset it  *)
(* has reached: what the answers to its calls told it.                     *)
(***************************************************************************)
EXTENDS HttpFilePlugIn

CONSTANTS
  Copier,     \* the client's thread
  MaxOpens    \* bound on the number of times it calls Open on the same object

ASSUME CopierAssumption == Threads = {Copier} /\ MaxOpens \in Nat

VARIABLES
  next,       \* the offset of the next chunk
  opens       \* calls of Open so far

client == <<next, opens>>

CopyInit == Init /\ next = 0 /\ opens = 0

CopyOpen ==
  /\ opens < MaxOpens
  /\ opens' = opens + 1
  /\ next' = next
  /\ \E u \in Urls, flags \in FlagSets : OpenCall(Copier, u, flags)

\* A file opened for reading is read, one opened for writing is written.
CopyChunk ==
  /\ \E size \in Sizes :
       IF is_open_ /\ ~Writable(fd)
       THEN ReadCall(Copier, next, size)
       ELSE WriteCall(Copier, next, size)
  /\ UNCHANGED client

CopyOther ==
  /\ StatCall(Copier) \/ CloseCall(Copier) \/ Steps(Copier)
  /\ UNCHANGED client

\* Where the client goes on when it has the answer to a call.  The handler of a Read is
\* told how much was read; that of a Write is told nothing but that it is done.  A file
\* that has been opened is read, or written, from its start.
After(c) ==
  CASE c.op = "Open" /\ c.status = "ok"  -> 0
    [] c.op = "Read" /\ c.status = "ok"  -> next + c.n
    [] c.op = "Write" /\ c.status = "ok" -> next + c.size
    [] OTHER -> next

CopyReturn ==
  /\ Return(Copier)
  /\ next' = After(call[Copier])
  /\ UNCHANGED opens

CopyNext == CopyOpen \/ CopyChunk \/ CopyOther \/ CopyReturn

CopySpec == CopyInit /\ [][CopyNext]_<<vars, client>>

-----------------------------------------------------------------------------
\* An Open finds the object as it was constructed, as far as reads that avoid the Range
\* header go: not as an earlier download has left it (HttpFilePlugIn.cc:166, 254).
OffsetFresh == pc[Copier] = "open_davix" => curr_offset = 0 \/ ~avoid_pread_

\* So does an Open for writing, as far as the size Stat invents goes
\* (HttpFilePlugIn.cc:143-155, 368).
SizeFresh ==
  pc[Copier] \in OpenSteps /\ call[Copier].flags \cap {"Write", "Update"} # {}
  => filesize = 0

\* And an Open for reading that could not measure the file has no size to go on with: not
\* that of a file opened before (HttpFilePlugIn.cc:143-155).
SizeMeasured ==
  pc[Copier] = "open_davix" /\ call[Copier].flags \cap {"Write", "Update"} = {}
  => filesize \in {0, store[call[Copier].url]}

\* No offset of a chunk leaves 64 bits: files are shorter than 2^63 bytes.
ChunksFit == \A size \in Sizes : filesize + size < W64

\* Every chunk of a download holds the bytes of the offset it was asked for,
\* with Range headers or without, after short reads and failed ones
\* (HttpFilePlugIn.cc:254-270; test/cases/000-simple-download/main.sh:27).
DownloadFaithful ==
  call[Copier].op = "Read" /\ call[Copier].status = "ok"
  => call[Copier].at = call[Copier].offset

\* A Read that finds no more bytes has reached the end of the file
\* (test/cases/000-simple-download/main.sh:27).  It has not after an Open whose Stat
\* failed: Open goes on with the filesize it had (HttpFilePlugIn.cc:145-148).
EndIsEndOfFile ==
  /\ call[Copier].op = "Read" /\ call[Copier].status = "ok"
  /\ call[Copier].size > 0 /\ call[Copier].n = 0
  => call[Copier].offset >= Remote

\* Without failures the end is the end: when filesize is what the server has, a chunk of
\* no bytes is asked for at the end of the file, and nowhere before, after short reads
\* too (HttpFilePlugIn.cc:247, 268-270).
MeasuredEndIsEnd ==
  /\ call[Copier].op = "Read" /\ call[Copier].status = "ok"
  /\ call[Copier].size > 0 /\ call[Copier].n = 0
  /\ filesize = Remote
  => call[Copier].offset >= Remote

\* The Close that returns OK has left on the server as many bytes as the client's
\* Writes were acknowledged for, failed and repeated ones included
\* (HttpFilePlugIn.cc:189-201, 360-373; test/cases/002-simple-upload/main.sh:28).
UploadComplete ==
  [][ call[Copier].op = "Close" /\ call'[Copier].status = "ok" /\ Writable(fd)
      => store'[fd.url] = next ]_<<vars, client>>

\* The size Stat invents for a file that is not yet on the server is what has been
\* written to it (HttpFilePlugIn.cc:217-221, 368).
FakedSizeIsWritten ==
  call[Copier].faked => call[Copier].n = next
=============================================================================
