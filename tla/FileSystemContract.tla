------------------------- MODULE FileSystemContract -------------------------
(***************************************************************************)
(* What a file system plug-in promises its callers: every call that is     *)
(* answered OK has been carried out, at one moment between its beginning   *)
(* and its end, once; one that returns an error has been carried out at    *)
(* most once; what a Stat or a DirList tells is what the directory held    *)
(* at that one moment, all of it.  An answer is given once, to calls that  *)
(* return OK only.                                                         *)
(*                                                                         *)
(* MkDir is the exception the code makes: it promises nothing.             *)
(***************************************************************************)
EXTENDS HttpServer

CONSTANT Threads

VARIABLES
  entries,  \* what each name stands for
  calls,    \* each thread's call and the phase it is in
  remote    \* number of changes other clients have made

vars == <<entries, calls, remote>>

Free == [op |-> "none", name |-> NoName, dest |-> NoName,
         phase |-> "free", told |-> {}, answers |-> 0]

Init ==
  /\ entries \in [Names -> Kinds]
  /\ calls = [t \in Threads |-> Free]
  /\ remote = 0

Move(t, phase, told, answers) ==
  calls' = [calls EXCEPT ![t] =
    [op |-> calls[t].op, name |-> calls[t].name, dest |-> calls[t].dest,
     phase |-> phase, told |-> told, answers |-> answers]]

Start(t, r, phase, answers) ==
  /\ calls[t].phase = "free"
  /\ calls' = [calls EXCEPT ![t] =
       [op |-> r.op, name |-> r.name, dest |-> r.dest,
        phase |-> phase, told |-> {}, answers |-> answers]]
  /\ UNCHANGED <<entries, remote>>

Begin(t, r) == Start(t, r, "busy", 0)
Refuse(t, r) == Start(t, r, "error", 0)
AgreeToMkDir(t, r) == r.op = "MkDir" /\ Start(t, r, "ok", 1)

\* The one moment a call is carried out.  It is over with that, or goes on to say
\* what it found; the caller may never learn.
CarryOut(t) ==
  LET c == calls[t] IN
  /\ c.phase = "busy"
  /\ Possible(c.op, c.name, entries)
  /\ entries' = Effect(c.op, c.name, c.dest, entries)
  /\ \/ Move(t, "carried_out", Found(c.op, c.name, entries), 0)
     \/ Move(t, "ok", Found(c.op, c.name, entries), 1)
     \/ Move(t, "error", {}, 0)
  /\ UNCHANGED remote

Tell(t) ==
  /\ calls[t].phase = "carried_out"
  /\ Move(t, "ok", calls[t].told, 1)
  /\ UNCHANGED <<entries, remote>>

GiveUp(t) ==
  /\ calls[t].phase \in {"busy", "carried_out"}
  /\ Move(t, "error", {}, 0)
  /\ UNCHANGED <<entries, remote>>

Return(t) ==
  /\ calls[t].phase \in {"ok", "error"}
  /\ calls' = [calls EXCEPT ![t] = Free]
  /\ UNCHANGED <<entries, remote>>

Others ==
  /\ entries' \in [Names -> Kinds]
  /\ remote' = remote + 1
  /\ UNCHANGED calls

Next ==
  \/ \E t \in Threads :
       \/ \E r \in Requests : Begin(t, r) \/ Refuse(t, r) \/ AgreeToMkDir(t, r)
       \/ CarryOut(t) \/ Tell(t) \/ GiveUp(t) \/ Return(t)
  \/ Others

Spec == Init /\ [][Next]_vars
=============================================================================
