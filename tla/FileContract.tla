---------------------------- MODULE FileContract ----------------------------
(***************************************************************************)
(* What a file plug-in promises its callers, whatever is behind it: the    *)
(* convention every method of HttpFilePlugIn.cc follows.  A method that    *)
(* returns OK has called the handler once; one that returns an error has   *)
(* not called it, and has not opened or closed the file; only Open works   *)
(* on a file that is not open, and it works on no other; a method other    *)
(* than Open and Close finds the file open from beginning to end.  Sync    *)
(* is the exception the code makes: it returns OK and calls nobody.        *)
(***************************************************************************)
EXTENDS Naturals

CONSTANTS Threads, Ops

VARIABLES
  opened,   \* is the file open
  calls     \* each thread's call: its method, its phase and the answers it gave

vars == <<opened, calls>>

Free == [op |-> "none", phase |-> "free", answers |-> 0]

Init == opened = FALSE /\ calls = [t \in Threads |-> Free]

Set(t, op, phase, answers) ==
  calls' = [calls EXCEPT ![t] = [op |-> op, phase |-> phase, answers |-> answers]]

\* The callers keep Open and Close apart from every other call.
MayCall(t, op) ==
  /\ calls[t].phase = "free"
  /\ \A s \in Threads \ {t} :
       calls[s].phase = "busy" => {op, calls[s].op} \cap {"Open", "Close"} = {}

Begin(t, op) ==
  /\ MayCall(t, op)
  /\ opened = (op # "Open")
  /\ Set(t, op, "busy", 0)
  /\ UNCHANGED opened

Refuse(t, op) ==
  /\ MayCall(t, op)
  /\ opened = (op = "Open")
  /\ Set(t, op, "error", 0)
  /\ UNCHANGED opened

Acknowledge(t) ==
  /\ MayCall(t, "Sync")
  /\ Set(t, "Sync", "ok", 0)
  /\ UNCHANGED opened

Succeed(t) ==
  /\ calls[t].phase = "busy"
  /\ Set(t, calls[t].op, "ok", 1)
  /\ opened' = (calls[t].op # "Close")

GiveUp(t) ==
  /\ calls[t].phase = "busy"
  /\ Set(t, calls[t].op, "error", 0)
  /\ UNCHANGED opened

Return(t) ==
  /\ calls[t].phase \in {"ok", "error"}
  /\ calls' = [calls EXCEPT ![t] = Free]
  /\ UNCHANGED opened

Next ==
  \E t \in Threads :
    \/ \E op \in Ops \ {"Sync"} : Begin(t, op) \/ Refuse(t, op)
    \/ Acknowledge(t) \/ Succeed(t) \/ GiveUp(t) \/ Return(t)

Spec == Init /\ [][Next]_vars

-----------------------------------------------------------------------------
(* What a caller may conclude. *)

Busy(t) == calls[t].phase = "busy"

\* OK has been said to the handler too, once, and nothing else has: of Sync, never.
AnsweredIffOk(t) ==
  calls[t].answers = IF calls[t].phase = "ok" /\ calls[t].op # "Sync" THEN 1 ELSE 0

\* Only Open finds the file closed, and whatever it finds stays so until it is over.
OpenThroughout(t) == Busy(t) => opened = (calls[t].op # "Open")

\* Open and Close have the file to themselves.
Alone(t) ==
  Busy(t) /\ calls[t].op \in {"Open", "Close"} => \A s \in Threads \ {t} : ~Busy(s)

\* A caller may wait for its handler after OK, and for nothing after an error, and while
\* its call runs nobody opens or closes the file under it (HttpFilePlugIn.cc:82-434).
Promises == \A t \in Threads : AnsweredIffOk(t) /\ OpenThroughout(t) /\ Alone(t)
=============================================================================
