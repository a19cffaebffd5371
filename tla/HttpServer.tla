----------------------------- MODULE HttpServer -----------------------------
(***************************************************************************)
(* One directory of the server, as the requests of HttpFileSystemPlugIn    *)
(* see it: names and what they stand for.  Not part of this repository:    *)
(* modelled from the calls Posix.cc makes.                                 *)
(***************************************************************************)
EXTENDS Naturals

CONSTANTS
  Names,
  NoName   \* the argument a request does not have

ASSUME NamesAssumption == NoName \notin Names

Kinds == {"absent", "file", "directory"}

Ops == {"Mv", "Rm", "MkDir", "RmDir", "DirList", "Stat"}

Requests ==
  [op : {"Mv"}, name : Names, dest : Names] \cup
  [op : {"Rm", "MkDir", "RmDir", "Stat"}, name : Names, dest : {NoName}] \cup
  [op : {"DirList"}, name : {NoName}, dest : {NoName}]

\* Whether the server can do what it is asked.
Possible(op, name, e) ==
  /\ op = "Rm" => e[name] = "file"
  /\ op = "RmDir" => e[name] = "directory"
  /\ op \in {"Mv", "Stat"} => e[name] # "absent"

\* The directory after the request.  Rename replaces what had the new name.
Effect(op, name, dest, e) ==
  CASE op \in {"Rm", "RmDir"} -> [e EXCEPT ![name] = "absent"]
    [] op = "Mv"              -> [e EXCEPT ![name] = "absent", ![dest] = e[name]]
    [] OTHER                  -> e

\* The entries the request asks about: a set of pairs of a name and its kind.
Found(op, name, e) ==
  {<<n, e[n]>> : n \in {m \in Names : \/ op = "Stat" /\ m = name
                                      \/ op = "DirList" /\ e[m] # "absent"}}
=============================================================================
