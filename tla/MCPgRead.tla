------------------------------ MODULE MCPgRead ------------------------------
(***************************************************************************)
(* Instances of PgRead for TLC: what a .cfg cannot say.                    *)
(***************************************************************************)
EXTENDS PgRead, TLC

\* Threads are interchangeable.
ThreadSymmetry == Permutations(Threads)
=============================================================================
