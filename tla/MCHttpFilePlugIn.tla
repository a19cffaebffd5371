-------------------------- MODULE MCHttpFilePlugIn --------------------------
(***************************************************************************)
(* Instances of HttpFilePlugIn for TLC.  The sets are given by the .cfg    *)
(* files; here is only what a .cfg cannot say.                             *)
(***************************************************************************)
EXTENDS HttpFilePlugIn, TLC

\* Threads are interchangeable.  Not used for liveness.
ThreadSymmetry == Permutations(Threads)
=============================================================================
