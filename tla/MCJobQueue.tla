------------------------------ MODULE MCJobQueue ------------------------------
(***************************************************************************)
(* Instances of JobQueue for TLC.                                          *)
(***************************************************************************)
EXTENDS JobQueue, TLC

CONSTANTS j1, j2, w1, w2

\* Workers run the same program, and so may be exchanged.
WorkerSymmetry == Permutations(Workers)
=============================================================================
