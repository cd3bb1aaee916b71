----------------------------- MODULE MCJobQueue -----------------------------
(* A small instance of JobQueue for TLC; MCJobQueue.cfg gives its constants. *)
(* Jobs, workers and submitters are interchangeable, but the run checks      *)
(* liveness too and therefore uses no symmetry.                              *)
EXTENDS JobQueue
=============================================================================
