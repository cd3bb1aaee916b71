----------------------------- MODULE MCUpdateGate -----------------------------
(* A small instance of UpdateGate.                                            *)
EXTENDS UpdateGate

MCVersions == 1..2
=============================================================================
