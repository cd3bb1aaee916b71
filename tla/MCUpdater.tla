------------------------------ MODULE MCUpdater ------------------------------
(* Small instances of Updater.                                                *)
EXTENDS Updater

MCVersions == 1..3
=============================================================================
