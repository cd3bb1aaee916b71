------------------------------ MODULE MCSettings ------------------------------
(* Two folders, one alias, a request of each kind.                            *)
EXTENDS SettingsStore

CONSTANTS d, e, a, folder, edit1, edit2, i1, i2, i3, none, empty, broken
=============================================================================
