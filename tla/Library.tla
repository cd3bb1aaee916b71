------------------------------- MODULE Library -------------------------------
(***************************************************************************)
(* What publication promises to whoever reads the library: every file that *)
(* arrives for a target path is settled in one step, by the ordering of    *)
(* CompareFiles, and no copy ever leaves the library and its quarantine.   *)
(* Only a crash may leave a target vacant, and then its last copy is in    *)
(* quarantine.                                                             *)
(***************************************************************************)
EXTENDS Naturals

CONSTANTS Targets, Contents, Times, NoFile

VARIABLES shelf,    \* the copy on display at each target
          archived, \* the copies in quarantine, by target
          outages   \* how often the program has crashed

Copy == [data : Contents, time : Times]

Init == shelf = [t \in Targets |-> NoFile] /\ archived = {} /\ outages = 0

Archive(t, f) == archived' = archived \cup {[target |-> t, file |-> f]}

\* A first copy, or one that is newer and different, goes on display.
Display(t, f) ==
    /\ shelf' = [shelf EXCEPT ![t] = f]
    /\ IF shelf[t] = NoFile
       THEN UNCHANGED archived
       ELSE f.data # shelf[t].data /\ f.time > shelf[t].time /\ Archive(t, shelf[t])

\* Any other copy is kept aside.
KeepAside(t, f) ==
    /\ shelf[t] # NoFile
    /\ f.data = shelf[t].data \/ f.time <= shelf[t].time
    /\ Archive(t, f)
    /\ UNCHANGED shelf

\* A crash, perhaps halfway through a replacement.
Crash ==
    /\ outages' = outages + 1
    /\ \/ UNCHANGED <<shelf, archived>>
       \/ \E t \in Targets :
             /\ shelf[t] # NoFile
             /\ shelf' = [shelf EXCEPT ![t] = NoFile]
             /\ Archive(t, shelf[t])

Next == \/ /\ \E t \in Targets, f \in Copy : Display(t, f) \/ KeepAside(t, f)
           /\ UNCHANGED outages
        \/ Crash

Spec == Init /\ [][Next]_<<shelf, archived, outages>>
=============================================================================
