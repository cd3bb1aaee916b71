---------------------------- MODULE OutputPublish ----------------------------
(***************************************************************************)
(* The library of finished ZIPs and the one way into it: publishCandidate  *)
(* of internal/archive/output_publish.go, with the comparison of           *)
(* internal/dedupe/files.go.  A file is its content (equal contents have   *)
(* equal SHA-256) and its modification time.  The global mutex serialises  *)
(* publications; a publication that replaces the active copy is two        *)
(* renames, so a crash can fall between them.                              *)
(***************************************************************************)
EXTENDS Naturals, Sequences

CONSTANTS Workers,   \* the goroutines that publish
          Targets,   \* final paths <output root>/<series>/<name>.zip
          Contents,  \* contents of a ZIP
          Times,     \* modification times
          NoFile,    \* nothing at a path
          NoWorker   \* the mutex is free

File == [data : Contents, time : Times]

ASSUME PublishAssumption ==
    NoWorker \notin Workers /\ NoFile \notin File /\ Times \subseteq Nat

VARIABLES active,      \* the library: what each target path holds
          quarantine,  \* copies under .docExtractor-duplicates, by target
          displaced,   \* the copy a worker has moved to quarantine to replace
          mutex        \* outputPublishMu

library == <<active, quarantine, displaced, mutex>>

PublishTypeOK ==
    /\ active \in [Targets -> File \cup {NoFile}]
    /\ quarantine \in SUBSET [target : Targets, file : File]
    /\ displaced \in [Workers -> File \cup {NoFile}]
    /\ mutex \in Workers \cup {NoWorker}

PublishInit ==
    /\ active = [t \in Targets |-> NoFile]
    /\ quarantine = {}
    /\ displaced = [w \in Workers |-> NoFile]
    /\ mutex = NoWorker

Quarantined(t, f) == [target |-> t, file |-> f]

\* CompareFiles: an exact duplicate keeps the active copy, otherwise a strictly
\* newer candidate wins and a tie keeps the active copy.
Decision(existing, candidate) ==
    IF existing.data = candidate.data THEN "exact-duplicate"
    ELSE IF candidate.time > existing.time THEN "use-candidate"
    ELSE "keep-existing"

\* The target is free: one rename.
PublishNew(t, f) ==
    /\ mutex = NoWorker
    /\ active[t] = NoFile
    /\ active' = [active EXCEPT ![t] = f]
    /\ UNCHANGED <<quarantine, displaced, mutex>>

\* The active copy stays and the candidate goes to a unique quarantine path.
PublishToQuarantine(t, f) ==
    /\ mutex = NoWorker
    /\ active[t] # NoFile
    /\ Decision(active[t], f) # "use-candidate"
    /\ quarantine' = quarantine \cup {Quarantined(t, f)}
    /\ UNCHANGED <<active, displaced, mutex>>

\* Variant: the mutex is not held between the two renames.
PublishDisplaceUnlocked(w, t, f) ==
    /\ mutex = NoWorker
    /\ active[t] # NoFile
    /\ Decision(active[t], f) = "use-candidate"
    /\ displaced' = [displaced EXCEPT ![w] = active[t]]
    /\ active' = [active EXCEPT ![t] = NoFile]
    /\ UNCHANGED <<quarantine, mutex>>

\* The candidate is newer: the active copy goes to quarantine first ...
PublishDisplace(w, t, f) ==
    /\ mutex = NoWorker
    /\ active[t] # NoFile
    /\ Decision(active[t], f) = "use-candidate"
    /\ displaced' = [displaced EXCEPT ![w] = active[t]]
    /\ active' = [active EXCEPT ![t] = NoFile]
    /\ mutex' = w
    /\ UNCHANGED quarantine

\* ... and then the candidate takes the target path.
PublishReplace(w, t, f) ==
    /\ active' = [active EXCEPT ![t] = f]
    /\ quarantine' = quarantine \cup {Quarantined(t, displaced[w])}
    /\ displaced' = [displaced EXCEPT ![w] = NoFile]
    /\ mutex' = NoWorker

\* Variant: a failed second rename is not undone.
PublishNoRollback(w, t) ==
    /\ quarantine' = quarantine \cup {Quarantined(t, displaced[w])}
    /\ displaced' = [displaced EXCEPT ![w] = NoFile]
    /\ mutex' = NoWorker
    /\ UNCHANGED active

\* Variant: the return after a failed second rename keeps the mutex.
PublishRollbackLocked(w, t) ==
    /\ active' = [active EXCEPT ![t] = displaced[w]]
    /\ displaced' = [displaced EXCEPT ![w] = NoFile]
    /\ UNCHANGED <<quarantine, mutex>>

\* The second rename failed: the displaced copy goes back.
PublishRollback(w, t) ==
    /\ active' = [active EXCEPT ![t] = displaced[w]]
    /\ displaced' = [displaced EXCEPT ![w] = NoFile]
    /\ mutex' = NoWorker
    /\ UNCHANGED quarantine

\* A crash frees the mutex; a displaced copy already is in quarantine.
PublishCrash(target) ==
    /\ quarantine' = quarantine \cup
          {Quarantined(target[w], displaced[w]) :
              w \in {v \in Workers : displaced[v] # NoFile}}
    /\ displaced' = [w \in Workers |-> NoFile]
    /\ mutex' = NoWorker
    /\ UNCHANGED active

\* The copies a reader of the library or of the quarantine can still find.
Findable(c) ==
    \/ \E t \in Targets : active[t] # NoFile /\ active[t].data = c
    \/ \E q \in quarantine : q.file.data = c
    \/ \E w \in Workers : displaced[w] # NoFile /\ displaced[w].data = c
=============================================================================
