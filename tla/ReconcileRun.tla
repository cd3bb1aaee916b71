----------------------------- MODULE ReconcileRun -----------------------------
(***************************************************************************)
(* Scans and executions of Reconcile over one library, beside the jobs     *)
(* that publish into it and the requests that empty the quarantine:        *)
(* internal/web/reconcile_async.go, reconcile_control.go,                  *)
(* reconcile_snapshot.go, reconcile_handler.go and quarantine.go, with the *)
(* execution of organizer/reconcile_progress.go.  A runner is a goroutine  *)
(* of one of the asynchronous modes, or a request of the direct handler,   *)
(* which scans and executes at once and has neither flag nor snapshot.     *)
(***************************************************************************)
EXTENDS Reconcile

CONSTANTS Modes,     \* the asynchronous modes, manage and reprocess
          Handlers,  \* direct requests
          Layouts,   \* initial libraries
          Jobs,      \* what jobs publish: records of a path and a file
          NoPath, NoRunner,
          MaxRuns,   \* bound: scans and executions started
          MaxStops,  \* bound: stop requests
          MaxDeletes \* bound: requests to empty the quarantine

Runners == Modes \cup Handlers

ASSUME RunAssumption ==
    /\ Modes \cap Handlers = {}
    /\ NoPath \notin Path /\ NoRunner \notin Runners
    /\ \A j \in Jobs : j.path \in Path /\ ~Quarantined(j.path) /\ j.file \in File
    /\ \A fs \in Layouts : DOMAIN fs \subseteq Path /\ fs \in [DOMAIN fs -> File]
    /\ MaxRuns \in Nat /\ MaxStops \in Nat /\ MaxDeletes \in Nat

VARIABLES files,   \* the library: what each occupied path holds
          planned, \* the jobs that have not been submitted
          jobs,    \* the jobs that are queued or running
          running, \* per mode: Running
          stop,    \* per mode: a stop is requested
          asking,  \* modes for which a stop handler has seen Running
          offered, \* per mode: SnapshotDir is set
          stored,  \* per mode: the complete snapshot on disk, a set of at most one
          pc,      \* where each runner is
          seen,    \* what its scan saw, until it has decided
          report,  \* its report in memory, and when it executes its plan
          target,  \* the item between the test of its destination and its rename
          clean,   \* what a quarantine deletion is still going to remove
          view,    \* history: what a runner saw, while nobody else changes the library
          fresh,   \* history: runners whose last report has not been executed
          late,    \* history: runners whose free destination was taken meanwhile
          runs, stops, deletes

queue == <<planned, jobs>>
flags == <<running, stop, asking>>
snapshot == <<offered, stored>>
work == <<seen, report, target>>
history == <<view, fresh, late>>
bounds == <<runs, stops, deletes>>
vars == <<files, queue, flags, snapshot, pc, work, clean, history, bounds>>

Empty == [p \in {} |-> NoPath]
NoReport == [plan |-> Empty, choices |-> {}]
Stages == {"idle", "inspect", "decide", "save", "offer", "load", "execute"}
IsLibrary(fs) == DOMAIN fs \subseteq Path /\ fs \in [DOMAIN fs -> File]
IsReport(rep) ==
    /\ DOMAIN rep.plan \subseteq Path /\ \A p \in DOMAIN rep.plan : rep.plan[p] \in Path
    /\ UNION rep.choices \subseteq Path

TypeOK ==
    /\ IsLibrary(files)
    /\ planned \in SUBSET Jobs /\ jobs \in SUBSET Jobs
    /\ running \in [Modes -> BOOLEAN]
    /\ stop \in [Modes -> BOOLEAN]
    /\ asking \in SUBSET Modes
    /\ offered \in [Modes -> BOOLEAN]
    /\ pc \in [Runners -> Stages]
    /\ DOMAIN seen = Runners /\ DOMAIN report = Runners /\ DOMAIN stored = Modes
    /\ \A r \in Runners : IsLibrary(seen[r]) /\ IsReport(report[r])
    /\ \A m \in Modes : \A rep \in stored[m] : IsReport(rep)
    /\ target \in [Runners -> Path \cup {NoPath}]
    /\ \A r \in Runners : target[r] # NoPath =>
          pc[r] = "execute" /\ target[r] \in DOMAIN report[r].plan
    /\ clean \in SUBSET Path
    /\ runs \in 0..MaxRuns /\ stops \in 0..MaxStops /\ deletes \in 0..MaxDeletes

Init ==
    /\ files \in Layouts
    /\ planned = Jobs /\ jobs = {}
    /\ running = [m \in Modes |-> FALSE]
    /\ stop = [m \in Modes |-> FALSE]
    /\ asking = {}
    /\ offered = [m \in Modes |-> FALSE]
    /\ stored = [m \in Modes |-> {}]
    /\ pc = [r \in Runners |-> "idle"]
    /\ seen = [r \in Runners |-> Empty]
    /\ report = [r \in Runners |-> NoReport]
    /\ target = [r \in Runners |-> NoPath]
    /\ clean = {}
    /\ view = [r \in Runners |-> Empty] /\ fresh = {} /\ late = {}
    /\ runs = 0 /\ stops = 0 /\ deletes = 0

-----------------------------------------------------------------------------
(* The handlers.                                                             *)

Goto(r, stage) == pc' = [pc EXCEPT ![r] = stage]

\* What Start and Execute share: the critical section that takes the mode.
Take(m, stage) ==
    /\ ~running[m]
    /\ runs < MaxRuns
    /\ runs' = runs + 1
    /\ running' = [running EXCEPT ![m] = TRUE]
    /\ stop' = [stop EXCEPT ![m] = FALSE]
    /\ Goto(m, stage)

\* Variant: SnapshotDir survives the start of a new scan.
StartKeepsSnapshot(m) ==
    /\ Take(m, "inspect")
    /\ UNCHANGED <<files, queue, asking, snapshot, work, clean, history, stops, deletes>>

Start(m) ==
    /\ Take(m, "inspect")
    /\ offered' = [offered EXCEPT ![m] = FALSE]
    /\ UNCHANGED <<files, queue, asking, stored, work, clean, history, stops, deletes>>

\* The job summary, then the critical section; the snapshot stays offered.
Execute(m) ==
    /\ jobs = {}
    /\ offered[m]
    /\ Take(m, "load")
    /\ UNCHANGED <<files, queue, asking, snapshot, work, clean, history, stops, deletes>>

\* reconcileExecute: no flag keeps two of these, or one and a mode, apart.
Direct(h) ==
    /\ jobs = {}
    /\ pc[h] = "idle"
    /\ runs < MaxRuns
    /\ runs' = runs + 1
    /\ Goto(h, "inspect")
    /\ UNCHANGED <<files, queue, flags, snapshot, work, clean, history, stops, deletes>>

\* reconcileAsyncStop reads Running under the lock ...
AskStop(m) ==
    /\ running[m]
    /\ stops < MaxStops
    /\ stops' = stops + 1
    /\ asking' = asking \cup {m}
    /\ UNCHANGED <<files, queue, running, stop, snapshot, pc, work, clean, history,
                   runs, deletes>>

\* ... and sets the flag after the unlock.
SetStop(m) ==
    /\ m \in asking
    /\ asking' = asking \ {m}
    /\ stop' = [stop EXCEPT ![m] = TRUE]
    /\ UNCHANGED <<files, queue, running, snapshot, pc, work, clean, history, bounds>>

-----------------------------------------------------------------------------
(* A runner.  The progress callback looks at the flag between any two of its *)
(* steps, except between the test for a destination and the rename, and      *)
(* while a snapshot is written; a set flag ends the run (Cancelled).         *)

Unstopped(r) == r \in Modes => ~stop[r]

\* The end of a run: of a mode, the last critical section of its goroutine.
Return(r) ==
    /\ Goto(r, "idle")
    /\ seen' = [seen EXCEPT ![r] = Empty]
    /\ report' = [report EXCEPT ![r] = NoReport]
    /\ running' = IF r \in Modes THEN [running EXCEPT ![r] = FALSE] ELSE running
    /\ fresh' = IF pc[r] = "execute" THEN fresh \ {r} ELSE fresh
    /\ UNCHANGED <<files, queue, stop, asking, target, clean, view, late, bounds>>

\* The walk over the folders and os.Lstat; the quarantine is skipped unless the
\* request includes it, which a direct request cannot.
Inspect(r) ==
    /\ pc[r] = "inspect"
    /\ Unstopped(r)
    /\ \E all \in IF r \in Modes THEN BOOLEAN ELSE {FALSE} :
          LET found == {p \in DOMAIN files : all \/ ~Quarantined(p)} IN
          /\ seen' = [seen EXCEPT ![r] = [p \in found |-> files[p]]]
          /\ view' = [view EXCEPT ![r] = [p \in found |-> files[p]]]
    /\ fresh' = fresh \cup {r}
    /\ Goto(r, "decide")
    /\ UNCHANGED <<files, queue, flags, snapshot, report, target, clean, late, bounds>>

\* Digests, variants, free quarantine paths and conflicts.  A direct request has
\* its selections and goes on to execute.
Decide(r) ==
    /\ pc[r] = "decide"
    /\ Unstopped(r)
    /\ \E K \in KeeperSets(seen[r], files) :
          report' = [report EXCEPT ![r] = Report(seen[r], files, K)]
    /\ seen' = [seen EXCEPT ![r] = Empty]
    /\ Goto(r, IF r \in Modes THEN "save" ELSE "load")
    /\ UNCHANGED <<files, queue, flags, snapshot, target, clean, history, bounds>>

\* saveReconcileSnapshot: RemoveAll, the pages and meta.json last ...
Save(m) ==
    /\ pc[m] = "save"
    /\ Unstopped(m)
    /\ stored' = [stored EXCEPT ![m] = {report[m]}]
    /\ Goto(m, "offer")
    /\ UNCHANGED <<files, queue, flags, offered, work, clean, history, bounds>>

\* ... or an error before that, which leaves no whole snapshot.
SaveFails(m) ==
    /\ pc[m] = "save"
    /\ Unstopped(m)
    /\ stored' = [stored EXCEPT ![m] = {}]
    /\ Return(m)
    /\ UNCHANGED offered

\* The critical section that sets SnapshotDir.
Offer(m) ==
    /\ pc[m] = "offer"
    /\ Unstopped(m)
    /\ offered' = [offered EXCEPT ![m] = TRUE]
    /\ Return(m)
    /\ UNCHANGED stored

\* What is left of the plan of an execution.
Executing(r, plan) ==
    report' = [report EXCEPT ![r] = [plan |-> plan, choices |-> {}]]

\* loadReconcileSnapshot, and the selections of the request.
Load(r) ==
    /\ pc[r] = "load"
    /\ Unstopped(r)
    /\ \E found \in IF r \in Modes THEN stored[r] ELSE {report[r]} :
          \E chosen \in Selections(found) :
             Executing(r, WithSelections(found, chosen, files))
    /\ Goto(r, "execute")
    /\ UNCHANGED <<files, queue, flags, snapshot, seen, target, clean, history, bounds>>

\* Removals to quarantine come first, then the moves.
NextItems(r) ==
    LET plan == report[r].plan
        first == {p \in DOMAIN plan : Quarantined(plan[p])}
    IN IF first # {} THEN first ELSE DOMAIN plan

Destination(r) == report[r].plan[target[r]]

\* The item is done, or skipped.
Without(r, p) ==
    LET plan == report[r].plan
    IN Executing(r, [q \in DOMAIN plan \ {p} |-> plan[q]])

\* Variant: the destination is not tested.
TestUnchecked(r, p) ==
    /\ pc[r] = "execute" /\ target[r] = NoPath
    /\ Unstopped(r)
    /\ p \in NextItems(r)
    /\ target' = [target EXCEPT ![r] = p]
    /\ UNCHANGED <<files, queue, flags, snapshot, pc, seen, report, clean, history, bounds>>

\* os.Lstat of the destination: an occupied one is skipped.
Test(r, p) ==
    /\ pc[r] = "execute" /\ target[r] = NoPath
    /\ Unstopped(r)
    /\ p \in NextItems(r)
    /\ IF report[r].plan[p] \in DOMAIN files
       THEN Without(r, p) /\ UNCHANGED target
       ELSE target' = [target EXCEPT ![r] = p] /\ UNCHANGED report
    /\ UNCHANGED <<files, queue, flags, snapshot, pc, seen, clean, history, bounds>>

\* The history, when the paths fs are occupied: everyone but runner r, if it is the
\* one who changes it, is disturbed, and may find its destination taken.
Disturb(fs, r) ==
    /\ view' = [q \in Runners |-> IF q = r THEN view[q] ELSE Empty]
    /\ late' = {q \in Runners \ {r} : q \in late \/
                  (target[q] # NoPath /\ Destination(q) \in fs \ DOMAIN files)}
    /\ UNCHANGED fresh

\* os.Rename; a file that reached the destination since the test is replaced.
Rename(r) ==
    LET p == target[r]
        dest == Destination(r)
        after == (DOMAIN files \ {p}) \cup {dest}
    IN /\ p # NoPath
       /\ p \in DOMAIN files
       /\ files' = [q \in after |-> IF q = dest THEN files[p] ELSE files[q]]
       /\ Disturb(after, r)
       /\ Without(r, p)
       /\ target' = [target EXCEPT ![r] = NoPath]
       /\ UNCHANGED <<queue, flags, snapshot, pc, seen, clean, bounds>>

\* It fails when the source is gone, and may fail otherwise (a root on another
\* volume); the error is collected and the next item follows.
RenameFails(r) ==
    /\ target[r] # NoPath
    /\ Without(r, target[r])
    /\ target' = [target EXCEPT ![r] = NoPath]
    /\ late' = late \ {r}
    /\ UNCHANGED <<files, queue, flags, snapshot, pc, seen, clean, view, fresh, bounds>>

\* Empty folders are removed and the result is shown.
Finish(r) ==
    /\ pc[r] = "execute"
    /\ DOMAIN report[r].plan = {}
    /\ Unstopped(r)
    /\ Return(r)
    /\ UNCHANGED snapshot

\* An error of the walk, of the snapshot, or a missing selection.
Fail(r) ==
    /\ pc[r] \in {"inspect", "load"}
    /\ Return(r)
    /\ UNCHANGED snapshot

\* Variant: the handler of the panic forgets Running.
CancelledForgets(m) ==
    /\ stop[m]
    /\ pc[m] # "idle" /\ target[m] = NoPath
    /\ Goto(m, "idle")
    /\ UNCHANGED <<files, queue, flags, snapshot, work, clean, history, bounds>>

\* Variant: a panic between the test of a destination and the rename.
CancelledAnywhere(m) ==
    /\ stop[m]
    /\ pc[m] # "idle"
    /\ Return(m)
    /\ UNCHANGED snapshot

\* checkReconcileCancelled panics and recoverReconcileCancellation ends the run.
Cancelled(m) ==
    /\ stop[m]
    /\ pc[m] # "idle" /\ target[m] = NoPath
    /\ Return(m)
    /\ UNCHANGED snapshot

-----------------------------------------------------------------------------
(* The jobs, and the quarantine handler.                                     *)

Submit(j) ==
    /\ j \in planned
    /\ planned' = planned \ {j}
    /\ jobs' = jobs \cup {j}
    /\ UNCHANGED <<files, flags, snapshot, pc, work, clean, history, bounds>>

\* A job that fails publishes nothing.
GiveUp(j) ==
    /\ j \in jobs
    /\ jobs' = jobs \ {j}
    /\ UNCHANGED <<files, planned, flags, snapshot, pc, work, clean, history, bounds>>

\* publishCandidate, as Library has it: a free path is taken, a newer copy
\* displaces the active one, any other goes to quarantine itself.
Publish(j) ==
    LET active == files[j.path]
        wins == j.file.data # active.data /\ j.file.time > active.time
        spare == FreeQuarantine(files, j.path)
        changed == IF j.path \notin DOMAIN files THEN {j.path}
                   ELSE IF wins THEN {j.path, spare} ELSE {spare}
    IN /\ j \in jobs
       /\ jobs' = jobs \ {j}
       /\ files' = [p \in DOMAIN files \cup changed |->
                       IF p \notin changed THEN files[p]
                       ELSE IF p = j.path \/ ~wins THEN j.file ELSE active]
       /\ Disturb(DOMAIN files \cup changed, NoRunner)
       /\ UNCHANGED <<planned, flags, snapshot, pc, work, clean, bounds>>

\* quarantineDelete collects its targets after a look at the job summary; one
\* with fewer targets has the steps of one that has not gone on yet ...
BeginDelete ==
    /\ jobs = {}
    /\ clean = {}
    /\ deletes < MaxDeletes
    /\ deletes' = deletes + 1
    /\ clean' = {p \in DOMAIN files : Quarantined(p)}
    /\ UNCHANGED <<files, queue, flags, snapshot, pc, work, history, runs, stops>>

\* ... and removes them one after the other; one that is gone is skipped.
Delete(p) ==
    /\ p \in clean
    /\ clean' = clean \ {p}
    /\ files' = [q \in DOMAIN files \ {p} |-> files[q]]
    /\ IF p \in DOMAIN files
       THEN Disturb(DOMAIN files \ {p}, NoRunner)
       ELSE UNCHANGED history
    /\ UNCHANGED <<queue, flags, snapshot, pc, work, bounds>>

-----------------------------------------------------------------------------

RunStep(r) ==
    \/ Inspect(r) \/ Decide(r) \/ Load(r) \/ Finish(r) \/ Fail(r)
    \/ pc[r] = "execute" /\ \E p \in NextItems(r) : Test(r, p)
    \/ Rename(r) \/ RenameFails(r)
    \/ r \in Modes /\ (Save(r) \/ SaveFails(r) \/ Offer(r) \/ Cancelled(r))

Next ==
    \/ \E m \in Modes : Start(m) \/ Execute(m) \/ AskStop(m) \/ SetStop(m)
    \/ \E h \in Handlers : Direct(h)
    \/ \E r \in Runners : RunStep(r)
    \/ \E j \in Jobs : Submit(j) \/ GiveUp(j) \/ Publish(j)
    \/ BeginDelete
    \/ \E p \in clean : Delete(p)

Spec == Init /\ [][Next]_vars

-----------------------------------------------------------------------------
(* Properties.                                                               *)

\* Running says exactly whether a goroutine of the mode exists: a mode never has
\* two of them, and none ends without giving the mode back (lines 113 and 217,
\* against every return and panic of the two goroutines).
RunningIsWork == \A m \in Modes : running[m] <=> pc[m] # "idle"

\* What is offered for execution, and what an execution is about to load, is a
\* snapshot that was written to its end, although each scan first removes the
\* stored one and may be stopped or fail at any step (SnapshotDir).
OffersWholeReport ==
    \A m \in Modes : offered[m] \/ pc[m] = "load" => stored[m] # {}

Copies(fs) == {fs[p] : p \in DOMAIN fs}

\* The step is the rename of a runner to f, which another writer put there after the
\* runner had tested that path.
Overtaken(f) ==
    \E r \in late :
        /\ target[r] # NoPath /\ target'[r] = NoPath
        /\ Destination(r) \in DOMAIN files /\ files[Destination(r)] = f

\* The step is a publication that reuses the quarantine path of f, since every mark of
\* that name is taken.
Exhausted(f) ==
    \E j \in jobs \ jobs' :
        LET spare == FreeQuarantine(files, j.path)
        IN spare \in DOMAIN files /\ files[spare] = f

\* "does not intentionally overwrite occupied destinations" and "not a
\* transaction against external concurrent writers" (docs/series-folder-repair
\* .md:25,27): however scans, executions of old reports, jobs and deletions
\* interleave, a copy only goes when a quarantine request removes it from the
\* quarantine, when it came to a destination between its test and the rename, or
\* when the quarantine has no free name left and its path is used again.
NoCopyLost ==
    [][\A f \in Copies(files) \ Copies(files') :
          \/ Overtaken(f) \/ Exhausted(f)
          \/ \E p \in clean \ clean' : Quarantined(p) /\ files[p] = f]_vars

\* The same content as a file the scan saw, or another file of its volume.
StandsFor(fs, p, f) ==
    \E q \in DOMAIN fs :
        /\ ~Quarantined(q)
        /\ Work[q.name] = Work[p.name]
        /\ \/ fs[q].data = f.data
           \/ Volume[q.name] = Volume[p.name] /\ Volume[p.name] # NoVolume

\* One content under the names of two volumes of a work.
Misnamed(found, p) ==
    \E q \in DOMAIN found :
        /\ Work[q.name] = Work[p.name] /\ found[q].data = found[p].data
        /\ Volume[q.name] # Volume[p.name]

\* What a runner saw outside the quarantine is there still, or another copy of
\* its content or its volume is.  Two volumes with one content are one duplicate
\* for the code, and do not count.
ShownStays(r) ==
    \A p \in DOMAIN view[r] :
        p.name \in Usable /\ ~Quarantined(p) =>
            StandsFor(files, p, view[r][p]) \/ Misnamed(view[r], p)

\* The newest variant of a volume is selected and the others go: from its scan
\* to the end of the execution, stopped and failed ones included, a runner that
\* nobody disturbs leaves every volume it saw with a copy outside the
\* quarantine.  For scans of the quarantine, and for a report that is executed
\* again with other selections, this fails: see VolumeNeverVanishes.
VolumeStaysActive ==
    \A r \in fresh : (\A p \in DOMAIN view[r] : ~Quarantined(p)) => ShownStays(r)

\* "SHA-256 exact duplicate; active copy preferred, then newer copy"
\* (reconcile_progress.go:322): the same for every report.
VolumeNeverVanishes == \A r \in Runners : ShownStays(r)
=============================================================================
