# A TLA+ verification of docExtractor

docExtractor watches an inbox of ZIP and RAR archives on a NAS, turns each of
them into one ZIP per volume under `<output>/<series>/<volume>.zip`, keeps the
better of two copies of a volume, tidies an existing library, and updates
itself.  It moves and deletes the user's only copies of files from several
goroutines, so what matters is what happens between two steps: this directory
models those steps, checks them with TLC and proves the central invariants with
TLAPS.  Line numbers refer to the files under `src/`.

## Inventory

| Component | State | Operations | Interacts with | Hard part |
|---|---|---|---|---|
| Job manager `internal/jobs/manager.go` | records, channel of ids, cancel functions, root context | Submit, Cancel, Summary, worker loop, Close | handlers call it, it calls the archive processor | insert before send, cancel before start, full channel, Close |
| Archive processing `internal/archive` | inbox, temporary files, normalized intermediates | processZIP, processRAR | called by workers, ends in publication | a failure or crash at every step; the source is removed or renamed |
| Publication `archive/output_publish.go`, `dedupe/files.go` | library, quarantine, one global mutex | publishCandidate, CompareFiles | all workers | a replacement is two renames |
| Recovery `archive/recovery.go` | - | RecoverPartials at start | temporary files of a dead process | knows some temporary names only |
| Self updater `internal/updater` | status in memory and in `status.json`, package files | Check, Start, background run, New | handlers, GitHub, a detached installer | restarts in the middle, results of overlapping checks |
| Update handler `web/update.go` | - | installUpdate | job manager, then updater | the look at the jobs is old when the installer starts |
| Reconcile engine `organizer/reconcile*.go` | a report | scan, execute | the library, without the publication mutex | test of the destination, then rename |
| Async reconcile `web/reconcile_*.go` | one state per mode, a stop flag, a snapshot on disk | start, stop, execute, pages | engine, job summary | stop flags, two modes at once, old snapshots |
| Async scan `web/archive_scan_async.go` | one state per server | start, status, items | organizer, settings | single flight, folders changing |
| Settings and aliases `settings/store.go`, `web/settings_handler.go`, `web/aliases.go` | `settings.json`, memory, organizer | Save, update, add and delete alias | organizer | shared temporary file, lost updates, rollback |
| Planning `organizer/*.go`, `classifier/*` | clusters, plans | Scan, PlanName | jobs get its destinations | two sources, one destination |
| Naming inside archives `archive/nested_flatten.go`, `preview.go` | - | flatten, preview | archive processing | preview and execution must agree |
| Quarantine handler `web/quarantine.go` | - | list, delete | quarantine | job summary read first |
| Diagnostics, pages, package scripts | logs, static text | - | - | none of the properties below |

What makes each of them correct, in one line each:

- job manager: a job has one holder, is never stranded, is settled once, can be
  cancelled while it runs, and a quiet summary means that nothing is processed;
- processing and publication: no volume is ever lost, a source goes only after
  its volumes are findable, publications look atomic, every run ends;
- updater: only a compared package of a newer version reaches an installer, one
  run at a time, a shown operation is under way, and an end to every run;
- reconcile: nothing is overwritten, every volume keeps an active copy, and flags
  and snapshots say what is there;
- settings: a request is applied to memory, file and organizer or to none, plans
  belong to the folders in use, and the file stays readable;
- naming: no two members of an archive get one name, every file reaches one
  output, limits hold, and the preview is the result.

`PROJECT.json` lists the hazards behind these, each at its line.

## Modules

| Module | What it is |
|---|---|
| `JobLifecycle` | abstract: the life of a job as callers see it |
| `JobQueue` | `jobs/manager.go`; implements `JobLifecycle` |
| `Library` | abstract: what publication promises to a reader of the library |
| `OutputPublish` | `publishCandidate` and `CompareFiles`, one action per rename |
| `ArchivePipeline` | the workers, on top of `OutputPublish`; implements `Library` |
| `Updater` | `updater.go`, with `status.json`, the package files and restarts |
| `UpdateGate` | `installUpdate` over `Updater` and `JobLifecycle` |
| `Reconcile` | what a scan of a library decides, as operators on libraries |
| `ReconcileRun` | scans and executions beside jobs and quarantine deletions, over `Reconcile` |
| `SettingsStore` | the settings file, its store, the handlers above it and the archive scan |
| `Normalize` | the recursive walk over one archive, as the dry run and as the job do it |
| `MC*` | small instances for TLC; the constants of each are in its `.cfg` |
| `JobQueueProofs`, `PipelineProofs`, `UpdaterProofs`, `UpdateGateProofs`, `ReconcileProofs`, `SettingsProofs`, `NormalizeProofs` | theorems about the module of the same name, checked by TLAPS |

Operators that end in a name such as `...Twice`, `...Unchecked` or `...Forgets`
and carry the comment *Variant* are plausible bugs: no specification uses them.
Put in the place of the definition that follows, each makes TLC report the
property it is listed with in `PROJECT.json`, which shows that the property
says something about the code.

### JobQueue

Each action is one critical section of `m.mu`, one channel operation or one
return of the processor, so that everything between them interleaves.
`SubmitInsert`, `SubmitSend` and `SubmitFull` are the three parts of line 61: the
record is in the map before the id is in the channel, and taken out again when
the `select` finds no room.  `Cancel` is line 65 when it answers true (false
changes nothing).  The worker's `select` (68) may take either ready case, so
`Receive` does not ask for `rootDone`.  `Drop` and `Begin` are line 70, `Update`
and `Return` line 73, `Finish` line 75.  The processor is external to the module:
it returns `nil`, an error, or `context.Canceled`, the last only when its context
is done.  `beginOverwrite` (71) does nothing for the tasks that the program
submits, since they have `ReconcileOutputs` set.  After `CloseReturn` the process
exits; handlers may still be inside `Submit` until then, because
`httpServer.Shutdown` gives up after ten seconds (`main.go:71`).

### OutputPublish and ArchivePipeline

A file is its content and its modification time; equal contents have equal
digests.  A publication that finds the target free, or keeps the active copy,
is one rename and one action.  A replacement is `PublishDisplace` (53) and
`PublishReplace` (56), with the mutex held between, or `PublishRollback` (57).

An archive is *whole* (renamed, or copied to another volume), *split* (several
folders) or *nested* (RAR, or archives inside); which one, and the groups it
yields, are constants.  The actions follow `processZIP` and `processRAR` up to
what another worker or a crash can see: inspection, the renaming or copying of
the source to a candidate, the flattening into
`<destination>.normalized.partial`, its verification and its opening **by
name**, one split partial per group, the publications in sorted order, the
removal of the source, the deferred removal of the intermediate.  Every step may
also fail.  `Crash` forgets the workers, keeps the files, and lets
`RecoverPartials` promote finished copies (or not: it has one minute).

`finished` is a history variable.  Left out: a second failure while the first
is undone (a rollback or a rename back that fails too), other programs that change
an archive in the inbox (between its verification and its copy to another volume
they would leave a candidate behind, `collection_split.go:134`), non-regular files at a
target, archives that lie at their own target (`already-normalized`): sources
are files of the inbox itself, targets are two levels below the output root.

### Updater and UpdateGate

`Check` runs in its handler (`CheckBegin`, then `CheckFetch` or `CheckFail`, then
`CheckApply`) without setting `running`, so that a run can begin while a check
is in flight.  The run is one step per critical section or file operation of
`run` and `download`.  `fail` enters `failed`; the deferred reset is `RunEnd`.
`Become` writes status and file together, except that the file may keep its
old content because the error of `persistLocked` is ignored.  A download may
yield a package of the right size and wrong content (`bad`).  `New` is a process
that starts: it happens in `Restart`, and in `Install` with the version of the
package.  `Install` and `InstallFail` stand for the package script, which is not
Go code.  A running version that cannot be parsed (`dev`) is left out: it is
never updated.

`UpdateGate` adds the handler: `Ask` reads the summary, `RequestStart` starts the
updater, and in between and afterwards the job manager does what `JobLifecycle`
allows, which `JobQueue` is proved to implement.

### Reconcile and ReconcileRun

A path is a place (the home folder of its series, the quarantine, any other
folder), a file name and the marks " (2)", " (3)", ... it was given in
quarantine; a file is a content and a modification time.  `Reconcile` translates
the decisions of `reconcile_progress.go` in their order: exact duplicates
(`CopyClasses`, `KeeperSets`), variants of one volume (`VolumeGroups`, `Older`,
`Choices`), conflicts (`Occupied`) and the moves that become possible when a
destination is vacated (`Moving`).  The name of a file determines its work with
edition, its volume and its home folder (`Work`, `Volume`, `Home`): in the code
they also depend on spellings found elsewhere in the library, which this model
leaves out.  Which of several equally preferred duplicates is kept depends on the
walk; `KeeperSets` allows each.

In `ReconcileRun` a runner is the goroutine of an asynchronous mode or a request
of the direct handler.  A scan reads the files (`Inspect`), decides later on what
it saw and on the digests and free paths of that moment (`Decide`), and, for a
mode, saves and offers a snapshot (`Save`, `Offer`).  An execution loads one
(`Load`, with the user's selections), and then for each item tests the
destination and renames (`Test`, `Rename`), removals to quarantine first.
`Cancelled` is the panic of the progress callback: between any two steps except
between test and rename.  Jobs publish with `publishCandidate` in one step, as
`Library` allows and `ArchivePipeline` is proved to implement; the job summary is
looked at where `Execute`, `Direct` and `BeginDelete` look at it, and never again.
There is one library, hence one snapshot per mode; in the code the snapshot lies
below the output root that the request of the scan resolves to
(`reconcile_snapshot.go:22`).

The order of items within a phase is free, a superset of the sorted order of the
report.  Sizes are part of the content.  Nested library roots are left out, as
are the page readers, which change nothing; a quarantine request that names
single files has the steps of one that removes all and has not gone on.

`Disturb` keeps two histories: `view`, what a runner saw as long as nobody else
changes the library, and `late`, the runners whose tested destination was taken.
`NoCopyLost` names the three ways in which a copy may go, each for the copy that goes
and the step that takes it.  `VolumeStaysActive` is about an undisturbed runner from
its scan (of a library without its quarantine) to the end of its first execution,
stops and failures included.

### SettingsStore

`Save` takes no lock before its last step, so each of its file operations is an
action: `Open` truncates whatever is at `settings.json.tmp`, also when another
request is about to rename it; `Write` may leave a torn file when another request
has written to the same inode; `Rename`, `Commit`; `SaveFails` at each of them, followed by
`RemoveTmp` (the deferred removal) when the file had been opened.
Files are inodes, so that a request can write to a file that another one has
renamed.  The handler that changes folders holds `st.mu` from its look at
`Running` to its end (`locked`); further ones wait there, so one is enough.
`SetRoot`, `SetOutputRoot` and `Get`, all before `Save`, are one step; the output
mode follows from the folders.  The collision policy is left out: it is set and
rolled back with the folders.  A scan reads the root, the aliases (once for each
archive, `ScanPlan`, and once for all, `ScanAliases`) and the output folder at
different moments and stores the series names between them: `found.names`, and then
`resolved`, is the set of all aliases these were found with.

Behaviour the model shows and no text of the repository denies, each excluded
from a property by a history variable of its name: a rejected or undone change
of folders takes effect in part when the old folder has gone meanwhile (`half`);
an alias saved during a scan is overridden by the series names that scan stores
(`late`); two overlapping saves share one temporary file, and a torn one may become
`settings.json` (`clash`); overlapping requests may lose each other's change
(`mixed`).  At start, a saved output folder that is not mounted is replaced by the
root, and the file is overwritten with that.

### Normalize

One archive is walked twice: by the dry run and by the job, each with its own
counters.  `PreviewStart` and `StartFlatten` open the outermost archive; the walk
is a stack of open archives and one action per entry
(`PreviewNested`, `PreviewLeaf`, `FlattenNested`, `FlattenLeaf`, `Leave`); what
distinguishes ZIP from RAR is that a ZIP without inner archives is never
rewritten (`PublishPlain`).  Names are folders, a base and an extension, each
folder or base a stem with marks, so that `uniqueArchiveName` does to a name what
it does in the code.  `Broken` stands for all that a listing refuses (damage,
links, unsafe paths); directory entries are not entries.  Limits are constants:
those of the job come from `Config`, those of the dry run are constants of
`preview.go`.  The properties compare the outcome with definitions that know no
stack: `Opened[n]` is the set of archives n levels below the source, `Files`,
`Inner` and `Bytes` are what lies in the levels that a run within the limits can
reach.

`uniqueArchiveName` tries the marks 2 to 99999 and then " (duplicate)", without
looking whether that is taken; `MaxArchiveEntries` is 250000 by default.
`UniqueNames` is therefore about ZIPs of fewer than `LastMark` files: with more,
two names may collide.

The groups are published at once, since their publication one by one is
`ArchivePipeline`'s subject.  Seen on the way: the dry run counts the outermost
archive, so one with exactly as many inner archives as the limit fails there and
not in the job; spooled inner archives do not count as expanded bytes; `v.zip`
and `v.rar` in one folder end in one group `v`.

## Runs

| Run | Instance | What it shows |
|---|---|---|
| `job_queue` | 3 jobs, 2 workers, 2 callers, channel of 1 | holders, stranding, cancellation, settled records, the abstract life, queued jobs settle, Close returns |
| `archive` | 4 archives of all kinds, 2 workers, 3 runs, 1 crash | content is kept, no litter, finished archives stay visible, the abstract library, runs end |
| `archive_twin` | 2 archives with one destination | *violation*, see findings |
| `archive_stale` | a crash and a retry on 1 worker | *violation* |
| `updater` | 3 versions, 1 checker, 2 updates, 1 restart | compared packages only, one run, upgrades only, runs end |
| `updater_refusal` | 1 update | *violation* |
| `update_gate` | 1 request, 1 job | *violation* |
| `reconcile` | 4 libraries of 2 or 3 files, 1 mode, 1 direct request, 3 runs, 1 job, 1 stop, 1 deletion | a copy goes only where it may, volumes stay active, flags and snapshots are true |
| `reconcile_active` | one library with a newer duplicate in quarantine | *violation* |
| `settings` | 2 folders, 1 alias, a request of each kind, 2 faults | current plans, a readable file, all or nothing, everything ends |
| `normalize` | all ZIPs and RARs of 1 to 3 entries out of 13, limits of 2 to 6 | names, completeness, limits, the dry run |
| `preview_plain` | the same | *violation* |

Why the bounds suffice: with a channel of one slot and three jobs the channel is
full while both workers are busy, a caller waits between insert and send, and a
job is cancelled in every state.  In `archive` the publications of four archives
meet at two targets with an exact duplicate, a newer and an older
copy; three runs allow an archive to be processed again after a failure, and
two runs on one archive at once.  One crash hits every step of every kind, and
the runs that remain are the retries.  For the updater three versions allow a
release to change in both directions between a check and a run; two updates
allow a second run beside an installer of the first.  The libraries of
`reconcile` are the cases its decisions distinguish (an older variant at home, a
tie, a duplicate in quarantine, a conflict); three runs are a scan, its execution
and a direct request between any two of their steps, and the job publishes where
one of the moves goes.  Two requests and three inodes let two saves share a
temporary file; two faults are a crash and a folder that goes away, in either
order.  Three entries of which two may be archives of archives reach each limit of
`normalize` from both sides, bring equal names from different archives together
and include one that contains itself.
Bounds: `MaxRuns`, `MaxCrashes`, `MaxStarts`, `MaxRestarts`, `MaxStops`,
`MaxDeletes`, `MaxSaves`, `MaxFaults`, and `Jobs`, each id being used once.

Deadlock is not checked where a bounded number of requests leaves nothing to do
in the end: in `update_gate`, in the runs of `ReconcileRun` and `SettingsStore`, and
for `Normalize`, which follows one archive to its end.  In the other runs it is
checked, and the states in which the program really has stopped stutter
explicitly (`Exited`, `Done`).

Fairness.  `WF(WorkerStep)` and `WF(Step)`: the Go scheduler runs a goroutine
that can run, file operations end, and a processor call returns (its loops are
over finite archives).  `WF(SubmitSend \/ SubmitFull)`: a handler inside Submit
goes on.  `WF(RunStep)` and `WF(CheckStep)`: the HTTP requests of the updater have
a time limit of ten minutes, those of a check of twenty seconds.
`WF(SaveStep(s))` and `WF(ScanStep)`: a handler that has begun goes on, and a scan
reads a directory; both may wait for `st.mu`, which is free infinitely often only
because the other one ends.  Nobody is assumed to submit, cancel, close, check, install or restart
anything.

## Findings

1. `archive_twin`, `ContentKept`.  The intermediate of a nested archive is named
   after the planned destination alone.  `a.zip` and `a.rar` of one series have
   the same destination; when both are processed at once, one worker replaces
   the intermediate that the other has verified but not yet opened, the first
   publishes the groups of the second, and removes its own source.
2. `archive_stale`, `StaleReplaced`.  Split partials have random names, so a
   retry does not overwrite the stale one, as `docs/design.md:90` has it.
3. `updater_refusal`, `RefusalIsTrue`.  After an installer that failed the state
   stays `installing`, across restarts too, and every check and update is
   refused with "update operation is already running".
4. `update_gate`, `InstallWhileQuiet`.  The jobs are looked at when the update is
   requested, not when the installer starts up to ten minutes later.
5. `reconcile_active`, `VolumeNeverVanishes`.  A quarantined exact duplicate stays in
   quarantine, but still competes as a variant of its volume
   (`reconcile_progress.go:331`): when it is the newer file, the active copy is
   retired for it, and the library has the volume in quarantine only.
6. `preview_plain`, `PreviewMirrorsProcess`.  The dry run strips the folder that all
   entries share; the job does so only for archives it normalizes, and publishes
   a plain ZIP under the name of that folder.

Two behaviours that no text of the repository denies, seen while modelling: after a
crash in a replacement the target is vacant until the next copy arrives
(`Crash` of `Library`), and after a crash between the rename of a source and
its publication the only copy lies under `.docextractor-candidate-*.zip`, which
counts as kept in `ContentKept` and is visible to no page.

## Proofs

Everything below holds for every value of the constants; the assumptions are
`JobQueueAssumption` (the capacity is positive, `NoJob` is no job),
`UpdaterAssumption` (versions are positive naturals, the first one is a version),
`ReconcileAssumption` and `RunAssumption` (usable names are names, times are
naturals, `home` and `quarantine` are no other roots, modes are no handlers, jobs
publish files outside the quarantine, the initial libraries are functions from paths
to files),
`PublishAssumption` and `PipelineAssumption` (times are naturals, every archive has
a kind, entries and at least one group, a whole one has exactly one),
`SettingsAssumption` (requests and inodes are finite, with an inode for each request,
one for the file and one to spare) and `NormalizeAssumption` (below).

**JobQueueProofs.**  `OneHolder` and `NoJobStranded` are about who has a job,
`RunningIsCancellable` about what is registered for it, and neither is inductive
alone: that a job taken from the channel is not executed already needs that only
issued jobs are held, and that a running job is executed by exactly one worker
needs that what a worker holds follows from its `pc`.  `IInv` joins the four
properties with these facts (holders hold issued jobs, `cur` is set exactly
outside the `select`, a job that waits is queued, cancelled or absent, contexts
belong to registered jobs).  There is one lemma per action; `QuietMeansIdle` and
the two action properties follow from `IInv`; `ImplementsLifecycle` maps each
step to one of `JobLifecycle` or to a stutter.

**PipelineProofs.**  What a worker holds and has published follows from where it is:
`Working` (which archive it has, and of which kind), `Groups` (the groups that are
written are 1..i, those that wait for publication are i..n, and 1..i-1 are findable)
and `Swapping` (the mutex and a displaced copy belong to the worker between its two
renames, whose target is free and whose candidate is newer).  `Intermediates` says
that a normalized partial lies at the destination of its archive and, before any
crash, is going to be removed by somebody.  Together they are inductive:
`OtherFact` shows that a step leaves the other workers alone, `FindableStays` that
no step takes a copy out of reach, `OwnStep` and `SwappingStep` are about the worker
that moves.  `NothingLeft` and `ImplementsLibrary` follow from this invariant for all
archives; in the second the mutex makes the displaced copy unique, so that `Shelf`
is the library with that copy back at its target.

`ContentNeverLost` and `FinishedStays` do not hold for all archives: the run
`archive_twin` is the counterexample.  They are proved under `DistinctNested`, the
condition that two nested archives never have the same destination, which the
planner does not ensure.  It makes what a worker publishes its own archive (`Own`),
and then a source is removed only when `Groups` says that it is delivered, and a
renamed source is in the hands of one worker until it is published, renamed back
or left under its candidate name by a crash (`HeldStep`).

**UpdaterProofs.**  That no installer opens a bad package (`VerifiedOnly`) is not
inductive: a package is renamed from a partial that was compared one step
earlier.  `UInv` therefore says that in the rename step the partial is good
(`Compared`), which needs that no other run writes it (`OneRun`), that the release
in hand is one (`InHand`) and above the running version once the download began
(`Newer`, from which `LaunchUpgrades` follows), and that the last steps of a run are
not shown as busy (`Reported`, without which the reset of `running` would break
`BusyMeansWork`).  `MoveInv` states once what a step of a run has to establish; the
steps then discharge it.

**UpdateGateProofs.**  Each step of `UpdateGate` is one of `Updater` or leaves it
alone (`GateStep`), so the composed system implements the updater, and what was
proved of the updater holds beside any jobs and requests.  What fails there is
only the promise about the jobs (`update_gate`).

**ReconcileProofs.**  The invariant is `TypeOK` (with the clause that a runner with
a tested destination executes a plan that has it, which a stop between test and
rename would break), `RunningIsWork`, `Whole`, `CleansQuarantine` and `LateIsLate`.
`Whole` is what `OffersWholeReport` needs: a snapshot is stored before it is offered,
and while a scan replaces it nothing is offered, since `Start` takes the offer back
first; that nobody else replaces it while one loads follows from `RunningIsWork`.
`NoCopyLost` is an action property of single steps under that invariant: only
`Rename`, `Publish` and `Delete` change the library.  A rename onto an occupied path
is one whose runner is `late`, because its destination was free when it was tested
(`LateIsLate`), and the copy that goes is the one at that path; a publication
overwrites a quarantined copy only when `FreeQuarantine` returns its path; a deletion takes only paths of the
quarantine (`CleansQuarantine`).  The lemmas `FreeIsPath`, `HomeIsPath`,
`ReportIsReport` and `SelectedIsReport` say that plans lead from paths to paths, for
every library.

`VolumesStay` is about a runner from its scan to the end of its first execution, so
its invariant `Undisturbed` follows the runner as long as `Watched` (its view has not
been taken back by a change of somebody else).  Before the execution it `Knows` the
library: its view is what lies outside the quarantine, and its report, in memory
or in the snapshot that can be loaded, was made for this view and this library.
During the execution it `Follows`: what is left of the plan is still where it was
seen, a destination in hand is free, and every file it saw has one with its
content or of its volume that `Stays`, at its path or, once moved, at its home,
and has no way to quarantine left in the plan.  `PlanLeaves` takes the runner from the
first to the second, and is where the rules of the scan are used: of equal copies
one is kept (`KeptCopy`), of the variants of a volume the newest or the chosen one
stays (`KeptVariant`, since groups of variants are disjoint), and when the kept copy
yields to a variant of another volume, the file was misnamed.  `RenameFollows` needs no
order among the items: a free destination is no place of an item that is left.

**SettingsProofs.** `FileReadable` needs to know who can write to the inode at
the path: `Handles` says that a file is open exactly while it is written,
`Apart` that `settings.json.tmp` is never the published inode, and `Unshared`
that, as long as no save has begun inside another (`clash`), one saver at a time
is between creating and renaming the temporary file and what it has written is
whole.  `FreeInode` (a count of the inodes in use) shows that a file can always
be created.  `Locking` says that a request that changes folders holds `st.mu`
(`TypeOK` adds that nobody does during a scan), `Current` and `Fresh` what a
scan in progress has read: from them `PlansAreCurrent` and `ResolvedIsFresh`
follow.

`RequestsAreAtomic` compares three components over a whole request.  While one
request is alone (`sole`), `AloneStep` tells from its `pc` which of memory, file and
organizer it has changed so far, for a save (`SaveAlone`) and for a return
(`ReturnAlone`); `EndStep` is the last step of a request under that invariant.

**NormalizeProofs.**  The assumption is `NormalizeAssumption`: limits are
positive, archives are sequences of entries, and an entry with a supported
extension has contents.  Nothing excludes archives that contain themselves, so
the tree may be infinite, and no proof uses that it ends.

The invariant says what a walk has done in terms of its stack alone.  `StackInv`:
the k-th open archive is one of `Opened[k - 1]`, and lies in the one below it at
the entry that was read last.  A place (the path of entry numbers from the source
to an entry) is `Behind` the walk when it is at an earlier entry of some open
archive, or in one.  `Recorded`: every file behind the walk of the job has been
written, once, with the folders of its name, and nothing else has (`AllWritten`,
`OnlyFiles`, `Once`).  `Foreseen`: the groups of the dry run are those of the files
behind it.  `Counted`: the counters of the job are the cardinalities of what has
been opened, listed and written.  The properties themselves are not inductive:
they speak of the end, and say nothing of a walk that is half done.

`BehindAdvance`, `BehindPush` and `BehindPop` say what each kind of step puts
behind the walk: the file that is read, nothing, the place of the archive that is
left (what is in it was behind before).  `BehindEnds` says that at
the end of a walk all is behind it.  `SamePlace` (a place has one archive and one
entry, by induction on the levels) keeps two files from being taken for one.
`FreeMark` finds a free mark by counting: there is one mark more than names.
`NothingIsLost`, `DryRunAgrees` and `LimitsHold` compare the end of the walk with the
levels; the second works although the walks have different limits, since both
walked the same tree to its end.

What is computed by recursion along the levels is proved with `NatSet` (a set of
naturals that has 0 and every successor is `Nat`), which follows from the
well-foundedness of `<` in the library (`NatMin`), and `OpenedDef` derives the
equation of the recursive function `Opened` from it.

Only model-checked: the liveness properties (`QueuedSettles`, `CloseCompletes`,
`RunsEnd`, `RunEnds`, `Settles`), since the prover does not reason about fairness.
Every invariant and every other property of the passing runs is a theorem.

## What could follow

1. Liveness of reconcile runs: without stops every run ends by itself.  The state
   space of `reconcile` with fairness is too slow for a run beside the others.
2. Multi-volume RAR sets as several files, whose removal can fail in the middle
   (`archive/multipart.go:90-98`).
3. A proof that `Publish` of `ReconcileRun` is a step of `Library`.  The two modules
   know a quarantined copy by different things (its path, its former target), so
   that the mapping needs a history; both were translated from `publishCandidate`.

## Not modelled, and why

The classifier and the clustering score names; they have no state between two
calls, and tests fit them better.  Diagnostics write logs that nothing reads
back.  The pages are static text.  Byte counts, messages, progress figures and
timestamps other than modification times appear in no property.  The package
scripts are external.  The overwrite transaction of a job is never entered by the
tasks the program submits.  Parts of modelled components that are left out are
named in their sections above and in `PROJECT.json`.
