---------------------------- MODULE SettingsStore ----------------------------
(***************************************************************************)
(* The settings: the file, the store in memory, the folders and aliases of *)
(* the organizer, the scan of archives and the requests that change them:  *)
(* internal/settings/store.go, web/settings_handler.go, web/aliases.go,    *)
(* web/archive_scan_async.go, organizer/scan_progress.go and the start in  *)
(* main.go.  A setting is a pair of folders and a set of aliases; the      *)
(* output mode is "input" when the folders are equal.                      *)
(***************************************************************************)
EXTENDS Naturals, FiniteSets

CONSTANTS Folders, Default,
          Aliases,
          Foldering, \* the request that changes folders; further ones wait at st.mu
          Editors,   \* requests that save or delete an alias
          Inodes,
          None,      \* no inode
          Empty, Torn, \* what a file holds that is no setting
          MaxSaves,  \* bound: requests
          MaxFaults  \* bound: crashes and folders that go away

Savers == Editors \cup {Foldering}
Pair == [root : Folders, out : Folders]
Setting == [root : Folders, out : Folders, aliases : SUBSET Aliases]

ASSUME SettingsAssumption ==
    /\ Default \in Folders
    /\ Foldering \notin Editors
    /\ None \notin Inodes /\ Empty \notin Setting /\ Torn \notin Setting
    /\ IsFiniteSet(Editors) /\ IsFiniteSet(Inodes)
    /\ Cardinality(Inodes) > Cardinality(Editors) + 1
    /\ MaxSaves \in Nat /\ MaxFaults \in Nat

VARIABLES file, tmp,  \* the inodes at the path and at path.tmp
          body,       \* what each inode holds
          present,    \* the folders that can be used
          up,         \* the program runs
          memory,     \* Store.current
          folders,    \* the organizer's root and outputRoot
          aliases,    \* the organizer's aliases
          resolved,   \* the aliases its series names were found with, if it has any
          pc, next,   \* per request: where it is, and the setting it saves
          handle,     \* per request: the inode it has open
          old,        \* the folders a change of folders restores on an error
          locked,     \* the request that changes folders holds st.mu
          scan,       \* where the scan is
          found,      \* the folders the scan has read, and the aliases of its names
          plans,      \* the folders st.Plans were made for, if there are any
          began,      \* history: what each request found when it began
          mixed,      \* history: requests that another one has overlapped
          clash,      \* history: a save has begun between Open and Rename of another
          half,       \* history: an undo has found the old folder gone
          late,       \* history: aliases were set during the scan that found resolved
          saves, faults

disk == <<file, tmp, body>>
organizer == <<folders, aliases, resolved>>
requests == <<pc, next, handle, old, locked>>
scanning == <<scan, found, plans>>
history == <<began, mixed, clash, half, late>>
bounds == <<saves, faults>>
vars == <<disk, present, up, memory, organizer, requests, scanning, history, bounds>>

Plain(f) == [root |-> f, out |-> f]
With(s, p) == [root |-> p.root, out |-> p.out, aliases |-> s.aliases]
FirstSetting == [root |-> Default, out |-> Default, aliases |-> {}]
Scanned == [root : Folders, out : Folders, names : SUBSET SUBSET Aliases]
Unread == [root |-> Default, out |-> Default, names |-> {}]
Steps == {"idle", "open", "write", "rename", "commit", "apply", "remove", "failed"}
ScanSteps == {"off", "root", "aliases", "resolve", "out", "finish"}

TypeOK ==
    /\ file \in Inodes \cup {None} /\ tmp \in Inodes \cup {None}
    /\ body \in [Inodes -> Setting \cup {Empty, Torn}]
    /\ present \subseteq Folders
    /\ up \in BOOLEAN /\ locked \in BOOLEAN
    /\ memory \in Setting
    /\ folders \in Pair /\ aliases \subseteq Aliases
    /\ resolved \subseteq SUBSET Aliases
    /\ pc \in [Savers -> Steps] /\ next \in [Savers -> Setting]
    /\ handle \in [Savers -> Inodes \cup {None}]
    /\ old \in Pair
    /\ scan \in ScanSteps /\ found \in Scanned
    /\ plans \subseteq Pair
    /\ mixed \subseteq Savers /\ clash \in BOOLEAN /\ half \in BOOLEAN /\ late \in BOOLEAN
    /\ saves \in 0..MaxSaves /\ faults \in 0..MaxFaults
    /\ locked => up /\ scan = "off" /\ pc[Foldering] # "idle"
    /\ scan # "off" => up

Now == [file |-> IF file = None THEN FirstSetting ELSE body[file],
        memory |-> memory, folders |-> folders, aliases |-> aliases]

Nothing == [file |-> FirstSetting, memory |-> FirstSetting,
            folders |-> Plain(Default), aliases |-> {}]

Init ==
    /\ file = None /\ tmp = None
    /\ body = [i \in Inodes |-> Empty]
    /\ present = Folders
    /\ up = TRUE
    /\ memory = FirstSetting
    /\ folders = Plain(Default) /\ aliases = {} /\ resolved = {}
    /\ pc = [s \in Savers |-> "idle"] /\ next = [s \in Savers |-> FirstSetting]
    /\ handle = [s \in Savers |-> None]
    /\ old = Plain(Default) /\ locked = FALSE
    /\ scan = "off" /\ found = Unread /\ plans = {}
    /\ began = [s \in Savers |-> Nothing] /\ mixed = {} /\ clash = FALSE
    /\ half = FALSE /\ late = FALSE
    /\ saves = 0 /\ faults = 0

-----------------------------------------------------------------------------
(* Requests.                                                                  *)

Working == {s \in Savers : pc[s] # "idle"}
Goto(s, step) == pc' = [pc EXCEPT ![s] = step]

Request(s, setting) ==
    /\ saves < MaxSaves /\ saves' = saves + 1
    /\ next' = [next EXCEPT ![s] = setting]
    /\ Goto(s, "open")
    /\ began' = [began EXCEPT ![s] = Now]
    /\ mixed' = IF Working = {} THEN mixed \ {s} ELSE mixed \cup Working \cup {s}
    /\ UNCHANGED <<clash, half, late>>

\* A request ends, and what it had in hand is gone.
Return(s) ==
    /\ Goto(s, "idle")
    /\ next' = [next EXCEPT ![s] = FirstSetting]
    /\ began' = [began EXCEPT ![s] = Nothing]
    /\ mixed' = mixed \ {s}
    /\ UNCHANGED <<handle, clash>>

\* saveAlias and deleteAlias: a copy of what the store holds, with the change.
EditAlias(s) ==
    /\ up /\ pc[s] = "idle"
    /\ \E names \in {memory.aliases \cup {a} : a \in Aliases}
                      \cup {memory.aliases \ {a} : a \in Aliases} :
          Request(s, [memory EXCEPT !.aliases = names])
    /\ UNCHANGED <<disk, present, up, memory, organizer, handle, old, locked, scanning, faults>>

\* Variant: Running is not looked at.
ChangeFoldersScanning(p) ==
    /\ up /\ ~locked /\ pc[Foldering] = "idle"
    /\ {p.root, p.out} \subseteq present
    /\ locked' = TRUE
    /\ old' = folders
    /\ folders' = p /\ resolved' = {}
    /\ Request(Foldering, With(memory, p))
    /\ UNCHANGED <<disk, present, up, memory, aliases, handle, scanning, faults>>

\* updateSettings, under st.mu and while no scan runs: SetRoot and SetOutputRoot
\* have accepted the folders; Get, with the new folders.
ChangeFolders(p) ==
    /\ up /\ ~locked /\ pc[Foldering] = "idle"
    /\ scan = "off"
    /\ {p.root, p.out} \subseteq present
    /\ locked' = TRUE
    /\ old' = folders
    /\ folders' = p /\ resolved' = {}
    /\ Request(Foldering, With(memory, p))
    /\ UNCHANGED <<disk, present, up, memory, aliases, handle, scanning, faults>>

\* SetRoot has accepted its folder and SetOutputRoot has not: the first is undone,
\* unless the old folder is gone as well.
RejectOutput(p) ==
    /\ up /\ ~locked /\ pc[Foldering] = "idle"
    /\ scan = "off"
    /\ p.root \in present /\ p.out \notin present
    /\ folders' = [folders EXCEPT !.root = IF @ \in present THEN @ ELSE p.root]
    /\ resolved' = {}
    /\ mixed' = mixed \cup Working
    /\ half' = (half \/ folders.root \notin present)
    /\ UNCHANGED <<disk, present, up, memory, aliases, requests, scanning, began, clash, late,
                   bounds>>

-----------------------------------------------------------------------------
(* Store.Save, which takes no lock before its last step.                     *)

\* The inode at path.tmp, or one that nothing refers to.
Temporary ==
    IF tmp # None THEN tmp
    ELSE CHOOSE i \in Inodes : i # file /\ \A q \in Savers : handle[q] # i

\* OpenFile with O_CREATE and O_TRUNC: the file at path.tmp, or a new one.
Open(s) ==
    /\ pc[s] = "open"
    /\ tmp' = Temporary
    /\ handle' = [handle EXCEPT ![s] = tmp']
    /\ body' = [body EXCEPT ![tmp'] = Empty]
    /\ clash' = (clash \/ \E q \in Savers \ {s} : pc[q] \in {"write", "rename"})
    /\ Goto(s, "write")
    /\ UNCHANGED <<file, present, up, memory, organizer, next, old, locked, scanning,
                   began, mixed, half, late, bounds>>

\* The file is written from its start and closed; what another request has written
\* to it may be longer.
Write(s) ==
    /\ pc[s] = "write"
    /\ \E b \in IF body[handle[s]] = Empty THEN {next[s]} ELSE {next[s], Torn} :
          body' = [body EXCEPT ![handle[s]] = b]
    /\ handle' = [handle EXCEPT ![s] = None]
    /\ Goto(s, "rename")
    /\ UNCHANGED <<file, tmp, present, up, memory, organizer, next, old, locked, scanning,
                   history, bounds>>

\* Variant: the file is renamed before it is written.
RenameEarly(s) ==
    /\ pc[s] \in {"write", "rename"}
    /\ tmp # None
    /\ file' = tmp /\ tmp' = None
    /\ Goto(s, "commit")
    /\ UNCHANGED <<body, present, up, memory, organizer, next, handle, old, locked, scanning,
                   history, bounds>>

\* Whatever is at path.tmp becomes the file.
Rename(s) ==
    /\ pc[s] = "rename"
    /\ tmp # None
    /\ file' = tmp /\ tmp' = None
    /\ Goto(s, "commit")
    /\ UNCHANGED <<body, present, up, memory, organizer, next, handle, old, locked, scanning,
                   history, bounds>>

\* An error before the rename succeeds.  Only when OpenFile has succeeded is there
\* a deferred removal.
SaveFails(s) ==
    /\ pc[s] \in {"open", "write", "rename"}
    /\ body' = IF handle[s] = None THEN body ELSE [body EXCEPT ![handle[s]] = Torn]
    /\ handle' = [handle EXCEPT ![s] = None]
    /\ Goto(s, IF pc[s] = "open" THEN "failed" ELSE "remove")
    /\ UNCHANGED <<file, tmp, present, up, memory, organizer, next, old, locked, scanning,
                   history, bounds>>

\* It removes what is at path.tmp, whosever it is.
RemoveTmp(s) ==
    /\ pc[s] = "remove"
    /\ tmp' = None
    /\ Goto(s, "failed")
    /\ UNCHANGED <<file, body, present, up, memory, organizer, next, handle, old, locked,
                   scanning, history, bounds>>

\* The store's memory.
Commit(s) ==
    /\ pc[s] = "commit"
    /\ memory' = next[s]
    /\ Goto(s, "apply")
    /\ UNCHANGED <<disk, present, up, organizer, next, handle, old, locked, scanning,
                   history, bounds>>

-----------------------------------------------------------------------------
(* What a request does with the outcome.                                     *)

\* Variant: the series names of the last scan stay.
ApplyAliasesOnly(s) ==
    /\ s \in Editors
    /\ pc[s] = "apply"
    /\ aliases' = next[s].aliases
    /\ late' = (scan # "off")
    /\ Return(s)
    /\ UNCHANGED <<resolved, disk, present, up, memory, folders, old, locked, scanning, half, bounds>>

\* SetAliases with the aliases it has saved.
ApplyAliases(s) ==
    /\ s \in Editors
    /\ pc[s] = "apply"
    /\ aliases' = next[s].aliases /\ resolved' = {}
    /\ late' = (scan # "off")
    /\ Return(s)
    /\ UNCHANGED <<disk, present, up, memory, folders, old, locked, scanning, half, bounds>>

\* Variant: the plans of the old folders stay.
ApplyFoldersOnly ==
    /\ pc[Foldering] = "apply"
    /\ locked' = FALSE /\ old' = Plain(Default)
    /\ half' = FALSE
    /\ Return(Foldering)
    /\ UNCHANGED <<disk, present, up, memory, organizer, scanning, late, bounds>>

\* The plans are dropped, and st.mu is released.
ApplyFolders ==
    /\ pc[Foldering] = "apply"
    /\ plans' = {}
    /\ locked' = FALSE /\ old' = Plain(Default)
    /\ half' = FALSE
    /\ Return(Foldering)
    /\ UNCHANGED <<disk, present, up, memory, organizer, scan, found, late, bounds>>

\* The request ends, and nothing of it has been applied.
AbandonAlias(s) ==
    /\ s \in Editors
    /\ pc[s] = "failed"
    /\ Return(s)
    /\ UNCHANGED <<disk, present, up, memory, organizer, old, locked, scanning, half,
                   late, bounds>>

\* Variant: the output folder is not restored.
AbandonRootOnly ==
    /\ pc[Foldering] = "failed"
    /\ folders' = [root |-> IF old.root \in present THEN old.root ELSE folders.root,
                   out |-> folders.out]
    /\ resolved' = {}
    /\ half' = (half \/ ~({old.root, old.out} \subseteq present))
    /\ locked' = FALSE /\ old' = Plain(Default)
    /\ Return(Foldering)
    /\ UNCHANGED <<disk, present, up, memory, aliases, scanning, late, bounds>>

\* Variant: st.mu is not released.
AbandonLocked ==
    /\ pc[Foldering] = "failed"
    /\ folders' = [root |-> IF old.root \in present THEN old.root ELSE folders.root,
                   out |-> IF old.out \in present THEN old.out ELSE folders.out]
    /\ resolved' = {}
    /\ half' = (half \/ ~({old.root, old.out} \subseteq present))
    /\ UNCHANGED locked /\ old' = Plain(Default)
    /\ Return(Foldering)
    /\ UNCHANGED <<disk, present, up, memory, aliases, scanning, late, bounds>>

\* A change of folders restores those that can still be used.
AbandonFolders ==
    /\ pc[Foldering] = "failed"
    /\ folders' = [root |-> IF old.root \in present THEN old.root ELSE folders.root,
                   out |-> IF old.out \in present THEN old.out ELSE folders.out]
    /\ resolved' = {}
    /\ half' = (half \/ ~({old.root, old.out} \subseteq present))
    /\ locked' = FALSE /\ old' = Plain(Default)
    /\ Return(Foldering)
    /\ UNCHANGED <<disk, present, up, memory, aliases, scanning, late, bounds>>

-----------------------------------------------------------------------------
(* The scan: startArchiveScan and ScanWithProgress.  Its progress callback   *)
(* takes st.mu, so that a scan and a change of folders exclude each other.   *)

ScanTo(step) == scan' = step

StartScan ==
    /\ up /\ ~locked
    /\ scan = "off"
    /\ ScanTo("root")
    /\ late' = (late /\ resolved # {})
    /\ UNCHANGED <<disk, present, up, memory, organizer, requests, found, plans, began, mixed,
                   clash, half, bounds>>

ScanRoot ==
    /\ scan = "root" /\ folders.root \in present
    /\ found' = [found EXCEPT !.root = folders.root]
    /\ ScanTo("aliases")
    /\ UNCHANGED <<disk, present, up, memory, organizer, requests, plans, history, bounds>>

\* planNameAt looks up the series of one archive.
ScanPlan ==
    /\ scan = "aliases"
    /\ found' = [found EXCEPT !.names = @ \cup {aliases}]
    /\ UNCHANGED <<disk, present, up, memory, organizer, requests, scan, plans, history,
                   bounds>>

\* clusterPlans looks up those of all.
ScanAliases ==
    /\ scan = "aliases"
    /\ found' = [found EXCEPT !.names = @ \cup {aliases}]
    /\ ScanTo("resolve")
    /\ UNCHANGED <<disk, present, up, memory, organizer, requests, plans, history, bounds>>

ScanResolve ==
    /\ scan = "resolve"
    /\ resolved' = found.names
    /\ ScanTo("out")
    /\ UNCHANGED <<disk, present, up, memory, folders, aliases, requests, found, plans,
                   history, bounds>>

\* applyDestination.
ScanOut ==
    /\ scan = "out"
    /\ found' = [found EXCEPT !.out = folders.out]
    /\ ScanTo("finish")
    /\ UNCHANGED <<disk, present, up, memory, organizer, requests, plans, history, bounds>>

EndScan ==
    /\ scan = "finish" /\ ~locked
    /\ plans' = {[root |-> found.root, out |-> found.out]}
    /\ found' = Unread
    /\ ScanTo("off")
    /\ half' = FALSE
    /\ UNCHANGED <<disk, present, up, memory, organizer, requests, began, mixed, clash, late,
                   bounds>>

\* The folder cannot be read: the old plans stay.
FailScan ==
    /\ scan = "root" /\ folders.root \notin present /\ ~locked
    /\ ScanTo("off")
    /\ UNCHANGED <<disk, present, up, memory, organizer, requests, found, plans, history,
                   bounds>>

-----------------------------------------------------------------------------
(* Faults, and the start of the program.                                     *)

Fault == faults < MaxFaults /\ faults' = faults + 1

Crash ==
    /\ up /\ Fault
    /\ up' = FALSE
    /\ pc' = [s \in Savers |-> "idle"]
    /\ handle' = [s \in Savers |-> None]
    /\ next' = [s \in Savers |-> FirstSetting]
    /\ locked' = FALSE /\ old' = Plain(Default)
    /\ ScanTo("off") /\ found' = Unread
    /\ plans' = {} /\ resolved' = {}
    /\ memory' = FirstSetting /\ folders' = Plain(Default) /\ aliases' = {}
    /\ began' = [s \in Savers |-> Nothing] /\ mixed' = {} /\ half' = FALSE /\ late' = FALSE
    /\ UNCHANGED <<disk, present, clash, saves>>

Unmount(f) ==
    /\ f \in present \ {Default} /\ Fault
    /\ present' = present \ {f}
    /\ UNCHANGED <<disk, up, memory, organizer, requests, scanning, history, saves>>

Mount(f) ==
    /\ f \notin present
    /\ present' = present \cup {f}
    /\ UNCHANGED <<disk, up, memory, organizer, requests, scanning, history, bounds>>

\* settings.Open: the saved setting, or the defaults when it cannot be parsed.
Loaded == IF file = None \/ body[file] \notin Setting THEN FirstSetting ELSE body[file]

\* main: organizer.New with the saved root or the default one, and the saved output
\* folder.  When that is gone, the fallback is saved, unless Save fails.
Boot ==
    LET rooted == IF Loaded.root \in present THEN Loaded ELSE With(Loaded, Plain(Default))
        usable == With(rooted, [root |-> rooted.root,
                                out |-> IF rooted.out \in present THEN rooted.out
                                        ELSE rooted.root])
    IN /\ ~up
       /\ up' = TRUE
       /\ folders' = [root |-> usable.root, out |-> usable.out]
       /\ aliases' = usable.aliases
       /\ \/ /\ usable # rooted
             /\ file' = Temporary /\ body' = [body EXCEPT ![file'] = usable]
             /\ tmp' = None
             /\ memory' = usable
          \/ /\ memory' = rooted /\ UNCHANGED <<file, body>>
             /\ tmp' = tmp \/ (usable # rooted /\ tmp' = None)
       /\ UNCHANGED <<present, resolved, requests, scanning, history, bounds>>

-----------------------------------------------------------------------------

SaveStep(s) ==
    \/ Open(s) \/ Write(s) \/ Rename(s) \/ SaveFails(s) \/ RemoveTmp(s) \/ Commit(s)
    \/ ApplyAliases(s) \/ AbandonAlias(s)
    \/ s = Foldering /\ (ApplyFolders \/ AbandonFolders)

ScanStep == \/ ScanRoot \/ ScanPlan \/ ScanAliases \/ ScanResolve \/ ScanOut \/ EndScan \/ FailScan

Next ==
    \/ \E s \in Editors : EditAlias(s)
    \/ \E p \in Pair : ChangeFolders(p) \/ RejectOutput(p)
    \/ \E s \in Savers : SaveStep(s)
    \/ StartScan \/ ScanStep
    \/ Crash \/ Boot
    \/ \E f \in Folders : Unmount(f) \/ Mount(f)

Spec == Init /\ [][Next]_vars
FairSpec == /\ Spec /\ WF_vars(ScanStep)
            /\ \A s \in Savers : WF_vars(SaveStep(s))

-----------------------------------------------------------------------------
(* Properties.                                                               *)

\* Whenever st.mu is free, the stored plans were made for the folders in use: the
\* folders change under st.mu and not during a scan, and the plans go with them
\* (settings_handler.go:34-41).  The one exception is an undo that finds an old
\* folder gone.
PlansAreCurrent ==
    ~locked /\ ~half => plans \subseteq {folders}

\* The file can be read after every crash and every failed save, as long as no save
\* has truncated the temporary file of another: it is renamed when it is whole.
FileReadable == clash \/ file = None \/ body[file] \in Setting

Applied(s, now) ==
    /\ now.memory = next[s] /\ now.file = next[s]
    /\ IF s = Foldering THEN now.folders = [root |-> next[s].root, out |-> next[s].out]
                             /\ now.aliases = began[s].aliases
                        ELSE now.aliases = next[s].aliases /\ now.folders = began[s].folders

\* A request that no other overlaps is wholly applied, to the file, to the store and
\* to the organizer, or wholly undone, whichever of its steps fails; an undo leaves
\* out a folder that is gone.
AllOrNothing ==
    [][\A s \in Working \ mixed :
          up' /\ pc'[s] = "idle" =>
             \/ Applied(s, Now')
             \/ Now' = began[s]
             \/ ~({old.root, old.out} \subseteq present)
                /\ Now' = [began[s] EXCEPT !.folders = folders']]_vars

\* The series names of the last scan, which go before the saved aliases when a job is
\* submitted, were found with the aliases in use, unless an alias was saved while
\* that scan was running.
ResolvedIsFresh == late \/ resolved \subseteq {aliases}

\* Scans and requests end, although they wait for each other at st.mu.
Settles == /\ scan # "off" ~> scan = "off"
           /\ locked ~> ~locked
=============================================================================
