------------------------------- MODULE Updater -------------------------------
(***************************************************************************)
(* The self updater, internal/updater/updater.go: Check runs in the HTTP   *)
(* handler that asked for it, Start hands over to one background run, and  *)
(* the installer is a detached process that replaces and restarts the      *)
(* program.  The status is kept in memory and in status.json.  Versions    *)
(* are numbers; a package is good (its SHA-256 is the one of the release)  *)
(* or bad.  What is not in the actions: messages, byte counts, URLs.       *)
(***************************************************************************)
EXTENDS Naturals

CONSTANTS Versions,     \* the versions a release can have
          First,        \* the version that runs at the start
          Checkers,     \* handlers of POST /api/update/check
          MaxStarts,    \* bound: accepted updates
          MaxRestarts   \* bound: restarts that no installer caused

ASSUME UpdaterAssumption ==
    /\ Versions \subseteq Nat \ {0}
    /\ First \in Versions
    /\ MaxStarts \in Nat /\ MaxRestarts \in Nat

NoVersion == 0
Runs == 1..MaxStarts

VARIABLES cur,        \* currentVersion of the running process
          status,     \* Manager.status
          disk,       \* updates/status.json
          running,    \* Manager.running
          run, rel,   \* the step of each background run, and its release
          check,      \* the step of each handler of Check ...
          found,      \* ... and the release it fetched
          partial,    \* <package>.partial, by version
          package,    \* the downloaded packages, by version
          installers, \* detached installers that have not finished
          starts, restarts

memory == <<status, running, run, rel, check, found>>
vars == <<cur, disk, memory, partial, package, installers, starts, restarts>>

Busy == {"checking", "downloading", "verifying"}
States == Busy \cup {"idle", "installing", "succeeded", "failed"}
RunSteps == {"none", "fetch", "apply", "latest", "download", "open", "receive",
             "verify", "rename", "handoff", "launch", "end"}
Content == {"none", "good", "bad"}
Release == Versions \cup {NoVersion}
Status == [state : States, target : Release, latest : Release, available : BOOLEAN]
Installer == [run : Runs, version : Versions]

TypeOK ==
    /\ cur \in Versions
    /\ status \in Status
    /\ disk \in Status
    /\ running \in BOOLEAN
    /\ run \in [Runs -> RunSteps]
    /\ rel \in [Runs -> Release]
    /\ check \in [Checkers -> {"none", "fetch", "apply"}]
    /\ found \in [Checkers -> Release]
    /\ \A c \in Checkers : check[c] = "apply" => found[c] \in Versions
    /\ partial \in [Versions -> Content]
    /\ package \in [Versions -> Content]
    /\ installers \in SUBSET Installer
    /\ starts \in 0..MaxStarts
    /\ restarts \in Nat

Init ==
    /\ cur = First
    /\ status = [state |-> "idle", target |-> NoVersion, latest |-> NoVersion,
                 available |-> FALSE]
    /\ disk = status
    /\ running = FALSE
    /\ run = [r \in Runs |-> "none"] /\ rel = [r \in Runs |-> NoVersion]
    /\ check = [c \in Checkers |-> "none"]
    /\ found = [c \in Checkers |-> NoVersion]
    /\ partial = [v \in Versions |-> "none"]
    /\ package = [v \in Versions |-> "none"]
    /\ installers = {}
    /\ starts = 0 /\ restarts = 0

-----------------------------------------------------------------------------

\* persistLocked: its error is ignored, so the file may keep its old content.
Become(st) == status' = st /\ disk' \in {disk, st}

Enter(state) == Become([status EXCEPT !.state = state])

\* applyRelease
ApplyRelease(v) ==
    Become([status EXCEPT !.latest = v, !.available = v > cur, !.state = "idle"])

files == <<partial, package>>
checks == <<check, found>>
outside == <<cur, installers, starts, restarts>>

-----------------------------------------------------------------------------
(* Check.                                                                  *)

\* Variant: only an installation refuses, not the run that precedes it.
RefusedInstalling == status.state = "installing"

Refused == running \/ status.state = "installing"

\* Check and Start answer "update operation is already running".
Refuse == Refused /\ UNCHANGED vars

CheckBegin(c) ==
    /\ check[c] = "none"
    /\ ~Refused
    /\ Enter("checking")
    /\ check' = [check EXCEPT ![c] = "fetch"]
    /\ UNCHANGED <<running, run, rel, found, files, outside>>

\* Variant: the version of the release is not parsed.
CheckFetchUnparsed(c) ==
    /\ check[c] = "fetch"
    /\ \E v \in Release : found' = [found EXCEPT ![c] = v]
    /\ check' = [check EXCEPT ![c] = "apply"]
    /\ UNCHANGED <<status, disk, running, run, rel, files, outside>>

CheckFetch(c) ==
    /\ check[c] = "fetch"
    /\ \E v \in Versions : found' = [found EXCEPT ![c] = v]
    /\ check' = [check EXCEPT ![c] = "apply"]
    /\ UNCHANGED <<status, disk, running, run, rel, files, outside>>

\* Variant: a failed check returns without fail.
CheckFailSilent(c) ==
    /\ check[c] = "fetch"
    /\ check' = [check EXCEPT ![c] = "none"]
    /\ UNCHANGED <<status, disk, running, run, rel, found, files, outside>>

CheckFail(c) ==
    /\ check[c] = "fetch"
    /\ Enter("failed")
    /\ check' = [check EXCEPT ![c] = "none"]
    /\ UNCHANGED <<running, run, rel, found, files, outside>>

CheckApply(c) ==
    /\ check[c] = "apply"
    /\ ApplyRelease(found[c])
    /\ check' = [check EXCEPT ![c] = "none"]
    /\ found' = [found EXCEPT ![c] = NoVersion]
    /\ UNCHANGED <<running, run, rel, files, outside>>

-----------------------------------------------------------------------------
(* Start and the background run.                                           *)

Start ==
    /\ starts < MaxStarts
    /\ ~Refused
    /\ starts' = starts + 1
    /\ running' = TRUE
    /\ run' = [run EXCEPT ![starts + 1] = "fetch"]
    /\ Enter("checking")
    /\ UNCHANGED <<rel, checks, files, cur, installers, restarts>>

Goto(r, step) ==
    /\ run' = [run EXCEPT ![r] = step]
    /\ UNCHANGED <<running, rel, checks, outside>>

\* A step that fails, with the status set by fail.
Fail(r) == Enter("failed") /\ Goto(r, "end")

RunFetch(r) ==
    /\ run[r] = "fetch"
    /\ \/ /\ \E v \in Versions : rel' = [rel EXCEPT ![r] = v]
          /\ run' = [run EXCEPT ![r] = "apply"]
          /\ UNCHANGED <<status, disk, running, checks, outside>>
       \/ Fail(r)
    /\ UNCHANGED files

\* Variant: the release is not compared with the running version.
RunApplyAny(r) ==
    /\ run[r] = "apply"
    /\ ApplyRelease(rel[r])
    /\ Goto(r, "download")
    /\ UNCHANGED files

RunApply(r) ==
    /\ run[r] = "apply"
    /\ ApplyRelease(rel[r])
    /\ Goto(r, IF rel[r] > cur THEN "download" ELSE "latest")
    /\ UNCHANGED files

RunLatest(r) ==
    /\ run[r] = "latest"
    /\ Become([status EXCEPT !.state = "idle", !.available = FALSE])
    /\ Goto(r, "end")
    /\ UNCHANGED files

RunDownload(r) ==
    /\ run[r] = "download"
    /\ Become([status EXCEPT !.state = "downloading", !.target = rel[r]])
    /\ Goto(r, "open")
    /\ UNCHANGED files

\* With the answer to the request an empty partial takes the place of an old one,
\* which is removed first.
RunOpen(r) ==
    /\ run[r] = "open"
    /\ \/ /\ partial' = [partial EXCEPT ![rel[r]] = "bad"]
          /\ UNCHANGED <<status, disk>>
          /\ Goto(r, "receive")
       \/ /\ partial' \in {partial, [partial EXCEPT ![rel[r]] = "none"]}
          /\ Fail(r)
    /\ UNCHANGED package

\* The end of the body.  A body of another size, a read or write error, or the
\* time limit of ten minutes end the run.
RunReceive(r) ==
    /\ run[r] = "receive"
    /\ \/ /\ \E body \in {"good", "bad"} : partial' = [partial EXCEPT ![rel[r]] = body]
          /\ Enter("verifying")
          /\ Goto(r, "verify")
       \/ /\ partial' = [partial EXCEPT ![rel[r]] = "none"]
          /\ Fail(r)
    /\ UNCHANGED package

\* Variant: the digest is not compared.
RunVerifyNothing(r) ==
    /\ run[r] = "verify"
    /\ package' = [package EXCEPT ![rel[r]] = "none"]
    /\ UNCHANGED <<status, disk, partial>>
    /\ Goto(r, "rename")

\* The digests are compared; with a match the way is cleared for the rename.
RunVerify(r) ==
    /\ run[r] = "verify"
    /\ \/ /\ partial[rel[r]] = "good"
          /\ package' = [package EXCEPT ![rel[r]] = "none"]
          /\ UNCHANGED <<status, disk, partial>>
          /\ Goto(r, "rename")
       \/ /\ partial' = [partial EXCEPT ![rel[r]] = "none"]
          /\ UNCHANGED package
          /\ Fail(r)

\* The rename, and the record of the digest; a failed rename keeps the partial.
RunRename(r) ==
    /\ run[r] = "rename"
    /\ \/ /\ package' = [package EXCEPT ![rel[r]] = partial[rel[r]]]
          /\ partial' = [partial EXCEPT ![rel[r]] = "none"]
          /\ Become(status)
          /\ Goto(r, "handoff")
       \/ UNCHANGED files /\ Fail(r)

RunHandoff(r) ==
    /\ run[r] = "handoff"
    /\ Become([status EXCEPT !.state = "installing", !.target = rel[r]])
    /\ Goto(r, "launch")
    /\ UNCHANGED files

\* The installer, a detached shell that sleeps two seconds and then runs the
\* package, is started or cannot be started.
RunLaunch(r) ==
    /\ run[r] = "launch"
    /\ \/ /\ installers' = installers \cup {[run |-> r, version |-> rel[r]]}
          /\ run' = [run EXCEPT ![r] = "end"]
          /\ UNCHANGED <<status, disk, running, rel, checks, cur, starts, restarts>>
       \/ Fail(r)
    /\ UNCHANGED files

\* Variant: the deferred reset is missing.
RunEndForgets(r) ==
    /\ run[r] = "end"
    /\ run' = [run EXCEPT ![r] = "none"]
    /\ rel' = [rel EXCEPT ![r] = NoVersion]
    /\ UNCHANGED <<status, disk, running, checks, files, outside>>

\* The deferred reset of running.
RunEnd(r) ==
    /\ run[r] = "end"
    /\ running' = FALSE
    /\ run' = [run EXCEPT ![r] = "none"]
    /\ rel' = [rel EXCEPT ![r] = NoVersion]
    /\ UNCHANGED <<status, disk, checks, files, outside>>

RunStep(r) ==
    \/ RunFetch(r) \/ RunApply(r) \/ RunLatest(r) \/ RunDownload(r) \/ RunOpen(r)
    \/ RunReceive(r) \/ RunVerify(r) \/ RunRename(r) \/ RunHandoff(r)
    \/ RunLaunch(r) \/ RunEnd(r)

-----------------------------------------------------------------------------
(* The end of the process, and New in the next one.                        *)

\* New with version v: the status is loaded, and an installation whose target
\* is the version that runs now has succeeded.
New(v) ==
    LET st == IF disk.state = "installing" /\ disk.target = v
              THEN [disk EXCEPT !.state = "succeeded", !.available = FALSE]
              ELSE disk
    IN /\ cur' = v
       /\ status' = st
       /\ disk' \in {disk, st}
       /\ running' = FALSE
       /\ run' = [r \in Runs |-> "none"]
       /\ rel' = [r \in Runs |-> NoVersion]
       /\ check' = [c \in Checkers |-> "none"]
       /\ found' = [c \in Checkers |-> NoVersion]
       /\ restarts' = restarts + 1
       /\ UNCHANGED <<files, starts>>

Restart ==
    /\ restarts < MaxRestarts
    /\ New(cur)
    /\ UNCHANGED installers

\* The package replaces the program and restarts it, or it fails: the file may
\* be gone, and its exit status is ignored.
Install(i) ==
    /\ package[i.version] # "none"
    /\ installers' = installers \ {i}
    /\ New(i.version)

InstallFail(i) ==
    /\ installers' = installers \ {i}
    /\ UNCHANGED <<cur, disk, memory, files, starts, restarts>>

-----------------------------------------------------------------------------

CheckStep(c) == CheckFetch(c) \/ CheckFail(c) \/ CheckApply(c)

Next == \/ \E c \in Checkers : CheckBegin(c) \/ CheckStep(c)
        \/ Start \/ Refuse \/ Restart
        \/ \E r \in Runs : RunStep(r)
        \/ \E i \in installers : Install(i) \/ InstallFail(i)

Spec == Init /\ [][Next]_vars
FairSpec == Spec /\ (\A r \in Runs : WF_vars(RunStep(r)))
                 /\ (\A c \in Checkers : WF_vars(CheckStep(c)))

-----------------------------------------------------------------------------
(* Properties.                                                             *)

\* README.md rules 5 and 7: whatever checks, runs and restarts interleave, the
\* file an installer opens is absent or has passed the comparison of digests.
VerifiedOnly == \A i \in installers : package[i.version] # "bad"

\* A run hands a package to an installer only to move to a newer version, also
\* when the release changed between a check and the run.
LaunchUpgrades == [][\A i \in installers' \ installers : i.version > cur]_vars

\* In a process that was not restarted, the page shows an operation under way
\* only while a check or the run is working.
BusyMeansWork ==
    restarts = 0 /\ status.state \in Busy =>
        running \/ \E c \in Checkers : check[c] # "none"

\* One run at a time, and running tells of it, so the partial and the package of
\* a release have one writer and a refusal never outlives the run.
OneRun == /\ \A q, r \in Runs : run[q] # "none" /\ run[r] # "none" => q = r
          /\ running <=> \E r \in Runs : run[r] # "none"

\* Every accepted update comes to an end, and the next one is not refused for it.
RunEnds == running ~> ~running

\* "update operation is already running" (internal/updater/updater.go:199): the
\* refusal is true, a run or the installer it started is still at work.
RefusalIsTrue == Refused => running \/ installers # {}
=============================================================================
