---------------------------- MODULE UpdaterProofs ----------------------------
(***************************************************************************)
(* Theorems about Updater, for any set of versions, any number of handlers *)
(* and any bounds.  What the runs check is not inductive: that no package  *)
(* is bad follows from what the run in the rename step knows of its        *)
(* partial, which in turn needs that no second run writes it.              *)
(***************************************************************************)
EXTENDS Updater, TLAPS

Downloading == {"download", "open", "receive", "verify", "rename", "handoff", "launch"}

GoodPackages == \A v \in Versions : package[v] # "bad"
Compared == \A r \in Runs : run[r] = "rename" => partial[rel[r]] = "good"
InHand == \A r \in Runs :
             run[r] \in Downloading \cup {"apply", "latest"} => rel[r] \in Versions
Newer == \A r \in Runs : run[r] \in Downloading => rel[r] > cur
Reported == \A r \in Runs : run[r] \in {"launch", "end"} => status.state \notin Busy

UInv == /\ TypeOK
        /\ OneRun
        /\ GoodPackages
        /\ Compared
        /\ InHand
        /\ Newer
        /\ Reported
        /\ BusyMeansWork

USE DEF Runs, NoVersion

-----------------------------------------------------------------------------

\* What each of the three ways to change the status leaves in memory and on disk.
LEMMA BecomeFact ==
  ASSUME status \in Status, disk \in Status, NEW st \in Status, Become(st)
  PROVE  status' = st /\ status' \in Status /\ disk' \in Status
BY DEF Become

LEMMA EnterFact ==
  ASSUME status \in Status, disk \in Status, NEW s \in States, Enter(s)
  PROVE  status'.state = s /\ status' \in Status /\ disk' \in Status
<1>1. [status EXCEPT !.state = s] \in Status /\ [status EXCEPT !.state = s].state = s
  BY DEF Status
<1> QED
  BY <1>1, BecomeFact DEF Enter

LEMMA ApplyFact ==
  ASSUME status \in Status, disk \in Status, cur \in Versions, NEW v \in Versions,
         ApplyRelease(v)
  PROVE  status'.state = "idle" /\ status' \in Status /\ disk' \in Status
<1> DEFINE st == [status EXCEPT !.latest = v, !.available = v > cur, !.state = "idle"]
<1>0. (v > cur) \in BOOLEAN
  OBVIOUS
<1>1. st \in Status /\ st.state = "idle"
  BY <1>0 DEF Status, Release, States
<1> QED
  BY <1>1, BecomeFact DEF ApplyRelease

\* The initial state satisfies the invariant.
LEMMA InitInv == Init => UInv
<1> SUFFICES ASSUME Init PROVE UInv
  OBVIOUS
<1> USE DEF Init
<1>1. status \in Status /\ disk \in Status
  BY DEF Status, Release, States
<1>2. TypeOK
  <2>1. run \in [Runs -> RunSteps] /\ rel \in [Runs -> Release]
    BY DEF RunSteps, Release
  <2>2. /\ check \in [Checkers -> {"none", "fetch", "apply"}]
        /\ found \in [Checkers -> Release]
        /\ \A c \in Checkers : check[c] = "apply" => found[c] \in Versions
    BY DEF Release
  <2>3. partial \in [Versions -> Content] /\ package \in [Versions -> Content]
    BY DEF Content
  <2>4. cur \in Versions /\ starts \in 0..MaxStarts /\ restarts \in Nat
    BY UpdaterAssumption
  <2>5. running \in BOOLEAN
    BY Zenon
  <2>6. installers \in SUBSET Installer
    BY Zenon
  <2> QED
    BY <1>1, <2>1, <2>2, <2>3, <2>4, <2>5, <2>6 DEF TypeOK
<1>3. OneRun /\ GoodPackages /\ Compared /\ InHand /\ Newer /\ Reported
  BY DEF OneRun, GoodPackages, Compared, InHand, Newer, Reported, Downloading
<1>4. BusyMeansWork
  BY DEF BusyMeansWork, Busy
<1> QED
  BY <1>2, <1>3, <1>4 DEF UInv

\* A step of a handler of Check changes neither a run nor a file.
LEMMA CheckInv ==
  ASSUME UInv, NEW c \in Checkers, CheckBegin(c) \/ CheckStep(c)
  PROVE  UInv'
<1> USE DEF CheckStep, CheckBegin, CheckFetch, CheckFail, CheckApply, files, outside
<1>1. /\ status' \in Status /\ disk' \in Status
      /\ CheckBegin(c) \/ status' = status \/ status'.state \notin Busy
  <2>1. CASE CheckBegin(c)
    BY <2>1, EnterFact DEF UInv, TypeOK, States, Busy
  <2>2. CASE CheckFetch(c)
    BY <2>2 DEF UInv, TypeOK
  <2>3. CASE CheckFail(c)
    BY <2>3, EnterFact DEF UInv, TypeOK, States, Busy
  <2>4. CASE CheckApply(c)
    BY <2>4, ApplyFact DEF UInv, TypeOK, Busy
  <2> QED
    BY <2>1, <2>2, <2>3, <2>4
<1>2. TypeOK'
  BY <1>1 DEF UInv, TypeOK, Release
<1>3. OneRun' /\ GoodPackages' /\ Compared' /\ InHand' /\ Newer'
  BY DEF UInv, OneRun, GoodPackages, Compared, InHand, Newer
<1>4. Reported'
  BY <1>1 DEF UInv, OneRun, Reported, Refused
<1>5. BusyMeansWork'
  <2>1. CASE CheckBegin(c) \/ CheckFetch(c)
    <3>1. check' \in [Checkers -> {"none", "fetch", "apply"}] /\ check'[c] # "none"
      BY <2>1 DEF UInv, TypeOK
    <3> QED
      BY <3>1 DEF BusyMeansWork
  <2>2. CASE CheckFail(c) \/ CheckApply(c)
    BY <2>2, EnterFact, ApplyFact DEF UInv, TypeOK, States, Busy, BusyMeansWork
  <2> QED
    BY <2>1, <2>2 DEF CheckStep
<1> QED
  BY <1>2, <1>3, <1>4, <1>5 DEF UInv

\* A start that is not refused finds no other run.
LEMMA StartInv ==
  ASSUME UInv, Start
  PROVE  UInv'
<1> USE DEF Start, files, checks
<1>1. \A r \in Runs : run[r] = "none"
  BY DEF UInv, OneRun, Refused
<1>2. /\ starts + 1 \in Runs
      /\ run' = [run EXCEPT ![starts + 1] = "fetch"]
      /\ run \in [Runs -> RunSteps]
  BY UpdaterAssumption DEF UInv, TypeOK
<1>3. status' \in Status /\ disk' \in Status
  BY EnterFact DEF UInv, TypeOK, States, Busy
<1>4. TypeOK'
  BY <1>2, <1>3 DEF UInv, TypeOK, RunSteps
<1>5. OneRun' /\ Compared' /\ InHand' /\ Newer' /\ Reported'
  BY <1>1, <1>2 DEF OneRun, Compared, InHand, Newer, Reported, Downloading
<1>6. GoodPackages' /\ BusyMeansWork'
  BY DEF UInv, GoodPackages, BusyMeansWork
<1> QED
  BY <1>4, <1>5, <1>6 DEF UInv

\* What a step of run r that is not its last has to establish: the other runs
\* are at rest, so the invariant only asks about r.
LEMMA MoveInv ==
  ASSUME UInv, NEW r \in Runs, NEW s \in RunSteps \ {"none"},
         run[r] # "none", run' = [run EXCEPT ![r] = s],
         UNCHANGED <<cur, running, checks, starts, restarts>>,
         installers' \in SUBSET Installer,
         status' \in Status, disk' \in Status, rel' \in [Runs -> Release],
         partial' \in [Versions -> Content], package' \in [Versions -> Content],
         GoodPackages',
         s = "rename" => partial'[rel'[r]] = "good",
         s \in Downloading \cup {"apply", "latest"} => rel'[r] \in Versions,
         s \in Downloading => rel'[r] > cur,
         s \in {"launch", "end"} => status'.state \notin Busy
  PROVE  UInv'
<1>1. /\ run' \in [Runs -> RunSteps] /\ run'[r] = s
      /\ \A q \in Runs : q # r => run'[q] = "none"
      /\ running
  BY DEF UInv, TypeOK, OneRun
<1>2. TypeOK'
  BY <1>1 DEF UInv, TypeOK, checks
<1>3. OneRun'
  BY <1>1 DEF OneRun
<1>4. Compared' /\ InHand' /\ Newer' /\ Reported'
  BY <1>1 DEF Compared, InHand, Newer, Reported, Downloading
<1>5. BusyMeansWork'
  BY <1>1 DEF BusyMeansWork
<1> QED
  BY <1>2, <1>3, <1>4, <1>5 DEF UInv

\* The end of a run that failed, from any of its steps.
LEMMA FailInv ==
  ASSUME UInv, NEW r \in Runs, run[r] # "none", Fail(r),
         partial' \in [Versions -> Content], package' = package
  PROVE  UInv'
<1>1. status'.state = "failed" /\ status' \in Status /\ disk' \in Status
  BY EnterFact DEF UInv, TypeOK, Fail, States
<1>2. "end" \in RunSteps \ {"none"} /\ "failed" \notin Busy
  BY DEF RunSteps, Busy
<1>3. GoodPackages'
  BY DEF UInv, GoodPackages
<1> QED
  BY <1>1, <1>2, <1>3, MoveInv DEF UInv, TypeOK, Fail, Goto, Downloading, outside

\* Fetching and applying the release, up to the choice to download it.
LEMMA ReleaseInv ==
  ASSUME UInv, NEW r \in Runs, RunFetch(r) \/ RunApply(r) \/ RunLatest(r)
  PROVE  UInv'
<1>1. CASE RunFetch(r)
  <2>1. CASE Fail(r)
    BY <1>1, <2>1, FailInv DEF RunFetch, files, UInv, TypeOK
  <2>2. CASE /\ \E v \in Versions : rel' = [rel EXCEPT ![r] = v]
             /\ run' = [run EXCEPT ![r] = "apply"]
             /\ UNCHANGED <<status, disk, running, checks, outside>>
    <3>1. "apply" \in RunSteps \ {"none"} /\ "apply" \notin Downloading
      BY DEF RunSteps, Downloading
    <3>2. rel' \in [Runs -> Release] /\ rel'[r] \in Versions
      BY <2>2 DEF UInv, TypeOK, Release
    <3>3. GoodPackages' /\ run[r] # "none"
      BY <1>1 DEF UInv, GoodPackages, RunFetch, files
    <3> QED
      BY <1>1, <2>2, <3>1, <3>2, <3>3, MoveInv DEF UInv, TypeOK, RunFetch, files, outside
  <2> QED
    BY <1>1, <2>1, <2>2 DEF RunFetch
<1>2. CASE RunApply(r)
  <2>1. run[r] = "apply" /\ rel[r] \in Versions /\ rel' = rel /\ GoodPackages'
    BY <1>2 DEF RunApply, UInv, InHand, GoodPackages, Goto, files
  <2>2. status' \in Status /\ disk' \in Status
    BY <1>2, <2>1, ApplyFact DEF RunApply, UInv, TypeOK
  <2> DEFINE s == IF rel[r] > cur THEN "download" ELSE "latest"
  <2>3. /\ s \in RunSteps \ {"none"}
        /\ s \notin {"rename", "launch", "end"}
        /\ s \in Downloading => rel[r] > cur
    BY DEF RunSteps, Downloading
  <2>4. run' = [run EXCEPT ![r] = s]
    BY <1>2 DEF RunApply, Goto
  <2> HIDE DEF s
  <2> QED
    BY <1>2, <2>1, <2>2, <2>3, <2>4, MoveInv
       DEF RunApply, Goto, files, outside, UInv, TypeOK
<1>3. CASE RunLatest(r)
  <2> DEFINE st == [status EXCEPT !.state = "idle", !.available = FALSE]
  <2>1. st \in Status /\ st.state = "idle"
    BY DEF UInv, TypeOK, Status, States
  <2>2. status' \in Status /\ disk' \in Status /\ status'.state = "idle"
    BY <1>3, <2>1, BecomeFact DEF RunLatest, UInv, TypeOK
  <2>3. /\ "end" \in RunSteps \ {"none"}
        /\ "end" \notin Downloading /\ "idle" \notin Busy /\ GoodPackages'
    BY <1>3 DEF RunSteps, Downloading, Busy, UInv, GoodPackages, RunLatest, files
  <2> QED
    BY <1>3, <2>2, <2>3, MoveInv DEF RunLatest, Goto, files, outside, UInv, TypeOK
<1> QED
  BY <1>1, <1>2, <1>3

\* The steps of the download, up to the rename.  In verify a bad partial ends
\* the run, so that rename is entered with a good one.
LEMMA DownloadInv ==
  ASSUME UInv, NEW r \in Runs,
         RunDownload(r) \/ RunOpen(r) \/ RunReceive(r) \/ RunVerify(r) \/ RunRename(r)
  PROVE  UInv'
<1> USE DEF Goto, files, outside
<1>1. /\ run[r] \in Downloading /\ run[r] # "none"
      /\ rel[r] \in Versions /\ rel[r] > cur
      /\ run[r] = "rename" => partial[rel[r]] = "good"
  BY DEF UInv, InHand, Newer, Compared, Downloading,
         RunDownload, RunOpen, RunReceive, RunVerify, RunRename
<1>2. /\ {"open", "receive", "verify", "rename", "handoff"} \subseteq RunSteps \ {"none"}
      /\ \A s \in {"open", "receive", "verify", "rename", "handoff"} :
            s \in Downloading /\ s \notin {"launch", "end"}
  BY DEF RunSteps, Downloading
<1>3. \A b \in Content : [partial EXCEPT ![rel[r]] = b] \in [Versions -> Content]
  BY DEF UInv, TypeOK
<1>4. \A b \in Content : [package EXCEPT ![rel[r]] = b] \in [Versions -> Content]
  BY DEF UInv, TypeOK
<1>5. CASE Fail(r) /\ partial' \in [Versions -> Content] /\ package' = package
  BY <1>1, <1>5, FailInv
<1>6. CASE RunDownload(r)
  <2>1. [status EXCEPT !.state = "downloading", !.target = rel[r]] \in Status
    BY <1>1 DEF UInv, TypeOK, Status, States, Busy, Release
  <2>2. status' \in Status /\ disk' \in Status
    BY <1>6, <2>1, BecomeFact DEF RunDownload, UInv, TypeOK
  <2>3. GoodPackages'
    BY <1>6 DEF RunDownload, UInv, GoodPackages
  <2> QED
    BY <1>1, <1>2, <1>6, <2>2, <2>3, MoveInv DEF RunDownload, UInv, TypeOK
<1>7. CASE RunOpen(r) /\ ~Fail(r)
  <2>1. partial' \in [Versions -> Content] /\ GoodPackages'
    BY <1>3, <1>7 DEF RunOpen, UInv, GoodPackages, Content
  <2>9. Goto(r, "receive") /\ UNCHANGED <<status, disk, package>>
    BY <1>7 DEF RunOpen
  <2> QED
    BY <1>1, <1>2, <2>1, <2>9, MoveInv DEF UInv, TypeOK
<1>8. CASE RunReceive(r) /\ ~Fail(r)
  <2>1. partial' \in [Versions -> Content] /\ GoodPackages'
    BY <1>3, <1>8 DEF RunReceive, UInv, GoodPackages, Content
  <2>2. status' \in Status /\ disk' \in Status
    BY <1>8, EnterFact DEF RunReceive, UInv, TypeOK, States, Busy
  <2>9. Goto(r, "verify") /\ UNCHANGED package
    BY <1>8 DEF RunReceive
  <2> QED
    BY <1>1, <1>2, <2>1, <2>2, <2>9, MoveInv DEF UInv, TypeOK
<1>9. CASE RunVerify(r) /\ ~Fail(r)
  <2>1. partial[rel[r]] = "good" /\ package' \in [Versions -> Content]
    BY <1>4, <1>9 DEF RunVerify, Content
  <2>2. GoodPackages'
    BY <1>1, <1>9 DEF RunVerify, UInv, TypeOK, GoodPackages
  <2>9. Goto(r, "rename") /\ UNCHANGED <<status, disk, partial>>
    BY <1>9 DEF RunVerify
  <2> QED
    BY <1>1, <1>2, <2>1, <2>2, <2>9, MoveInv DEF UInv, TypeOK
<1>10. CASE RunRename(r) /\ ~Fail(r)
  <2>1. /\ partial[rel[r]] = "good"
        /\ partial' = [partial EXCEPT ![rel[r]] = "none"]
        /\ package' = [package EXCEPT ![rel[r]] = "good"]
    BY <1>1, <1>10 DEF RunRename
  <2>2. partial' \in [Versions -> Content] /\ package' \in [Versions -> Content]
    BY <1>3, <1>4, <2>1 DEF Content
  <2>3. GoodPackages'
    BY <1>1, <2>1 DEF UInv, TypeOK, GoodPackages
  <2>4. status' \in Status /\ disk' \in Status
    BY <1>10, BecomeFact DEF RunRename, UInv, TypeOK
  <2>9. Goto(r, "handoff")
    BY <1>10 DEF RunRename
  <2> QED
    BY <1>1, <1>2, <2>2, <2>3, <2>4, <2>9, MoveInv DEF UInv, TypeOK
<1>11. RunOpen(r) \/ RunReceive(r) \/ RunVerify(r) \/ RunRename(r)
         => (Fail(r) => partial' \in [Versions -> Content] /\ package' = package)
  BY <1>3 DEF RunOpen, RunReceive, RunVerify, RunRename, UInv, TypeOK, Content, Fail
<1> QED
  BY <1>5, <1>6, <1>7, <1>8, <1>9, <1>10, <1>11

\* The hand-over to the installer, and the deferred reset at the end of a run.
LEMMA HandoverInv ==
  ASSUME UInv, NEW r \in Runs, RunHandoff(r) \/ RunLaunch(r) \/ RunEnd(r)
  PROVE  UInv'
<1>1. CASE RunHandoff(r)
  <2> DEFINE st == [status EXCEPT !.state = "installing", !.target = rel[r]]
  <2>1. rel[r] \in Versions /\ rel[r] > cur
    BY <1>1 DEF RunHandoff, UInv, InHand, Newer, Downloading
  <2>2. st \in Status /\ st.state = "installing"
    BY <2>1 DEF UInv, TypeOK, Status, States, Release
  <2>3. status' \in Status /\ disk' \in Status /\ status'.state = "installing"
    BY <1>1, <2>2, BecomeFact DEF RunHandoff, UInv, TypeOK
  <2>4. "launch" \in RunSteps \ {"none"} /\ "installing" \notin Busy
    BY DEF RunSteps, Busy
  <2>5. GoodPackages'
    BY <1>1 DEF RunHandoff, UInv, GoodPackages, files
  <2> QED
    BY <1>1, <2>1, <2>3, <2>4, <2>5, MoveInv
       DEF RunHandoff, Goto, files, outside, UInv, TypeOK
<1>2. CASE RunLaunch(r)
  <2>1. CASE Fail(r)
    BY <1>2, <2>1, FailInv DEF RunLaunch, files, UInv, TypeOK
  <2>2. CASE ~Fail(r)
    <3>1. rel[r] \in Versions /\ status.state \notin Busy /\ run[r] = "launch"
      BY <1>2 DEF RunLaunch, UInv, InHand, Reported, Downloading
    <3>2. /\ installers' = installers \cup {[run |-> r, version |-> rel[r]]}
          /\ run' = [run EXCEPT ![r] = "end"]
          /\ UNCHANGED <<status, disk, running, rel, checks, cur, starts, restarts, files>>
      BY <1>2, <2>2 DEF RunLaunch
    <3>3. installers' \in SUBSET Installer
      BY <3>1, <3>2 DEF UInv, TypeOK, Installer
    <3>4. "end" \in RunSteps \ {"none"} /\ "end" \notin Downloading
      BY DEF RunSteps, Downloading
    <3>5. GoodPackages'
      BY <3>2 DEF UInv, GoodPackages, files
    <3> QED
      BY <3>1, <3>2, <3>3, <3>4, <3>5, MoveInv DEF files, UInv, TypeOK
  <2> QED
    BY <2>1, <2>2
<1>3. CASE RunEnd(r)
  <2> USE DEF RunEnd, checks, files, outside
  <2>1. /\ run' \in [Runs -> RunSteps] /\ rel' \in [Runs -> Release]
        /\ \A q \in Runs : run'[q] = "none"
    BY <1>3 DEF UInv, TypeOK, OneRun, RunSteps, Release
  <2>2. running' \in BOOLEAN /\ ~running'
    BY <1>3, Zenon
  <2>3. TypeOK'
    BY <1>3, <2>1, <2>2 DEF UInv, TypeOK
  <2>4. OneRun' /\ Compared' /\ InHand' /\ Newer' /\ Reported'
    BY <2>1, <2>2 DEF OneRun, Compared, InHand, Newer, Reported, Downloading
  <2>5. GoodPackages'
    BY <1>3 DEF UInv, GoodPackages
  <2>6. BusyMeansWork'
    BY <1>3 DEF UInv, Reported, BusyMeansWork
  <2> QED
    BY <2>3, <2>4, <2>5, <2>6 DEF UInv
<1> QED
  BY <1>1, <1>2, <1>3

\* A new process has no run and no check.  The package that an installer runs
\* may hold any version: what is needed of it is only that it is one.
LEMMA NewInv ==
  ASSUME UInv, NEW v \in Versions, New(v), installers' \in SUBSET Installer
  PROVE  UInv'
<1> DEFINE st == IF disk.state = "installing" /\ disk.target = v
                 THEN [disk EXCEPT !.state = "succeeded", !.available = FALSE]
                 ELSE disk
<1>1. st \in Status
  BY DEF UInv, TypeOK, Status, States
<1>2. status' \in Status /\ disk' \in Status
  BY <1>1 DEF New, UInv, TypeOK
<1>3. /\ run' \in [Runs -> RunSteps] /\ rel' \in [Runs -> Release]
      /\ \A q \in Runs : run'[q] = "none"
  BY DEF New, RunSteps, Release
<1>4. /\ check' \in [Checkers -> {"none", "fetch", "apply"}]
      /\ found' \in [Checkers -> Release]
      /\ \A c \in Checkers : check'[c] = "none"
  BY DEF New, Release
<1>5. running' \in BOOLEAN /\ ~running'
  BY Zenon DEF New
<1>6. TypeOK'
  BY <1>2, <1>3, <1>4, <1>5 DEF New, files, UInv, TypeOK
<1>7. OneRun' /\ Compared' /\ InHand' /\ Newer' /\ Reported'
  BY <1>3, <1>5 DEF OneRun, Compared, InHand, Newer, Reported, Downloading
<1>8. GoodPackages'
  BY DEF New, files, UInv, GoodPackages
<1>9. BusyMeansWork'
  BY DEF New, UInv, TypeOK, BusyMeansWork
<1> QED
  BY <1>6, <1>7, <1>8, <1>9 DEF UInv

\* The invariant is inductive.
LEMMA NextInv == UInv /\ [Next]_vars => UInv'
<1> SUFFICES ASSUME UInv, [Next]_vars PROVE UInv'
  OBVIOUS
<1>1. ASSUME NEW c \in Checkers, CheckBegin(c) \/ CheckStep(c) PROVE UInv'
  BY <1>1, CheckInv
<1>2. CASE Start
  BY <1>2, StartInv
<1>3. CASE UNCHANGED vars
  BY <1>3 DEF vars, memory, UInv, TypeOK, OneRun, GoodPackages, Compared, InHand, Newer,
              Reported, BusyMeansWork
<1>4. CASE Restart
  BY <1>4, NewInv DEF Restart, UInv, TypeOK
<1>5. ASSUME NEW r \in Runs, RunStep(r) PROVE UInv'
  BY <1>5, ReleaseInv, DownloadInv, HandoverInv DEF RunStep
<1>6. ASSUME NEW i \in installers, Install(i) \/ InstallFail(i) PROVE UInv'
  <2>1. i.version \in Versions /\ installers' \in SUBSET Installer
    BY <1>6 DEF Install, InstallFail, UInv, TypeOK, Installer
  <2>2. CASE Install(i)
    BY <2>1, <2>2, NewInv DEF Install
  <2>3. CASE InstallFail(i)
    BY <2>1, <2>3 DEF InstallFail, memory, files, UInv, TypeOK, OneRun, GoodPackages,
                      Compared, InHand, Newer, Reported, BusyMeansWork
  <2> QED
    BY <1>6, <2>2, <2>3
<1> QED
  BY <1>1, <1>2, <1>3, <1>4, <1>5, <1>6 DEF Next, Refuse

-----------------------------------------------------------------------------

\* The strengthened invariant holds in every reachable state.
LEMMA Invariance == Spec => []UInv
  BY InitInv, NextInv, PTL DEF Spec

\* Every variable of the updater keeps its type.
THEOREM TypeCorrect == Spec => []TypeOK
<1>1. UInv => TypeOK
  BY DEF UInv
<1> QED
  BY <1>1, Invariance, PTL

\* README.md rules 5 and 7: no installer ever opens a package whose digest was
\* not compared.
THEOREM OnlyVerified == Spec => []VerifiedOnly
<1>1. UInv => VerifiedOnly
  BY DEF UInv, TypeOK, GoodPackages, VerifiedOnly, Installer
<1> QED
  BY <1>1, Invariance, PTL

\* There is one run at a time, and running tells of it.
THEOREM OneRunAlways == Spec => []OneRun
<1>1. UInv => OneRun
  BY DEF UInv
<1> QED
  BY <1>1, Invariance, PTL

\* The page never shows an operation under way that nobody carries out.
THEOREM BusyIsWork == Spec => []BusyMeansWork
<1>1. UInv => BusyMeansWork
  BY DEF UInv
<1> QED
  BY <1>1, Invariance, PTL

\* Whatever releases the server shows in turn, a run starts an installer only
\* for a version above the one that runs.
THEOREM OnlyUpgrades == Spec => LaunchUpgrades
<1>1. UInv /\ [Next]_vars
        => [\A i \in installers' \ installers : i.version > cur]_vars
  <2> SUFFICES ASSUME UInv, Next, NEW i \in installers' \ installers
               PROVE  i.version > cur
    OBVIOUS
  <2>1. PICK r \in Runs : RunStep(r)
    BY DEF Next, CheckStep, CheckBegin, CheckFetch, CheckFail, CheckApply, Start, Refuse,
           Restart, Install, InstallFail, New, outside, vars
  <2>2. RunLaunch(r) /\ i.version = rel[r]
    BY <2>1 DEF RunStep, RunFetch, RunApply, RunLatest, RunDownload, RunOpen, RunReceive,
                RunVerify, RunRename, RunHandoff, RunLaunch, RunEnd, Fail, Goto, outside
  <2> QED
    BY <2>2 DEF RunLaunch, UInv, Newer, Downloading
<1> QED
  BY <1>1, Invariance, PTL DEF Spec, LaunchUpgrades
=============================================================================
