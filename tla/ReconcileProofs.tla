---------------------------- MODULE ReconcileProofs ----------------------------
(* What holds of ReconcileRun for every library, however many runners, jobs,  *)
(* stop requests and deletions there are.                                     *)
EXTENDS ReconcileRun, FiniteSetTheorems, TLAPS

(* What a scan decides only speaks of paths the library can have.             *)

\* The free name in quarantine is a path.
LEMMA FreeIsPath ==
    ASSUME NEW fs, NEW p \in Path
    PROVE  FreeQuarantine(fs, p) \in Path
<1> DEFINE q == [p EXCEPT !.place = "quarantine"]
           Marked(n) == [q EXCEPT !.marks = Append(@, n)]
           Free(n) == Marked(n) \notin DOMAIN fs
           First(n) == Free(n) /\ \A i \in 2..n-1 : ~Free(i)
<1>1. q \in Path /\ q.marks \in Seq(Nat)  BY DEF Path
<1>2. \A n \in Nat : Marked(n) \in Path
  <2> TAKE n \in Nat
  <2>1. Append(q.marks, n) \in Seq(Nat)  BY <1>1
  <2> QED  BY <1>1, <2>1 DEF Path
<1> HIDE DEF q, Marked, First
<1>3. ASSUME \E n \in 2..LastMark : First(n)
      PROVE  Marked(CHOOSE n \in 2..LastMark : First(n)) \in Path
  <2>1. \A n \in 2..LastMark : n \in Nat  BY DEF LastMark
  <2> QED  BY <1>2, <1>3, <2>1, Zenon
<1>4. Marked(Suffix) \in Path  BY <1>2 DEF Suffix
<1>5. FreeQuarantine(fs, p) = CASE q \notin DOMAIN fs -> q
         [] q \in DOMAIN fs /\ \E n \in 2..LastMark : First(n) ->
               Marked(CHOOSE n \in 2..LastMark : First(n))
         [] OTHER -> Marked(Suffix)
  BY DEF FreeQuarantine, q, Marked, First
<1> QED  BY <1>1, <1>3, <1>4, <1>5

\* So is the home of a path.
LEMMA HomeIsPath == \A p \in Path : Home(p) \in Path
BY DEF Home, Path

\* What a scan decides about what it has seen.
LEMMA ReportIsReport ==
    ASSUME NEW seen0, NEW fs, NEW K, DOMAIN seen0 \subseteq Path
    PROVE  IsReport(Report(seen0, fs, K))
<1>1. Considered(seen0) \subseteq Path  BY DEF Considered
<1>2. Retired(seen0, fs, K) \subseteq Path
  <2>1. UNION CopyClasses(seen0, fs) \subseteq Path  BY <1>1 DEF CopyClasses
  <2>2. UNION VolumeGroups(seen0, fs, K) \subseteq Path
    BY <1>1 DEF VolumeGroups, Rivals
  <2>3. Older(seen0, fs, K) \subseteq Path  BY <2>2 DEF Older
  <2> QED  BY <2>1, <2>3 DEF Retired, Duplicates, Spare
<1>3. Moving(seen0, fs, K) \subseteq Path  BY <1>1 DEF Moving
<1>4. UNION Choices(seen0, fs, K) \subseteq Path
  BY <1>1 DEF Choices, VolumeGroups, Rivals
<1> HIDE DEF Retired, Moving, Choices
<1> QED  BY <1>2, <1>3, <1>4, FreeIsPath, HomeIsPath DEF IsReport, Report

\* The plan of an execution, with the selections of the user.
LEMMA SelectedIsReport ==
    ASSUME NEW rep, NEW chosen \in Selections(rep), NEW fs, IsReport(rep)
    PROVE  IsReport([plan |-> WithSelections(rep, chosen, fs), choices |-> {}])
<1> DEFINE rejected == {p \in (UNION rep.choices) \ chosen : ~Quarantined(p)}
           moved == {p \in chosen : Home(p) # p}
           plan == WithSelections(rep, chosen, fs)
<1>1. chosen \subseteq Path  BY DEF Selections, IsReport
<1>2. rejected \subseteq Path  BY DEF IsReport
<1>3. plan = [p \in DOMAIN rep.plan \cup rejected \cup moved |->
                CASE p \in rejected -> FreeQuarantine(fs, p)
                  [] p \in moved -> Home(p)
                  [] OTHER -> rep.plan[p]]
  BY DEF WithSelections
<1> HIDE DEF plan, rejected
<1>4. DOMAIN plan \subseteq Path  BY <1>1, <1>2, <1>3 DEF IsReport
<1>5. ASSUME NEW p \in DOMAIN plan  PROVE plan[p] \in Path
  <2>1. p \in Path  BY <1>4
  <2>2. FreeQuarantine(fs, p) \in Path /\ Home(p) \in Path
    BY <2>1, FreeIsPath, HomeIsPath
  <2>3. p \in DOMAIN rep.plan => rep.plan[p] \in Path  BY DEF IsReport
  <2> HIDE DEF moved
  <2> QED  BY <1>3, <2>2, <2>3
<1>6. IsReport([plan |-> plan, choices |-> {}])  BY <1>4, <1>5 DEF IsReport
<1> QED  BY <1>6 DEF plan

(* The invariant.  That offers are whole needs that nothing is offered while  *)
(* a scan replaces the snapshot, and that no copy is lost needs that the      *)
(* history knows every destination that was taken after its test.             *)

ReplacesSnapshot == {"inspect", "decide", "save", "offer"}

Whole ==
    \A m \in Modes :
       /\ offered[m] \/ pc[m] \in {"load", "offer"} => stored[m] # {}
       /\ pc[m] \in ReplacesSnapshot => ~offered[m]

CleansQuarantine == \A p \in clean : Quarantined(p)

LateIsLate ==
    \A r \in Runners :
       target[r] # NoPath /\ Destination(r) \in DOMAIN files => r \in late

IInv == TypeOK /\ RunningIsWork /\ Whole /\ CleansQuarantine /\ LateIsLate

USE RunAssumption DEF Runners

\* The initial state satisfies the invariant.
LEMMA InitInv == Init => IInv
<1> SUFFICES ASSUME Init  PROVE IInv
  OBVIOUS
<1> USE DEF Init
<1>1. TypeOK
  <2>1. IsLibrary(files)  BY DEF IsLibrary
  <2>2. IsLibrary(Empty) /\ IsReport(NoReport)
    BY DEF IsLibrary, IsReport, NoReport, Empty
  <2>3. /\ running \in [Modes -> BOOLEAN] /\ stop \in [Modes -> BOOLEAN]
        /\ offered \in [Modes -> BOOLEAN] /\ pc \in [Runners -> Stages]
        /\ target \in [Runners -> Path \cup {NoPath}]
    BY DEF Stages
  <2> QED  BY <2>1, <2>2, <2>3 DEF TypeOK
<1>2. RunningIsWork  BY DEF RunningIsWork
<1>3. Whole  BY DEF Whole, ReplacesSnapshot
<1>4. CleansQuarantine /\ LateIsLate  BY DEF CleansQuarantine, LateIsLate
<1> QED  BY <1>1, <1>2, <1>3, <1>4 DEF IInv

-----------------------------------------------------------------------------
(* Type correctness.                                                          *)

USE DEF queue, flags, snapshot, work, history, bounds, Goto

\* The end of a run that is not between a test and a rename.
LEMMA ReturnType ==
    ASSUME TypeOK, NEW r \in Runners, Return(r), target[r] = NoPath,
           DOMAIN stored' = Modes /\ (\A m \in Modes : \A rep \in stored'[m] : IsReport(rep)),
           offered' \in [Modes -> BOOLEAN]
    PROVE  TypeOK'
<1> USE DEF Return
<1>1. IsLibrary(Empty) /\ IsReport(NoReport)
  BY DEF IsLibrary, IsReport, NoReport, Empty
<1>2. pc' \in [Runners -> Stages]  BY DEF TypeOK, Stages
<1>3. running' \in [Modes -> BOOLEAN]
  BY Zenon DEF TypeOK
<1>4. IsLibrary(files)'  BY DEF TypeOK, IsLibrary
<1>5. /\ DOMAIN seen' = Runners /\ DOMAIN report' = Runners
      /\ \A q \in Runners : IsLibrary(seen'[q]) /\ IsReport(report'[q])
  <2> HIDE DEF Runners
  <2>1. \A q \in Runners : seen'[q] = IF q = r THEN Empty ELSE seen[q]
    BY DEF TypeOK
  <2>2. \A q \in Runners : report'[q] = IF q = r THEN NoReport ELSE report[q]
    BY DEF TypeOK
  <2> QED  BY <1>1, <2>1, <2>2 DEF TypeOK
<1>6. \A q \in Runners : target'[q] # NoPath =>
         pc'[q] = "execute" /\ target'[q] \in DOMAIN report'[q].plan
  BY DEF TypeOK
<1> QED  BY <1>2, <1>3, <1>4, <1>5, <1>6 DEF TypeOK

\* A change of one runner's report that keeps it a report.
LEMMA ReportChange ==
    ASSUME TypeOK, NEW r \in Runners, NEW rep, IsReport(rep),
           report' = [report EXCEPT ![r] = rep]
    PROVE  DOMAIN report' = Runners /\ \A q \in Runners : IsReport(report'[q])
<1>1. DOMAIN report' = Runners  BY DEF TypeOK
<1>2. \A q \in Runners : report'[q] = IF q = r THEN rep ELSE report[q]
  BY DEF TypeOK
<1> QED  BY <1>1, <1>2 DEF TypeOK

\* A step of a runner between two tests of its flag.
LEMMA WorkType ==
    ASSUME TypeOK, NEW r \in Runners, target[r] = NoPath, IsLibrary(files)',
           DOMAIN seen' = Runners /\ \A q \in Runners : IsLibrary(seen'[q]),
           DOMAIN report' = Runners /\ \A q \in Runners : IsReport(report'[q]),
           DOMAIN stored' = Modes /\ (\A m \in Modes : \A rep \in stored'[m] : IsReport(rep)),
           \A q \in Runners \ {r} : report'[q] = report[q],
           NEW stage \in Stages, Goto(r, stage),
           UNCHANGED <<queue, flags, offered, target, clean, bounds>>
    PROVE  TypeOK'
<1>1. pc' \in [Runners -> Stages]  BY DEF TypeOK
<1>2. \A q \in Runners : target'[q] # NoPath =>
         pc'[q] = "execute" /\ target'[q] \in DOMAIN report'[q].plan
  BY DEF TypeOK
<1> QED  BY <1>1, <1>2 DEF TypeOK

\* What is left of a plan without one item is a plan.
LEMMA WithoutFact ==
    ASSUME TypeOK, NEW r \in Runners, NEW p, Without(r, p)
    PROVE  /\ DOMAIN report' = Runners /\ \A q \in Runners : IsReport(report'[q])
           /\ \A q \in Runners \ {r} : report'[q] = report[q]
           /\ DOMAIN report'[r].plan = DOMAIN report[r].plan \ {p}
           /\ \A x \in DOMAIN report[r].plan \ {p} : report'[r].plan[x] = report[r].plan[x]
<1> DEFINE rest == [x \in DOMAIN report[r].plan \ {p} |-> report[r].plan[x]]
           rep == [plan |-> rest, choices |-> {}]
<1>1. report' = [report EXCEPT ![r] = rep]  BY DEF Without, Executing
<1>2. IsReport(rep)  BY DEF TypeOK, IsReport
<1>3. \A q \in Runners : report'[q] = IF q = r THEN rep ELSE report[q]
  BY <1>1 DEF TypeOK
<1> HIDE DEF rep
<1>4. DOMAIN report' = Runners /\ \A q \in Runners : IsReport(report'[q])
  BY <1>1, <1>2, ReportChange
<1>5. report'[r] = rep  BY <1>3
<1> HIDE DEF rest
<1>6. rep.plan = rest  BY DEF rep
<1>7. report'[r].plan = rest  BY <1>5, <1>6
<1>8. /\ DOMAIN rest = DOMAIN report[r].plan \ {p}
      /\ \A x \in DOMAIN report[r].plan \ {p} : rest[x] = report[r].plan[x]
  BY DEF rest
<1> QED  BY <1>3, <1>4, <1>7, <1>8

\* The steps of a runner.
LEMMA RunStepType ==
    ASSUME TypeOK, NEW r \in Runners, RunStep(r)
    PROVE  TypeOK'
<1>0. DOMAIN report = Runners /\ DOMAIN seen = Runners /\ IsReport(report[r])
  BY DEF TypeOK
<1>1. CASE Inspect(r)
  <2>1. PICK all \in BOOLEAN :
           seen' = [seen EXCEPT ![r] = [p \in {x \in DOMAIN files : all \/ ~Quarantined(x)} |-> files[p]]]
    BY <1>1 DEF Inspect
  <2>2. DOMAIN seen' = Runners /\ \A q \in Runners : IsLibrary(seen'[q])
    BY <1>0, <2>1 DEF TypeOK, IsLibrary
  <2>3. target[r] = NoPath  BY <1>1 DEF Inspect, TypeOK
  <2>4. /\ Goto(r, "decide")
        /\ UNCHANGED <<files, queue, flags, snapshot, report, target, clean, bounds>>
    BY <1>1 DEF Inspect
  <2>5. "decide" \in Stages  BY DEF Stages
  <2>6. IsLibrary(files)'  BY <2>4 DEF TypeOK, IsLibrary
  <2>7. /\ DOMAIN report' = Runners /\ \A q \in Runners : IsReport(report'[q])
        /\ DOMAIN stored' = Modes /\ (\A m \in Modes : \A rep \in stored'[m] : IsReport(rep))
    BY <2>4 DEF TypeOK
  <2> HIDE DEF Goto
  <2> QED  BY <2>2, <2>3, <2>4, <2>5, <2>6, <2>7, WorkType
<1>2. CASE Decide(r)
  <2>1. PICK K \in KeeperSets(seen[r], files) :
           report' = [report EXCEPT ![r] = Report(seen[r], files, K)]
    BY <1>2 DEF Decide
  <2>2. IsReport(Report(seen[r], files, K))
    <3>1. DOMAIN seen[r] \subseteq Path  BY DEF TypeOK, IsLibrary
    <3> QED  BY <3>1, ReportIsReport
  <2>3. DOMAIN report' = Runners /\ \A q \in Runners : IsReport(report'[q])
    BY <2>1, <2>2, ReportChange
  <2>4. \A q \in Runners \ {r} : report'[q] = report[q]  BY <2>1, <1>0
  <2>5. DOMAIN seen' = Runners /\ \A q \in Runners : IsLibrary(seen'[q])
    <3>1. seen' = [seen EXCEPT ![r] = Empty]  BY <1>2 DEF Decide
    <3>2. IsLibrary(Empty)  BY DEF IsLibrary, Empty
    <3> QED  BY <1>0, <3>1, <3>2 DEF TypeOK
  <2>6. target[r] = NoPath  BY <1>2 DEF Decide, TypeOK
  <2>7. PICK stage \in Stages : Goto(r, stage)
    BY <1>2 DEF Decide, Stages
  <2>8. UNCHANGED <<files, queue, flags, snapshot, target, clean, bounds>>
    BY <1>2 DEF Decide
  <2>9. /\ IsLibrary(files)'
        /\ DOMAIN stored' = Modes /\ (\A m \in Modes : \A rep \in stored'[m] : IsReport(rep))
    BY <2>8 DEF TypeOK, IsLibrary
  <2> HIDE DEF Goto
  <2> QED  BY <2>3, <2>4, <2>5, <2>6, <2>7, <2>8, <2>9, WorkType
<1>3. CASE Load(r)
  <2>0. PICK found \in (IF r \in Modes THEN stored[r] ELSE {report[r]}) :
           \E chosen \in Selections(found) :
              Executing(r, WithSelections(found, chosen, files))
    BY <1>3 DEF Load
  <2>1. PICK chosen \in Selections(found) :
           Executing(r, WithSelections(found, chosen, files))
    BY <2>0
  <2>2. IsReport(found)  BY <2>0 DEF TypeOK
  <2>3. IsReport([plan |-> WithSelections(found, chosen, files), choices |-> {}])
    BY <2>2, SelectedIsReport
  <2>4. DOMAIN report' = Runners /\ \A q \in Runners : IsReport(report'[q])
    BY <2>1, <2>3, ReportChange DEF Executing
  <2>5. \A q \in Runners \ {r} : report'[q] = report[q]  BY <2>1, <1>0 DEF Executing
  <2>6. target[r] = NoPath  BY <1>3 DEF Load, TypeOK
  <2>7. "execute" \in Stages /\ Goto(r, "execute")  BY <1>3 DEF Load, Stages
  <2>8. UNCHANGED <<files, queue, flags, snapshot, seen, target, clean, bounds>>
    BY <1>3 DEF Load
  <2>9. /\ IsLibrary(files)'
        /\ DOMAIN seen' = Runners /\ \A q \in Runners : IsLibrary(seen'[q])
        /\ DOMAIN stored' = Modes /\ (\A m \in Modes : \A rep \in stored'[m] : IsReport(rep))
    BY <2>8 DEF TypeOK, IsLibrary
  <2> HIDE DEF Goto
  <2> QED  BY <2>4, <2>5, <2>6, <2>7, <2>8, <2>9, WorkType
<1>4. CASE Finish(r) \/ Fail(r)
  <2>1. target[r] = NoPath  BY <1>4 DEF Finish, Fail, TypeOK
  <2>2. Return(r) /\ UNCHANGED snapshot  BY <1>4 DEF Finish, Fail
  <2>3. /\ DOMAIN stored' = Modes /\ (\A m \in Modes : \A rep \in stored'[m] : IsReport(rep))
        /\ offered' \in [Modes -> BOOLEAN]
    BY <2>2 DEF TypeOK
  <2> QED  BY <2>1, <2>2, <2>3, ReturnType
<1>5. ASSUME NEW p \in NextItems(r), Test(r, p)  PROVE TypeOK'
  <2>0. p \in DOMAIN report[r].plan  BY DEF NextItems
  <2>1. p \in Path  BY <1>0, <2>0 DEF IsReport
  <2>2. UNCHANGED <<files, queue, flags, snapshot, pc, seen, clean, bounds>>
    BY <1>5 DEF Test
  <2>3. CASE Without(r, p) /\ UNCHANGED target
    <3>1. \A q \in Runners : target'[q] # NoPath =>
             pc'[q] = "execute" /\ target'[q] \in DOMAIN report'[q].plan
      BY <1>5, <2>2, <2>3, WithoutFact DEF Test, TypeOK
    <3>2. DOMAIN report' = Runners /\ \A q \in Runners : IsReport(report'[q])
      BY <2>3, WithoutFact
    <3> QED  BY <2>2, <2>3, <3>1, <3>2 DEF TypeOK, IsLibrary
  <2>4. CASE target' = [target EXCEPT ![r] = p] /\ UNCHANGED report
    <3>1. target' \in [Runners -> Path \cup {NoPath}]  BY <2>1, <2>4 DEF TypeOK
    <3>2. \A q \in Runners : target'[q] # NoPath =>
             pc'[q] = "execute" /\ target'[q] \in DOMAIN report'[q].plan
      BY <1>5, <2>0, <2>2, <2>4 DEF Test, TypeOK
    <3> QED  BY <2>2, <2>4, <3>1, <3>2 DEF TypeOK, IsLibrary
  <2> QED  BY <1>5, <2>3, <2>4 DEF Test
<1>6. CASE Rename(r) \/ RenameFails(r)
  <2>1. Without(r, target[r]) /\ target' = [target EXCEPT ![r] = NoPath]
    BY <1>6 DEF Rename, RenameFails
  <2>2. UNCHANGED <<queue, flags, snapshot, pc, seen, clean, bounds>>
    BY <1>6 DEF Rename, RenameFails
  <2>3. IsLibrary(files)'
    <3>1. CASE Rename(r)
      <4>1. target[r] \in DOMAIN files /\ target[r] \in DOMAIN report[r].plan
        BY <3>1 DEF Rename, TypeOK
      <4>2. Destination(r) \in Path  BY <1>0, <4>1 DEF Destination, IsReport
      <4>3. IsLibrary(files)  BY DEF TypeOK
      <4> HIDE DEF Destination
      <4> QED  BY <3>1, <4>1, <4>2, <4>3 DEF Rename, IsLibrary
    <3>2. CASE RenameFails(r)  BY <3>2 DEF RenameFails, TypeOK, IsLibrary
    <3> QED  BY <1>6, <3>1, <3>2
  <2>4. DOMAIN report' = Runners /\ \A q \in Runners : IsReport(report'[q])
    BY <2>1, WithoutFact
  <2>5. target' \in [Runners -> Path \cup {NoPath}]  BY <2>1 DEF TypeOK
  <2>6. \A q \in Runners : target'[q] # NoPath =>
           pc'[q] = "execute" /\ target'[q] \in DOMAIN report'[q].plan
    BY <2>1, <2>2, WithoutFact DEF TypeOK
  <2> QED  BY <2>2, <2>3, <2>4, <2>5, <2>6 DEF TypeOK
<1>7. ASSUME r \in Modes, Save(r)  PROVE TypeOK'
  <2>1. /\ DOMAIN stored' = Modes
        /\ \A m \in Modes : \A rep \in stored'[m] : IsReport(rep)
    BY <1>0, <1>7 DEF Save, TypeOK
  <2>2. target[r] = NoPath  BY <1>7 DEF Save, TypeOK
  <2>3. "offer" \in Stages /\ Goto(r, "offer")  BY <1>7 DEF Save, Stages
  <2>4. UNCHANGED <<files, queue, flags, offered, work, clean, bounds>>
    BY <1>7 DEF Save
  <2>5. /\ IsLibrary(files)'
        /\ DOMAIN seen' = Runners /\ \A q \in Runners : IsLibrary(seen'[q])
        /\ DOMAIN report' = Runners /\ \A q \in Runners : IsReport(report'[q])
    BY <2>4 DEF TypeOK, IsLibrary
  <2> HIDE DEF Goto
  <2> QED  BY <2>1, <2>2, <2>3, <2>4, <2>5, WorkType
<1>8. ASSUME r \in Modes, SaveFails(r) \/ Offer(r) \/ Cancelled(r)  PROVE TypeOK'
  <2>1. target[r] = NoPath  BY <1>8 DEF SaveFails, Offer, Cancelled, TypeOK
  <2>2. Return(r)  BY <1>8 DEF SaveFails, Offer, Cancelled
  <2>3. /\ DOMAIN stored' = Modes /\ (\A m \in Modes : \A rep \in stored'[m] : IsReport(rep))
        /\ offered' \in [Modes -> BOOLEAN]
    BY <1>8 DEF TypeOK, SaveFails, Offer, Cancelled
  <2> QED  BY <2>1, <2>2, <2>3, ReturnType
<1> QED
  BY <1>1, <1>2, <1>3, <1>4, <1>5, <1>6, <1>7, <1>8 DEF RunStep

\* Every action keeps the types.
LEMMA TypeStep == TypeOK /\ RunningIsWork /\ [Next]_vars => TypeOK'
<1> SUFFICES ASSUME TypeOK, RunningIsWork, [Next]_vars  PROVE TypeOK'
  OBVIOUS
<1>1. ASSUME NEW m \in Modes, Start(m) \/ Execute(m)  PROVE TypeOK'
  <2>1. Take(m, "inspect") \/ Take(m, "load")  BY <1>1 DEF Start, Execute
  <2>2. pc' \in [Runners -> Stages]  BY <2>1 DEF TypeOK, Take, Stages
  <2>3. target[m] = NoPath  BY <2>1 DEF Take, TypeOK, RunningIsWork
  <2>4. UNCHANGED <<files, queue, asking, stored, work, clean, stops, deletes>>
    BY <1>1 DEF Start, Execute
  <2>5. offered' \in [Modes -> BOOLEAN] /\ running' \in [Modes -> BOOLEAN]
        /\ stop' \in [Modes -> BOOLEAN]
    BY <1>1, <2>1 DEF TypeOK, Start, Execute, Take
  <2>6. runs' \in 0..MaxRuns  BY <2>1 DEF Take, TypeOK
  <2>7. \A q \in Runners : target'[q] # NoPath =>
           pc'[q] = "execute" /\ target'[q] \in DOMAIN report'[q].plan
    BY <2>1, <2>3, <2>4 DEF Take, TypeOK
  <2> QED  BY <2>2, <2>4, <2>5, <2>6, <2>7 DEF TypeOK, IsLibrary
<1>2. ASSUME NEW h \in Handlers, Direct(h)  PROVE TypeOK'
  <2>1. pc' \in [Runners -> Stages]  BY <1>2 DEF TypeOK, Direct, Stages
  <2>2. runs' \in 0..MaxRuns  BY <1>2 DEF Direct, TypeOK
  <2>3. \A q \in Runners : target'[q] # NoPath =>
           pc'[q] = "execute" /\ target'[q] \in DOMAIN report'[q].plan
    BY <1>2 DEF Direct, TypeOK
  <2> QED  BY <1>2, <2>1, <2>2, <2>3 DEF TypeOK, Direct, IsLibrary
<1>3. ASSUME NEW m \in Modes, AskStop(m) \/ SetStop(m)  PROVE TypeOK'
  <2>1. stops' \in 0..MaxStops  BY <1>3 DEF AskStop, SetStop, TypeOK
  <2>2. stop' \in [Modes -> BOOLEAN] /\ asking' \in SUBSET Modes
    BY <1>3 DEF AskStop, SetStop, TypeOK
  <2>3. UNCHANGED <<files, queue, running, snapshot, pc, work, clean, runs, deletes>>
    BY <1>3 DEF AskStop, SetStop
  <2> QED  BY <2>1, <2>2, <2>3 DEF TypeOK, IsLibrary
<1>4. ASSUME NEW r \in Runners, RunStep(r)  PROVE TypeOK'
  BY <1>4, RunStepType
<1>5. ASSUME NEW j \in Jobs, Submit(j) \/ GiveUp(j)  PROVE TypeOK'
  <2>1. planned' \in SUBSET Jobs /\ jobs' \in SUBSET Jobs
    BY <1>5 DEF Submit, GiveUp, TypeOK
  <2>2. UNCHANGED <<files, flags, snapshot, pc, work, clean, bounds>>
    BY <1>5 DEF Submit, GiveUp
  <2> QED  BY <2>1, <2>2 DEF TypeOK, IsLibrary
<1>6. ASSUME NEW j \in Jobs, Publish(j)  PROVE TypeOK'
  <2>1. j.path \in Path /\ j.file \in File  OBVIOUS
  <2>2. FreeQuarantine(files, j.path) \in Path  BY <2>1, FreeIsPath
  <2>3. IsLibrary(files)'
    BY <1>6, <2>1, <2>2 DEF Publish, TypeOK, IsLibrary
  <2>4. jobs' \in SUBSET Jobs  BY <1>6 DEF Publish, TypeOK
  <2>5. UNCHANGED <<planned, flags, snapshot, pc, work, clean, bounds>>
    BY <1>6 DEF Publish
  <2> QED  BY <2>3, <2>4, <2>5 DEF TypeOK
<1>7. ASSUME BeginDelete  PROVE TypeOK'
  <2>1. clean' \in SUBSET Path  BY <1>7 DEF BeginDelete, TypeOK, IsLibrary
  <2>2. deletes' \in 0..MaxDeletes  BY <1>7 DEF BeginDelete, TypeOK
  <2> QED  BY <1>7, <2>1, <2>2 DEF TypeOK, BeginDelete, IsLibrary
<1>8. ASSUME NEW p \in clean, Delete(p)  PROVE TypeOK'
  <2>1. IsLibrary(files)'  BY <1>8 DEF Delete, TypeOK, IsLibrary
  <2> QED  BY <1>8, <2>1 DEF TypeOK, Delete
<1>9. CASE UNCHANGED vars
  BY <1>9 DEF TypeOK, vars, IsLibrary
<1> QED
  BY <1>1, <1>2, <1>3, <1>4, <1>5, <1>6, <1>7, <1>8, <1>9 DEF Next

-----------------------------------------------------------------------------
(* The modes and their snapshots.                                             *)

\* A mode and its runner only change together.
LEMMA RunningStep ==
    TypeOK /\ RunningIsWork /\ [Next]_vars => RunningIsWork'
<1> SUFFICES ASSUME TypeOK, RunningIsWork, [Next]_vars  PROVE RunningIsWork'
  OBVIOUS
<1> USE DEF RunningIsWork
<1>0. running \in [Modes -> BOOLEAN] /\ pc \in [Runners -> Stages]
  BY DEF TypeOK
<1>1. ASSUME NEW m \in Modes, Start(m) \/ Execute(m)  PROVE RunningIsWork'
  BY <1>0, <1>1 DEF Start, Execute, Take
<1>2. ASSUME NEW h \in Handlers, Direct(h)  PROVE RunningIsWork'
  BY <1>0, <1>2 DEF Direct
<1>3. ASSUME NEW m \in Modes, AskStop(m) \/ SetStop(m)  PROVE RunningIsWork'
  BY <1>3 DEF AskStop, SetStop
<1>4. ASSUME NEW r \in Runners, RunStep(r)  PROVE RunningIsWork'
  <2>1. CASE Inspect(r) \/ Decide(r) \/ Load(r)
    BY <1>0, <2>1 DEF Inspect, Decide, Load
  <2>2. ASSUME Return(r), pc[r] # "idle"  PROVE RunningIsWork'
    BY <1>0, <2>2 DEF Return
  <2>3. CASE Finish(r) \/ Fail(r)  BY <2>2, <2>3 DEF Finish, Fail
  <2>4. ASSUME NEW p \in NextItems(r), Test(r, p)  PROVE RunningIsWork'
    BY <2>4 DEF Test
  <2>5. CASE Rename(r) \/ RenameFails(r)
    BY <2>5 DEF Rename, RenameFails
  <2>6. ASSUME r \in Modes, Save(r)  PROVE RunningIsWork'
    BY <1>0, <2>6 DEF Save
  <2>7. ASSUME r \in Modes, SaveFails(r) \/ Offer(r) \/ Cancelled(r)
        PROVE  RunningIsWork'
    BY <2>2, <2>7 DEF SaveFails, Offer, Cancelled
  <2> QED  BY <1>4, <2>1, <2>3, <2>4, <2>5, <2>6, <2>7 DEF RunStep
<1>5. ASSUME NEW j \in Jobs, Submit(j) \/ GiveUp(j) \/ Publish(j)
      PROVE  RunningIsWork'
  BY <1>5 DEF Submit, GiveUp, Publish
<1>6. ASSUME BeginDelete \/ \E p \in clean : Delete(p)  PROVE RunningIsWork'
  BY <1>6 DEF BeginDelete, Delete
<1>7. CASE UNCHANGED vars  BY <1>7 DEF vars
<1> QED  BY <1>1, <1>2, <1>3, <1>4, <1>5, <1>6, <1>7 DEF Next

\* Only the runner of a mode writes its snapshot, and it offers what it wrote.
LEMMA WholeStep ==
    TypeOK /\ RunningIsWork /\ Whole /\ [Next]_vars => Whole'
<1> SUFFICES ASSUME TypeOK, RunningIsWork, Whole, [Next]_vars  PROVE Whole'
  OBVIOUS
<1> USE DEF Whole, ReplacesSnapshot
<1>0. /\ offered \in [Modes -> BOOLEAN] /\ pc \in [Runners -> Stages]
      /\ DOMAIN stored = Modes
  BY DEF TypeOK
<1>1. ASSUME NEW m \in Modes, Start(m)  PROVE Whole'
  BY <1>0, <1>1 DEF Start, Take
<1>2. ASSUME NEW m \in Modes, Execute(m)  PROVE Whole'
  BY <1>0, <1>2 DEF Execute, Take
<1>3. ASSUME NEW h \in Handlers, Direct(h)  PROVE Whole'
  BY <1>0, <1>3 DEF Direct
<1>4. ASSUME NEW m \in Modes, AskStop(m) \/ SetStop(m)  PROVE Whole'
  BY <1>4 DEF AskStop, SetStop
<1>5. ASSUME NEW r \in Runners, RunStep(r)  PROVE Whole'
  <2>1. CASE Inspect(r) \/ Decide(r)
    BY <1>0, <2>1 DEF Inspect, Decide
  <2>2. CASE Load(r) \/ Finish(r) \/ Fail(r)
    BY <1>0, <2>2 DEF Load, Finish, Fail, Return
  <2>3. ASSUME NEW p \in NextItems(r), Test(r, p)  PROVE Whole'
    BY <2>3 DEF Test
  <2>4. CASE Rename(r) \/ RenameFails(r)
    BY <2>4 DEF Rename, RenameFails
  <2>5. ASSUME r \in Modes, Save(r)  PROVE Whole'
    BY <1>0, <2>5 DEF Save
  <2>6. ASSUME r \in Modes, SaveFails(r) \/ Offer(r) \/ Cancelled(r)
        PROVE  Whole'
    BY <1>0, <2>6 DEF SaveFails, Offer, Cancelled, Return
  <2> QED  BY <1>5, <2>1, <2>2, <2>3, <2>4, <2>5, <2>6 DEF RunStep
<1>6. ASSUME NEW j \in Jobs, Submit(j) \/ GiveUp(j) \/ Publish(j)  PROVE Whole'
  BY <1>6 DEF Submit, GiveUp, Publish
<1>7. ASSUME BeginDelete \/ \E p \in clean : Delete(p)  PROVE Whole'
  BY <1>7 DEF BeginDelete, Delete
<1>8. CASE UNCHANGED vars  BY <1>8 DEF vars
<1> QED  BY <1>1, <1>2, <1>3, <1>4, <1>5, <1>6, <1>7, <1>8 DEF Next

\* A deletion only has paths of the quarantine in hand.
LEMMA CleansStep == CleansQuarantine /\ [Next]_vars => CleansQuarantine'
<1> SUFFICES ASSUME CleansQuarantine, [Next]_vars  PROVE CleansQuarantine'
  OBVIOUS
<1> USE DEF CleansQuarantine
<1>1. CASE BeginDelete  BY <1>1 DEF BeginDelete, Quarantined
<1>2. ASSUME NEW p \in clean, Delete(p)  PROVE CleansQuarantine'
  BY <1>2 DEF Delete, Quarantined
<1>3. ASSUME UNCHANGED clean  PROVE CleansQuarantine'
  BY <1>3 DEF Quarantined
<1>4. ASSUME NEW r \in Runners, RunStep(r)  PROVE UNCHANGED clean
  BY <1>4 DEF RunStep, Inspect, Decide, Load, Finish, Fail, Test, Rename, RenameFails,
              Save, SaveFails, Offer, Cancelled, Return
<1>5. ASSUME NEW m \in Modes, Start(m) \/ Execute(m) \/ AskStop(m) \/ SetStop(m)
      PROVE  UNCHANGED clean
  BY <1>5 DEF Start, Execute, AskStop, SetStop
<1>6. ASSUME NEW h \in Handlers, Direct(h)  PROVE UNCHANGED clean
  BY <1>6 DEF Direct
<1>7. ASSUME NEW j \in Jobs, Submit(j) \/ GiveUp(j) \/ Publish(j)
      PROVE  UNCHANGED clean
  BY <1>7 DEF Submit, GiveUp, Publish
<1>8. CASE UNCHANGED vars  BY <1>3, <1>8 DEF vars
<1> QED  BY <1>1, <1>2, <1>3, <1>4, <1>5, <1>6, <1>7, <1>8 DEF Next

-----------------------------------------------------------------------------
(* The destinations.                                                          *)

\* A step that changes neither the library nor the history, and no runner that
\* has a destination in hand.
LEMMA LateKept ==
    ASSUME LateIsLate, UNCHANGED late, DOMAIN files' \subseteq DOMAIN files,
           \A r \in Runners : target'[r] # NoPath =>
              target'[r] = target[r] /\ report'[r].plan[target[r]] = Destination(r)
    PROVE  LateIsLate'
<1> SUFFICES ASSUME NEW r \in Runners, target'[r] # NoPath,
                    Destination(r)' \in DOMAIN files'
             PROVE  r \in late'
  BY DEF LateIsLate
<1>1. target[r] # NoPath /\ Destination(r)' = Destination(r)  BY DEF Destination
<1> QED  BY <1>1 DEF LateIsLate

\* A change of the library is known to the history.
LEMMA LateDisturbed ==
    ASSUME LateIsLate, NEW fs, NEW q, Disturb(fs, q), DOMAIN files' = fs,
           \A r \in Runners : target'[r] # NoPath =>
              /\ r # q /\ target'[r] = target[r]
              /\ report'[r].plan[target[r]] = Destination(r)
    PROVE  LateIsLate'
<1> SUFFICES ASSUME NEW r \in Runners, target'[r] # NoPath,
                    Destination(r)' \in DOMAIN files'
             PROVE  r \in late'
  BY DEF LateIsLate
<1>1. target[r] # NoPath /\ r # q /\ Destination(r)' = Destination(r)
  BY DEF Destination
<1>2. Destination(r) \in fs  BY <1>1
<1>3. CASE Destination(r) \in DOMAIN files
  <2>1. r \in late  BY <1>1, <1>3 DEF LateIsLate
  <2> QED  BY <1>1, <2>1 DEF Disturb
<1>4. CASE Destination(r) \notin DOMAIN files
  BY <1>1, <1>2, <1>4 DEF Disturb
<1> QED  BY <1>3, <1>4

\* The history knows every destination that is taken after its test.
LEMMA LateStep ==
    TypeOK /\ RunningIsWork /\ LateIsLate /\ [Next]_vars => LateIsLate'
<1> SUFFICES ASSUME TypeOK, RunningIsWork, LateIsLate, [Next]_vars
             PROVE  LateIsLate'
  OBVIOUS
<1>0. /\ target \in [Runners -> Path \cup {NoPath}]
      /\ DOMAIN report = Runners
      /\ \A r \in Runners : target[r] # NoPath =>
            pc[r] = "execute" /\ target[r] \in DOMAIN report[r].plan
  BY DEF TypeOK
<1>1. ASSUME UNCHANGED <<files, target, report, late>>  PROVE LateIsLate'
  BY <1>1, LateKept DEF Destination
<1>2. ASSUME NEW m \in Modes, Start(m) \/ Execute(m) \/ AskStop(m) \/ SetStop(m)
      PROVE  LateIsLate'
  BY <1>1, <1>2 DEF Start, Execute, AskStop, SetStop
<1>3. ASSUME NEW h \in Handlers, Direct(h)  PROVE LateIsLate'
  BY <1>1, <1>3 DEF Direct
<1>4. ASSUME NEW r \in Runners, RunStep(r)  PROVE LateIsLate'
  <2>1. CASE Inspect(r)  BY <1>1, <2>1 DEF Inspect
  <2>2. ASSUME target[r] = NoPath, UNCHANGED <<files, target, late>>,
               \A q \in Runners \ {r} : report'[q] = report[q]
        PROVE  LateIsLate'
    BY <2>2, LateKept DEF Destination
  <2>3. CASE Decide(r) \/ Load(r)
    <3>1. target[r] = NoPath /\ UNCHANGED <<files, target, late>>
      BY <1>0, <2>3 DEF Decide, Load
    <3>2. \A q \in Runners \ {r} : report'[q] = report[q]
      BY <1>0, <2>3 DEF Decide, Load, Executing
    <3> QED  BY <2>2, <3>1, <3>2
  <2>4. ASSUME Return(r), target[r] = NoPath  PROVE LateIsLate'
    BY <1>0, <2>2, <2>4 DEF Return
  <2>5. CASE Finish(r) \/ Fail(r)
    <3>1. target[r] = NoPath  BY <1>0, <2>5 DEF Finish, Fail
    <3> QED  BY <2>4, <2>5, <3>1 DEF Finish, Fail
  <2>6. ASSUME NEW p \in NextItems(r), Test(r, p)  PROVE LateIsLate'
    <3>1. target[r] = NoPath /\ UNCHANGED <<files, late>>  BY <2>6 DEF Test
    <3>2. CASE Without(r, p) /\ UNCHANGED target
      BY <2>2, <3>1, <3>2, WithoutFact
    <3>3. CASE /\ target' = [target EXCEPT ![r] = p] /\ UNCHANGED report
               /\ report[r].plan[p] \notin DOMAIN files
      <4> SUFFICES ASSUME NEW q \in Runners, target'[q] # NoPath,
                          Destination(q)' \in DOMAIN files'
                   PROVE  q \in late'
        BY DEF LateIsLate
      <4>1. q # r  BY <1>0, <3>1, <3>3 DEF Destination
      <4>2. target'[q] = target[q] /\ Destination(q)' = Destination(q)
        BY <1>0, <3>3, <4>1 DEF Destination
      <4> QED  BY <3>1, <4>2 DEF LateIsLate
    <3> QED  BY <2>6, <3>2, <3>3 DEF Test
  <2>7. ASSUME Without(r, target[r]), target' = [target EXCEPT ![r] = NoPath]
        PROVE  \A q \in Runners : target'[q] # NoPath =>
                  /\ q # r /\ target'[q] = target[q]
                  /\ report'[q].plan[target[q]] = Destination(q)
    <3>1. \A q \in Runners \ {r} : report'[q] = report[q]  BY <2>7, WithoutFact
    <3> QED  BY <1>0, <2>7, <3>1 DEF Destination
  <2>8. CASE Rename(r)
    <3> DEFINE after == (DOMAIN files \ {target[r]}) \cup {Destination(r)}
    <3>1. Disturb(after, r) /\ DOMAIN files' = after  BY <2>8 DEF Rename
    <3>2. Without(r, target[r]) /\ target' = [target EXCEPT ![r] = NoPath]
      BY <2>8 DEF Rename
    <3> HIDE DEF after
    <3> QED  BY <2>7, <3>1, <3>2, LateDisturbed
  <2>9. CASE RenameFails(r)
    <3> SUFFICES ASSUME NEW q \in Runners, target'[q] # NoPath,
                        Destination(q)' \in DOMAIN files'
                 PROVE  q \in late'
      BY DEF LateIsLate
    <3>1. UNCHANGED files /\ late' = late \ {r}  BY <2>9 DEF RenameFails
    <3>2. q # r /\ target[q] # NoPath /\ Destination(q)' = Destination(q)
      BY <2>7, <2>9 DEF RenameFails, Destination
    <3> QED  BY <3>1, <3>2 DEF LateIsLate
  <2>10. ASSUME r \in Modes, Save(r)  PROVE LateIsLate'
    BY <1>1, <2>10 DEF Save
  <2>11. ASSUME r \in Modes, SaveFails(r) \/ Offer(r) \/ Cancelled(r)
         PROVE  LateIsLate'
    <3>1. target[r] = NoPath  BY <1>0, <2>11 DEF SaveFails, Offer, Cancelled
    <3> QED  BY <2>4, <2>11, <3>1 DEF SaveFails, Offer, Cancelled
  <2> QED  BY <1>4, <2>1, <2>3, <2>5, <2>6, <2>8, <2>9, <2>10, <2>11 DEF RunStep
<1>5. ASSUME NEW j \in Jobs, Submit(j) \/ GiveUp(j)  PROVE LateIsLate'
  BY <1>1, <1>5 DEF Submit, GiveUp
<1>6. ASSUME UNCHANGED <<target, report>>, NEW fs, Disturb(fs, NoRunner), DOMAIN files' = fs
      PROVE  LateIsLate'
  <2>1. \A r \in Runners : target'[r] # NoPath =>
           /\ r # NoRunner /\ target'[r] = target[r]
           /\ report'[r].plan[target[r]] = Destination(r)
    BY <1>6 DEF Destination
  <2> QED  BY <1>6, <2>1, LateDisturbed
<1>7. ASSUME NEW j \in Jobs, Publish(j)  PROVE LateIsLate'
  <2>1. PICK fs : Disturb(fs, NoRunner) /\ DOMAIN files' = fs  BY <1>7 DEF Publish
  <2> QED  BY <1>6, <1>7, <2>1 DEF Publish
<1>8. CASE BeginDelete  BY <1>1, <1>8 DEF BeginDelete
<1>9. ASSUME NEW p \in clean, Delete(p)  PROVE LateIsLate'
  <2>1. DOMAIN files' = DOMAIN files \ {p} /\ UNCHANGED <<target, report>>
    BY <1>9 DEF Delete
  <2>2. CASE p \in DOMAIN files  BY <1>6, <1>9, <2>1, <2>2 DEF Delete
  <2>3. CASE p \notin DOMAIN files
    BY <1>9, <2>1, <2>3, LateKept DEF Delete, Destination
  <2> QED  BY <2>2, <2>3
<1>10. CASE UNCHANGED vars  BY <1>1, <1>10 DEF vars
<1> QED
  BY <1>2, <1>3, <1>4, <1>5, <1>7, <1>8, <1>9, <1>10 DEF Next

-----------------------------------------------------------------------------
(* The copies.                                                                *)

\* No step loses a copy, but for the three ways the property names.
LEMMA CopyStep ==
    ASSUME TypeOK, CleansQuarantine, LateIsLate, [Next]_vars,
           NEW f \in Copies(files) \ Copies(files')
    PROVE  \/ Overtaken(f) \/ Exhausted(f)
           \/ \E p \in clean \ clean' : Quarantined(p) /\ files[p] = f
<1> DEFINE Excused == \/ Overtaken(f) \/ Exhausted(f)
                      \/ \E p \in clean \ clean' : Quarantined(p) /\ files[p] = f
<1>0. PICK at \in DOMAIN files : f = files[at]  BY DEF Copies
<1>1. at \in DOMAIN files' => files'[at] # f  BY DEF Copies
<1>2. ASSUME UNCHANGED files  PROVE Excused  BY <1>0, <1>1, <1>2
<1>3. ASSUME NEW r \in Runners, Rename(r)  PROVE Excused
  <2>1. /\ target[r] # NoPath /\ target[r] \in DOMAIN files
        /\ DOMAIN files' = (DOMAIN files \ {target[r]}) \cup {Destination(r)}
        /\ \A q \in DOMAIN files' :
              files'[q] = IF q = Destination(r) THEN files[target[r]] ELSE files[q]
        /\ target'[r] = NoPath
    BY <1>3 DEF Rename, TypeOK
  <2>2. at # target[r]
    <3>1. files'[Destination(r)] = files[target[r]] /\ Destination(r) \in DOMAIN files'
      BY <2>1
    <3> QED  BY <1>0, <3>1 DEF Copies
  <2>3. at = Destination(r)  BY <1>0, <1>1, <2>1, <2>2
  <2>4. r \in late  BY <2>1, <2>3 DEF LateIsLate
  <2> QED  BY <1>0, <2>1, <2>3, <2>4 DEF Overtaken
<1>4. ASSUME NEW j \in Jobs, Publish(j)  PROVE Excused
  <2> DEFINE active == files[j.path]
             wins == j.file.data # active.data /\ j.file.time > active.time
             spare == FreeQuarantine(files, j.path)
             changed == IF j.path \notin DOMAIN files THEN {j.path}
                        ELSE IF wins THEN {j.path, spare} ELSE {spare}
  <2>1. /\ j \in jobs \ jobs'
        /\ files' = [p \in DOMAIN files \cup changed |->
                       IF p \notin changed THEN files[p]
                       ELSE IF p = j.path \/ ~wins THEN j.file ELSE active]
    BY <1>4 DEF Publish
  <2> HIDE DEF wins, spare
  <2>2. CASE at = spare
    BY <1>0, <2>1, <2>2 DEF Exhausted, spare
  <2>3. CASE at # spare
    <3>1. at \in changed  BY <1>1, <1>0, <2>1
    <3>2. at = j.path /\ wins  BY <1>0, <2>3, <3>1
    <3>3. spare \in DOMAIN files' /\ files'[spare] = active
      BY <1>0, <2>1, <2>3, <3>2
    <3> QED  BY <1>0, <3>2, <3>3 DEF Copies
  <2> QED  BY <2>2, <2>3
<1>5. ASSUME NEW p \in clean, Delete(p)  PROVE Excused
  <2>1. at = p  BY <1>0, <1>1, <1>5 DEF Delete
  <2>2. p \in clean \ clean'  BY <1>5 DEF Delete
  <2> QED  BY <1>0, <2>1, <2>2 DEF CleansQuarantine
<1>6. ASSUME NEW m \in Modes, Start(m) \/ Execute(m) \/ AskStop(m) \/ SetStop(m)
      PROVE  Excused
  BY <1>2, <1>6 DEF Start, Execute, AskStop, SetStop
<1>7. ASSUME NEW h \in Handlers, Direct(h)  PROVE Excused
  BY <1>2, <1>7 DEF Direct
<1>8. ASSUME NEW r \in Runners, RunStep(r)  PROVE Excused
  <2>1. CASE Rename(r)  BY <1>3, <2>1
  <2>2. ASSUME ~Rename(r)  PROVE UNCHANGED files
    BY <1>8, <2>2 DEF RunStep, Inspect, Decide, Load, Finish, Fail, Test, RenameFails,
                      Save, SaveFails, Offer, Cancelled, Return
  <2> QED  BY <1>2, <2>1, <2>2
<1>9. ASSUME NEW j \in Jobs, Submit(j) \/ GiveUp(j)  PROVE Excused
  BY <1>2, <1>9 DEF Submit, GiveUp
<1>10. ASSUME BeginDelete  PROVE Excused  BY <1>2, <1>10 DEF BeginDelete
<1>11. ASSUME UNCHANGED vars  PROVE Excused  BY <1>2, <1>11 DEF vars
<1> HIDE DEF Excused
<1>12. Excused
  BY <1>4, <1>5, <1>6, <1>7, <1>8, <1>9, <1>10, <1>11 DEF Next
<1> QED  BY <1>12 DEF Excused

-----------------------------------------------------------------------------
(* What an undisturbed runner leaves active.  A runner is watched from its    *)
(* scan to the end of the execution as long as nobody else changes the        *)
(* library; then its plan was made for the library as it is.                  *)

Watched(r) == /\ r \in fresh
              /\ DOMAIN view[r] # {}
              /\ \A p \in DOMAIN view[r] : ~Quarantined(p)

\* What is seen of a library without its quarantine.
Shown(fs) == [p \in {q \in DOMAIN fs : ~Quarantined(q)} |-> fs[p]]
Reports(r) == {Report(view[r], files, K) : K \in KeeperSets(view[r], files)}

\* Before it executes, the runner knows the library, and its report is about it.
Knows(r) ==
    /\ view[r] = Shown(files)
    /\ pc[r] = "decide" => seen[r] = view[r]
    /\ pc[r] = "save" \/ (r \in Handlers /\ pc[r] = "load") => report[r] \in Reports(r)
    /\ r \in Modes /\ (offered[r] \/ pc[r] \in {"load", "offer"}) =>
          stored[r] \subseteq Reports(r)

\* In the library v, s has the content of p or another variant of its volume.
Instead(v, s, p) ==
    /\ Work[s.name] = Work[p.name]
    /\ \/ v[s].data = v[p].data
       \/ Volume[s.name] = Volume[p.name] /\ Volume[p.name] # NoVolume

\* The file that was at s is at q, and is not going to leave the library.
Holds(r, q, s) == q \in DOMAIN files /\ files[q] = view[r][s]
Stays(r, s) ==
    LET plan == report[r].plan
    IN  /\ s \in DOMAIN plan => ~Quarantined(plan[s])
        /\ \/ Holds(r, s, s)
           \/ Holds(r, Home(s), s) /\ Home(s) \notin DOMAIN plan

\* While it executes, what is left of its plan is where it was, and every file
\* it saw has one that stays in its stead.
Follows(r) ==
    LET plan == report[r].plan
    IN  /\ \A p \in DOMAIN plan : /\ p \in DOMAIN view[r] /\ Holds(r, p, p)
                                  /\ Quarantined(plan[p]) \/ plan[p] = Home(p)
        /\ \A p \in Considered(view[r]) :
              \/ Misnamed(view[r], p)
              \/ \E s \in DOMAIN view[r] : Stays(r, s) /\ Instead(view[r], s, p)
        /\ target[r] # NoPath => Destination(r) \notin DOMAIN files

Serves(r) == Watched(r) => IF pc[r] = "execute" THEN Follows(r) ELSE Knows(r)
Undisturbed ==
    /\ DOMAIN view = Runners /\ \A r \in Runners : IsLibrary(view[r])
    /\ fresh \subseteq Runners
    /\ \A r \in Runners : Serves(r)

\* A free name in quarantine is in the quarantine, a home is not.
LEMMA FreeIsQuarantined ==
    ASSUME NEW fs, NEW p \in Path
    PROVE  Quarantined(FreeQuarantine(fs, p)) /\ ~Quarantined(Home(p))
<1> DEFINE q == [p EXCEPT !.place = "quarantine"]
           Marked(n) == [q EXCEPT !.marks = Append(@, n)]
           Free(n) == Marked(n) \notin DOMAIN fs
           First(n) == Free(n) /\ \A i \in 2..n-1 : ~Free(i)
           c == CHOOSE n \in 2..LastMark : First(n)
<1>1. q.place = "quarantine"  BY DEF Path
<1>2. \A n : Marked(n).place = "quarantine"
  BY DEF Path
<1>3. FreeQuarantine(fs, p) = CASE q \notin DOMAIN fs -> q
         [] q \in DOMAIN fs /\ \E n \in 2..LastMark : First(n) -> Marked(c)
         [] OTHER -> Marked(Suffix)
  BY DEF FreeQuarantine
<1>4. Home(p).place = "home"  BY DEF Home, Path
<1> HIDE DEF q, Marked, First, c
<1>5. FreeQuarantine(fs, p).place = "quarantine"  BY <1>1, <1>2, <1>3
<1> QED  BY <1>4, <1>5 DEF Quarantined

\* Of every group of equal copies one is not removed as a duplicate.
LEMMA KeptCopy ==
    ASSUME NEW v, NEW fs, NEW K \in KeeperSets(v, fs), NEW p \in Considered(v)
    PROVE  \E k \in Considered(v) \ Duplicates(v, fs, K) :
              Work[k.name] = Work[p.name] /\ (k = p \/ fs[k].data = fs[p].data)
<1>1. CASE p \notin Duplicates(v, fs, K)  BY <1>1
<1>2. CASE p \in Duplicates(v, fs, K)
  <2>1. PICK C \in CopyClasses(v, fs) : p \in C  BY <1>2 DEF Duplicates, Spare
  <2>2. PICK o \in Considered(v) : C = {q \in Considered(v) : SameCopy(fs, o, q)}
    BY <2>1 DEF CopyClasses
  <2>3. PICK k \in C : K \cap C = {k}  BY <2>1 DEF KeeperSets
  <2>4. k \in Considered(v) \ Duplicates(v, fs, K)
    <3>1. k \in K  BY <2>3
    <3>2. k \notin Duplicates(v, fs, K)  BY <3>1 DEF Duplicates, Spare
    <3> QED  BY <2>2, <3>2
  <2>5. SameCopy(fs, o, k) /\ SameCopy(fs, o, p)  BY <2>1, <2>2, <2>3
  <2> QED  BY <2>4, <2>5 DEF SameCopy
<1> QED  BY <1>1, <1>2

\* Of the variants of a volume that are left, one stays: the newest or the chosen.
LEMMA KeptVariant ==
    ASSUME NEW v, NEW fs, NEW K, NEW chosen \in Selections(Report(v, fs, K)),
           \A q \in DOMAIN v : ~Quarantined(q),
           NEW k \in Considered(v) \ Duplicates(v, fs, K)
    PROVE  \E s \in Considered(v) :
              /\ s \notin Retired(v, fs, K)
              /\ s \notin (UNION Choices(v, fs, K)) \ chosen
              /\ Work[s.name] = Work[k.name]
              /\ s = k \/ (Volume[s.name] = Volume[k.name] /\ Volume[k.name] # NoVolume)
<1> DEFINE Kind(s, q) == /\ Work[q.name] = Work[s.name] /\ Volume[q.name] = Volume[s.name]
                         /\ Volume[q.name] # NoVolume
           Left == Considered(v) \ Duplicates(v, fs, K)
<1>1. \A G \in VolumeGroups(v, fs, K) : \E o \in Considered(v) : G = {q \in Left : Kind(o, q)}
  BY DEF VolumeGroups, Rivals
<1>2. \A G, H \in VolumeGroups(v, fs, K) : G \cap H # {} => G = H
  <2> SUFFICES ASSUME NEW G \in VolumeGroups(v, fs, K), NEW H \in VolumeGroups(v, fs, K),
                      NEW x \in G \cap H
               PROVE  G = H
    OBVIOUS
  <2>1. PICK g \in Considered(v) : G = {q \in Left : Kind(g, q)}  BY <1>1
  <2>2. PICK h \in Considered(v) : H = {q \in Left : Kind(h, q)}  BY <1>1
  <2>3. Kind(g, x) /\ Kind(h, x)  BY <2>1, <2>2
  <2>4. \A q : Kind(g, q) <=> Kind(h, q)  BY <2>3
  <2> HIDE DEF Left, Kind
  <2> QED  BY <2>1, <2>2, <2>4
<1>3. ASSUME NEW G \in VolumeGroups(v, fs, K), k \in G, NEW s \in G
      PROVE  /\ s \in Considered(v) /\ s \notin Duplicates(v, fs, K)
             /\ Work[s.name] = Work[k.name]
             /\ Volume[s.name] = Volume[k.name] /\ Volume[k.name] # NoVolume
  BY <1>1, <1>3
<1>4. Choices(v, fs, K) \subseteq VolumeGroups(v, fs, K)  BY DEF Choices
<1>5. Retired(v, fs, K) \subseteq Duplicates(v, fs, K) \cup Older(v, fs, K)
  BY DEF Retired
<1>6. CASE k \in Older(v, fs, K)
  <2>1. PICK G \in VolumeGroups(v, fs, K) : G \notin Choices(v, fs, K) /\ k \in G
    BY <1>6 DEF Older
  <2>2. PICK s \in Newest(v, G) : s \in G  BY <2>1 DEF Choices, Newest
  <2>3. s \notin Older(v, fs, K)
    <3>1. \A H \in VolumeGroups(v, fs, K) : s \in H => H = G  BY <1>2, <2>2
    <3> QED  BY <2>2, <3>1 DEF Older
  <2>4. s \notin UNION Choices(v, fs, K)  BY <1>2, <1>4, <2>1, <2>2
  <2> QED  BY <1>3, <1>5, <2>1, <2>2, <2>3, <2>4
<1>7. CASE k \in UNION Choices(v, fs, K)
  <2>1. PICK G \in Choices(v, fs, K) : k \in G  BY <1>7
  <2>2. Report(v, fs, K).choices = Choices(v, fs, K)  BY DEF Report
  <2>3. Cardinality(chosen \cap G) = 1  BY <2>1, <2>2 DEF Selections
  <2>4. PICK s \in chosen \cap G : TRUE
    <3>1. Cardinality({}) = 0  BY FS_EmptySet
    <3>2. chosen \cap G # {}
      <4>1. ASSUME chosen \cap G = {}  PROVE FALSE
        <5>1. Cardinality(chosen \cap G) = Cardinality({})  BY <4>1
        <5> QED  BY <2>3, <3>1, <5>1
      <4> QED  BY <4>1
    <3> QED  BY <3>2
  <2>5. s \notin Older(v, fs, K)
    <3>1. \A H \in VolumeGroups(v, fs, K) : s \in H => H = G  BY <1>2, <1>4, <2>1, <2>4
    <3> QED  BY <2>1, <3>1 DEF Older
  <2>6. /\ s \in Considered(v) /\ s \notin Duplicates(v, fs, K)
        /\ Work[s.name] = Work[k.name]
        /\ Volume[s.name] = Volume[k.name] /\ Volume[k.name] # NoVolume
    <3>1. G \in VolumeGroups(v, fs, K) /\ s \in G  BY <1>4, <2>1, <2>4
    <3> QED  BY <1>3, <2>1, <3>1
  <2>7. s \in chosen /\ s \notin Retired(v, fs, K)  BY <1>5, <2>4, <2>5, <2>6
  <2> QED  BY <2>6, <2>7
<1>8. CASE k \notin Older(v, fs, K) /\ k \notin UNION Choices(v, fs, K)
  BY <1>5, <1>8
<1> QED  BY <1>6, <1>7, <1>8

\* The plan of an execution only moves what was seen, to its home or to the
\* quarantine, and whatever goes to quarantine has something that stays.
LEMMA PlanLeaves ==
    ASSUME NEW fs, IsLibrary(fs), NEW v, v = Shown(fs), NEW K \in KeeperSets(v, fs),
           NEW chosen \in Selections(Report(v, fs, K)), NEW plan,
           plan = WithSelections(Report(v, fs, K), chosen, fs)
    PROVE  /\ \A p \in DOMAIN plan :
                 p \in DOMAIN v /\ (Quarantined(plan[p]) \/ plan[p] = Home(p))
           /\ \A p \in Considered(v) :
                 \/ Misnamed(v, p)
                 \/ \E s \in DOMAIN v : /\ s \in DOMAIN plan => ~Quarantined(plan[s])
                                        /\ Instead(v, s, p)
<1> DEFINE rep == Report(v, fs, K)
           ret == Retired(v, fs, K)
           mov == Moving(v, fs, K)
           cho == Choices(v, fs, K)
           rejected == {p \in (UNION cho) \ chosen : ~Quarantined(p)}
           moved == {p \in chosen : Home(p) # p}
<1>1. /\ DOMAIN v = {q \in DOMAIN fs : ~Quarantined(q)}
      /\ \A q \in DOMAIN v : v[q] = fs[q] /\ q \in Path /\ ~Quarantined(q)
  BY DEF Shown, IsLibrary
<1>2. /\ rep.choices = cho
      /\ rep.plan = [p \in ret \cup mov |->
                       IF p \in ret THEN FreeQuarantine(fs, p) ELSE Home(p)]
  BY DEF Report
<1>3. plan = [p \in DOMAIN rep.plan \cup rejected \cup moved |->
                CASE p \in rejected -> FreeQuarantine(fs, p)
                  [] p \in moved -> Home(p)
                  [] OTHER -> rep.plan[p]]
  BY <1>2 DEF WithSelections
<1>4. Considered(v) \subseteq DOMAIN v  BY DEF Considered
<1>5. ret \subseteq DOMAIN v /\ mov \subseteq DOMAIN v /\ UNION cho \subseteq DOMAIN v
  <2>1. UNION CopyClasses(v, fs) \subseteq Considered(v)  BY DEF CopyClasses
  <2>2. UNION VolumeGroups(v, fs, K) \subseteq Considered(v)  BY DEF VolumeGroups, Rivals
  <2>3. ret \subseteq Considered(v)
    BY <2>1, <2>2 DEF Retired, Duplicates, Spare, Older
  <2>4. mov \subseteq Considered(v)  BY DEF Moving
  <2>5. UNION cho \subseteq Considered(v)  BY <2>2 DEF Choices
  <2> QED  BY <1>4, <2>3, <2>4, <2>5
<1>6. chosen \subseteq UNION cho  BY <1>2 DEF Selections
<1> HIDE DEF rep, ret, mov, cho
<1>7. rejected \subseteq DOMAIN v /\ moved \subseteq DOMAIN v  BY <1>5, <1>6
<1>8. ASSUME NEW p \in DOMAIN plan
      PROVE  /\ p \in DOMAIN v
             /\ Quarantined(plan[p]) \/ plan[p] = Home(p)
             /\ Quarantined(plan[p]) => p \in rejected \/ p \in ret
  <2> HIDE DEF rejected, moved
  <2>1. DOMAIN plan = (ret \cup mov) \cup rejected \cup moved  BY <1>2, <1>3
  <2>2. p \in DOMAIN v  BY <1>5, <1>7, <2>1
  <2>3. p \in Path  BY <1>1, <2>2
  <2>4. Quarantined(FreeQuarantine(fs, p)) /\ ~Quarantined(Home(p))
    BY <2>3, FreeIsQuarantined
  <2>5. CASE p \in rejected  BY <1>3, <2>2, <2>4, <2>5
  <2>6. CASE p \notin rejected /\ p \in moved  BY <1>3, <2>2, <2>4, <2>6
  <2>7. CASE p \notin rejected /\ p \notin moved
    <3>1. p \in ret \cup mov /\ plan[p] = rep.plan[p]  BY <1>3, <2>1, <2>7
    <3>2. rep.plan[p] = IF p \in ret THEN FreeQuarantine(fs, p) ELSE Home(p)
      BY <1>2, <3>1
    <3> QED  BY <2>2, <2>4, <3>1, <3>2
  <2> QED  BY <2>5, <2>6, <2>7
<1>9. ASSUME NEW p \in Considered(v), ~Misnamed(v, p)
      PROVE  \E s \in DOMAIN v : /\ s \in DOMAIN plan => ~Quarantined(plan[s])
                                 /\ Instead(v, s, p)
  <2>1. PICK k \in Considered(v) \ Duplicates(v, fs, K) :
           Work[k.name] = Work[p.name] /\ (k = p \/ fs[k].data = fs[p].data)
    BY KeptCopy
  <2>2. PICK s \in Considered(v) :
           /\ s \notin ret
           /\ s \notin (UNION cho) \ chosen
           /\ Work[s.name] = Work[k.name]
           /\ s = k \/ (Volume[s.name] = Volume[k.name] /\ Volume[k.name] # NoVolume)
    BY <1>1, KeptVariant DEF rep, ret, cho
  <2>3. s \in DOMAIN plan => ~Quarantined(plan[s])  BY <1>8, <2>2
  <2>4. k \in DOMAIN v /\ p \in DOMAIN v /\ s \in DOMAIN v  BY <1>4, <2>1, <2>2
  <2>5. v[k].data = v[p].data  BY <1>1, <2>1, <2>4
  <2>6. Volume[k.name] = Volume[p.name]  BY <1>9, <2>1, <2>4, <2>5 DEF Misnamed
  <2>7. Instead(v, s, p)  BY <2>1, <2>2, <2>5, <2>6 DEF Instead
  <2> QED  BY <2>3, <2>4, <2>7
<1> QED  BY <1>8, <1>9

-----------------------------------------------------------------------------
(* The steps of a watched runner, and of the others.                          *)

\* What belongs to a runner.
Mine(r) == <<pc[r], seen[r], report[r], target[r], view[r],
             IF r \in Modes THEN <<offered[r], stored[r]>> ELSE <<>> >>

OwnStep(r) == \/ RunStep(r)
              \/ r \in Modes /\ (Start(r) \/ Execute(r))
              \/ r \in Handlers /\ Direct(r)

\* A step that does not touch what the invariant speaks of.
LEMMA UnwatchedStep ==
    ASSUME NEW r \in Runners, UNCHANGED <<files, Mine(r)>>, r \in fresh' => r \in fresh,
           Serves(r)
    PROVE  Serves(r)'
<1>1. /\ files' = files /\ pc'[r] = pc[r] /\ seen'[r] = seen[r] /\ report'[r] = report[r]
      /\ target'[r] = target[r] /\ view'[r] = view[r]
      /\ r \in Modes => offered'[r] = offered[r] /\ stored'[r] = stored[r]
  BY DEF Mine
<1>2. Watched(r)' => Watched(r)  BY <1>1 DEF Watched, Quarantined
<1>3. Follows(r) => Follows(r)'
  BY <1>1 DEF Follows, Stays, Holds, Destination, Quarantined, Instead, Misnamed
<1>4. Knows(r) => Knows(r)'
  <2>1. Reports(r)' = Reports(r)  BY <1>1 DEF Reports
  <2>2. Shown(files)' = Shown(files)  BY <1>1 DEF Shown, Quarantined
  <2> QED  BY <1>1, <2>1, <2>2 DEF Knows
<1> QED  BY <1>1, <1>2, <1>3, <1>4 DEF Serves

\* The others change the library only before its eyes.
LEMMA OthersStep ==
    ASSUME TypeOK, DOMAIN view = Runners, [Next]_vars, NEW r \in Runners, ~OwnStep(r)
    PROVE  \/ view'[r] = Empty
           \/ UNCHANGED <<files, Mine(r)>> /\ (r \in fresh' => r \in fresh)
<1> DEFINE Same == UNCHANGED <<files, Mine(r)>> /\ (r \in fresh' => r \in fresh)
           Goal == view'[r] = Empty \/ Same
<1>0. /\ pc \in [Runners -> Stages] /\ offered \in [Modes -> BOOLEAN] /\ DOMAIN stored = Modes
      /\ DOMAIN seen = Runners /\ DOMAIN report = Runners
      /\ target \in [Runners -> Path \cup {NoPath}] /\ DOMAIN view = Runners
  BY DEF TypeOK
<1>1. ASSUME UNCHANGED <<files, pc, seen, report, target, view, fresh, offered, stored>>
      PROVE  Goal
  BY <1>1 DEF Mine
<1>2. ASSUME NEW m \in Modes, Start(m) \/ Execute(m)  PROVE Goal
  <2>1. m # r  BY <1>2 DEF OwnStep
  <2> QED  BY <1>0, <1>2, <2>1 DEF Mine, Start, Execute, Take
<1>3. ASSUME NEW m \in Modes, AskStop(m) \/ SetStop(m)  PROVE Goal
  BY <1>1, <1>3 DEF AskStop, SetStop
<1>4. ASSUME NEW h \in Handlers, Direct(h)  PROVE Goal
  <2>1. h # r  BY <1>4 DEF OwnStep
  <2> QED  BY <1>0, <1>4, <2>1 DEF Mine, Direct
<1>5. ASSUME NEW q \in Runners, RunStep(q)  PROVE Goal
  <2>0. q # r  BY <1>5 DEF OwnStep
  <2>1. CASE Inspect(q)  BY <1>0, <2>0, <2>1 DEF Mine, Inspect
  <2>10. CASE Decide(q)
    <3>1. PICK rep : report' = [report EXCEPT ![q] = rep]  BY <2>10 DEF Decide
    <3> QED  BY <1>0, <2>0, <2>10, <3>1 DEF Mine, Decide
  <2>2. CASE Load(q)  BY <1>0, <2>0, <2>2 DEF Mine, Load, Executing
  <2>3. ASSUME Return(q), q \in Modes => \A m \in Modes \ {q} : offered'[m] = offered[m]
                                                             /\ stored'[m] = stored[m],
               q \notin Modes => UNCHANGED snapshot
        PROVE  Goal
    BY <1>0, <2>0, <2>3 DEF Mine, Return
  <2>4. CASE Finish(q) \/ Fail(q)  BY <2>3, <2>4 DEF Finish, Fail
  <2>5. ASSUME NEW p \in NextItems(q), Test(q, p)  PROVE Goal
    BY <1>0, <2>0, <2>5 DEF Mine, Test, Without, Executing
  <2>6. CASE Rename(q)  BY <1>0, <2>0, <2>6 DEF Rename, Disturb
  <2>7. CASE RenameFails(q)
    BY <1>0, <2>0, <2>7 DEF Mine, RenameFails, Without, Executing
  <2>8. ASSUME q \in Modes, Save(q)  PROVE Goal
    BY <1>0, <2>0, <2>8 DEF Mine, Save
  <2>9. ASSUME q \in Modes, SaveFails(q) \/ Offer(q) \/ Cancelled(q)  PROVE Goal
    BY <1>0, <2>3, <2>9 DEF SaveFails, Offer, Cancelled
  <2> QED  BY <1>5, <2>1, <2>2, <2>4, <2>5, <2>6, <2>7, <2>8, <2>9, <2>10 DEF RunStep
<1>6. ASSUME NEW j \in Jobs, Submit(j) \/ GiveUp(j)  PROVE Goal
  BY <1>1, <1>6 DEF Submit, GiveUp
<1>7. ASSUME NEW j \in Jobs, Publish(j)  PROVE Goal
  <2>1. view' = [q \in Runners |-> IF q = NoRunner THEN view[q] ELSE Empty]
    BY <1>7 DEF Publish, Disturb
  <2>2. r # NoRunner  OBVIOUS
  <2> QED  BY <2>1, <2>2
<1>8. ASSUME BeginDelete  PROVE Goal  BY <1>1, <1>8 DEF BeginDelete
<1>9. ASSUME NEW p \in clean, Delete(p)  PROVE Goal
  <2>1. CASE p \in DOMAIN files
    <3>1. view' = [q \in Runners |-> IF q = NoRunner THEN view[q] ELSE Empty]
      BY <1>9, <2>1 DEF Delete, Disturb
    <3>2. r # NoRunner  OBVIOUS
    <3> QED  BY <3>1, <3>2
  <2>2. CASE p \notin DOMAIN files
    <3>1. files' = files
      <4>1. files' = [q \in DOMAIN files |-> files[q]]  BY <1>9, <2>2 DEF Delete
      <4>2. files = [q \in DOMAIN files |-> files[q]]  BY DEF TypeOK, IsLibrary
      <4> QED  BY <4>1, <4>2
    <3> QED  BY <1>1, <1>9, <2>2, <3>1 DEF Delete
  <2> QED  BY <2>1, <2>2
<1>10. CASE UNCHANGED vars  BY <1>1, <1>10 DEF vars
<1> QED  BY <1>2, <1>3, <1>4, <1>5, <1>6, <1>7, <1>8, <1>9, <1>10 DEF Next

\* A runner skips an item, or loses it to an error.
LEMMA SkipFollows ==
    ASSUME TypeOK, NEW r \in Runners, NEW x, Follows(r), Without(r, x), UNCHANGED files,
           view'[r] = view[r], target'[r] = NoPath
    PROVE  Follows(r)'
<1> DEFINE plan == report[r].plan
           rest == report'[r].plan
<1>1. /\ DOMAIN rest = DOMAIN plan \ {x}
      /\ \A p \in DOMAIN rest : rest[p] = plan[p]
  BY WithoutFact
<1> HIDE DEF rest
<1>2. \A p \in DOMAIN rest : /\ p \in DOMAIN view[r] /\ Holds(r, p, p)
                             /\ Quarantined(rest[p]) \/ rest[p] = Home(p)
  BY <1>1 DEF Follows
<1>3. \A q, s : Holds(r, q, s) => (q \in DOMAIN files' /\ files'[q] = view'[r][s])
  BY DEF Holds
<1>4. ASSUME NEW s, Stays(r, s)
      PROVE  /\ s \in DOMAIN rest => ~Quarantined(rest[s])
             /\ \/ Holds(r, s, s)
                \/ Holds(r, Home(s), s) /\ Home(s) \notin DOMAIN rest
  BY <1>1, <1>4 DEF Stays
<1>5. ASSUME NEW p \in Considered(view[r])
      PROVE  Misnamed(view[r], p) \/
             \E s \in DOMAIN view[r] :
                /\ Instead(view[r], s, p)
                /\ s \in DOMAIN rest => ~Quarantined(rest[s])
                /\ \/ Holds(r, s, s)
                   \/ Holds(r, Home(s), s) /\ Home(s) \notin DOMAIN rest
  BY <1>4 DEF Follows
<1> QED  BY <1>2, <1>3, <1>5 DEF Follows, Stays, Holds, rest, Quarantined, Instead, Misnamed

\* A runner moves the file at x to a free path: whatever stays in the stead of
\* another file is left alone, or moved to its home.
LEMMA RenameFollows ==
    ASSUME TypeOK, NEW r \in Runners, Follows(r), Rename(r), view'[r] = view[r]
    PROVE  Follows(r)'
<1> DEFINE plan == report[r].plan
           rest == report'[r].plan
           x == target[r]
           dest == Destination(r)
           Held(q, s) == q \in DOMAIN files' /\ files'[q] = view[r][s]
<1>1. /\ DOMAIN rest = DOMAIN plan \ {x}
      /\ \A p \in DOMAIN rest : rest[p] = plan[p]
  BY WithoutFact DEF Rename
<1>2. /\ x # NoPath /\ x \in DOMAIN files
      /\ DOMAIN files' = (DOMAIN files \ {x}) \cup {dest}
      /\ \A q \in DOMAIN files' : files'[q] = IF q = dest THEN files[x] ELSE files[q]
  BY DEF Rename
<1>3. x \in DOMAIN plan /\ dest = plan[x] /\ dest \notin DOMAIN files
  BY <1>2 DEF TypeOK, Destination, Follows
<1>4. target'[r] = NoPath  BY DEF Rename, TypeOK
<1>5. /\ \A p \in DOMAIN plan : /\ p \in DOMAIN view[r] /\ Holds(r, p, p)
                                /\ Quarantined(plan[p]) \/ plan[p] = Home(p)
      /\ \A p \in DOMAIN plan : p \in DOMAIN files
  BY DEF Follows, Holds
<1> HIDE DEF rest, plan, x, dest
<1>7. \A q, s : Holds(r, q, s) /\ q # x => Held(q, s)
  BY <1>2, <1>3 DEF Holds
<1>8. \A p \in DOMAIN rest : /\ p \in DOMAIN view[r] /\ Held(p, p)
                             /\ Quarantined(rest[p]) \/ rest[p] = Home(p)
  BY <1>1, <1>5, <1>7
<1>9. ASSUME NEW s \in DOMAIN view[r], Stays(r, s)
      PROVE  /\ s \in DOMAIN rest => ~Quarantined(rest[s])
             /\ \/ Held(s, s)
                \/ Held(Home(s), s) /\ Home(s) \notin DOMAIN rest
  <2>1. /\ s \in DOMAIN plan => ~Quarantined(plan[s])
        /\ \/ Holds(r, s, s)
           \/ Holds(r, Home(s), s) /\ Home(s) \notin DOMAIN plan
    BY <1>9 DEF Stays, plan
  <2>2. s \in DOMAIN rest => ~Quarantined(rest[s])  BY <1>1, <2>1
  <2>3. CASE s = x
    <3>1. dest = Home(s)  BY <1>3, <1>5, <2>1, <2>3
    <3>2. Held(dest, s)  BY <1>2, <1>3, <1>5, <2>3 DEF Holds
    <3>3. dest \notin DOMAIN rest  BY <1>1, <1>3, <1>5
    <3> QED  BY <2>2, <3>1, <3>2, <3>3
  <2>4. CASE s # x /\ Holds(r, s, s)  BY <1>7, <2>2, <2>4
  <2>5. CASE Holds(r, Home(s), s) /\ Home(s) \notin DOMAIN plan
    <3>1. Home(s) # x  BY <1>3, <2>5
    <3> QED  BY <1>1, <1>7, <2>2, <2>5, <3>1
  <2> QED  BY <2>1, <2>3, <2>4, <2>5
<1>10. ASSUME NEW p \in Considered(view[r])
       PROVE  Misnamed(view[r], p) \/
              \E s \in DOMAIN view[r] :
                 /\ Instead(view[r], s, p)
                 /\ s \in DOMAIN rest => ~Quarantined(rest[s])
                 /\ \/ Held(s, s)
                    \/ Held(Home(s), s) /\ Home(s) \notin DOMAIN rest
  BY <1>9 DEF Follows
<1> QED
  BY <1>4, <1>8, <1>10 DEF Follows, Stays, Holds, rest, Quarantined, Instead, Misnamed

\* An execution begins: its plan was made for the library it finds.
LEMMA LoadFollows ==
    ASSUME TypeOK, NEW r \in Runners, Load(r), Knows(r), view'[r] = view[r]
    PROVE  Follows(r)'
<1>1. PICK found \in IF r \in Modes THEN stored[r] ELSE {report[r]} :
         \E chosen \in Selections(found) :
            Executing(r, WithSelections(found, chosen, files))
  BY DEF Load
<1>2. PICK chosen \in Selections(found) :
         Executing(r, WithSelections(found, chosen, files))
  BY <1>1
<1>3. found \in Reports(r)  BY <1>1 DEF Knows, Load
<1>4. PICK K \in KeeperSets(view[r], files) : found = Report(view[r], files, K)
  BY <1>3 DEF Reports
<1> DEFINE plan == WithSelections(found, chosen, files)
           v == view[r]
<1>5. report'[r].plan = plan
  <2> HIDE DEF plan
  <2> QED  BY <1>2 DEF Executing, TypeOK, plan
<1>6. IsLibrary(files) /\ v = Shown(files)  BY DEF TypeOK, Knows
<1>7. /\ \A p \in DOMAIN plan :
            p \in DOMAIN v /\ (Quarantined(plan[p]) \/ plan[p] = Home(p))
      /\ \A p \in Considered(v) :
            \/ Misnamed(v, p)
            \/ \E s \in DOMAIN v : /\ s \in DOMAIN plan => ~Quarantined(plan[s])
                                   /\ Instead(v, s, p)
  BY <1>4, <1>6, PlanLeaves
<1>8. \A p \in DOMAIN v : p \in DOMAIN files /\ files[p] = v[p]  BY <1>6 DEF Shown
<1>9. target'[r] = NoPath /\ files' = files  BY DEF Load, TypeOK
<1> HIDE DEF plan
<1> QED
  BY <1>5, <1>7, <1>8, <1>9 DEF Follows, Stays, Holds, Quarantined, Instead, Misnamed

\* A run that ends before its execution leaves the runner with what it knew.
LEMMA ReturnKnows ==
    ASSUME TypeOK, DOMAIN view = Runners, NEW r \in Runners, Return(r), Serves(r),
           r \in Modes /\ offered'[r] /\ Knows(r) => stored'[r] \subseteq Reports(r)
    PROVE  Serves(r)'
<1>1. pc'[r] = "idle" /\ files' = files /\ view' = view  BY DEF Return, TypeOK
<1>2. SUFFICES ASSUME Watched(r)'  PROVE Knows(r)'
  BY <1>1 DEF Serves
<1>3. pc[r] # "execute" /\ r \in fresh  BY <1>2 DEF Watched, Return
<1>4. Knows(r)  BY <1>1, <1>2, <1>3 DEF Serves, Watched, Quarantined
<1>5. Reports(r)' = Reports(r)  BY <1>1 DEF Reports
<1>6. Shown(files)' = Shown(files)  BY <1>1 DEF Shown, Quarantined
<1> QED  BY <1>1, <1>4, <1>5, <1>6 DEF Knows

\* The steps of the runner itself.
LEMMA ServesStep ==
    ASSUME TypeOK, RunningIsWork, Whole, Undisturbed, NEW r \in Runners, OwnStep(r)
    PROVE  Serves(r)'
<1>0. /\ pc \in [Runners -> Stages] /\ offered \in [Modes -> BOOLEAN] /\ DOMAIN stored = Modes
      /\ DOMAIN seen = Runners /\ DOMAIN report = Runners
      /\ target \in [Runners -> Path \cup {NoPath}] /\ DOMAIN view = Runners
      /\ target[r] # NoPath => pc[r] = "execute"
  BY DEF TypeOK, Undisturbed
<1>1. Serves(r)  BY DEF Undisturbed
<1>2. ASSUME UNCHANGED <<files, view, fresh>>
      PROVE  /\ Watched(r)' <=> Watched(r)
             /\ Reports(r)' = Reports(r) /\ Shown(files)' = Shown(files)
  <2>1. Watched(r)' <=> Watched(r)  BY <1>2 DEF Watched, Quarantined
  <2>2. Reports(r)' = Reports(r)  BY <1>2 DEF Reports
  <2>3. Shown(files)' = Shown(files)  BY <1>2 DEF Shown, Quarantined
  <2> QED  BY <2>1, <2>2, <2>3
<1>3. r \in Modes => r \notin Handlers  OBVIOUS
<1>4. CASE r \in Modes /\ (Start(r) \/ Execute(r))
  <2>1. pc[r] = "idle"  BY <1>4 DEF Start, Execute, Take, RunningIsWork
  <2>2. UNCHANGED <<files, view, fresh, stored>>  BY <1>4 DEF Start, Execute
  <2>3. pc'[r] \in {"inspect", "load"}  BY <1>0, <1>4 DEF Start, Execute, Take
  <2>4. (offered'[r] \/ pc'[r] = "load") => offered[r]
    BY <1>0, <1>4 DEF Start, Execute, Take
  <2> QED  BY <1>1, <1>2, <1>3, <1>4, <2>1, <2>2, <2>3, <2>4 DEF Serves, Knows
<1>5. CASE r \in Handlers /\ Direct(r)
  <2>1. pc[r] = "idle" /\ pc'[r] = "inspect" /\ UNCHANGED <<files, view, fresh>>
    BY <1>0, <1>5 DEF Direct
  <2> QED  BY <1>1, <1>2, <1>3, <1>5, <2>1 DEF Serves, Knows
<1>6. CASE Inspect(r)
  <2>1. SUFFICES ASSUME Watched(r)'  PROVE Knows(r)'
    BY <1>0, <1>6 DEF Serves, Inspect
  <2>2. PICK all \in BOOLEAN :
           LET found == {p \in DOMAIN files : all \/ ~Quarantined(p)} IN
           /\ seen' = [seen EXCEPT ![r] = [p \in found |-> files[p]]]
           /\ view' = [view EXCEPT ![r] = [p \in found |-> files[p]]]
    BY <1>6 DEF Inspect
  <2> DEFINE found == {p \in DOMAIN files : all \/ ~Quarantined(p)}
  <2>3. seen'[r] = [p \in found |-> files[p]] /\ view'[r] = [p \in found |-> files[p]]
    BY <1>0, <2>2
  <2>4. \A p \in found : ~Quarantined(p)  BY <2>1, <2>3 DEF Watched, Quarantined
  <2>5. found = {p \in DOMAIN files : ~Quarantined(p)}  BY <2>4
  <2> HIDE DEF found
  <2>6. view'[r] = Shown(files)  BY <2>3, <2>5 DEF Shown
  <2>7. /\ pc'[r] = "decide" /\ files' = files /\ UNCHANGED offered
        /\ r \in Modes => ~offered[r]
    BY <1>0, <1>6 DEF Inspect, Whole, ReplacesSnapshot
  <2>8. Shown(files)' = Shown(files)  BY <2>7 DEF Shown, Quarantined
  <2> QED  BY <2>3, <2>6, <2>7, <2>8 DEF Knows
<1>7. CASE Decide(r)
  <2>1. UNCHANGED <<files, view, fresh, offered>> /\ pc[r] = "decide"  BY <1>7 DEF Decide
  <2>2. pc'[r] = IF r \in Modes THEN "save" ELSE "load"  BY <1>0, <1>7 DEF Decide
  <2>3. SUFFICES ASSUME Knows(r)  PROVE Knows(r)'
    BY <1>1, <1>2, <2>1, <2>2 DEF Serves
  <2>4. PICK K \in KeeperSets(seen[r], files) :
           report' = [report EXCEPT ![r] = Report(seen[r], files, K)]
    BY <1>7 DEF Decide
  <2>5. report'[r] = Report(seen[r], files, K)  BY <1>0, <2>4
  <2>6. report'[r] \in Reports(r)  BY <2>1, <2>3, <2>5 DEF Knows, Reports
  <2>7. r \in Modes => ~offered[r]  BY <2>1 DEF Whole, ReplacesSnapshot
  <2> QED  BY <1>2, <1>3, <2>1, <2>2, <2>3, <2>6, <2>7 DEF Knows
<1>8. CASE Load(r)
  <2>1. UNCHANGED <<files, view, fresh>> /\ pc[r] = "load" /\ pc'[r] = "execute"
    BY <1>0, <1>8 DEF Load
  <2>2. SUFFICES ASSUME Knows(r)  PROVE Follows(r)'
    BY <1>1, <1>2, <2>1 DEF Serves
  <2> QED  BY <1>8, <2>1, <2>2, LoadFollows
<1>9. CASE Finish(r) \/ Fail(r)
  <2>1. Return(r) /\ UNCHANGED snapshot  BY <1>9 DEF Finish, Fail
  <2> QED  BY <1>0, <1>1, <2>1, ReturnKnows DEF Knows
<1>10. CASE r \in Modes /\ Save(r)
  <2>1. UNCHANGED <<files, view, fresh, report, offered>> /\ pc[r] = "save"
    BY <1>10 DEF Save
  <2>2. pc'[r] = "offer" /\ stored'[r] = {report[r]}  BY <1>0, <1>10 DEF Save
  <2>3. SUFFICES ASSUME Knows(r)  PROVE Knows(r)'
    BY <1>1, <1>2, <2>1, <2>2 DEF Serves
  <2> QED  BY <1>2, <2>1, <2>2, <2>3 DEF Knows
<1>11. CASE r \in Modes /\ SaveFails(r)
  <2>1. Return(r) /\ offered' = offered /\ pc[r] = "save"  BY <1>11 DEF SaveFails
  <2>2. ~offered[r]  BY <1>11, <2>1 DEF Whole, ReplacesSnapshot
  <2> QED  BY <1>0, <1>1, <2>1, <2>2, ReturnKnows
<1>12. CASE r \in Modes /\ Offer(r)
  <2>1. Return(r) /\ UNCHANGED stored /\ pc[r] = "offer"  BY <1>12 DEF Offer
  <2> QED  BY <1>0, <1>1, <1>12, <2>1, ReturnKnows DEF Knows
<1>13. CASE r \in Modes /\ Cancelled(r)
  <2>1. Return(r) /\ UNCHANGED snapshot  BY <1>13 DEF Cancelled
  <2> QED  BY <1>0, <1>1, <2>1, ReturnKnows DEF Knows
<1>14. ASSUME NEW p \in NextItems(r), Test(r, p), pc[r] = "execute"  PROVE Serves(r)'
  <2>1. UNCHANGED <<files, view, fresh, pc>> /\ target[r] = NoPath  BY <1>14 DEF Test
  <2>2. SUFFICES ASSUME Follows(r)  PROVE Follows(r)'
    BY <1>1, <1>2, <1>14, <2>1 DEF Serves
  <2>3. CASE report[r].plan[p] \in DOMAIN files
    <3>1. Without(r, p) /\ UNCHANGED target  BY <1>14, <2>3 DEF Test
    <3> QED  BY <2>1, <2>2, <3>1, SkipFollows
  <2>4. CASE report[r].plan[p] \notin DOMAIN files
    <3>1. target'[r] = p /\ UNCHANGED report  BY <1>0, <1>14, <2>4 DEF Test
    <3> QED
      BY <2>1, <2>2, <2>4, <3>1
      DEF Follows, Stays, Holds, Destination, Quarantined, Instead, Misnamed
  <2> QED  BY <2>3, <2>4
<1>15. CASE Rename(r)
  <2>1. view'[r] = view[r] /\ UNCHANGED <<fresh, pc>>  BY <1>15 DEF Rename, Disturb
  <2>2. pc[r] = "execute"  BY <1>0, <1>15 DEF Rename
  <2>3. Watched(r)' => Watched(r)  BY <2>1 DEF Watched, Quarantined
  <2> QED  BY <1>1, <1>15, <2>1, <2>2, <2>3, RenameFollows DEF Serves
<1>16. CASE RenameFails(r)
  <2>1. UNCHANGED <<files, view, fresh, pc>> /\ Without(r, target[r])
    BY <1>16 DEF RenameFails
  <2>2. pc[r] = "execute" /\ target'[r] = NoPath  BY <1>0, <1>16 DEF RenameFails
  <2> QED  BY <1>1, <1>2, <2>1, <2>2, SkipFollows DEF Serves
<1> QED
  BY <1>4, <1>5, <1>6, <1>7, <1>8, <1>9, <1>10, <1>11, <1>12, <1>13, <1>14, <1>15, <1>16
  DEF OwnStep, RunStep

\* The types of the histories.
LEMMA HistoryStep ==
    ASSUME TypeOK, Undisturbed, [Next]_vars
    PROVE  /\ DOMAIN view' = Runners /\ \A r \in Runners : IsLibrary(view'[r])
           /\ fresh' \subseteq Runners
<1> DEFINE Goal == /\ DOMAIN view' = Runners /\ \A r \in Runners : IsLibrary(view'[r])
                   /\ fresh' \subseteq Runners
<1>0. /\ DOMAIN view = Runners /\ \A r \in Runners : IsLibrary(view[r])
      /\ fresh \subseteq Runners
  BY DEF Undisturbed
<1>1. ASSUME UNCHANGED view, fresh' \subseteq fresh  PROVE Goal
  BY <1>0, <1>1 DEF IsLibrary
<1>2. ASSUME NEW fs, NEW q, Disturb(fs, q)  PROVE Goal
  <2>1. IsLibrary(Empty)  BY DEF IsLibrary, Empty
  <2>2. /\ view' = [x \in Runners |-> IF x = q THEN view[x] ELSE Empty]
        /\ fresh' = fresh
    BY <1>2 DEF Disturb
  <2> HIDE DEF Runners
  <2>3. DOMAIN view' = Runners /\ \A x \in Runners : view'[x] \in {view[x], Empty}
    BY <2>2
  <2> QED  BY <1>0, <2>1, <2>2, <2>3
<1>3. ASSUME NEW m \in Modes, Start(m) \/ Execute(m) \/ AskStop(m) \/ SetStop(m)  PROVE Goal
  BY <1>1, <1>3 DEF Start, Execute, AskStop, SetStop
<1>4. ASSUME NEW h \in Handlers, Direct(h)  PROVE Goal  BY <1>1, <1>4 DEF Direct
<1>5. ASSUME NEW r \in Runners, RunStep(r)  PROVE Goal
  <2>1. CASE Inspect(r)
    <3>1. PICK all \in BOOLEAN :
             view' = [view EXCEPT ![r] =
                        [p \in {p \in DOMAIN files : all \/ ~Quarantined(p)} |-> files[p]]]
      BY <2>1 DEF Inspect
    <3> DEFINE lib == [p \in {p \in DOMAIN files : all \/ ~Quarantined(p)} |-> files[p]]
    <3>2. IsLibrary(lib)  BY DEF TypeOK, IsLibrary
    <3>3. view' = [view EXCEPT ![r] = lib]  BY <3>1
    <3> HIDE DEF lib, Runners
    <3>4. DOMAIN view' = Runners /\ \A x \in Runners : view'[x] \in {view[x], lib}
      BY <1>0, <3>3
    <3>5. fresh' \subseteq Runners  BY <1>0, <2>1 DEF Inspect
    <3> QED  BY <1>0, <3>2, <3>4, <3>5
  <2>2. CASE Rename(r)  BY <1>2, <2>2 DEF Rename
  <2>3. ASSUME ~Inspect(r), ~Rename(r)  PROVE Goal
    <3>1. UNCHANGED view /\ fresh' \subseteq fresh
      BY <1>5, <2>3 DEF RunStep, Decide, Load, Finish, Fail, Test, RenameFails,
                        Save, SaveFails, Offer, Cancelled, Return
    <3> QED  BY <1>1, <3>1
  <2> QED  BY <2>1, <2>2, <2>3
<1>6. ASSUME NEW j \in Jobs, Submit(j) \/ GiveUp(j)  PROVE Goal
  BY <1>1, <1>6 DEF Submit, GiveUp
<1>7. ASSUME NEW j \in Jobs, Publish(j)  PROVE Goal
  <2>1. \E fs : Disturb(fs, NoRunner)  BY <1>7 DEF Publish
  <2> QED  BY <1>2, <2>1
<1>8. ASSUME BeginDelete \/ \E p \in clean : Delete(p)  PROVE Goal
  BY <1>1, <1>2, <1>8 DEF BeginDelete, Delete
<1>9. ASSUME UNCHANGED vars  PROVE Goal  BY <1>1, <1>9 DEF vars
<1> HIDE DEF Goal
<1>10. Goal  BY <1>3, <1>4, <1>5, <1>6, <1>7, <1>8, <1>9 DEF Next
<1> QED  BY <1>10 DEF Goal

\* Every step keeps what an undisturbed runner relies on.
LEMMA UndisturbedStep ==
    TypeOK /\ RunningIsWork /\ Whole /\ Undisturbed /\ [Next]_vars => Undisturbed'
<1> SUFFICES ASSUME TypeOK, RunningIsWork, Whole, Undisturbed, [Next]_vars
             PROVE  Undisturbed'
  OBVIOUS
<1>1. ASSUME NEW r \in Runners  PROVE Serves(r)'
  <2>1. CASE OwnStep(r)  BY <2>1, ServesStep
  <2>2. CASE ~OwnStep(r)
    <3>1. DOMAIN view = Runners /\ Serves(r)  BY DEF Undisturbed
    <3>2. CASE view'[r] = Empty
      <4>1. DOMAIN view'[r] = {}  BY <3>2 DEF Empty
      <4> QED  BY <4>1 DEF Serves, Watched
    <3>3. CASE UNCHANGED <<files, Mine(r)>> /\ (r \in fresh' => r \in fresh)
      BY <3>1, <3>3, UnwatchedStep
    <3> QED  BY <2>2, <3>1, <3>2, <3>3, OthersStep
  <2> QED  BY <2>1, <2>2
<1> QED  BY <1>1, HistoryStep DEF Undisturbed

\* A volume that a watched runner saw is active.
LEMMA WatchedStays ==
    ASSUME Undisturbed, NEW r \in fresh, \A p \in DOMAIN view[r] : ~Quarantined(p)
    PROVE  ShownStays(r)
<1> SUFFICES ASSUME NEW p \in DOMAIN view[r], p.name \in Usable, ~Misnamed(view[r], p)
             PROVE  StandsFor(files, p, view[r][p])
  BY DEF ShownStays
<1>1. r \in Runners /\ IsLibrary(view[r]) /\ Watched(r) /\ Serves(r)
  BY DEF Undisturbed, Watched
<1>2. CASE pc[r] = "execute"
  <2>1. Follows(r) /\ p \in Considered(view[r])
    BY <1>1, <1>2 DEF Serves, Considered
  <2>2. PICK s \in DOMAIN view[r] : Stays(r, s) /\ Instead(view[r], s, p)
    BY <2>1 DEF Follows
  <2>3. s \in Path /\ ~Quarantined(s)  BY <1>1 DEF IsLibrary
  <2>4. ~Quarantined(Home(s)) /\ Home(s).name = s.name
    BY <2>3, FreeIsQuarantined DEF Home, Path
  <2>5. PICK q \in {s, Home(s)} : Holds(r, q, s)  BY <2>2 DEF Stays
  <2>6. ~Quarantined(q) /\ q.name = s.name  BY <2>3, <2>4
  <2> QED  BY <2>2, <2>5, <2>6 DEF Holds, Instead, StandsFor
<1>3. CASE pc[r] # "execute"
  <2>1. view[r] = Shown(files)  BY <1>1, <1>3 DEF Serves, Knows
  <2>2. p \in DOMAIN files /\ files[p] = view[r][p]  BY <2>1 DEF Shown
  <2> QED  BY <2>2 DEF StandsFor
<1> QED  BY <1>2, <1>3

-----------------------------------------------------------------------------
(* The theorems.                                                              *)

\* Every action keeps the invariant.
LEMMA NextInv == IInv /\ [Next]_vars => IInv'
BY TypeStep, RunningStep, WholeStep, CleansStep, LateStep DEF IInv

\* The invariant holds in every state of every behaviour.
THEOREM Invariance == Spec => []IInv
BY InitInv, NextInv, PTL DEF Spec

\* Type correctness: a runner has a destination in hand only while it executes a
\* plan that holds it.
THEOREM TypeCorrect == Spec => []TypeOK
BY Invariance, PTL DEF IInv

\* A mode is marked as running exactly while a goroutine of it exists.
THEOREM RunningCorrect == Spec => []RunningIsWork
BY Invariance, PTL DEF IInv

\* Only whole snapshots are offered and loaded.
THEOREM OffersCorrect == Spec => []OffersWholeReport
<1>1. IInv => OffersWholeReport
  BY DEF IInv, Whole, OffersWholeReport
<1> QED  BY Invariance, <1>1, PTL

\* What an undisturbed runner relies on holds at first because nothing was seen.
LEMMA UndisturbedAlways == Spec => []Undisturbed
<1>1. Init => Undisturbed
  <2> SUFFICES ASSUME Init  PROVE Undisturbed
    OBVIOUS
  <2>1. \A r \in Runners : view[r] = Empty  BY DEF Init
  <2>2. IsLibrary(Empty) /\ DOMAIN Empty = {}  BY DEF IsLibrary, Empty
  <2>3. \A r \in Runners : Serves(r)  BY <2>1, <2>2 DEF Serves, Watched
  <2> QED  BY <2>1, <2>2, <2>3 DEF Undisturbed, Init
<1>2. IInv /\ Undisturbed /\ [Next]_vars => Undisturbed'
  BY UndisturbedStep DEF IInv
<1> QED  BY Invariance, <1>1, <1>2, PTL DEF Spec

\* From its scan to the end of its execution, also one that is stopped or fails, a
\* runner that nobody disturbs leaves every volume it saw with an active copy, for
\* any library, any ties and any selections.
THEOREM VolumesStay == Spec => []VolumeStaysActive
<1>1. Undisturbed => VolumeStaysActive
  BY WatchedStays DEF VolumeStaysActive
<1> QED  BY UndisturbedAlways, <1>1, PTL

\* No copy goes without a deletion, an overtaken rename or a full quarantine.
THEOREM CopiesKept == Spec => NoCopyLost
<1>1. IInv /\ [Next]_vars =>
        [\A f \in Copies(files) \ Copies(files') :
            \/ Overtaken(f) \/ Exhausted(f)
            \/ \E p \in clean \ clean' : Quarantined(p) /\ files[p] = f]_vars
  BY CopyStep DEF IInv
<1> QED  BY Invariance, <1>1, PTL DEF Spec, NoCopyLost
=============================================================================
