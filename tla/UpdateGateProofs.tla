--------------------------- MODULE UpdateGateProofs ---------------------------
(* The updater keeps its promises behind the update handler, beside the jobs  *)
(* and through the restarts that take both away.                              *)
EXTENDS UpdateGate, UpdaterProofs

\* Every step of the composed system is a step of the updater, or none of its own:
\* the handler only delays Start, and jobs do not touch the updater.
LEMMA GateStep == [GateNext]_gate => [Next]_vars
<1> SUFFICES ASSUME [GateNext]_gate  PROVE [Next]_vars
  OBVIOUS
<1>1. ASSUME NEW r \in Requests, Ask(r) \/ RequestStart(r)  PROVE [Next]_vars
  BY <1>1 DEF Ask, RequestStart, Next
<1>2. ASSUME NEW c \in Checkers, CheckBegin(c) \/ CheckStep(c)  PROVE Next
  BY <1>2 DEF Next
<1>3. ASSUME NEW r \in Runs, RunStep(r)  PROVE Next
  BY <1>3 DEF Next
<1>4. ASSUME NEW i \in installers, Install(i) \/ InstallFail(i)  PROVE Next
  BY <1>4 DEF Next
<1>5. CASE Restart  BY <1>5 DEF Next
<1>6. CASE UNCHANGED vars  BY <1>6
<1>7. CASE UNCHANGED gate  BY <1>6, <1>7 DEF gate
<1> QED  BY <1>1, <1>2, <1>3, <1>4, <1>5, <1>6, <1>7 DEF GateNext

\* The composed system implements the updater (installUpdate, update.go).
THEOREM GateImplementsUpdater == GateSpec => Spec
<1>1. GateInit => Init  BY DEF GateInit
<1> QED  BY <1>1, GateStep, PTL DEF GateSpec, Spec

\* So what was proved of the updater holds beside the jobs too: compared packages
\* only, one run, a busy status that is work, upgrades only.
THEOREM GateKeepsPromises ==
    GateSpec => [](VerifiedOnly /\ OneRun /\ BusyMeansWork) /\ LaunchUpgrades
BY GateImplementsUpdater, OnlyVerified, OneRunAlways, BusyIsWork, OnlyUpgrades, PTL
=============================================================================
