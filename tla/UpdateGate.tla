------------------------------ MODULE UpdateGate ------------------------------
(***************************************************************************)
(* installUpdate of internal/web/update.go: the handler that asks the job  *)
(* manager for a summary and then starts the updater.  The updater is      *)
(* Updater; the job manager is what JobLifecycle promises of it.  The      *)
(* package script stops the running service before it replaces it.         *)
(***************************************************************************)
EXTENDS Updater

CONSTANTS Jobs, Workers, NoJob,
          Requests   \* handlers of POST /api/update/install

VARIABLES state, slot,  \* the job manager
          request       \* has a handler seen a quiet summary?

Manager == INSTANCE JobLifecycle

jobs == <<state, slot>>
gate == <<vars, jobs, request>>

GateInit == Init /\ Manager!Init /\ request = [r \in Requests |-> "none"]

\* Summary().Running = 0 and Summary().Queued = 0
Quiet == \A j \in Jobs : state[j] \notin {"queued", "running"}

Ask(r) ==
    /\ request[r] = "none"
    /\ Quiet
    /\ request' = [request EXCEPT ![r] = "quiet"]
    /\ UNCHANGED <<vars, jobs>>

RequestStart(r) ==
    /\ request[r] = "quiet"
    /\ Start \/ Refuse
    /\ request' = [request EXCEPT ![r] = "none"]
    /\ UNCHANGED jobs

\* Job and handler state lives in memory only: after a restart an archive whose
\* job had not ended can be submitted anew.
Forget ==
    /\ state' = [j \in Jobs |-> IF state[j] \in {"queued", "running"} THEN "new"
                                ELSE state[j]]
    /\ slot' = [w \in Workers |-> NoJob]
    /\ request' = [r \in Requests |-> "none"]

GateNext ==
    \/ \E r \in Requests : Ask(r) \/ RequestStart(r)
    \/ Manager!Next /\ UNCHANGED <<vars, request>>
    \/ /\ \/ \E c \in Checkers : CheckBegin(c) \/ CheckStep(c)
          \/ \E r \in Runs : RunStep(r)
          \/ \E i \in installers : InstallFail(i)
       /\ UNCHANGED <<jobs, request>>
    \/ /\ Restart \/ \E i \in installers : Install(i)
       /\ Forget

GateSpec == GateInit /\ [][GateNext]_gate

\* README.md:63: an update is refused while archive jobs run or wait, "only when
\* the following safety conditions hold is the update carried out" (README.md:56).
\* No job is queued or running while an installer is about to stop the service.
InstallWhileQuiet == installers # {} => Quiet
=============================================================================
