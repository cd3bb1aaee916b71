---------------------------- MODULE JobLifecycle ----------------------------
(***************************************************************************)
(* What internal/jobs promises to its callers, with the channel, the lock  *)
(* and the goroutines left out: a job is accepted once, is started at most *)
(* once and by one worker slot, and ends in one final state.  A job may be *)
(* withdrawn before it starts, and a job that never started may be turned  *)
(* away (the queue was full).  JobQueue implements this specification.     *)
(***************************************************************************)

CONSTANTS Jobs,     \* job identifiers
          Workers,  \* worker slots: at most one job runs in each
          NoJob     \* not a job

VARIABLES state,    \* the life of each job
          slot      \* the job that runs in each slot

vars == <<state, slot>>

Final == {"succeeded", "failed", "cancelled"}
States == {"new", "queued", "withdrawn", "running", "rejected"} \cup Final

Init == /\ state = [j \in Jobs |-> "new"]
        /\ slot = [w \in Workers |-> NoJob]

\* Submit took the job.
Accept(j) == /\ state[j] = "new"
             /\ state' = [state EXCEPT ![j] = "queued"]
             /\ UNCHANGED slot

\* Submit found no room: the job disappears without ever having run.
Reject(j) == /\ state[j] \in {"queued", "withdrawn"}
             /\ state' = [state EXCEPT ![j] = "rejected"]
             /\ UNCHANGED slot

\* Cancel before the job started.
Withdraw(j) == /\ state[j] = "queued"
               /\ state' = [state EXCEPT ![j] = "withdrawn"]
               /\ UNCHANGED slot

Start(w, j) == /\ slot[w] = NoJob
               /\ state[j] = "queued"
               /\ state' = [state EXCEPT ![j] = "running"]
               /\ slot' = [slot EXCEPT ![w] = j]

Finish(w, j) == /\ slot[w] = j
                /\ state[j] = "running"
                /\ \E f \in Final : state' = [state EXCEPT ![j] = f]
                /\ slot' = [slot EXCEPT ![w] = NoJob]

Next == \E j \in Jobs : \/ Accept(j)
                        \/ Reject(j)
                        \/ Withdraw(j)
                        \/ \E w \in Workers : Start(w, j) \/ Finish(w, j)

Spec == Init /\ [][Next]_vars
=============================================================================
