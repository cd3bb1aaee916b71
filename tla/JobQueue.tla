------------------------------ MODULE JobQueue ------------------------------
(***************************************************************************)
(* The job manager of internal/jobs/manager.go: a map of job records under *)
(* one mutex, a buffered channel of job ids, one to three worker           *)
(* goroutines, and callers (HTTP handlers) that submit and cancel.  Each   *)
(* action is one critical section, one channel operation or one return of  *)
(* the processor; everything between them may be interleaved.  The archive *)
(* processor is a step that ends with one of the errors it can return.     *)
(***************************************************************************)
EXTENDS Naturals, Sequences

CONSTANTS Jobs,        \* job identifiers; each is issued once (m.seq)
          Workers,     \* worker goroutines
          Submitters,  \* concurrent callers of Submit
          Capacity,    \* the capacity of the channel m.queue
          NoJob        \* not a job

ASSUME JobQueueAssumption == /\ NoJob \notin Jobs
                             /\ Capacity \in Nat \ {0}

VARIABLES jobs,        \* m.jobs: the State of each record, or "absent"
          progress,    \* Job.Progress: 0, in between, or 1
          started,     \* the jobs whose StartedAt is set
          issued,      \* the ids m.seq has given out
          cancel,      \* the domain of m.cancel
          ctxDone,     \* the registered contexts Cancel has cancelled
          queue,       \* the channel m.queue
          submitting,  \* the job a caller has inserted and not yet sent
          pc,          \* where each worker is
          cur,         \* the item each worker has received
          err,         \* what the processor returned to each worker
          rootDone,    \* m.rootCtx is cancelled
          closed       \* Close has returned and the process exits

vars == <<jobs, progress, started, issued, cancel, ctxDone, queue, submitting,
          pc, cur, err, rootDone, closed>>

Terminal == {"succeeded", "failed", "cancelled"}
Errors == {"nil", "error", "canceled"}

TypeOK ==
    /\ jobs \in [Jobs -> {"absent", "queued", "running"} \cup Terminal]
    /\ progress \in [Jobs -> {"none", "some", "full"}]
    /\ started \in SUBSET Jobs
    /\ issued \in SUBSET Jobs
    /\ cancel \in SUBSET Jobs
    /\ ctxDone \in SUBSET Jobs
    /\ queue \in Seq(Jobs)
    /\ Len(queue) <= Capacity
    /\ submitting \in [Submitters -> Jobs \cup {NoJob}]
    /\ pc \in [Workers ->
               {"select", "received", "processing", "returned", "exited"}]
    /\ cur \in [Workers -> Jobs \cup {NoJob}]
    /\ err \in [Workers -> Errors]
    /\ rootDone \in BOOLEAN
    /\ closed \in BOOLEAN

Init ==
    /\ jobs = [j \in Jobs |-> "absent"]
    /\ progress = [j \in Jobs |-> "none"]
    /\ started = {} /\ issued = {} /\ cancel = {} /\ ctxDone = {}
    /\ queue = <<>>
    /\ submitting = [s \in Submitters |-> NoJob]
    /\ pc = [w \in Workers |-> "select"]
    /\ cur = [w \in Workers |-> NoJob]
    /\ err = [w \in Workers |-> "nil"]
    /\ rootDone = FALSE /\ closed = FALSE

-----------------------------------------------------------------------------
(* Submit: the record goes into the map under the lock; the channel send   *)
(* comes after the unlock, so the job is visible before it is queued.      *)

SubmitInsert(s) ==
    /\ ~closed
    /\ submitting[s] = NoJob
    /\ \E j \in Jobs \ issued :
          /\ issued' = issued \cup {j}
          /\ jobs' = [jobs EXCEPT ![j] = "queued"]
          /\ submitting' = [submitting EXCEPT ![s] = j]
    /\ UNCHANGED <<progress, started, cancel, ctxDone, queue, pc, cur, err,
                   rootDone, closed>>

\* Variant: the caller keeps the job after the send and sends it again.
SubmitSendTwice(s) ==
    /\ submitting[s] # NoJob
    /\ Len(queue) < Capacity
    /\ queue' = Append(queue, submitting[s])
    /\ UNCHANGED <<jobs, progress, started, issued, cancel, ctxDone,
                   submitting, pc, cur, err, rootDone, closed>>

\* Variant: the bound of the channel is off by one.
SubmitSendOffByOne(s) ==
    /\ submitting[s] # NoJob
    /\ Len(queue) <= Capacity
    /\ queue' = Append(queue, submitting[s])
    /\ submitting' = [submitting EXCEPT ![s] = NoJob]
    /\ UNCHANGED <<jobs, progress, started, issued, cancel, ctxDone, pc, cur,
                   err, rootDone, closed>>

SubmitSend(s) ==
    /\ submitting[s] # NoJob
    /\ Len(queue) < Capacity
    /\ queue' = Append(queue, submitting[s])
    /\ submitting' = [submitting EXCEPT ![s] = NoJob]
    /\ UNCHANGED <<jobs, progress, started, issued, cancel, ctxDone, pc, cur,
                   err, rootDone, closed>>

\* Variant: the record of a job that found no room stays in the map.
SubmitFullKeeps(s) ==
    /\ submitting[s] # NoJob
    /\ Len(queue) = Capacity
    /\ submitting' = [submitting EXCEPT ![s] = NoJob]
    /\ UNCHANGED <<jobs, progress, started, issued, cancel, ctxDone, queue, pc,
                   cur, err, rootDone, closed>>

\* The select's default case: "job queue is full".
SubmitFull(s) ==
    /\ submitting[s] # NoJob
    /\ Len(queue) = Capacity
    /\ jobs' = [jobs EXCEPT ![submitting[s]] = "absent"]
    /\ submitting' = [submitting EXCEPT ![s] = NoJob]
    /\ UNCHANGED <<progress, started, issued, cancel, ctxDone, queue, pc, cur,
                   err, rootDone, closed>>

\* Variant: a running job is shown as cancelled at once.
CancelAtOnce(j) ==
    /\ ~closed
    /\ jobs[j] \in {"queued", "running"}
    /\ ctxDone' = IF j \in cancel THEN ctxDone \cup {j} ELSE ctxDone
    /\ jobs' = [jobs EXCEPT ![j] = "cancelled"]
    /\ UNCHANGED <<progress, started, issued, cancel, queue, submitting, pc,
                   cur, err, rootDone, closed>>

\* Cancel when it answers true; when it answers false it changes nothing.
Cancel(j) ==
    /\ ~closed
    /\ jobs[j] \in {"queued", "running"}
    /\ ctxDone' = IF j \in cancel THEN ctxDone \cup {j} ELSE ctxDone
    /\ jobs' = [jobs EXCEPT ![j] = IF @ = "queued" THEN "cancelled" ELSE @]
    /\ UNCHANGED <<progress, started, issued, cancel, queue, submitting, pc,
                   cur, err, rootDone, closed>>

-----------------------------------------------------------------------------
(* The worker loop.  Its select may take either ready case, so an item can *)
(* still be received after rootCtx is done.                                *)

Exit(w) ==
    /\ pc[w] = "select"
    /\ rootDone
    /\ pc' = [pc EXCEPT ![w] = "exited"]
    /\ UNCHANGED <<jobs, progress, started, issued, cancel, ctxDone, queue,
                   submitting, cur, err, rootDone, closed>>

Receive(w) ==
    /\ pc[w] = "select"
    /\ queue # <<>>
    /\ cur' = [cur EXCEPT ![w] = Head(queue)]
    /\ queue' = Tail(queue)
    /\ pc' = [pc EXCEPT ![w] = "received"]
    /\ UNCHANGED <<jobs, progress, started, issued, cancel, ctxDone,
                   submitting, err, rootDone, closed>>

\* The head of run: a job cancelled while it waited is dropped ...
Drop(w) ==
    /\ pc[w] = "received"
    /\ jobs[cur[w]] \in {"absent", "cancelled"}
    /\ pc' = [pc EXCEPT ![w] = "select"]
    /\ cur' = [cur EXCEPT ![w] = NoJob]
    /\ UNCHANGED <<jobs, progress, started, issued, cancel, ctxDone, queue,
                   submitting, err, rootDone, closed>>

\* Variant: the state is not looked at again after the item was received.
BeginUnchecked(w) ==
    /\ pc[w] = "received"
    /\ cancel' = cancel \cup {cur[w]}
    /\ jobs' = [jobs EXCEPT ![cur[w]] = "running"]
    /\ started' = started \cup {cur[w]}
    /\ pc' = [pc EXCEPT ![w] = "processing"]
    /\ UNCHANGED <<progress, issued, ctxDone, queue, submitting, cur, err,
                   rootDone, closed>>

\* ... and any other job starts, under the lock, with a context of its own.
\* beginOverwrite does nothing for the tasks the program submits (they all
\* have ReconcileOutputs set), so the processor is called next.
Begin(w) ==
    /\ pc[w] = "received"
    /\ jobs[cur[w]] \notin {"absent", "cancelled"}
    /\ cancel' = cancel \cup {cur[w]}
    /\ jobs' = [jobs EXCEPT ![cur[w]] = "running"]
    /\ started' = started \cup {cur[w]}
    /\ pc' = [pc EXCEPT ![w] = "processing"]
    /\ UNCHANGED <<progress, issued, ctxDone, queue, submitting, cur, err,
                   rootDone, closed>>

\* The callback run gives to the processor.
Update(w) ==
    /\ pc[w] = "processing"
    /\ jobs[cur[w]] = "running"
    /\ \E p \in {"some", "full"} : progress' = [progress EXCEPT ![cur[w]] = p]
    /\ UNCHANGED <<jobs, started, issued, cancel, ctxDone, queue, submitting,
                   pc, cur, err, rootDone, closed>>

\* context.Canceled is returned only when the job's context is done, and a
\* processor whose context is done may still end in success or another error.
Return(w) ==
    /\ pc[w] = "processing"
    /\ \E e \in Errors :
          /\ e = "canceled" => (cur[w] \in ctxDone \/ rootDone)
          /\ err' = [err EXCEPT ![w] = e]
    /\ pc' = [pc EXCEPT ![w] = "returned"]
    /\ UNCHANGED <<jobs, progress, started, issued, cancel, ctxDone, queue,
                   submitting, cur, rootDone, closed>>

\* Variant: any error that is not success is taken for a cancellation.
FinalStateLoose(e) == IF e = "nil" THEN "succeeded" ELSE "cancelled"

FinalState(e) == CASE e = "canceled" -> "cancelled"
                   [] e = "error"    -> "failed"
                   [] e = "nil"      -> "succeeded"

\* Variant: the cancel function stays registered.
FinishKeepsCancel(w) ==
    /\ pc[w] = "returned"
    /\ jobs' = [jobs EXCEPT ![cur[w]] = FinalState(err[w])]
    /\ pc' = [pc EXCEPT ![w] = "select"]
    /\ cur' = [cur EXCEPT ![w] = NoJob]
    /\ err' = [err EXCEPT ![w] = "nil"]
    /\ UNCHANGED <<progress, started, issued, cancel, ctxDone, queue,
                   submitting, rootDone, closed>>

\* The last critical section of run.
Finish(w) ==
    LET j == cur[w] IN
    /\ pc[w] = "returned"
    /\ cancel' = cancel \ {j}
    /\ ctxDone' = ctxDone \ {j}
    /\ jobs' = [jobs EXCEPT ![j] = IF @ = "absent" THEN @
                                   ELSE FinalState(err[w])]
    /\ progress' = [progress EXCEPT ![j] =
                       IF jobs[j] # "absent" /\ err[w] = "nil" THEN "full" ELSE @]
    /\ pc' = [pc EXCEPT ![w] = "select"]
    /\ cur' = [cur EXCEPT ![w] = NoJob]
    /\ err' = [err EXCEPT ![w] = "nil"]
    /\ UNCHANGED <<started, issued, queue, submitting, rootDone, closed>>

-----------------------------------------------------------------------------
(* Close: cancel the root context, then wait for every worker.  main calls *)
(* it last; the HTTP server is given ten seconds to drain first, so a slow *)
(* handler may still be inside Submit.                                     *)

CloseStop ==
    /\ ~rootDone
    /\ rootDone' = TRUE
    /\ UNCHANGED <<jobs, progress, started, issued, cancel, ctxDone, queue,
                   submitting, pc, cur, err, closed>>

\* Variant: Close also waits for the channel to be empty.
CloseReturnDrained ==
    /\ rootDone /\ ~closed
    /\ queue = <<>>
    /\ \A w \in Workers : pc[w] = "exited"
    /\ closed' = TRUE
    /\ UNCHANGED <<jobs, progress, started, issued, cancel, ctxDone, queue,
                   submitting, pc, cur, err, rootDone>>

CloseReturn ==
    /\ rootDone /\ ~closed
    /\ \A w \in Workers : pc[w] = "exited"
    /\ closed' = TRUE
    /\ UNCHANGED <<jobs, progress, started, issued, cancel, ctxDone, queue,
                   submitting, pc, cur, err, rootDone>>

\* The process is gone.
Exited == closed /\ UNCHANGED vars

WorkerStep(w) == Exit(w) \/ Receive(w) \/ Drop(w) \/ Begin(w) \/ Return(w)
                 \/ Finish(w)

Next == \/ \E s \in Submitters : SubmitInsert(s) \/ SubmitSend(s) \/ SubmitFull(s)
        \/ \E j \in Jobs : Cancel(j)
        \/ \E w \in Workers : WorkerStep(w) \/ Update(w)
        \/ CloseStop \/ CloseReturn \/ Exited

\* The Go scheduler runs every goroutine that can run; a handler inside
\* Submit finishes; a processor call returns.  Nobody has to submit, cancel or
\* close anything.
Fairness == /\ \A w \in Workers : WF_vars(WorkerStep(w))
            /\ \A s \in Submitters : WF_vars(SubmitSend(s) \/ SubmitFull(s))
            /\ WF_vars(CloseReturn)

Spec == Init /\ [][Next]_vars
FairSpec == Spec /\ Fairness
-----------------------------------------------------------------------------
(* Properties.                                                             *)

InChannel(j) == \E i \in 1..Len(queue) : queue[i] = j
Executing(w) == pc[w] \in {"processing", "returned"}
Settled(j) == jobs[j] \in Terminal

\* A job is in the hands of one actor only - a caller between its insert and
\* its send, the channel, or one worker - however Submit, Cancel, the workers
\* and Close interleave, so no archive is ever processed by two workers.
OneHolder ==
    /\ \A s, t \in Submitters :
          submitting[s] # NoJob /\ submitting[s] = submitting[t] => s = t
    /\ \A v, w \in Workers : cur[v] # NoJob /\ cur[v] = cur[w] => v = w
    /\ \A i, k \in 1..Len(queue) : queue[i] = queue[k] => i = k
    /\ \A s \in Submitters : submitting[s] # NoJob => ~InChannel(submitting[s])
    /\ \A w \in Workers : cur[w] # NoJob => ~InChannel(cur[w])
    /\ \A s \in Submitters, w \in Workers :
          submitting[s] # NoJob => submitting[s] # cur[w]

\* A job shown as queued is still on its way to a worker: no failed send, no
\* cancellation and no dropped item leaves a queued record that nothing holds.
NoJobStranded ==
    \A j \in Jobs : jobs[j] = "queued" =>
        \/ \E s \in Submitters : submitting[s] = j
        \/ InChannel(j)
        \/ \E w \in Workers : pc[w] = "received" /\ cur[w] = j

\* A job shown as running has a cancel function in m.cancel and a worker that
\* executes it, and nothing else has: a Cancel that answers true for a running
\* job always reaches the context of that very run.
RunningIsCancellable ==
    \A j \in Jobs :
        /\ jobs[j] = "running" <=> j \in cancel
        /\ jobs[j] = "running" <=> \E w \in Workers : Executing(w) /\ cur[w] = j

\* The answer of Summary that the update, reconcile and quarantine handlers
\* rely on: when no job is queued or running, no worker is inside the
\* processor and none enters it before another Submit.
Quiet == \A j \in Jobs : jobs[j] \notin {"queued", "running"}
QuietMeansIdle ==
    Quiet => /\ \A w \in Workers : ~Executing(w)
             /\ \A j \in Jobs : jobs[j] # "absent" /\
                   (\/ InChannel(j)
                    \/ \E w \in Workers : cur[w] = j
                    \/ \E s \in Submitters : submitting[s] = j)
                   => jobs[j] = "cancelled"

\* The record of a settled job never changes again, state and progress: a late
\* Update, a second worker or a Cancel cannot reopen it.  The one exception
\* is a job cancelled between the insert and the send of its own Submit,
\* which a full channel removes from the map.
SettledStep(j) ==
    Settled(j) =>
        \/ jobs'[j] = jobs[j] /\ progress'[j] = progress[j]
        \/ /\ jobs[j] = "cancelled" /\ jobs'[j] = "absent"
           /\ \E s \in Submitters : submitting[s] = j
SettledStays == [][\A j \in Jobs : SettledStep(j)]_vars

\* A run ends cancelled only if its own context was cancelled or Close began:
\* a Cancel for one job never ends another one.
RequestedStep(j) ==
    jobs[j] = "running" /\ jobs'[j] = "cancelled" => j \in ctxDone \/ rootDone
CancelledOnRequest == [][\A j \in Jobs : RequestedStep(j)]_vars

\* Every job Submit shows is settled or turned away, unless the manager is
\* closed first: workers keep draining the channel past cancelled items.
QueuedSettles ==
    \A j \in Jobs : jobs[j] = "queued" ~>
        (Settled(j) \/ jobs[j] = "absent" \/ rootDone)

\* Close returns: no worker stays in the select or in a run, even with items
\* left in the channel.
CloseCompletes == rootDone ~> closed

\* The jobs of the manager live the life JobLifecycle describes.
LifeOf(j) ==
    IF jobs[j] = "absent" THEN IF j \in issued THEN "rejected" ELSE "new"
    ELSE IF jobs[j] = "cancelled" /\ j \notin started THEN "withdrawn"
    ELSE jobs[j]

Lifecycle == INSTANCE JobLifecycle
                 WITH state <- [j \in Jobs |-> LifeOf(j)],
                      slot <- [w \in Workers |->
                                  IF Executing(w) THEN cur[w] ELSE NoJob]
LifecycleSpec == Lifecycle!Spec
=============================================================================
