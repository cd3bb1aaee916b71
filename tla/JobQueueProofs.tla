--------------------------- MODULE JobQueueProofs ---------------------------
(***************************************************************************)
(* Theorems about JobQueue, for any sets of jobs, workers and callers and  *)
(* any capacity.  The invariants the runs check are not inductive: that an *)
(* item is held once says nothing of the state of its record.  IInv adds   *)
(* what each holder knows of the record it holds.                          *)
(***************************************************************************)
EXTENDS JobQueue, TLAPS

\* A job on its way to a worker is a record that has not started.
Waiting(j) == /\ j \in issued
              /\ j \notin started
              /\ jobs[j] \in {"queued", "cancelled"}

HeldBySubmitter == \A s \in Submitters : submitting[s] # NoJob => Waiting(submitting[s])
HeldByChannel == \A i \in 1..Len(queue) : Waiting(queue[i])
HeldByWorker ==
    \A w \in Workers :
        /\ cur[w] = NoJob <=> pc[w] \in {"select", "exited"}
        /\ pc[w] = "received" => Waiting(cur[w])
        /\ Executing(w) => /\ jobs[cur[w]] = "running"
                           /\ cur[w] \in issued
                           /\ cur[w] \in started
        /\ pc[w] = "returned" /\ err[w] = "canceled"
              => cur[w] \in ctxDone \/ rootDone
UnissuedIsAbsent == \A j \in Jobs \ issued : jobs[j] = "absent" /\ j \notin started
OnlyRegisteredCancelled == ctxDone \subseteq cancel

IInv == /\ TypeOK
        /\ OneHolder
        /\ NoJobStranded
        /\ RunningIsCancellable
        /\ HeldBySubmitter
        /\ HeldByChannel
        /\ HeldByWorker
        /\ UnissuedIsAbsent
        /\ OnlyRegisteredCancelled
\* A fresh id is nobody's, so inserting it disturbs no other holder.
LEMMA SubmitInsertInv ==
  ASSUME NEW s \in Submitters, IInv, SubmitInsert(s)
  PROVE  IInv'
<1>1. TypeOK'
  BY JobQueueAssumption DEF SubmitInsert, IInv, TypeOK
<1>2. OneHolder'
  BY JobQueueAssumption DEF SubmitInsert, IInv, TypeOK, OneHolder, InChannel,
         HeldBySubmitter, HeldByChannel, HeldByWorker, Executing, Waiting
<1>3. NoJobStranded'
  BY JobQueueAssumption DEF SubmitInsert, IInv, TypeOK, NoJobStranded,
         InChannel
<1>4. RunningIsCancellable'
  BY JobQueueAssumption DEF SubmitInsert, IInv, TypeOK, RunningIsCancellable,
         Executing, UnissuedIsAbsent, HeldByWorker
<1>5. HeldBySubmitter'
  BY JobQueueAssumption DEF SubmitInsert, IInv, TypeOK, HeldBySubmitter,
         Waiting, UnissuedIsAbsent
<1>6. HeldByChannel'
  BY JobQueueAssumption DEF SubmitInsert, IInv, TypeOK, HeldByChannel,
         Waiting
<1>7. HeldByWorker'
  BY JobQueueAssumption DEF SubmitInsert, IInv, TypeOK, HeldByWorker,
         Waiting, Executing
<1>8. UnissuedIsAbsent'
  BY DEF SubmitInsert, IInv, TypeOK, UnissuedIsAbsent
<1>9. OnlyRegisteredCancelled'
  BY DEF SubmitInsert, IInv, OnlyRegisteredCancelled
<1>. QED
  BY <1>1, <1>2, <1>3, <1>4, <1>5, <1>6, <1>7, <1>8, <1>9 DEF IInv

\* The job moves from its caller to the channel.
LEMMA SubmitSendInv ==
  ASSUME NEW s \in Submitters, IInv, SubmitSend(s)
  PROVE  IInv'
<1>1. TypeOK'
  BY JobQueueAssumption DEF SubmitSend, IInv, TypeOK
<1>2. OneHolder'
  BY JobQueueAssumption DEF SubmitSend, IInv, TypeOK, OneHolder, InChannel
<1>3. NoJobStranded'
  BY JobQueueAssumption DEF SubmitSend, IInv, TypeOK, NoJobStranded,
         InChannel
<1>4. HeldBySubmitter'
  BY JobQueueAssumption DEF SubmitSend, IInv, TypeOK, HeldBySubmitter,
         Waiting
<1>5. HeldByChannel'
  BY JobQueueAssumption DEF SubmitSend, IInv, TypeOK, HeldByChannel, Waiting,
         HeldBySubmitter
<1>6. RunningIsCancellable' /\ HeldByWorker' /\ UnissuedIsAbsent' /\ OnlyRegisteredCancelled'
  BY DEF SubmitSend, IInv, RunningIsCancellable, Executing, HeldByWorker,
         Waiting, UnissuedIsAbsent, OnlyRegisteredCancelled
<1>. QED
  BY <1>1, <1>2, <1>3, <1>4, <1>5, <1>6 DEF IInv

\* The job leaves the map; nothing but its caller held it.
LEMMA SubmitFullInv ==
  ASSUME NEW s \in Submitters, IInv, SubmitFull(s)
  PROVE  IInv'
<1>1. TypeOK'
  BY JobQueueAssumption DEF SubmitFull, IInv, TypeOK
<1>2. OneHolder'
  BY JobQueueAssumption DEF SubmitFull, IInv, TypeOK, OneHolder, InChannel
<1>3. NoJobStranded'
  BY JobQueueAssumption DEF SubmitFull, IInv, TypeOK, NoJobStranded,
         InChannel
<1>4. RunningIsCancellable'
  BY JobQueueAssumption DEF SubmitFull, IInv, TypeOK, RunningIsCancellable,
         Executing, HeldBySubmitter, HeldByWorker, Waiting
<1>5. HeldBySubmitter'
  BY JobQueueAssumption DEF SubmitFull, IInv, TypeOK, HeldBySubmitter,
         Waiting, OneHolder
<1>6. HeldByChannel'
  BY JobQueueAssumption DEF SubmitFull, IInv, TypeOK, HeldByChannel, Waiting,
         OneHolder, InChannel
<1>7. HeldByWorker'
  BY JobQueueAssumption DEF SubmitFull, IInv, TypeOK, HeldByWorker, Waiting,
         Executing, OneHolder, HeldBySubmitter
<1>8. UnissuedIsAbsent'
  BY DEF SubmitFull, IInv, TypeOK, UnissuedIsAbsent
<1>9. OnlyRegisteredCancelled'
  BY DEF SubmitFull, IInv, OnlyRegisteredCancelled
<1>. QED
  BY <1>1, <1>2, <1>3, <1>4, <1>5, <1>6, <1>7, <1>8, <1>9 DEF IInv

\* A queued job becomes a cancelled one and stays with its holder.
LEMMA CancelInv ==
  ASSUME NEW j \in Jobs, IInv, Cancel(j)
  PROVE  IInv'
<1>1. TypeOK'
  BY JobQueueAssumption DEF Cancel, IInv, TypeOK, Terminal
<1>2. NoJobStranded'
  BY JobQueueAssumption DEF Cancel, IInv, TypeOK, NoJobStranded, InChannel
<1>3. RunningIsCancellable'
  BY JobQueueAssumption DEF Cancel, IInv, TypeOK, RunningIsCancellable,
         Executing
<1>4. HeldBySubmitter'
  BY JobQueueAssumption DEF Cancel, IInv, TypeOK, HeldBySubmitter, Waiting
<1>5. HeldByChannel'
  BY JobQueueAssumption DEF Cancel, IInv, TypeOK, HeldByChannel, Waiting
<1>6. HeldByWorker'
  BY JobQueueAssumption DEF Cancel, IInv, TypeOK, HeldByWorker, Waiting,
         Executing
<1>7. UnissuedIsAbsent'
  BY DEF Cancel, IInv, TypeOK, UnissuedIsAbsent
<1>8. OnlyRegisteredCancelled'
  BY DEF Cancel, IInv, TypeOK, OnlyRegisteredCancelled
<1>9. OneHolder'
  BY DEF Cancel, IInv, OneHolder, InChannel
<1>. QED
  BY <1>1, <1>2, <1>3, <1>4, <1>5, <1>6, <1>7, <1>8, <1>9 DEF IInv

\* A worker in the select holds nothing.
LEMMA ExitInv ==
  ASSUME NEW w \in Workers, IInv, Exit(w)
  PROVE  IInv'
<1>1. TypeOK'
  BY JobQueueAssumption DEF Exit, IInv, TypeOK
<1>2. NoJobStranded'
  BY JobQueueAssumption DEF Exit, IInv, TypeOK, NoJobStranded, InChannel
<1>3. RunningIsCancellable'
  BY JobQueueAssumption DEF Exit, IInv, TypeOK, RunningIsCancellable,
         Executing
<1>4. HeldByWorker'
  BY JobQueueAssumption DEF Exit, IInv, TypeOK, HeldByWorker, Waiting,
         Executing
<1>5. OneHolder' /\ HeldBySubmitter' /\ HeldByChannel' /\ UnissuedIsAbsent' /\ OnlyRegisteredCancelled'
  BY DEF Exit, IInv, OneHolder, InChannel, HeldBySubmitter, Waiting,
         HeldByChannel, UnissuedIsAbsent, OnlyRegisteredCancelled
<1>. QED
  BY <1>1, <1>2, <1>3, <1>4, <1>5 DEF IInv

\* The head of the channel moves to the worker.
LEMMA ReceiveInv ==
  ASSUME NEW w \in Workers, IInv, Receive(w)
  PROVE  IInv'
<1>1. TypeOK'
  BY JobQueueAssumption DEF Receive, IInv, TypeOK
<1>2. OneHolder'
  BY JobQueueAssumption DEF Receive, IInv, TypeOK, OneHolder, InChannel
<1>3. NoJobStranded'
  <2>. SUFFICES ASSUME NEW j \in Jobs, jobs'[j] = "queued"
                PROVE  \/ \E s \in Submitters : submitting'[s] = j
                       \/ InChannel(j)'
                       \/ \E v \in Workers : pc'[v] = "received" /\ cur'[v] = j
    BY DEF NoJobStranded
  <2>1. CASE \E s \in Submitters : submitting[s] = j
    BY <2>1 DEF Receive
  <2>2. CASE \E v \in Workers : pc[v] = "received" /\ cur[v] = j
    BY <2>2 DEF Receive, IInv, TypeOK
  <2>3. CASE InChannel(j)
    <3>1. PICK i \in 1..Len(queue) : queue[i] = j
      BY <2>3 DEF InChannel
    <3>2. CASE i = 1
      BY <3>1, <3>2 DEF Receive, IInv, TypeOK
    <3>3. CASE i # 1
      <4>1. i - 1 \in 1..Len(queue') /\ queue'[i - 1] = j
        BY <3>1, <3>3 DEF Receive, IInv, TypeOK
      <4>. QED
        BY <4>1 DEF InChannel
    <3>. QED
      BY <3>2, <3>3
  <2>. QED
    BY <2>1, <2>2, <2>3 DEF Receive, IInv, NoJobStranded
<1>4. RunningIsCancellable'
  BY JobQueueAssumption DEF Receive, IInv, TypeOK, RunningIsCancellable,
         Executing
<1>5. HeldByChannel'
  BY JobQueueAssumption DEF Receive, IInv, TypeOK, HeldByChannel, Waiting
<1>6. HeldByWorker'
  BY JobQueueAssumption DEF Receive, IInv, TypeOK, HeldByWorker, Waiting,
         Executing, HeldByChannel
<1>7. HeldBySubmitter' /\ UnissuedIsAbsent' /\ OnlyRegisteredCancelled'
  BY DEF Receive, IInv, HeldBySubmitter, Waiting, UnissuedIsAbsent,
         OnlyRegisteredCancelled
<1>. QED
  BY <1>1, <1>2, <1>3, <1>4, <1>5, <1>6, <1>7 DEF IInv

\* The dropped item is a cancelled job, so no queued job loses its holder.
LEMMA DropInv ==
  ASSUME NEW w \in Workers, IInv, Drop(w)
  PROVE  IInv'
<1>1. TypeOK'
  BY JobQueueAssumption DEF Drop, IInv, TypeOK
<1>2. OneHolder'
  BY JobQueueAssumption DEF Drop, IInv, TypeOK, OneHolder, InChannel
<1>3. NoJobStranded'
  BY JobQueueAssumption DEF Drop, IInv, TypeOK, NoJobStranded, InChannel
<1>4. RunningIsCancellable'
  BY JobQueueAssumption DEF Drop, IInv, TypeOK, RunningIsCancellable,
         Executing
<1>5. HeldByWorker'
  BY JobQueueAssumption DEF Drop, IInv, TypeOK, HeldByWorker, Waiting,
         Executing
<1>6. HeldBySubmitter' /\ HeldByChannel' /\ UnissuedIsAbsent' /\ OnlyRegisteredCancelled'
  BY DEF Drop, IInv, HeldBySubmitter, Waiting, HeldByChannel,
         UnissuedIsAbsent, OnlyRegisteredCancelled
<1>. QED
  BY <1>1, <1>2, <1>3, <1>4, <1>5, <1>6 DEF IInv

\* The item becomes a running job with a registered cancel function.
LEMMA BeginInv ==
  ASSUME NEW w \in Workers, IInv, Begin(w)
  PROVE  IInv'
<1>1. TypeOK'
  BY JobQueueAssumption DEF Begin, IInv, TypeOK, Terminal, HeldByWorker
<1>2. NoJobStranded'
  BY JobQueueAssumption DEF Begin, IInv, TypeOK, NoJobStranded, InChannel,
         HeldByWorker, OneHolder
<1>3. RunningIsCancellable'
  BY JobQueueAssumption DEF Begin, IInv, TypeOK, RunningIsCancellable,
         Executing
<1>4. HeldBySubmitter'
  BY JobQueueAssumption DEF Begin, IInv, TypeOK, HeldBySubmitter, Waiting,
         OneHolder, HeldByWorker
<1>5. HeldByChannel'
  <2>. SUFFICES ASSUME NEW i \in 1..Len(queue)
                PROVE  Waiting(queue[i])'
    BY DEF HeldByChannel, Begin
  <2>1. queue[i] # cur[w]
    BY DEF Begin, IInv, OneHolder, InChannel, HeldByWorker
  <2>2. queue[i] \in Jobs /\ Waiting(queue[i])
    BY DEF IInv, TypeOK, HeldByChannel
  <2>. QED
    BY <2>1, <2>2 DEF Begin, Waiting, IInv, TypeOK
<1>6. HeldByWorker'
  BY JobQueueAssumption DEF Begin, IInv, TypeOK, HeldByWorker, Waiting,
         Executing, OneHolder
<1>7. UnissuedIsAbsent'
  BY DEF Begin, IInv, TypeOK, UnissuedIsAbsent
<1>8. OnlyRegisteredCancelled'
  BY DEF Begin, IInv, TypeOK, OnlyRegisteredCancelled
<1>9. OneHolder'
  BY DEF Begin, IInv, OneHolder, InChannel
<1>. QED
  BY <1>1, <1>2, <1>3, <1>4, <1>5, <1>6, <1>7, <1>8, <1>9 DEF IInv

\* Only the progress of the running job changes.
LEMMA UpdateInv ==
  ASSUME NEW w \in Workers, IInv, Update(w)
  PROVE  IInv'
<1>1. TypeOK'
  BY JobQueueAssumption DEF Update, IInv, TypeOK, Terminal, HeldByWorker
<1>2. OneHolder' /\ NoJobStranded' /\ RunningIsCancellable' /\ HeldBySubmitter' /\ HeldByChannel' /\ HeldByWorker' /\ UnissuedIsAbsent' /\ OnlyRegisteredCancelled'
  BY DEF Update, IInv, OneHolder, InChannel, NoJobStranded,
         RunningIsCancellable, Executing, HeldBySubmitter, Waiting,
         HeldByChannel, HeldByWorker, UnissuedIsAbsent,
         OnlyRegisteredCancelled
<1>. QED
  BY <1>1, <1>2 DEF IInv

\* The processor's answer is recorded.
LEMMA ReturnInv ==
  ASSUME NEW w \in Workers, IInv, Return(w)
  PROVE  IInv'
<1>1. TypeOK'
  BY JobQueueAssumption DEF Return, IInv, TypeOK
<1>2. NoJobStranded'
  BY JobQueueAssumption DEF Return, IInv, TypeOK, NoJobStranded, InChannel
<1>3. RunningIsCancellable'
  BY JobQueueAssumption DEF Return, IInv, TypeOK, RunningIsCancellable,
         Executing
<1>4. HeldByWorker'
  BY JobQueueAssumption DEF Return, IInv, TypeOK, HeldByWorker, Waiting,
         Executing
<1>5. OneHolder' /\ HeldBySubmitter' /\ HeldByChannel' /\ UnissuedIsAbsent' /\ OnlyRegisteredCancelled'
  BY DEF Return, IInv, OneHolder, InChannel, HeldBySubmitter, Waiting,
         HeldByChannel, UnissuedIsAbsent, OnlyRegisteredCancelled
<1>. QED
  BY <1>1, <1>2, <1>3, <1>4, <1>5 DEF IInv

\* The run gives up its context and the worker its item, together.
LEMMA FinishInv ==
  ASSUME NEW w \in Workers, IInv, Finish(w)
  PROVE  IInv'
<1>1. TypeOK'
  BY JobQueueAssumption DEF Finish, IInv, TypeOK, Terminal, Errors,
         FinalState, HeldByWorker
<1>2. OneHolder'
  BY JobQueueAssumption DEF Finish, IInv, TypeOK, OneHolder, InChannel
<1>3. NoJobStranded'
  BY JobQueueAssumption DEF Finish, IInv, TypeOK, NoJobStranded, InChannel,
         HeldByWorker, FinalState, Errors, Executing
<1>4. RunningIsCancellable'
  BY JobQueueAssumption DEF Finish, IInv, TypeOK, RunningIsCancellable,
         Executing, OneHolder, HeldByWorker, FinalState, Errors
<1>5. HeldBySubmitter'
  BY JobQueueAssumption DEF Finish, IInv, TypeOK, HeldBySubmitter, Waiting,
         OneHolder, HeldByWorker
<1>6. HeldByChannel'
  BY JobQueueAssumption DEF Finish, IInv, TypeOK, HeldByChannel, Waiting,
         OneHolder, InChannel, HeldByWorker
<1>7. HeldByWorker'
  BY JobQueueAssumption DEF Finish, IInv, TypeOK, HeldByWorker, Waiting,
         Executing, OneHolder
<1>8. UnissuedIsAbsent'
  BY DEF Finish, IInv, TypeOK, UnissuedIsAbsent
<1>9. OnlyRegisteredCancelled'
  BY DEF Finish, IInv, TypeOK, OnlyRegisteredCancelled
<1>. QED
  BY <1>1, <1>2, <1>3, <1>4, <1>5, <1>6, <1>7, <1>8, <1>9 DEF IInv

\* Every context is a child of the root context.
LEMMA CloseStopInv ==
  ASSUME IInv, CloseStop
  PROVE  IInv'
<1>1. TypeOK'
  BY JobQueueAssumption DEF CloseStop, IInv, TypeOK
<1>2. HeldByWorker'
  BY JobQueueAssumption DEF CloseStop, IInv, TypeOK, HeldByWorker, Waiting,
         Executing
<1>3. OneHolder' /\ NoJobStranded' /\ RunningIsCancellable' /\ HeldBySubmitter' /\ HeldByChannel' /\ UnissuedIsAbsent' /\ OnlyRegisteredCancelled'
  BY DEF CloseStop, IInv, OneHolder, InChannel, NoJobStranded,
         RunningIsCancellable, Executing, HeldBySubmitter, Waiting,
         HeldByChannel, UnissuedIsAbsent, OnlyRegisteredCancelled
<1>. QED
  BY <1>1, <1>2, <1>3 DEF IInv

\* Only the flag of Close changes.
LEMMA CloseReturnInv ==
  ASSUME IInv, CloseReturn
  PROVE  IInv'
<1>1. TypeOK'
  BY JobQueueAssumption DEF CloseReturn, IInv, TypeOK
<1>2. OneHolder' /\ NoJobStranded' /\ RunningIsCancellable' /\ HeldBySubmitter' /\ HeldByChannel' /\ HeldByWorker' /\ UnissuedIsAbsent' /\ OnlyRegisteredCancelled'
  BY DEF CloseReturn, IInv, OneHolder, InChannel, NoJobStranded,
         RunningIsCancellable, Executing, HeldBySubmitter, Waiting,
         HeldByChannel, HeldByWorker, UnissuedIsAbsent,
         OnlyRegisteredCancelled
<1>. QED
  BY <1>1, <1>2 DEF IInv

\* The invariant holds initially ...
LEMMA InitInv == Init => IInv
<1>. SUFFICES ASSUME Init
              PROVE  IInv
  OBVIOUS
<1>1. TypeOK
  <2>1. queue \in Seq(Jobs) /\ Len(queue) <= Capacity
    BY JobQueueAssumption DEF Init
  <2>. QED
    BY <2>1 DEF Init, TypeOK, Terminal, Errors
<1>2. OneHolder /\ HeldBySubmitter /\ HeldByChannel /\ HeldByWorker
  BY JobQueueAssumption
     DEF Init, OneHolder, HeldBySubmitter, HeldByChannel, HeldByWorker, Executing
<1>3. /\ NoJobStranded /\ RunningIsCancellable /\ UnissuedIsAbsent
      /\ OnlyRegisteredCancelled
  BY DEF Init, NoJobStranded, RunningIsCancellable, UnissuedIsAbsent,
         OnlyRegisteredCancelled, Executing
<1>. QED
  BY <1>1, <1>2, <1>3 DEF IInv

\* ... and no step breaks it.
LEMMA NextInv == IInv /\ [Next]_vars => IInv'
<1>. SUFFICES ASSUME IInv, [Next]_vars
              PROVE  IInv'
  OBVIOUS
<1>1. ASSUME NEW s \in Submitters,
             SubmitInsert(s) \/ SubmitSend(s) \/ SubmitFull(s)
      PROVE  IInv'
  BY <1>1, SubmitInsertInv, SubmitSendInv, SubmitFullInv
<1>2. ASSUME NEW j \in Jobs, Cancel(j)
      PROVE  IInv'
  BY <1>2, CancelInv
<1>3. ASSUME NEW w \in Workers, WorkerStep(w) \/ Update(w)
      PROVE  IInv'
  BY <1>3, ExitInv, ReceiveInv, DropInv, BeginInv, ReturnInv, FinishInv,
     UpdateInv DEF WorkerStep
<1>4. CASE CloseStop \/ CloseReturn
  BY <1>4, CloseStopInv, CloseReturnInv
<1>5. CASE UNCHANGED vars
  BY <1>5 DEF vars, IInv, TypeOK, OneHolder, NoJobStranded,
     RunningIsCancellable, HeldBySubmitter, HeldByChannel, HeldByWorker,
     UnissuedIsAbsent, OnlyRegisteredCancelled, Waiting, InChannel, Executing
<1>. QED
  BY <1>1, <1>2, <1>3, <1>4, <1>5 DEF Next, Exited

LEMMA Invariance == Spec => []IInv
  BY InitInv, NextInv, PTL DEF Spec

-----------------------------------------------------------------------------
\* Type correctness of the job manager.
THEOREM TypeCorrect == Spec => []TypeOK
<1>1. IInv => TypeOK
  BY DEF IInv
<1>. QED
  BY <1>1, Invariance, PTL

\* No job is ever in the hands of two actors: no archive has two workers.
THEOREM OneHolderAlways == Spec => []OneHolder
<1>1. IInv => OneHolder
  BY DEF IInv
<1>. QED
  BY <1>1, Invariance, PTL

\* A queued record is always on its way to a worker.
THEOREM NeverStranded == Spec => []NoJobStranded
<1>1. IInv => NoJobStranded
  BY DEF IInv
<1>. QED
  BY <1>1, Invariance, PTL

\* A running job can always be reached by Cancel.
THEOREM AlwaysCancellable == Spec => []RunningIsCancellable
<1>1. IInv => RunningIsCancellable
  BY DEF IInv
<1>. QED
  BY <1>1, Invariance, PTL

\* The test the update, reconcile and quarantine handlers make is sound: when
\* Summary counts no queued and no running job, the archive processor is not
\* being executed and will not be before another Submit.
THEOREM QuietIsIdle == Spec => []QuietMeansIdle
<1>1. IInv => QuietMeansIdle
  <2>. SUFFICES ASSUME IInv, Quiet
                PROVE  /\ \A w \in Workers : ~Executing(w)
                       /\ \A j \in Jobs : jobs[j] # "absent" /\
                             (\/ InChannel(j)
                              \/ \E w \in Workers : cur[w] = j
                              \/ \E s \in Submitters : submitting[s] = j)
                             => jobs[j] = "cancelled"
    BY DEF QuietMeansIdle
  <2>1. ASSUME NEW w \in Workers
        PROVE  ~Executing(w)
    BY JobQueueAssumption DEF IInv, TypeOK, HeldByWorker, Executing, Quiet
  <2>2. ASSUME NEW j \in Jobs, InChannel(j)
        PROVE  jobs[j] = "cancelled"
    BY <2>2 DEF IInv, HeldByChannel, InChannel, Waiting, Quiet
  <2>3. ASSUME NEW j \in Jobs, NEW w \in Workers, cur[w] = j
        PROVE  jobs[j] = "cancelled"
    BY <2>1, <2>3, JobQueueAssumption
       DEF IInv, TypeOK, HeldByWorker, Executing, Waiting, Quiet
  <2>4. ASSUME NEW j \in Jobs, NEW s \in Submitters, submitting[s] = j
        PROVE  jobs[j] = "cancelled"
    BY <2>4, JobQueueAssumption DEF IInv, HeldBySubmitter, Waiting, Quiet
  <2>. QED
    BY <2>1, <2>2, <2>3, <2>4
<1>. QED
  BY <1>1, Invariance, PTL

-----------------------------------------------------------------------------
(* Action properties.                                                      *)

\* A settled record never changes again, unless its own Submit removes it.
THEOREM SettledForever == Spec => SettledStays
<1>1. ASSUME IInv, [Next]_vars, NEW j \in Jobs, Settled(j)
      PROVE  SettledStep(j)
  <2>. USE <1>1 DEF IInv, TypeOK, Settled, Terminal
  <2>1. ASSUME NEW s \in Submitters, SubmitInsert(s)
        PROVE  jobs'[j] = jobs[j] /\ progress'[j] = progress[j]
    BY <2>1 DEF SubmitInsert, UnissuedIsAbsent
  <2>2. ASSUME NEW s \in Submitters, SubmitSend(s)
        PROVE  jobs'[j] = jobs[j] /\ progress'[j] = progress[j]
    BY <2>2 DEF SubmitSend
  <2>3. ASSUME NEW s \in Submitters, SubmitFull(s)
        PROVE  SettledStep(j)
    BY <2>3 DEF SettledStep, SubmitFull, HeldBySubmitter, Waiting
  <2>4. ASSUME NEW i \in Jobs, Cancel(i)
        PROVE  jobs'[j] = jobs[j] /\ progress'[j] = progress[j]
    BY <2>4 DEF Cancel
  <2>5. ASSUME NEW w \in Workers, WorkerStep(w) \/ Update(w)
        PROVE  jobs'[j] = jobs[j] /\ progress'[j] = progress[j]
    <3>1. Begin(w) => cur[w] # j
      BY DEF Begin, HeldByWorker, Waiting
    <3>2. Update(w) \/ Finish(w) => cur[w] # j
      BY DEF Update, Finish, HeldByWorker, Executing
    <3>. QED
      BY <2>5, <3>1, <3>2 DEF WorkerStep, Exit, Receive, Drop, Begin, Return,
         Finish, Update
  <2>6. CASE CloseStop \/ CloseReturn \/ UNCHANGED vars
    BY <2>6 DEF SettledStep, CloseStop, CloseReturn, vars
  <2>. QED
    BY <1>1, <2>1, <2>2, <2>3, <2>4, <2>5, <2>6
       DEF SettledStep, Next, Exited
<1>2. IInv /\ [Next]_vars => [\A j \in Jobs : SettledStep(j)]_vars
  BY <1>1 DEF SettledStep
<1>. QED
  BY <1>2, Invariance, PTL DEF Spec, SettledStays

\* A run ends cancelled only when that very job, or everything, was cancelled.
THEOREM CancelledRightly == Spec => CancelledOnRequest
<1>1. ASSUME IInv, [Next]_vars, NEW j \in Jobs,
             jobs[j] = "running", jobs'[j] = "cancelled"
      PROVE  j \in ctxDone \/ rootDone
  <2>. USE <1>1 DEF IInv, TypeOK
  <2>1. PICK w \in Workers : Finish(w)
    <3>1. ASSUME NEW s \in Submitters,
                 SubmitInsert(s) \/ SubmitSend(s) \/ SubmitFull(s)
          PROVE  FALSE
      BY <3>1 DEF SubmitInsert, SubmitSend, SubmitFull
    <3>2. ASSUME NEW i \in Jobs, Cancel(i)
          PROVE  FALSE
      BY <3>2 DEF Cancel
    <3>3. ASSUME NEW w \in Workers, Exit(w) \/ Receive(w) \/ Drop(w)
                    \/ Begin(w) \/ Return(w) \/ Update(w)
          PROVE  FALSE
      BY <3>3 DEF Exit, Receive, Drop, Begin, Return, Update
    <3>4. ~(CloseStop \/ CloseReturn \/ UNCHANGED vars)
      BY DEF CloseStop, CloseReturn, vars
    <3>. QED
      BY <1>1, <3>1, <3>2, <3>3, <3>4 DEF Next, Exited, WorkerStep
  <2>2. cur[w] = j /\ pc[w] = "returned" /\ err[w] = "canceled"
    BY <2>1 DEF Finish, FinalState, Errors
  <2>. QED
    BY <2>2 DEF HeldByWorker
<1>2. IInv /\ [Next]_vars => [\A j \in Jobs : RequestedStep(j)]_vars
  BY <1>1 DEF RequestedStep
<1>. QED
  BY <1>2, Invariance, PTL DEF Spec, CancelledOnRequest

-----------------------------------------------------------------------------
(* JobQueue implements JobLifecycle.                                       *)

\* What a change of one job's life looks like through the mapping.
LEMMA OneLifeChanges ==
  ASSUME NEW j \in Jobs, NEW l,
         LifeOf(j)' = l,
         \A i \in Jobs \ {j} : LifeOf(i)' = LifeOf(i)
  PROVE  [i \in Jobs |-> LifeOf(i)]'
            = [[i \in Jobs |-> LifeOf(i)] EXCEPT ![j] = l]
  OBVIOUS

Slot(w) == IF Executing(w) THEN cur[w] ELSE NoJob

\* What a change of one slot looks like through the mapping.
LEMMA OneSlotChanges ==
  ASSUME NEW w \in Workers, NEW x,
         Slot(w)' = x,
         \A v \in Workers \ {w} : Slot(v)' = Slot(v)
  PROVE  [v \in Workers |-> Slot(v)]'
            = [[v \in Workers |-> Slot(v)] EXCEPT ![w] = x]
  OBVIOUS

\* No job changes its life and no slot its job.
LEMMA NothingChanges ==
  ASSUME \A j \in Jobs : LifeOf(j)' = LifeOf(j),
         \A w \in Workers : Slot(w)' = Slot(w)
  PROVE  UNCHANGED Lifecycle!vars
  BY DEF Lifecycle!vars, Slot

\* Every step of the manager is a step of the abstract life, or none.
LEMMA StepSimulation ==
  ASSUME IInv, [Next]_vars
  PROVE  [Lifecycle!Next]_(Lifecycle!vars)
<1>. USE DEF IInv, TypeOK
<1>1. ASSUME NEW s \in Submitters, SubmitInsert(s)
      PROVE  \E j \in Jobs : Lifecycle!Accept(j)
  <2>1. PICK j \in Jobs \ issued :
           /\ issued' = issued \cup {j}
           /\ jobs' = [jobs EXCEPT ![j] = "queued"]
    BY <1>1 DEF SubmitInsert
  <2>2. LifeOf(j) = "new" /\ LifeOf(j)' = "queued"
    BY <2>1, <1>1 DEF LifeOf, UnissuedIsAbsent
  <2>3. \A i \in Jobs \ {j} : LifeOf(i)' = LifeOf(i)
    BY <2>1, <1>1 DEF LifeOf, SubmitInsert
  <2>4. \A w \in Workers : Slot(w)' = Slot(w)
    BY <1>1 DEF SubmitInsert, Slot, Executing
  <2>. QED
    BY <2>2, <2>3, <2>4, OneLifeChanges DEF Lifecycle!Accept, Slot
<1>2. ASSUME NEW s \in Submitters, SubmitSend(s)
      PROVE  UNCHANGED Lifecycle!vars
  BY <1>2, NothingChanges DEF SubmitSend, LifeOf, Slot, Executing
<1>3. ASSUME NEW s \in Submitters, SubmitFull(s)
      PROVE  \E j \in Jobs : Lifecycle!Reject(j)
  <2>1. PICK j \in Jobs : j = submitting[s] /\ Waiting(j)
    BY <1>3 DEF SubmitFull, HeldBySubmitter
  <2>2. LifeOf(j) \in {"queued", "withdrawn"} /\ LifeOf(j)' = "rejected"
    BY <1>3, <2>1 DEF LifeOf, SubmitFull, Waiting
  <2>3. \A i \in Jobs \ {j} : LifeOf(i)' = LifeOf(i)
    BY <1>3, <2>1 DEF LifeOf, SubmitFull
  <2>4. \A w \in Workers : Slot(w)' = Slot(w)
    BY <1>3 DEF SubmitFull, Slot, Executing
  <2>. QED
    BY <2>1, <2>2, <2>3, <2>4, OneLifeChanges DEF Lifecycle!Reject, Slot
<1>4. ASSUME NEW j \in Jobs, Cancel(j)
      PROVE  Lifecycle!Withdraw(j) \/ UNCHANGED Lifecycle!vars
  <2>1. \A i \in Jobs \ {j} : LifeOf(i)' = LifeOf(i)
    BY <1>4 DEF LifeOf, Cancel
  <2>2. \A w \in Workers : Slot(w)' = Slot(w)
    BY <1>4 DEF Cancel, Slot, Executing
  <2>3. CASE jobs[j] = "queued"
    <3>1. Waiting(j)
      BY <2>3, JobQueueAssumption
         DEF NoJobStranded, HeldBySubmitter, HeldByChannel, HeldByWorker, InChannel
    <3>2. LifeOf(j) = "queued" /\ LifeOf(j)' = "withdrawn"
      BY <1>4, <2>3, <3>1 DEF LifeOf, Cancel, Waiting
    <3>. QED
      BY <2>1, <2>2, <3>2, OneLifeChanges DEF Lifecycle!Withdraw, Slot
  <2>4. CASE jobs[j] # "queued"
    BY <1>4, <2>1, <2>2, <2>4, NothingChanges DEF LifeOf, Cancel
  <2>. QED
    BY <2>3, <2>4
<1>5. ASSUME NEW w \in Workers,
             Exit(w) \/ Receive(w) \/ Drop(w) \/ Return(w) \/ Update(w)
      PROVE  UNCHANGED Lifecycle!vars
  <2>1. \A j \in Jobs : LifeOf(j)' = LifeOf(j)
    BY <1>5 DEF Exit, Receive, Drop, Return, Update, LifeOf
  <2>2. \A v \in Workers : Slot(v)' = Slot(v)
    BY <1>5 DEF Exit, Receive, Drop, Return, Update, Slot, Executing
  <2>. QED
    BY <2>1, <2>2, NothingChanges
<1>6. ASSUME NEW w \in Workers, Begin(w)
      PROVE  \E j \in Jobs : Lifecycle!Start(w, j)
  <2>1. PICK j \in Jobs : j = cur[w] /\ Waiting(j) /\ jobs[j] = "queued"
    BY <1>6, JobQueueAssumption DEF Begin, HeldByWorker, Waiting
  <2>2. LifeOf(j) = "queued" /\ LifeOf(j)' = "running"
    BY <1>6, <2>1 DEF LifeOf, Begin, Waiting
  <2>3. \A i \in Jobs \ {j} : LifeOf(i)' = LifeOf(i)
    BY <1>6, <2>1 DEF LifeOf, Begin
  <2>4. /\ Slot(w) = NoJob /\ Slot(w)' = j
        /\ \A v \in Workers \ {w} : Slot(v)' = Slot(v)
    BY <1>6, <2>1, JobQueueAssumption DEF Begin, Slot, Executing
  <2>. QED
    BY <2>1, <2>2, <2>3, <2>4, OneLifeChanges, OneSlotChanges
       DEF Lifecycle!Start, Slot
<1>7. ASSUME NEW w \in Workers, Finish(w)
      PROVE  \E j \in Jobs : Lifecycle!Finish(w, j)
  <2>1. PICK j \in Jobs, f \in Terminal :
           /\ j = cur[w] /\ f = FinalState(err[w])
           /\ jobs[j] = "running" /\ j \in issued /\ j \in started
    BY <1>7, JobQueueAssumption
       DEF Finish, HeldByWorker, Executing, FinalState, Errors, Terminal
  <2>2. LifeOf(j) = "running" /\ LifeOf(j)' = f
    BY <1>7, <2>1 DEF LifeOf, Finish, Terminal
  <2>3. \A i \in Jobs \ {j} : LifeOf(i)' = LifeOf(i)
    BY <1>7, <2>1 DEF LifeOf, Finish
  <2>4. /\ Slot(w) = j /\ Slot(w)' = NoJob
        /\ \A v \in Workers \ {w} : Slot(v)' = Slot(v)
    BY <1>7, <2>1 DEF Finish, Slot, Executing
  <2>. QED
    BY <2>1, <2>2, <2>3, <2>4, OneLifeChanges, OneSlotChanges
       DEF Lifecycle!Finish, Lifecycle!Final, Slot, Terminal
<1>8. CASE CloseStop \/ CloseReturn \/ UNCHANGED vars
  <2>1. \A j \in Jobs : LifeOf(j)' = LifeOf(j)
    BY <1>8 DEF CloseStop, CloseReturn, vars, LifeOf
  <2>2. \A v \in Workers : Slot(v)' = Slot(v)
    BY <1>8 DEF CloseStop, CloseReturn, vars, Slot, Executing
  <2>. QED
    BY <2>1, <2>2, NothingChanges
<1>. QED
  BY <1>1, <1>2, <1>3, <1>4, <1>5, <1>6, <1>7, <1>8
     DEF Next, Exited, WorkerStep, Lifecycle!Next

\* The job manager keeps the promise of JobLifecycle: accepted once, started
\* at most once and in one slot, settled once.
THEOREM ImplementsLifecycle == Spec => LifecycleSpec
<1>1. Init => Lifecycle!Init
  BY DEF Init, Lifecycle!Init, LifeOf, Executing
<1>2. IInv /\ [Next]_vars => [Lifecycle!Next]_(Lifecycle!vars)
  BY StepSimulation
<1>. QED
  BY <1>1, <1>2, Invariance, PTL DEF Spec, LifecycleSpec, Lifecycle!Spec

=============================================================================
