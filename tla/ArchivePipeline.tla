--------------------------- MODULE ArchivePipeline ---------------------------
(***************************************************************************)
(* What happens to the files when the workers process archives: Process of *)
(* internal/archive and everything below it, on top of OutputPublish.  One *)
(* action per step that another worker or a crash can observe.  A source   *)
(* archive is of one of three kinds:                                       *)
(*   whole   a ZIP without nested archives and with one group of files:    *)
(*           renamed (or copied to another volume) and published;          *)
(*   split   a ZIP without nested archives and with several folders;       *)
(*   nested  a RAR, or a ZIP with nested archives: written first to the    *)
(*           normalized partial of its destination, then split.            *)
(* Every run may also fail at every step, for lack of space, an I/O error  *)
(* or a cancelled context; a second failure while the first is being       *)
(* undone is left out.                                                     *)
(***************************************************************************)
EXTENDS OutputPublish

CONSTANTS Sources,      \* archive paths in the inbox
          Kind,         \* whole, split or nested
          Outputs,      \* per source, the groups in publication order
          ModTime,      \* the modification time of each source
          Entries,      \* the number of files in each source
          Dests,        \* planned destination paths (Task.Destination)
          Dest,         \* the destination of each source
          SameVolume,   \* can the source be renamed to its destination?
          OutputInRoot, \* does startup recovery walk the output directory?
          NoSource,
          MaxRuns,      \* bound: calls of Process
          MaxCrashes    \* bound: crashes of the process

Output == [target : Targets, data : Contents]

ASSUME PipelineAssumption ==
    /\ NoSource \notin Sources
    /\ Kind \in [Sources -> {"whole", "split", "nested"}]
    /\ Outputs \in [Sources -> Seq(Output) \ {<<>>}]
    /\ \A s \in Sources : Kind[s] = "whole" => Len(Outputs[s]) = 1
    /\ ModTime \in [Sources -> Times]
    /\ Entries \in [Sources -> Nat \ {0}]
    /\ Dest \in [Sources -> Dests]
    /\ SameVolume \in [Sources -> BOOLEAN]
    /\ OutputInRoot \in BOOLEAN
    /\ MaxRuns \in Nat /\ MaxCrashes \in Nat

VARIABLES source,     \* the source archives that exist
          normalized, \* <destination>.normalized.partial, by destination
          temp,       \* the outputs a worker holds under temporary names
          orphans,    \* temporary files whose worker is gone
          pc, src,    \* where each worker is, and the archive it processes
          from,       \* the archive whose groups it writes and publishes
          finished,   \* history: archives whose run ended in success
          runs, crashes

vars == <<library, source, normalized, temp, orphans, pc, src, from, finished,
          runs, crashes>>
bounds == <<runs, crashes>>

NoPartial == [of |-> NoSource, by |-> NoWorker, done |-> FALSE]
Partial == [of : Sources, by : Workers \cup {NoWorker}, done : BOOLEAN]
Stages == {"idle", "inspect", "take", "copy", "flatten", "verify", "open",
           "write", "publish", "swap", "remove", "tidy"}
Orphan == [kind : {"candidate", "copy", "split"}, of : Sources, data : Contents]

TypeOK ==
    /\ PublishTypeOK
    /\ source \in SUBSET Sources
    /\ normalized \in [Dests -> Partial \cup {NoPartial}]
    /\ temp \in [Workers -> SUBSET Nat]
    /\ orphans \in SUBSET Orphan
    /\ pc \in [Workers -> Stages]
    /\ src \in [Workers -> Sources \cup {NoSource}]
    /\ from \in [Workers -> Sources \cup {NoSource}]
    /\ finished \in SUBSET Sources
    /\ runs \in 0..MaxRuns
    /\ crashes \in 0..MaxCrashes

Init ==
    /\ PublishInit
    /\ source = Sources
    /\ normalized = [d \in Dests |-> NoPartial]
    /\ temp = [w \in Workers |-> {}]
    /\ orphans = {}
    /\ pc = [w \in Workers |-> "idle"]
    /\ src = [w \in Workers |-> NoSource]
    /\ from = [w \in Workers |-> NoSource]
    /\ finished = {}
    /\ runs = 0 /\ crashes = 0

-----------------------------------------------------------------------------

\* The output worker w is about to publish: groups go in sorted order, so it is
\* the first one still under a temporary name.
First(S) == CHOOSE i \in S : \A k \in S : i <= k
Current(w) == First(temp[w])
Target(w) == Outputs[from[w]][Current(w)].target

\* Variant: os.Chtimes is forgotten, and the candidate is newer than any source.
CandidateUnstamped(w) ==
    [data |-> Outputs[from[w]][Current(w)].data,
     time |-> 1 + CHOOSE i \in Times : \A j \in Times : j <= i]

Candidate(w) == [data |-> Outputs[from[w]][Current(w)].data,
                 time |-> ModTime[src[w]]]
Moved(w) == Kind[src[w]] = "whole" /\ SameVolume[src[w]]

Goto(w, stage) == pc' = [pc EXCEPT ![w] = stage]

\* The end of Process; a worker that made a normalized partial removes it on
\* the way out (the deferred os.Remove).
Return(w) ==
    IF Kind[src[w]] = "nested" /\ pc[w] \notin {"inspect", "flatten", "tidy"}
    THEN Goto(w, "tidy") /\ UNCHANGED <<src, from>>
    ELSE /\ Goto(w, "idle")
         /\ src' = [src EXCEPT ![w] = NoSource]
         /\ from' = [from EXCEPT ![w] = NoSource]

\* A worker takes a job.  Nothing keeps two jobs from naming one archive.
Begin(w, s) ==
    /\ pc[w] = "idle"
    /\ runs < MaxRuns
    /\ runs' = runs + 1
    /\ Goto(w, "inspect")
    /\ src' = [src EXCEPT ![w] = s]
    /\ UNCHANGED <<library, source, normalized, temp, orphans, from, finished,
                   crashes>>

\* InspectZIP or InspectRAR, os.Stat, zipGroups and the free-space check.
Inspect(w) ==
    /\ pc[w] = "inspect"
    /\ src[w] \in source
    /\ Goto(w, CASE Kind[src[w]] = "whole"  -> "take"
                 [] Kind[src[w]] = "split"  -> "write"
                 [] Kind[src[w]] = "nested" -> "flatten")
    /\ from' = [from EXCEPT ![w] = src[w]]
    /\ normalized' = IF Kind[src[w]] # "nested" THEN normalized
                     ELSE [normalized EXCEPT ![Dest[src[w]]] =
                              [of |-> src[w], by |-> w, done |-> FALSE]]
    /\ UNCHANGED <<library, source, temp, orphans, src, finished, bounds>>

\* moveOrCopyVerifiedZIP: the verified source becomes the candidate by a rename ...
Take(w) ==
    /\ pc[w] = "take"
    /\ Moved(w)
    /\ src[w] \in source
    /\ source' = source \ {src[w]}
    /\ temp' = [temp EXCEPT ![w] = {1}]
    /\ Goto(w, "publish")
    /\ UNCHANGED <<library, normalized, orphans, src, from, finished, bounds>>

\* ... or, from another volume, by a copy through <candidate>.partial.
BeginCopy(w) ==
    /\ pc[w] = "take"
    /\ ~Moved(w)
    /\ src[w] \in source
    /\ temp' = [temp EXCEPT ![w] = {1}]
    /\ Goto(w, "copy")
    /\ UNCHANGED <<library, source, normalized, orphans, src, from, finished,
                   bounds>>

EndCopy(w) ==
    /\ pc[w] = "copy"
    /\ Goto(w, "publish")
    /\ UNCHANGED <<library, source, normalized, temp, orphans, src, from,
                   finished, bounds>>

\* flattenArchiveToZIP reached its end.  The writer holds an open file: when
\* another worker has removed the name since, what it wrote is unlinked.
EndFlatten(w) ==
    LET dest == Dest[src[w]] IN
    /\ pc[w] = "flatten"
    /\ normalized' = IF normalized[dest].by = w
                     THEN [normalized EXCEPT ![dest].done = TRUE]
                     ELSE normalized
    /\ Goto(w, "verify")
    /\ UNCHANGED <<library, source, temp, orphans, src, from, finished, bounds>>

\* VerifyZIPNoNestedArchives and the entry count, on the file of that name.
Verify(w) ==
    LET held == normalized[Dest[src[w]]] IN
    /\ pc[w] = "verify"
    /\ held.done
    /\ Entries[held.of] = Entries[src[w]]
    /\ Goto(w, "open")
    /\ UNCHANGED <<library, source, normalized, temp, orphans, src, from,
                   finished, bounds>>

\* splitNormalizedZIP opens the normalized partial, by name once more.
Open(w) ==
    LET held == normalized[Dest[src[w]]] IN
    /\ pc[w] = "open"
    /\ held.done
    /\ from' = [from EXCEPT ![w] = held.of]
    /\ Goto(w, "write")
    /\ UNCHANGED <<library, source, normalized, temp, orphans, src, finished,
                   bounds>>

\* One group is written to a .docextractor-split-*.partial and verified.
Write(w) ==
    LET last == Len(Outputs[from[w]]) IN
    /\ pc[w] = "write"
    /\ \E i \in 1..last :
          /\ \A j \in 1..last : j < i <=> j \in temp[w]
          /\ temp' = [temp EXCEPT ![w] = @ \cup {i}]
          /\ Goto(w, IF i = last THEN "publish" ELSE "write")
    /\ UNCHANGED <<library, source, normalized, orphans, src, from, finished,
                   bounds>>

\* Variant: the source goes after the first publication.
AfterPublishFirstOnly(w) ==
    /\ temp' = [temp EXCEPT ![w] = {}]
    /\ IF Moved(w)
       THEN Return(w) /\ finished' = finished \cup {src[w]}
       ELSE Goto(w, "remove") /\ UNCHANGED <<src, from, finished>>
    /\ UNCHANGED <<source, normalized, orphans, bounds>>

\* What follows a publication: the next group, the removal of the source, or,
\* when the source itself was the candidate, the end of the run.
AfterPublish(w) ==
    /\ temp' = [temp EXCEPT ![w] = @ \ {Current(w)}]
    /\ IF temp[w] # {Current(w)}
       THEN Goto(w, "publish") /\ UNCHANGED <<src, from, finished>>
       ELSE IF Moved(w)
       THEN Return(w) /\ finished' = finished \cup {src[w]}
       ELSE Goto(w, "remove") /\ UNCHANGED <<src, from, finished>>
    /\ UNCHANGED <<source, normalized, orphans, bounds>>

Publish(w) ==
    /\ pc[w] = "publish"
    /\ \/ PublishNew(Target(w), Candidate(w))
       \/ PublishToQuarantine(Target(w), Candidate(w))
    /\ AfterPublish(w)

Displace(w) ==
    /\ pc[w] = "publish"
    /\ PublishDisplace(w, Target(w), Candidate(w))
    /\ Goto(w, "swap")
    /\ UNCHANGED <<source, normalized, temp, orphans, src, from, finished, bounds>>

Replace(w) ==
    /\ pc[w] = "swap"
    /\ PublishReplace(w, Target(w), Candidate(w))
    /\ AfterPublish(w)

\* os.Remove(src), or RemoveMultipartRARVolumes: the outputs are published.
RemoveSource(w) ==
    /\ pc[w] = "remove"
    /\ src[w] \in source
    /\ source' = source \ {src[w]}
    /\ finished' = finished \cup {src[w]}
    /\ Return(w)
    /\ UNCHANGED <<library, normalized, temp, orphans, bounds>>

\* The deferred os.Remove of the normalized partial, whoever wrote it.
Tidy(w) ==
    /\ pc[w] = "tidy"
    /\ normalized' = [normalized EXCEPT ![Dest[src[w]]] = NoPartial]
    /\ Return(w)
    /\ UNCHANGED <<library, source, temp, orphans, finished, bounds>>

-----------------------------------------------------------------------------
(* Failures.                                                               *)

\* Variant: a failed flattenArchiveToZIP leaves its partial.
FailEarlyLeaves(w) ==
    /\ pc[w] \in {"inspect", "take", "copy", "flatten", "verify", "open",
                  "write", "remove"}
    /\ temp' = [temp EXCEPT ![w] = {}]
    /\ Return(w)
    /\ UNCHANGED <<library, source, normalized, orphans, finished, bounds>>

\* Before anything is published: flattenArchiveToZIP removes its partial by
\* name, copyZIPRaw and splitNormalizedZIP remove their temporary files.  A copy
\* with another number of entries than its source would stay: it takes a program
\* that changes the source meanwhile, which is left out.
FailEarly(w) ==
    /\ pc[w] \in {"inspect", "take", "copy", "flatten", "verify", "open",
                  "write", "remove"}
    /\ temp' = [temp EXCEPT ![w] = {}]
    /\ normalized' = IF pc[w] # "flatten" THEN normalized
                     ELSE [normalized EXCEPT ![Dest[src[w]]] = NoPartial]
    /\ Return(w)
    /\ UNCHANGED <<library, source, orphans, finished, bounds>>

\* Variant: a failed publication forgets to take the source back.
UndoCandidateForgets(w) ==
    /\ temp' = [temp EXCEPT ![w] = {}]
    /\ UNCHANGED source

\* A failed publication: a moved source is renamed back, other temporary
\* files are removed.
UndoCandidate(w) ==
    /\ temp' = [temp EXCEPT ![w] = {}]
    /\ source' = IF Moved(w) THEN source \cup {src[w]} ELSE source

\* The mutex is needed to fail in publishCandidate, but not at the os.Chtimes that
\* comes before it when a whole archive is published.
FailPublish(w) ==
    /\ \/ /\ pc[w] = "publish"
          /\ mutex = NoWorker \/ Kind[src[w]] = "whole"
          /\ UNCHANGED library
       \/ pc[w] = "swap" /\ PublishRollback(w, Target(w))
    /\ UndoCandidate(w)
    /\ Return(w)
    /\ UNCHANGED <<normalized, orphans, finished, bounds>>

-----------------------------------------------------------------------------
(* A crash of the process, and RecoverPartials at the next start.          *)

\* The split partial a worker is writing.
Unfinished(w) == IF pc[w] # "write" THEN {}
                 ELSE {i \in DOMAIN Outputs[from[w]] : \A j \in 1..i-1 : j \in temp[w]}

\* The temporary files a worker leaves behind.  RecoverPartials renames a copy
\* <candidate>.zip.partial to its candidate name when it verifies and the walk
\* gets there within its minute; it looks at no other temporary name.
Left(w) ==
    LET kind == CASE pc[w] = "copy" -> "copy"
                  [] pc[w] # "copy" /\ Kind[src[w]] = "whole" -> "candidate"
                  [] OTHER -> "split"
    IN {[kind |-> kind, of |-> src[w], data |-> Outputs[from[w]][i].data] :
           i \in temp[w] \cup Unfinished(w)}

Promoted(o) == IF o.kind = "copy" /\ OutputInRoot
               THEN [o EXCEPT !.kind = "candidate"] ELSE o

Crash ==
    /\ crashes < MaxCrashes
    /\ crashes' = crashes + 1
    /\ \E promoted \in SUBSET {w \in Workers : pc[w] = "copy"} :
          orphans' = orphans \cup
             UNION {{IF w \in promoted THEN Promoted(o) ELSE o : o \in Left(w)} :
                       w \in {v \in Workers : src[v] # NoSource}}
    /\ PublishCrash([w \in Workers |->
                        IF displaced[w] = NoFile THEN NoFile ELSE Target(w)])
    /\ normalized' = [d \in Dests |->
                         IF normalized[d] = NoPartial THEN NoPartial
                         ELSE [normalized[d] EXCEPT !.by = NoWorker]]
    /\ temp' = [w \in Workers |-> {}]
    /\ pc' = [w \in Workers |-> "idle"]
    /\ src' = [w \in Workers |-> NoSource]
    /\ from' = [w \in Workers |-> NoSource]
    /\ UNCHANGED <<source, finished, runs>>

-----------------------------------------------------------------------------

Step(w) == \/ Inspect(w) \/ Take(w) \/ BeginCopy(w) \/ EndCopy(w)
           \/ EndFlatten(w) \/ Verify(w) \/ Open(w) \/ Write(w)
           \/ Publish(w) \/ Displace(w) \/ Replace(w)
           \/ RemoveSource(w) \/ Tidy(w) \/ FailEarly(w) \/ FailPublish(w)

\* Every job has ended and the bounds allow no other.
Done == (\A w \in Workers : pc[w] = "idle") /\ runs = MaxRuns /\ UNCHANGED vars

Next == \/ \E w \in Workers : Step(w) \/ \E s \in Sources : Begin(w, s)
        \/ Crash
        \/ Done

Spec == Init /\ [][Next]_vars
FairSpec == Spec /\ \A w \in Workers : WF_vars(Step(w))

-----------------------------------------------------------------------------
(* Properties.                                                             *)

\* The only copy of a moved source, under a name no reader looks at.
HeldBy(w, s) == src[w] = s /\ Moved(w) /\ 1 \in temp[w]
LeftBehind(s) == \E o \in orphans : o.kind = "candidate" /\ o.of = s

Delivered(s) == \A i \in DOMAIN Outputs[s] : Findable(Outputs[s][i].data)

\* "Keep the source archive until the generated output passes verification"
\* (docs/design.md:16): whatever the workers, failures and crashes do, an
\* archive is still in the inbox, or every group of files in it is on the
\* shelf or in quarantine, or it lies complete under a candidate name.
ContentKept ==
    \A s \in Sources :
        \/ s \in source
        \/ Delivered(s)
        \/ \E w \in Workers : HeldBy(w, s)
        \/ LeftBehind(s)

\* A run that reported success has left every group of its archive where a
\* reader finds it, and no later run, failure or crash takes one away.
FinishedVisible == \A s \in finished : Delivered(s)

\* Without a crash nothing stays under a temporary name: a worker that is not
\* publishing holds no output, and a normalized partial belongs to a run of an
\* archive with that destination.
NoLitter ==
    /\ crashes = 0 => orphans = {}
    /\ \A w \in Workers : pc[w] \in {"idle", "tidy", "remove"} => temp[w] = {}
    /\ crashes = 0 => \A d \in Dests : normalized[d] # NoPartial =>
           \E w \in Workers : src[w] # NoSource /\ Dest[src[w]] = d

\* The shelf as other publications see it: a copy that is being replaced counts
\* as displayed until the mutex is released.
Shelf == [t \in Targets |->
             IF \E w \in Workers : displaced[w] # NoFile /\ Target(w) = t
             THEN displaced[CHOOSE w \in Workers : displaced[w] # NoFile]
             ELSE active[t]]

Lib == INSTANCE Library WITH shelf <- Shelf, archived <- quarantine,
                             outages <- crashes

\* The two renames of a replacement are one step for every other publication,
\* and no publication, failed or not, loses a copy or displays an older one.
LibrarySpec == Lib!Spec

\* Every run ends: no worker waits forever for the publication mutex.
RunsEnd == \A w \in Workers : pc[w] # "idle" ~> pc[w] = "idle"

\* "A stale `.partial` can be overwritten on a future retry"
\* (docs/design.md:90): a run that succeeds leaves no split partial of an
\* earlier attempt at the same archive.
StaleReplaced ==
    [][\A s \in finished' \ finished :
          \A o \in orphans' : o.of = s => o.kind # "split"]_vars
=============================================================================
