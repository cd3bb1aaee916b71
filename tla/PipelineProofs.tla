---------------------------- MODULE PipelineProofs ----------------------------
(***************************************************************************)
(* Theorems about ArchivePipeline, for any archives, groups, workers,      *)
(* failures and crashes.  What a worker holds under temporary names and    *)
(* has published follows from where it is, and the copy it displaces from  *)
(* who holds the mutex.                                                    *)
(***************************************************************************)
EXTENDS ArchivePipeline, TLAPS

\* A worker at step pc[w] has an archive, of a kind that has this step.
Working(w) ==
    /\ src[w] = NoSource <=> pc[w] = "idle"
    /\ from[w] = NoSource <=> pc[w] \in {"idle", "inspect"}
    /\ pc[w] \in {"take", "copy"} => Kind[src[w]] = "whole"
    /\ pc[w] \in {"flatten", "verify", "open", "tidy"} => Kind[src[w]] = "nested"
    /\ pc[w] = "write" => Kind[src[w]] # "whole"
    /\ pc[w] \in {"copy", "remove"} => ~Moved(w)
    /\ pc[w] \notin {"idle", "inspect"} /\ Kind[src[w]] # "nested" => from[w] = src[w]

Last(w) == Len(Outputs[from[w]])

Published(w, n) == \A j \in 1..n : Findable(Outputs[from[w]][j].data)

\* The groups are written from the first one on and published from the first one on.
Groups(w) ==
    /\ pc[w] \in {"idle", "inspect", "take", "flatten", "verify", "open", "remove", "tidy"} =>
          temp[w] = {}
    /\ pc[w] = "copy" => temp[w] = {1}
    /\ pc[w] = "write" => \E i \in 0..Last(w)-1 : temp[w] = 1..i
    /\ pc[w] \in {"publish", "swap"} =>
          \E i \in 1..Last(w) : temp[w] = i..Last(w) /\ Published(w, i-1)
    /\ pc[w] = "remove" => Published(w, Last(w))

\* Only the worker between its two renames holds the mutex and a displaced copy, and
\* its target is free.
Swapping(w) ==
    /\ displaced[w] # NoFile <=> pc[w] = "swap"
    /\ mutex = w <=> pc[w] = "swap"
    /\ pc[w] = "swap" =>
          /\ active[Target(w)] = NoFile
          /\ Decision(displaced[w], Candidate(w)) = "use-candidate"

\* A normalized partial lies at its destination, and before any crash somebody is
\* going to remove it.
Removes(w, d) ==
    src[w] # NoSource /\ Dest[src[w]] = d /\ Kind[src[w]] = "nested" /\ pc[w] # "inspect"

Intermediates ==
    \A d \in Dests : normalized[d] # NoPartial =>
       /\ Kind[normalized[d].of] = "nested" /\ Dest[normalized[d].of] = d
       /\ crashes = 0 => \E w \in Workers : Removes(w, d)

IInv == /\ TypeOK
        /\ \A w \in Workers : Working(w) /\ Groups(w) /\ Swapping(w)
        /\ Intermediates
        /\ crashes = 0 => orphans = {}

\* Nested archives that are processed at once have different destinations.
DistinctNested ==
    \A s, q \in Sources :
       Kind[s] = "nested" /\ Kind[q] = "nested" /\ Dest[s] = Dest[q] => s = q

\* With that, a worker publishes what is in its own archive.
Own == \A w \in Workers : from[w] \in {NoSource, src[w]}

USE PublishAssumption, PipelineAssumption

-----------------------------------------------------------------------------
(* Groups and candidates.                                                     *)

\* Every archive has a first group, and each group is a content for a target.
LEMMA OutputFact ==
    ASSUME NEW s \in Sources
    PROVE  /\ Len(Outputs[s]) \in Nat /\ Len(Outputs[s]) >= 1
           /\ DOMAIN Outputs[s] = 1..Len(Outputs[s])
           /\ \A i \in 1..Len(Outputs[s]) :
                 /\ Outputs[s][i].target \in Targets /\ Outputs[s][i].data \in Contents
<1>1. Outputs[s] \in Seq(Output) /\ Outputs[s] # <<>>  OBVIOUS
<1>2. \A i \in 1..Len(Outputs[s]) : Outputs[s][i] \in Output  BY <1>1
<1> QED  BY <1>1, <1>2 DEF Output

LEMMA FirstFact ==
    ASSUME NEW i \in Nat, NEW n \in Nat, i <= n
    PROVE  First(i..n) = i
<1>1. i \in i..n /\ \A k \in i..n : i <= k  OBVIOUS
<1>2. First(i..n) \in i..n /\ \A k \in i..n : First(i..n) <= k
  BY <1>1 DEF First
<1> QED  BY <1>1, <1>2

\* What a publishing worker has in hand.
LEMMA CandidateFact ==
    ASSUME TypeOK, NEW w \in Workers, Working(w), Groups(w), pc[w] \in {"publish", "swap"}
    PROVE  /\ src[w] \in Sources /\ from[w] \in Sources
           /\ Last(w) \in Nat /\ Current(w) \in 1..Last(w)
           /\ temp[w] = Current(w)..Last(w)
           /\ Published(w, Current(w)-1)
           /\ Target(w) \in Targets
           /\ Candidate(w) \in File /\ Candidate(w) # NoFile
           /\ Candidate(w).data = Outputs[from[w]][Current(w)].data
<1>1. src[w] \in Sources /\ from[w] \in Sources  BY DEF TypeOK, Working
<1>2. Last(w) \in Nat /\ Last(w) >= 1  BY <1>1, OutputFact DEF Last
<1>3. PICK i \in 1..Last(w) : temp[w] = i..Last(w) /\ Published(w, i-1)
  BY DEF Groups
<1>4. Current(w) = i  BY <1>2, <1>3, FirstFact DEF Current
<1>5. /\ Outputs[from[w]][i].target \in Targets /\ Outputs[from[w]][i].data \in Contents
  BY <1>1, <1>3, OutputFact DEF Last
<1>6. ModTime[src[w]] \in Times  BY <1>1
<1>7. Candidate(w) \in File  BY <1>4, <1>5, <1>6 DEF Candidate, File
<1> QED  BY <1>1, <1>2, <1>3, <1>4, <1>5, <1>7 DEF Target, Candidate

\* The initial state satisfies the invariant.
LEMMA InitInv == Init => IInv
<1> SUFFICES ASSUME Init  PROVE IInv
  OBVIOUS
<1> USE DEF Init, PublishInit
<1>1. NoPartial \notin Partial  BY DEF NoPartial, Partial
<1>2. TypeOK  BY DEF TypeOK, PublishTypeOK, Stages
<1>3. ASSUME NEW w \in Workers  PROVE Working(w) /\ Groups(w) /\ Swapping(w)
  BY <1>3 DEF Working, Groups, Swapping
<1>4. Intermediates  BY DEF Intermediates
<1> QED  BY <1>2, <1>3, <1>4 DEF IInv

-----------------------------------------------------------------------------
(* What each step changes.                                                    *)

USE DEF bounds, Goto

\* How a worker ends, or goes on to remove its normalized partial.
LEMMA ReturnFact ==
    ASSUME TypeOK, NEW w \in Workers, Return(w)
    PROVE  /\ pc' = [pc EXCEPT ![w] = pc'[w]]
           /\ \/ /\ Kind[src[w]] = "nested" /\ pc[w] \notin {"inspect", "flatten", "tidy"}
                 /\ pc'[w] = "tidy" /\ src' = src /\ from' = from
              \/ /\ Kind[src[w]] # "nested" \/ pc[w] \in {"inspect", "flatten", "tidy"}
                 /\ pc'[w] = "idle"
                 /\ src' = [src EXCEPT ![w] = NoSource]
                 /\ from' = [from EXCEPT ![w] = NoSource]
           /\ pc'[w] \in {"idle", "tidy"}
           /\ pc' \in [Workers -> Stages]
           /\ src' \in [Workers -> Sources \cup {NoSource}]
           /\ from' \in [Workers -> Sources \cup {NoSource}]
BY DEF TypeOK, Return, Stages

\* What follows a publication: the next group, or the end.
LEMMA AfterFact ==
    ASSUME TypeOK, NEW w \in Workers, Working(w), Groups(w), pc[w] \in {"publish", "swap"},
           AfterPublish(w)
    PROVE  /\ temp' = [temp EXCEPT ![w] = (Current(w)+1)..Last(w)]
           /\ pc' = [pc EXCEPT ![w] = pc'[w]]
           /\ UNCHANGED <<source, normalized, orphans, bounds>>
           /\ \/ /\ pc'[w] = "publish" /\ Current(w) < Last(w)
                 /\ UNCHANGED <<src, from, finished>>
              \/ /\ pc'[w] = "remove" /\ Current(w) = Last(w) /\ ~Moved(w)
                 /\ UNCHANGED <<src, from, finished>>
              \/ /\ pc'[w] = "idle" /\ Current(w) = Last(w) /\ Moved(w)
                 /\ src' = [src EXCEPT ![w] = NoSource] /\ from' = [from EXCEPT ![w] = NoSource]
                 /\ finished' = finished \cup {src[w]}
<1>1. /\ Last(w) \in Nat /\ Current(w) \in 1..Last(w) /\ temp[w] = Current(w)..Last(w)
  BY CandidateFact
<1>2. temp[w] \ {Current(w)} = (Current(w)+1)..Last(w)  BY <1>1
<1>3. temp[w] = {Current(w)} <=> Current(w) = Last(w)
  <2>1. Last(w) \in temp[w] /\ Current(w) \in temp[w]  BY <1>1
  <2>2. Current(w) = Last(w) => temp[w] = {Current(w)}  BY <1>1
  <2> QED  BY <2>1, <2>2
<1>4. /\ temp' = [temp EXCEPT ![w] = (Current(w)+1)..Last(w)]
      /\ UNCHANGED <<source, normalized, orphans, bounds>>
  BY <1>2 DEF AfterPublish
<1>5. CASE Current(w) # Last(w)
  <2>1. Goto(w, "publish") /\ UNCHANGED <<src, from, finished>>
    BY <1>3, <1>5 DEF AfterPublish
  <2>2. Current(w) < Last(w)  BY <1>1, <1>5
  <2> QED  BY <1>4, <2>1, <2>2 DEF TypeOK
<1>6. CASE Current(w) = Last(w) /\ Moved(w)
  <2>1. Return(w) /\ finished' = finished \cup {src[w]}
    BY <1>3, <1>6 DEF AfterPublish
  <2>2. Kind[src[w]] # "nested"  BY <1>6 DEF Moved
  <2> QED  BY <1>4, <1>6, <2>1, <2>2, ReturnFact
<1>7. CASE Current(w) = Last(w) /\ ~Moved(w)
  <2>1. Goto(w, "remove") /\ UNCHANGED <<src, from, finished>>
    BY <1>3, <1>7 DEF AfterPublish
  <2> QED  BY <1>4, <1>7, <2>1 DEF TypeOK
<1> QED  BY <1>5, <1>6, <1>7

-----------------------------------------------------------------------------
(* Type correctness.                                                          *)

\* A publication leaves files at targets and in quarantine.
LEMMA PublicationType ==
    ASSUME TypeOK, NEW w \in Workers, Working(w), Groups(w), Swapping(w),
           Publish(w) \/ Displace(w) \/ Replace(w)
    PROVE  /\ PublishTypeOK' /\ temp' \in [Workers -> SUBSET Nat]
           /\ pc' \in [Workers -> Stages] /\ finished' \in SUBSET Sources
           /\ src' \in [Workers -> Sources \cup {NoSource}]
           /\ from' \in [Workers -> Sources \cup {NoSource}]
           /\ UNCHANGED <<source, normalized, orphans, bounds>>
<1>1. pc[w] \in {"publish", "swap"}  BY DEF Publish, Displace, Replace
<1>2. /\ Target(w) \in Targets /\ Candidate(w) \in File /\ src[w] \in Sources
      /\ Last(w) \in Nat /\ Current(w) \in 1..Last(w)
  BY <1>1, CandidateFact
<1>3. PublishTypeOK'
  <2>1. CASE PublishNew(Target(w), Candidate(w))
    BY <1>2, <2>1 DEF TypeOK, PublishTypeOK, PublishNew
  <2>2. CASE PublishToQuarantine(Target(w), Candidate(w))
    BY <1>2, <2>2 DEF TypeOK, PublishTypeOK, PublishToQuarantine, Quarantined
  <2>3. CASE Displace(w)
    <3>1. active[Target(w)] \in File \cup {NoFile}
      BY <1>2 DEF TypeOK, PublishTypeOK
    <3> QED  BY <1>2, <2>3, <3>1 DEF TypeOK, PublishTypeOK, Displace, PublishDisplace
  <2>4. CASE Replace(w)
    <3>1. displaced[w] \in File
      BY <2>4 DEF TypeOK, PublishTypeOK, Replace, Swapping
    <3> QED
      BY <1>2, <2>4, <3>1 DEF TypeOK, PublishTypeOK, Replace, PublishReplace, Quarantined
  <2> QED  BY <2>1, <2>2, <2>3, <2>4 DEF Publish
<1>4. CASE Displace(w)
  BY <1>3, <1>4 DEF TypeOK, Displace, Stages
<1>5. CASE Publish(w) \/ Replace(w)
  <2>1. AfterPublish(w)  BY <1>5 DEF Publish, Replace
  <2>2. (Current(w)+1)..Last(w) \in SUBSET Nat  BY <1>2
  <2>3. /\ temp' = [temp EXCEPT ![w] = (Current(w)+1)..Last(w)]
        /\ pc' = [pc EXCEPT ![w] = pc'[w]] /\ pc'[w] \in Stages
        /\ UNCHANGED <<source, normalized, orphans, bounds>>
    BY <1>1, <2>1, AfterFact DEF Stages
  <2>4. \/ UNCHANGED <<src, from, finished>>
        \/ /\ src' = [src EXCEPT ![w] = NoSource] /\ from' = [from EXCEPT ![w] = NoSource]
           /\ finished' = finished \cup {src[w]}
    BY <1>1, <2>1, AfterFact
  <2>5. temp' \in [Workers -> SUBSET Nat] /\ pc' \in [Workers -> Stages]
    BY <2>2, <2>3 DEF TypeOK
  <2>6. /\ finished' \in SUBSET Sources
        /\ src' \in [Workers -> Sources \cup {NoSource}]
        /\ from' \in [Workers -> Sources \cup {NoSource}]
    BY <1>2, <2>4 DEF TypeOK
  <2> QED  BY <1>3, <2>3, <2>5, <2>6
<1> QED  BY <1>4, <1>5

LEMMA FailPublishType ==
    ASSUME TypeOK, NEW w \in Workers, Working(w), Groups(w), Swapping(w), FailPublish(w)
    PROVE  TypeOK'
<1>1. pc[w] \in {"publish", "swap"}  BY DEF FailPublish
<1>2. Target(w) \in Targets /\ src[w] \in Sources  BY <1>1, CandidateFact
<1>3. PublishTypeOK'
  <2>1. CASE UNCHANGED library
    BY <2>1 DEF TypeOK, PublishTypeOK, library
  <2>2. CASE PublishRollback(w, Target(w))
    <3>1. displaced[w] \in File \cup {NoFile}  BY DEF TypeOK, PublishTypeOK
    <3> QED  BY <1>2, <2>2, <3>1 DEF TypeOK, PublishTypeOK, PublishRollback
  <2> QED  BY <2>1, <2>2 DEF FailPublish
<1>4. source' \in SUBSET Sources /\ temp' \in [Workers -> SUBSET Nat]
  BY <1>2 DEF FailPublish, UndoCandidate, TypeOK
<1>5. Return(w) /\ UNCHANGED <<normalized, orphans, finished, bounds>>
  BY DEF FailPublish
<1>6. /\ pc' \in [Workers -> Stages] /\ src' \in [Workers -> Sources \cup {NoSource}]
      /\ from' \in [Workers -> Sources \cup {NoSource}]
  BY <1>5, ReturnFact
<1> QED  BY <1>3, <1>4, <1>5, <1>6 DEF TypeOK

\* The steps on the way to publication, and those after it.
LEMMA StepType ==
    ASSUME TypeOK, NEW w \in Workers, Working(w), Groups(w), Swapping(w), Step(w)
    PROVE  TypeOK'
<1> USE DEF TypeOK
<1>0. pc[w] # "idle" => src[w] \in Sources  BY DEF Working
<1>1. CASE Inspect(w)
  <2>1. src[w] \in Sources  BY <1>0, <1>1 DEF Inspect
  <2>2. pc' \in [Workers -> Stages]  BY <1>1, <2>1 DEF Inspect, Stages
  <2>3. normalized' \in [Dests -> Partial \cup {NoPartial}]
    BY <1>1, <2>1 DEF Inspect, Partial
  <2>4. from' \in [Workers -> Sources \cup {NoSource}]  BY <1>1 DEF Inspect
  <2> QED  BY <1>1, <2>2, <2>3, <2>4 DEF Inspect, PublishTypeOK, library
<1>2. CASE Take(w) \/ BeginCopy(w)
  <2>1. temp' = [temp EXCEPT ![w] = {1}] /\ {1} \in SUBSET Nat
    BY <1>2 DEF Take, BeginCopy
  <2>2. temp' \in [Workers -> SUBSET Nat]  BY <2>1
  <2>3. pc' \in [Workers -> Stages]  BY <1>2 DEF Take, BeginCopy, Stages
  <2>4. source' \in SUBSET Sources  BY <1>2 DEF Take, BeginCopy
  <2> QED  BY <1>2, <2>2, <2>3, <2>4 DEF Take, BeginCopy, PublishTypeOK, library
<1>3. CASE EndCopy(w) \/ Verify(w)
  <2>1. pc' \in [Workers -> Stages]  BY <1>3 DEF EndCopy, Verify, Stages
  <2> QED  BY <1>3, <2>1 DEF EndCopy, Verify, PublishTypeOK, library
<1>4. CASE EndFlatten(w)
  <2>1. pc' \in [Workers -> Stages]  BY <1>4 DEF EndFlatten, Stages
  <2>2. Dest[src[w]] \in Dests  BY <1>0, <1>4 DEF EndFlatten
  <2>3. normalized' \in [Dests -> Partial \cup {NoPartial}]
    <3>1. CASE normalized[Dest[src[w]]].by = w
      <4>1. normalized[Dest[src[w]]] \in Partial
        BY <2>2, <3>1 DEF NoPartial
      <4>2. normalized' = [normalized EXCEPT ![Dest[src[w]]].done = TRUE]
        BY <1>4, <3>1 DEF EndFlatten
      <4> QED  BY <4>1, <4>2 DEF Partial
    <3>2. CASE normalized[Dest[src[w]]].by # w
      BY <1>4, <3>2 DEF EndFlatten
    <3> QED  BY <3>1, <3>2
  <2> QED  BY <1>4, <2>1, <2>3 DEF EndFlatten, PublishTypeOK, library
<1>5. CASE Open(w)
  <2>1. pc' \in [Workers -> Stages]  BY <1>5 DEF Open, Stages
  <2>2. normalized[Dest[src[w]]] \in Partial
    <3>1. Dest[src[w]] \in Dests /\ normalized[Dest[src[w]]].done
      BY <1>0, <1>5 DEF Open
    <3> QED  BY <3>1 DEF NoPartial
  <2>3. normalized[Dest[src[w]]].of \in Sources  BY <2>2 DEF Partial
  <2>4. from' \in [Workers -> Sources \cup {NoSource}]  BY <1>5, <2>3 DEF Open
  <2> QED  BY <1>5, <2>1, <2>4 DEF Open, PublishTypeOK, library
<1>6. CASE Write(w)
  <2>1. PICK i \in 1..Last(w) :
           /\ temp' = [temp EXCEPT ![w] = @ \cup {i}]
           /\ Goto(w, IF i = Last(w) THEN "publish" ELSE "write")
    BY <1>6 DEF Write, Last
  <2>2. i \in Nat
    <3>1. from[w] \in Sources  BY <1>6 DEF Write, Working
    <3> QED  BY <3>1, OutputFact DEF Last
  <2>3. temp' \in [Workers -> SUBSET Nat] /\ pc' \in [Workers -> Stages]
    BY <2>1, <2>2 DEF Stages
  <2> QED  BY <1>6, <2>3 DEF Write, PublishTypeOK, library
<1>7. CASE Publish(w) \/ Displace(w) \/ Replace(w)  BY <1>7, PublicationType
<1>8. CASE FailPublish(w)  BY <1>8, FailPublishType
<1>9. CASE RemoveSource(w) \/ Tidy(w) \/ FailEarly(w)
  <2>1. Return(w)  BY <1>9 DEF RemoveSource, Tidy, FailEarly
  <2>2. /\ pc' \in [Workers -> Stages] /\ src' \in [Workers -> Sources \cup {NoSource}]
        /\ from' \in [Workers -> Sources \cup {NoSource}]
    BY <2>1, ReturnFact
  <2>3. finished' \in SUBSET Sources /\ source' \in SUBSET Sources
    BY <1>0, <1>9 DEF RemoveSource, Tidy, FailEarly
  <2>4. /\ normalized' \in [Dests -> Partial \cup {NoPartial}]
        /\ temp' \in [Workers -> SUBSET Nat]
    BY <1>9 DEF RemoveSource, Tidy, FailEarly
  <2> QED
    BY <1>9, <2>2, <2>3, <2>4 DEF RemoveSource, Tidy, FailEarly, PublishTypeOK, library
<1> QED  BY <1>1, <1>2, <1>3, <1>4, <1>5, <1>6, <1>7, <1>8, <1>9 DEF Step

\* What a worker leaves behind is part of its archive.
LEMMA LeftFact ==
    ASSUME TypeOK, NEW w \in Workers, Working(w), Groups(w), src[w] # NoSource
    PROVE  \A o \in Left(w) : o \in Orphan /\ Promoted(o) \in Orphan
<1>1. SUFFICES ASSUME NEW o \in Left(w)  PROVE o \in Orphan /\ Promoted(o) \in Orphan
  OBVIOUS
<1> DEFINE kind == CASE pc[w] = "copy" -> "copy"
                     [] pc[w] # "copy" /\ Kind[src[w]] = "whole" -> "candidate"
                     [] OTHER -> "split"
<1>0. kind \in {"candidate", "copy", "split"}  OBVIOUS
<1> HIDE DEF kind
<1>2. PICK i \in temp[w] \cup Unfinished(w) :
         o = [kind |-> kind, of |-> src[w], data |-> Outputs[from[w]][i].data]
  BY DEF Left, kind
<1>3. src[w] \in Sources  BY DEF TypeOK
<1>4. pc[w] \in {"copy", "write", "publish", "swap"}
  BY <1>2 DEF Groups, Unfinished, TypeOK, Stages
<1>5. from[w] \in Sources  BY <1>4 DEF Working, TypeOK
<1>6. Last(w) \in Nat /\ Last(w) >= 1  BY <1>5, OutputFact DEF Last
<1>7. i \in 1..Last(w)
  <2>1. CASE i \in Unfinished(w)
    BY <1>5, <2>1, OutputFact DEF Unfinished, Last
  <2>2. CASE i \in temp[w]
    BY <1>4, <1>6, <2>2 DEF Groups
  <2> QED  BY <1>2, <2>1, <2>2
<1>8. o.data \in Contents  BY <1>2, <1>5, <1>7, OutputFact DEF Last
<1>9. o \in Orphan  BY <1>0, <1>2, <1>3, <1>8 DEF Orphan
<1> QED  BY <1>9 DEF Promoted, Orphan

LEMMA CrashType ==
    ASSUME TypeOK, \A w \in Workers : Working(w) /\ Groups(w) /\ Swapping(w), Crash
    PROVE  TypeOK'
<1>1. orphans' \in SUBSET Orphan
  <2>1. PICK promoted \in SUBSET {w \in Workers : pc[w] = "copy"} :
           orphans' = orphans \cup
             UNION {{IF w \in promoted THEN Promoted(o) ELSE o : o \in Left(w)} :
                       w \in {v \in Workers : src[v] # NoSource}}
    BY DEF Crash
  <2>2. ASSUME NEW w \in Workers, src[w] # NoSource, NEW o \in Left(w)
        PROVE  (IF w \in promoted THEN Promoted(o) ELSE o) \in Orphan
    BY <2>2, LeftFact
  <2> QED  BY <2>1, <2>2 DEF TypeOK
<1>2. PublishTypeOK'
  <2>1. \A w \in Workers : displaced[w] # NoFile =>
           Target(w) \in Targets /\ displaced[w] \in File
    BY CandidateFact DEF Swapping, TypeOK, PublishTypeOK
  <2>2. \A w \in Workers : displaced[w] # NoFile =>
           [target |-> Target(w), file |-> displaced[w]] \in [target : Targets, file : File]
    BY <2>1
  <2>3. /\ quarantine' = quarantine \cup
              {Quarantined(IF displaced[w] = NoFile THEN NoFile ELSE Target(w), displaced[w]) :
                  w \in {v \in Workers : displaced[v] # NoFile}}
        /\ displaced' = [w \in Workers |-> NoFile] /\ mutex' = NoWorker /\ active' = active
    BY DEF Crash, PublishCrash
  <2>4. quarantine' \in SUBSET [target : Targets, file : File]
    BY <2>2, <2>3 DEF TypeOK, PublishTypeOK, Quarantined
  <2> QED  BY <2>3, <2>4 DEF TypeOK, PublishTypeOK
<1>3. normalized' \in [Dests -> Partial \cup {NoPartial}]
  <2>1. ASSUME NEW d \in Dests, normalized[d] # NoPartial
        PROVE  [normalized[d] EXCEPT !.by = NoWorker] \in Partial
    <3>1. normalized[d] \in Partial  BY <2>1 DEF TypeOK
    <3> QED  BY <3>1 DEF Partial
  <2> QED  BY <2>1 DEF Crash
<1>4. /\ temp' \in [Workers -> SUBSET Nat] /\ pc' \in [Workers -> Stages]
      /\ src' \in [Workers -> Sources \cup {NoSource}]
      /\ from' \in [Workers -> Sources \cup {NoSource}]
  BY DEF Crash, Stages
<1>5. crashes' \in 0..MaxCrashes  BY DEF Crash, TypeOK
<1>6. UNCHANGED <<source, finished, runs>>  BY DEF Crash
<1> QED  BY <1>1, <1>2, <1>3, <1>4, <1>5, <1>6 DEF TypeOK

LEMMA TypeStep ==
    ASSUME TypeOK, \A w \in Workers : Working(w) /\ Groups(w) /\ Swapping(w), [Next]_vars
    PROVE  TypeOK'
<1>1. ASSUME NEW w \in Workers, Step(w)  PROVE TypeOK'
  BY <1>1, StepType
<1>2. ASSUME NEW w \in Workers, NEW s \in Sources, Begin(w, s)  PROVE TypeOK'
  <2>1. runs' \in 0..MaxRuns /\ pc' \in [Workers -> Stages]
    BY <1>2 DEF Begin, TypeOK, Stages
  <2>2. src' \in [Workers -> Sources \cup {NoSource}]  BY <1>2 DEF Begin, TypeOK
  <2> QED  BY <1>2, <2>1, <2>2 DEF Begin, TypeOK, PublishTypeOK, library
<1>3. CASE Crash  BY <1>3, CrashType
<1>4. CASE UNCHANGED vars  BY <1>4 DEF TypeOK, PublishTypeOK, library, vars
<1> QED  BY <1>1, <1>2, <1>3, <1>4 DEF Next, Done

-----------------------------------------------------------------------------
(* Steps of different workers.                                                *)

\* A worker changes nothing that another one has in hand, and takes nothing from
\* the library while another one is between its renames.
LEMMA OtherFact ==
    ASSUME TypeOK, NEW w \in Workers, Working(w), Groups(w), Swapping(w), Step(w),
           NEW v \in Workers \ {w}
    PROVE  /\ pc'[v] = pc[v] /\ src'[v] = src[v] /\ from'[v] = from[v] /\ temp'[v] = temp[v]
           /\ displaced'[v] = displaced[v] /\ (mutex' = v <=> mutex = v)
           /\ mutex = v => active' = active
<1> USE DEF TypeOK, PublishTypeOK
<1>1. CASE Inspect(w) \/ Take(w) \/ BeginCopy(w) \/ EndCopy(w)
  BY <1>1 DEF Inspect, Take, BeginCopy, EndCopy, library
<1>2. CASE EndFlatten(w) \/ Verify(w) \/ Open(w)
  BY <1>2 DEF EndFlatten, Verify, Open, library
<1>3. CASE Write(w)  BY <1>3 DEF Write, library
<1>4. CASE Publish(w) \/ Replace(w)
  <2>1. AfterPublish(w) /\ pc[w] \in {"publish", "swap"}  BY <1>4 DEF Publish, Replace
  <2>2. temp' = [temp EXCEPT ![w] = (Current(w)+1)..Last(w)] /\ pc' = [pc EXCEPT ![w] = pc'[w]]
        /\ \/ UNCHANGED <<src, from>>
           \/ src' = [src EXCEPT ![w] = NoSource] /\ from' = [from EXCEPT ![w] = NoSource]
    BY <2>1, AfterFact
  <2>3. pc'[v] = pc[v] /\ src'[v] = src[v] /\ from'[v] = from[v] /\ temp'[v] = temp[v]
    BY <2>2
  <2>4. /\ displaced'[v] = displaced[v] /\ (mutex' = v <=> mutex = v)
        /\ mutex = v => active' = active
    BY <1>4 DEF Publish, PublishNew, PublishToQuarantine, Replace, PublishReplace, Swapping
  <2> QED  BY <2>3, <2>4
<1>5. CASE Displace(w)  BY <1>5 DEF Displace, PublishDisplace
<1>6. CASE FailPublish(w)
  <2>1. Return(w) /\ temp' = [temp EXCEPT ![w] = {}]
    BY <1>6 DEF FailPublish, UndoCandidate
  <2>2. temp'[v] = temp[v]  BY <2>1
  <2>3. pc'[v] = pc[v] /\ src'[v] = src[v] /\ from'[v] = from[v]
    BY <2>1 DEF Return
  <2>4. /\ displaced'[v] = displaced[v] /\ (mutex' = v <=> mutex = v)
        /\ mutex = v => active' = active
    BY <1>6 DEF FailPublish, PublishRollback, Swapping, library
  <2> QED  BY <2>2, <2>3, <2>4
<1>7. CASE RemoveSource(w) \/ Tidy(w) \/ FailEarly(w)
  <2>1. Return(w) /\ UNCHANGED library
    BY <1>7 DEF RemoveSource, Tidy, FailEarly
  <2>2. temp'[v] = temp[v]  BY <1>7 DEF RemoveSource, Tidy, FailEarly
  <2>3. pc'[v] = pc[v] /\ src'[v] = src[v] /\ from'[v] = from[v]
    BY <2>1 DEF Return
  <2> QED  BY <2>1, <2>2, <2>3 DEF library
<1> QED  BY <1>1, <1>2, <1>3, <1>4, <1>5, <1>6, <1>7 DEF Step

\* Only the steps of a publication and a crash touch the library.
LEMMA LibraryFact ==
    ASSUME [Next]_vars, ~Crash,
           ~\E w \in Workers : Publish(w) \/ Displace(w) \/ Replace(w) \/ FailPublish(w)
    PROVE  UNCHANGED library
BY DEF Next, Step, Begin, Done, Inspect, Take, BeginCopy, EndCopy, EndFlatten, Verify, Open,
       Write, RemoveSource, Tidy, FailEarly, vars, library

\* No step takes a copy out of a reader's reach.
LEMMA FindableStays ==
    ASSUME TypeOK, \A w \in Workers : Working(w) /\ Groups(w) /\ Swapping(w), [Next]_vars,
           NEW c, Findable(c)
    PROVE  Findable(c)'
<1> USE DEF TypeOK, PublishTypeOK
<1>1. ASSUME NEW w \in Workers, Publish(w)  PROVE Findable(c)'
  <2>1. Target(w) \in Targets  BY <1>1, CandidateFact DEF Publish
  <2> QED  BY <1>1, <2>1 DEF Publish, PublishNew, PublishToQuarantine, Findable
<1>2. ASSUME NEW w \in Workers, Displace(w)  PROVE Findable(c)'
  <2>1. Target(w) \in Targets  BY <1>2, CandidateFact DEF Displace
  <2>2. /\ active[Target(w)] # NoFile /\ displaced[w] = NoFile
        /\ displaced' = [displaced EXCEPT ![w] = active[Target(w)]]
        /\ active' = [active EXCEPT ![Target(w)] = NoFile] /\ quarantine' = quarantine
    BY <1>2 DEF Displace, PublishDisplace, Swapping
  <2>3. displaced'[w] = active[Target(w)]  BY <2>2
  <2>4. \A v \in Workers \ {w} : displaced'[v] = displaced[v]  BY <2>2
  <2>5. \A t \in Targets \ {Target(w)} : active'[t] = active[t]  BY <2>2
  <2> HIDE DEF TypeOK, PublishTypeOK
  <2> QED  BY <2>1, <2>2, <2>3, <2>4, <2>5 DEF Findable
<1>3. ASSUME NEW w \in Workers, Replace(w) \/ (FailPublish(w) /\ pc[w] = "swap")
      PROVE  Findable(c)'
  <2>1. pc[w] = "swap"  BY <1>3 DEF Replace
  <2>2. Target(w) \in Targets /\ Candidate(w) # NoFile  BY <2>1, CandidateFact
  <2>3. active[Target(w)] = NoFile /\ displaced[w] # NoFile  BY <2>1 DEF Swapping
  <2>4. /\ displaced' = [displaced EXCEPT ![w] = NoFile]
        /\ \/ /\ active' = [active EXCEPT ![Target(w)] = Candidate(w)]
              /\ quarantine' = quarantine \cup {Quarantined(Target(w), displaced[w])}
           \/ /\ active' = [active EXCEPT ![Target(w)] = displaced[w]]
              /\ quarantine' = quarantine
    BY <1>3, <2>1 DEF Replace, PublishReplace, FailPublish, PublishRollback
  <2>5. \A v \in Workers \ {w} : displaced'[v] = displaced[v]  BY <2>4
  <2>6. \A t \in Targets \ {Target(w)} : active'[t] = active[t]  BY <2>4
  <2>7. \/ active'[Target(w)] = displaced[w]
        \/ \E q \in quarantine' : q.file = displaced[w]
    <3>1. CASE active' = [active EXCEPT ![Target(w)] = displaced[w]]
      BY <2>2, <3>1
    <3>2. CASE quarantine' = quarantine \cup {Quarantined(Target(w), displaced[w])}
      <4>1. Quarantined(Target(w), displaced[w]) \in quarantine'  BY <3>2
      <4> QED  BY <4>1 DEF Quarantined
    <3> QED  BY <2>4, <3>1, <3>2
  <2>8. quarantine \subseteq quarantine'  BY <2>4
  <2> HIDE DEF TypeOK, PublishTypeOK
  <2>9. ASSUME NEW t \in Targets, active[t] # NoFile, active[t].data = c
        PROVE  Findable(c)'
    BY <2>3, <2>6, <2>9 DEF Findable
  <2>10. ASSUME NEW q \in quarantine, q.file.data = c  PROVE Findable(c)'
    BY <2>8, <2>10 DEF Findable
  <2>11. ASSUME NEW v \in Workers, displaced[v] # NoFile, displaced[v].data = c
         PROVE  Findable(c)'
    <3>1. CASE v = w  BY <2>2, <2>3, <2>7, <2>11, <3>1 DEF Findable
    <3>2. CASE v # w  BY <2>5, <2>11, <3>2 DEF Findable
    <3> QED  BY <3>1, <3>2
  <2> QED  BY <2>9, <2>10, <2>11 DEF Findable
<1>4. ASSUME NEW w \in Workers, FailPublish(w), pc[w] # "swap"  PROVE Findable(c)'
  BY <1>4 DEF FailPublish, Findable, library
<1>5. CASE Crash
  <2> HIDE DEF TypeOK, PublishTypeOK
  <2> DEFINE target == [v \in Workers |-> IF displaced[v] = NoFile THEN NoFile ELSE Target(v)]
  <2>1. active' = active /\ quarantine \subseteq quarantine'
    BY <1>5 DEF Crash, PublishCrash
  <2>2. ASSUME NEW v \in Workers, displaced[v] # NoFile
        PROVE  \E q \in quarantine' : q.file = displaced[v]
    <3>1. Quarantined(target[v], displaced[v]) \in quarantine'
      BY <1>5, <2>2 DEF Crash, PublishCrash
    <3> QED  BY <3>1 DEF Quarantined
  <2> QED  BY <2>1, <2>2 DEF Findable
<1>6. CASE UNCHANGED library
  BY <1>6 DEF Findable, library
<1> QED  BY <1>1, <1>2, <1>3, <1>4, <1>5, <1>6, LibraryFact

-----------------------------------------------------------------------------
(* What a worker holds.                                                       *)

\* What is said of a worker stays true while others take steps.
LEMMA Untouched ==
    ASSUME NEW v \in Workers, Working(v), Groups(v), Swapping(v),
           pc'[v] = pc[v], src'[v] = src[v], from'[v] = from[v], temp'[v] = temp[v],
           displaced'[v] = displaced[v], mutex' = v <=> mutex = v,
           mutex = v => active' = active,
           \A c : Findable(c) => Findable(c)'
    PROVE  Working(v)' /\ Groups(v)' /\ Swapping(v)'
<1>1. Working(v)'  BY DEF Working, Moved
<1>2. Last(v)' = Last(v)  BY DEF Last
<1>3. \A n : Published(v, n) => Published(v, n)'  BY DEF Published
<1>4. Groups(v)'
  <2>1. pc'[v] = "write" => \E i \in 0..Last(v)'-1 : temp'[v] = 1..i
    BY <1>2 DEF Groups
  <2>2. pc'[v] \in {"publish", "swap"} =>
           \E i \in 1..Last(v)' : temp'[v] = i..Last(v)' /\ Published(v, i-1)'
    BY <1>2, <1>3 DEF Groups
  <2>3. pc'[v] = "remove" => Published(v, Last(v))'
    BY <1>2, <1>3 DEF Groups
  <2> QED  BY <2>1, <2>2, <2>3 DEF Groups
<1>5. Target(v)' = Target(v) /\ Candidate(v)' = Candidate(v)
  BY DEF Target, Candidate, Current
<1>6. Swapping(v)'  BY <1>5 DEF Swapping
<1> QED  BY <1>1, <1>4, <1>6

\* What is published is found from then on.
LEMMA PublishedFact ==
    ASSUME TypeOK, NEW w \in Workers, Working(w), Groups(w), Publish(w) \/ Replace(w),
           NEW c, c = Candidate(w).data
    PROVE  Findable(c)'
<1>1. Target(w) \in Targets /\ Candidate(w) # NoFile
  BY CandidateFact DEF Publish, Replace
<1>2. CASE PublishToQuarantine(Target(w), Candidate(w))
  <2>1. Quarantined(Target(w), Candidate(w)) \in quarantine'
    BY <1>2 DEF PublishToQuarantine
  <2> QED  BY <2>1 DEF Quarantined, Findable
<1>3. CASE ~PublishToQuarantine(Target(w), Candidate(w))
  <2>1. active'[Target(w)] = Candidate(w)
    BY <1>1, <1>3 DEF Publish, PublishNew, Replace, PublishReplace, TypeOK, PublishTypeOK
  <2> QED  BY <1>1, <2>1 DEF Findable
<1> QED  BY <1>2, <1>3

\* The step of a worker leaves it with what belongs to its next step.
LEMMA OwnStep ==
    ASSUME TypeOK, NEW w \in Workers, Working(w), Groups(w), Swapping(w), Step(w),
           \A c : Findable(c) => Findable(c)'
    PROVE  Working(w)' /\ Groups(w)'
<1>0. /\ pc \in [Workers -> Stages] /\ src \in [Workers -> Sources \cup {NoSource}]
      /\ from \in [Workers -> Sources \cup {NoSource}] /\ temp \in [Workers -> SUBSET Nat]
  BY DEF TypeOK
<1>1. CASE Inspect(w)
  <2>1. /\ pc[w] = "inspect" /\ src[w] \in Sources /\ temp[w] = {}
    BY <1>0, <1>1 DEF Inspect, Working, Groups
  <2>2. /\ pc' = [pc EXCEPT ![w] = CASE Kind[src[w]] = "whole"  -> "take"
                                     [] Kind[src[w]] = "split"  -> "write"
                                     [] Kind[src[w]] = "nested" -> "flatten"]
        /\ from' = [from EXCEPT ![w] = src[w]] /\ UNCHANGED <<src, temp>>
    BY <1>1 DEF Inspect
  <2>3. Kind[src[w]] \in {"whole", "split", "nested"}  BY <2>1
  <2>4. /\ Kind[src[w]] = "whole" => pc'[w] = "take"
        /\ Kind[src[w]] = "split" => pc'[w] = "write"
        /\ Kind[src[w]] = "nested" => pc'[w] = "flatten"
    BY <1>0, <2>2
  <2>5. from'[w] = src[w] /\ src'[w] = src[w] /\ temp'[w] = {}
    BY <1>0, <2>1, <2>2
  <2>6. Working(w)'  BY <2>1, <2>3, <2>4, <2>5 DEF Working, Moved
  <2>7. 0 \in 0..Last(w)'-1 /\ temp'[w] = 1..0
    BY <2>1, <2>5, OutputFact DEF Last
  <2> QED  BY <2>3, <2>4, <2>5, <2>6, <2>7 DEF Groups
<1>2. CASE Take(w) \/ BeginCopy(w) \/ EndCopy(w)
  <2>1. /\ src[w] \in Sources /\ from[w] = src[w] /\ Kind[src[w]] = "whole"
        /\ UNCHANGED <<src, from>>
    BY <1>0, <1>2 DEF Take, BeginCopy, EndCopy, Working
  <2>2. Last(w)' = 1  BY <2>1 DEF Last
  <2>3. temp'[w] = {1}
    BY <1>0, <1>2 DEF Take, BeginCopy, EndCopy, Groups
  <2>4. \/ pc'[w] = "publish"
        \/ pc'[w] = "copy" /\ ~Moved(w)
    BY <1>0, <1>2 DEF Take, BeginCopy, EndCopy
  <2>5. Working(w)'  BY <2>1, <2>4 DEF Working, Moved
  <2>6. 1 \in 1..1 /\ {1} = 1..1 /\ Published(w, 0)'  BY DEF Published
  <2> QED  BY <2>2, <2>3, <2>4, <2>5, <2>6 DEF Groups
<1>3. CASE EndFlatten(w) \/ Verify(w)
  BY <1>0, <1>3 DEF EndFlatten, Verify, Working, Groups, Moved
<1>4. CASE Open(w)
  <2>1. Dest[src[w]] \in Dests /\ normalized[Dest[src[w]]] \in Partial
    <3>1. src[w] \in Sources /\ normalized[Dest[src[w]]].done
      BY <1>0, <1>4 DEF Open, Working
    <3> QED  BY <3>1 DEF NoPartial, TypeOK
  <2>2. normalized[Dest[src[w]]].of \in Sources  BY <2>1 DEF Partial
  <2>3. pc'[w] = "write" /\ from'[w] \in Sources /\ src'[w] = src[w] /\ temp'[w] = {}
    BY <1>0, <1>4, <2>2 DEF Open, Groups
  <2>4. Working(w)'  BY <1>4, <2>3 DEF Open, Working, Moved
  <2>5. 0 \in 0..Last(w)'-1 /\ temp'[w] = 1..0
    BY <2>3, OutputFact DEF Last
  <2> QED  BY <2>3, <2>4, <2>5 DEF Groups
<1>5. CASE Write(w)
  <2>1. from[w] \in Sources  BY <1>0, <1>5 DEF Write, Working
  <2>2. Last(w) \in Nat /\ Last(w) >= 1  BY <2>1, OutputFact DEF Last
  <2>3. PICK i \in 1..Last(w) :
           /\ \A j \in 1..Last(w) : j < i <=> j \in temp[w]
           /\ temp' = [temp EXCEPT ![w] = @ \cup {i}]
           /\ Goto(w, IF i = Last(w) THEN "publish" ELSE "write")
    BY <1>5 DEF Write, Last
  <2>4. PICK k \in 0..Last(w)-1 : temp[w] = 1..k  BY <1>5 DEF Write, Groups
  <2>5. i = k + 1
    <3>1. i \notin temp[w]  BY <2>2, <2>3
    <3>2. k >= 1 => k < i  BY <2>2, <2>3, <2>4
    <3>3. k + 1 \in 1..Last(w) /\ k + 1 \notin temp[w]  BY <2>2, <2>4
    <3>4. ~(k + 1 < i)  BY <2>3, <3>3
    <3> QED  BY <2>2, <2>3, <2>4, <3>1, <3>2, <3>4
  <2>6. temp'[w] = 1..i  BY <1>0, <2>2, <2>3, <2>4, <2>5
  <2>7. pc[w] = "write" /\ UNCHANGED <<src, from>>  BY <1>5 DEF Write
  <2>8. pc'[w] = IF i = Last(w) THEN "publish" ELSE "write"  BY <1>0, <2>3
  <2>9. Working(w)'  BY <2>7, <2>8 DEF Working, Moved
  <2>10. Last(w)' = Last(w)  BY <2>7 DEF Last
  <2>11. CASE i = Last(w)
    <3>1. Published(w, 1-1)'  BY DEF Published
    <3>2. \E k1 \in 1..Last(w)' : temp'[w] = k1..Last(w)' /\ Published(w, k1-1)'
      BY <2>2, <2>6, <2>10, <2>11, <3>1
    <3> QED  BY <2>8, <2>9, <2>11, <3>2 DEF Groups
  <2>12. CASE i # Last(w)
    <3>1. i \in 0..Last(w)'-1  BY <2>2, <2>10, <2>12
    <3> QED  BY <2>6, <2>8, <2>9, <2>12, <3>1 DEF Groups
  <2> QED  BY <2>11, <2>12
<1>6. CASE Displace(w)
  <2>1. pc[w] = "publish" /\ pc'[w] = "swap" /\ UNCHANGED <<src, from, temp>>
    BY <1>0, <1>6 DEF Displace
  <2>2. PICK i \in 1..Last(w) : temp[w] = i..Last(w) /\ Published(w, i-1)
    BY <2>1 DEF Groups
  <2>3. Last(w)' = Last(w)  BY <2>1 DEF Last
  <2>4. Published(w, i-1)'  BY <2>1, <2>2 DEF Published
  <2>5. Working(w)'  BY <2>1 DEF Working, Moved
  <2> QED  BY <2>1, <2>2, <2>3, <2>4, <2>5 DEF Groups
<1>7. CASE Publish(w) \/ Replace(w)
  <2>1. pc[w] \in {"publish", "swap"} /\ AfterPublish(w)  BY <1>7 DEF Publish, Replace
  <2>2. /\ src[w] \in Sources /\ from[w] \in Sources
        /\ Last(w) \in Nat /\ Current(w) \in 1..Last(w) /\ Published(w, Current(w)-1)
        /\ Target(w) \in Targets /\ Candidate(w) # NoFile
        /\ Candidate(w).data = Outputs[from[w]][Current(w)].data
    BY <2>1, CandidateFact
  <2>3. ASSUME NEW c, c = Candidate(w).data  PROVE Findable(c)'
    BY <1>7, <2>3, PublishedFact
  <2>4. ASSUME NEW j \in 1..Current(w), NEW c, c = Outputs[from[w]][j].data
        PROVE  Findable(c)'
    <3>1. CASE j = Current(w)  BY <2>2, <2>3, <2>4, <3>1
    <3>2. CASE j # Current(w)
      <4>1. j \in 1..Current(w)-1  BY <2>2, <3>2
      <4> QED  BY <2>2, <2>4, <4>1 DEF Published
    <3> QED  BY <3>1, <3>2
  <2>5. /\ temp' = [temp EXCEPT ![w] = (Current(w)+1)..Last(w)]
        /\ \/ /\ pc'[w] = "publish" /\ Current(w) < Last(w)
              /\ UNCHANGED <<src, from>>
           \/ /\ pc'[w] = "remove" /\ Current(w) = Last(w) /\ ~Moved(w)
              /\ UNCHANGED <<src, from>>
           \/ /\ pc'[w] = "idle" /\ Current(w) = Last(w)
              /\ src' = [src EXCEPT ![w] = NoSource] /\ from' = [from EXCEPT ![w] = NoSource]
    BY <2>1, AfterFact
  <2>6. temp'[w] = (Current(w)+1)..Last(w)  BY <1>0, <2>5
  <2>7. CASE pc'[w] = "publish"
    <3>1. UNCHANGED <<src, from>> /\ Current(w) < Last(w)  BY <2>5, <2>7
    <3>2. Last(w)' = Last(w)  BY <3>1 DEF Last
    <3>3. Working(w)'  BY <2>1, <2>7, <3>1 DEF Working, Moved
    <3>4. Current(w)+1 \in 1..Last(w) /\ Current(w)+1-1 = Current(w)  BY <2>2, <3>1
    <3>5. ASSUME NEW k \in Nat, k = Current(w)+1  PROVE Published(w, k-1)'
      <4>1. SUFFICES ASSUME NEW j \in 1..k-1  PROVE Findable(Outputs[from[w]][j].data)'
        BY DEF Published
      <4>2. j \in 1..Current(w)  BY <2>2, <3>5
      <4> QED  BY <2>4, <3>1, <4>2
    <3>6. \E k \in 1..Last(w)' : temp'[w] = k..Last(w)' /\ Published(w, k-1)'
      BY <2>2, <2>6, <3>2, <3>4, <3>5
    <3> QED  BY <2>7, <3>3, <3>6 DEF Groups
  <2>8. CASE pc'[w] = "remove"
    <3>1. UNCHANGED <<src, from>> /\ Current(w) = Last(w) /\ ~Moved(w)  BY <2>5, <2>8
    <3>2. Last(w)' = Last(w)  BY <3>1 DEF Last
    <3>3. Working(w)'  BY <2>1, <2>8, <3>1 DEF Working, Moved
    <3>4. temp'[w] = {}  BY <2>2, <2>6, <3>1
    <3>5. Published(w, Last(w))'  BY <2>4, <3>1, <3>2 DEF Published
    <3> QED  BY <2>8, <3>3, <3>4, <3>5 DEF Groups
  <2>9. CASE pc'[w] = "idle"
    <3>1. src'[w] = NoSource /\ from'[w] = NoSource /\ Current(w) = Last(w)
      BY <1>0, <2>5, <2>9
    <3>2. temp'[w] = {}  BY <2>2, <2>6, <3>1
    <3> QED  BY <2>9, <3>1, <3>2 DEF Working, Groups
  <2> QED  BY <2>5, <2>7, <2>8, <2>9
<1>8. CASE RemoveSource(w) \/ Tidy(w) \/ FailEarly(w) \/ FailPublish(w)
  <2>1. Return(w) /\ pc[w] # "idle"
    BY <1>8 DEF RemoveSource, Tidy, FailEarly, FailPublish
  <2>2. temp'[w] = {}
    BY <1>0, <1>8 DEF RemoveSource, Tidy, FailEarly, FailPublish, UndoCandidate, Groups
  <2>3. CASE pc'[w] = "tidy"
    <3>1. /\ Kind[src[w]] = "nested" /\ pc[w] # "inspect"
          /\ UNCHANGED <<src, from>>
      BY <1>0, <2>1, <2>3 DEF Return
    <3> QED  BY <2>1, <2>2, <2>3, <3>1 DEF Working, Groups, Moved
  <2>4. CASE pc'[w] # "tidy"
    <3>1. pc'[w] = "idle" /\ src'[w] = NoSource /\ from'[w] = NoSource
      BY <1>0, <2>1, <2>4 DEF Return
    <3> QED  BY <2>2, <3>1 DEF Working, Groups
  <2> QED  BY <2>3, <2>4
<1> QED  BY <1>1, <1>2, <1>3, <1>4, <1>5, <1>6, <1>7, <1>8 DEF Step

\* The mutex is taken and given back with the displaced copy.
LEMMA SwappingStep ==
    ASSUME TypeOK, NEW w \in Workers, Working(w), Groups(w), Swapping(w), Step(w)
    PROVE  Swapping(w)'
<1>0. /\ pc \in [Workers -> Stages] /\ displaced \in [Workers -> File \cup {NoFile}]
      /\ active \in [Targets -> File \cup {NoFile}]
  BY DEF TypeOK, PublishTypeOK
<1>1. CASE Inspect(w) \/ Take(w) \/ BeginCopy(w) \/ EndCopy(w) \/ EndFlatten(w) \/ Verify(w)
           \/ Open(w) \/ Write(w)
  <2>1. pc[w] # "swap" /\ pc'[w] # "swap"
    <3>1. CASE Inspect(w)
      <4>1. Kind[src[w]] \in {"whole", "split", "nested"}
        BY <3>1 DEF Inspect, Working, TypeOK
      <4> QED  BY <1>0, <3>1, <4>1 DEF Inspect
    <3>2. CASE Take(w) \/ BeginCopy(w) \/ EndCopy(w) \/ EndFlatten(w) \/ Verify(w) \/ Open(w)
      BY <1>0, <3>2 DEF Take, BeginCopy, EndCopy, EndFlatten, Verify, Open
    <3>3. CASE Write(w)  BY <1>0, <3>3 DEF Write
    <3> QED  BY <1>1, <3>1, <3>2, <3>3
  <2>2. UNCHANGED library
    BY <1>1 DEF Inspect, Take, BeginCopy, EndCopy, EndFlatten, Verify, Open, Write
  <2> QED  BY <2>1, <2>2 DEF Swapping, library
<1>2. CASE Publish(w)
  <2>1. pc[w] = "publish" /\ AfterPublish(w)  BY <1>2 DEF Publish
  <2>2. pc'[w] # "swap"  BY <2>1, AfterFact
  <2>3. UNCHANGED <<displaced, mutex>>
    BY <1>2 DEF Publish, PublishNew, PublishToQuarantine
  <2> QED  BY <2>1, <2>2, <2>3 DEF Swapping
<1>3. CASE Displace(w)
  <2>1. Target(w) \in Targets  BY <1>3, CandidateFact DEF Displace
  <2>2. /\ pc'[w] = "swap" /\ mutex' = w /\ active[Target(w)] # NoFile
        /\ displaced'[w] = active[Target(w)] /\ active'[Target(w)] = NoFile
        /\ Decision(active[Target(w)], Candidate(w)) = "use-candidate"
        /\ UNCHANGED <<src, from, temp>>
    BY <1>0, <1>3, <2>1 DEF Displace, PublishDisplace
  <2>3. Target(w)' = Target(w) /\ Candidate(w)' = Candidate(w)
    BY <2>2 DEF Target, Candidate, Current
  <2> QED  BY <2>2, <2>3 DEF Swapping, Decision
<1>4. CASE Replace(w)
  <2>1. pc[w] = "swap" /\ AfterPublish(w)  BY <1>4 DEF Replace
  <2>2. pc'[w] # "swap"  BY <2>1, AfterFact
  <2>3. displaced'[w] = NoFile /\ mutex' = NoWorker
    BY <1>0, <1>4 DEF Replace, PublishReplace
  <2> QED  BY <2>2, <2>3 DEF Swapping
<1>5. CASE FailPublish(w)
  <2>1. pc'[w] # "swap"  BY <1>0, <1>5, ReturnFact DEF FailPublish
  <2>2. CASE pc[w] = "publish" /\ UNCHANGED library
    BY <2>1, <2>2 DEF Swapping, library
  <2>3. CASE PublishRollback(w, Target(w))
    <3>1. displaced'[w] = NoFile /\ mutex' = NoWorker
      BY <1>0, <2>3 DEF PublishRollback
    <3> QED  BY <2>1, <3>1 DEF Swapping
  <2> QED  BY <1>5, <2>2, <2>3 DEF FailPublish
<1>6. CASE RemoveSource(w) \/ Tidy(w) \/ FailEarly(w)
  <2>1. pc[w] # "swap" /\ UNCHANGED library /\ Return(w)
    BY <1>6 DEF RemoveSource, Tidy, FailEarly
  <2>2. pc'[w] # "swap"  BY <2>1, ReturnFact
  <2> QED  BY <2>1, <2>2 DEF Swapping, library
<1> QED  BY <1>1, <1>2, <1>3, <1>4, <1>5, <1>6 DEF Step

\* Every action keeps what is said of the workers.
LEMMA WorkersStep ==
    ASSUME TypeOK, \A w \in Workers : Working(w) /\ Groups(w) /\ Swapping(w), [Next]_vars
    PROVE  \A w \in Workers : Working(w)' /\ Groups(w)' /\ Swapping(w)'
<1>0. \A c : Findable(c) => Findable(c)'  BY FindableStays
<1>1. ASSUME NEW w \in Workers, Step(w), NEW v \in Workers
      PROVE  Working(v)' /\ Groups(v)' /\ Swapping(v)'
  <2>1. CASE v = w  BY <1>0, <1>1, <2>1, OwnStep, SwappingStep
  <2>2. CASE v # w
    <3>1. /\ pc'[v] = pc[v] /\ src'[v] = src[v] /\ from'[v] = from[v] /\ temp'[v] = temp[v]
          /\ displaced'[v] = displaced[v] /\ (mutex' = v <=> mutex = v)
          /\ mutex = v => active' = active
      BY <1>1, <2>2, OtherFact
    <3> QED  BY <1>0, <3>1, Untouched
  <2> QED  BY <2>1, <2>2
<1>2. ASSUME NEW w \in Workers, NEW s \in Sources, Begin(w, s), NEW v \in Workers
      PROVE  Working(v)' /\ Groups(v)' /\ Swapping(v)'
  <2>1. /\ pc[w] = "idle" /\ pc' = [pc EXCEPT ![w] = "inspect"]
        /\ src' = [src EXCEPT ![w] = s]
        /\ UNCHANGED <<active, quarantine, displaced, mutex, from, temp>>
    BY <1>2 DEF Begin, library
  <2>2. CASE v = w
    <3>1. pc'[v] = "inspect" /\ src'[v] # NoSource /\ from'[v] = NoSource /\ temp'[v] = {}
      BY <2>1, <2>2 DEF TypeOK, Working, Groups
    <3>2. Working(v)' /\ Groups(v)'  BY <3>1 DEF Working, Groups
    <3> QED  BY <2>1, <2>2, <3>1, <3>2 DEF Swapping
  <2>3. CASE v # w
    <3>1. pc'[v] = pc[v] /\ src'[v] = src[v]  BY <2>1, <2>3
    <3> QED  BY <1>0, <2>1, <3>1, Untouched
  <2> QED  BY <2>2, <2>3
<1>3. ASSUME Crash, NEW v \in Workers  PROVE Working(v)' /\ Groups(v)' /\ Swapping(v)'
  <2>1. /\ pc'[v] = "idle" /\ src'[v] = NoSource /\ from'[v] = NoSource /\ temp'[v] = {}
        /\ displaced'[v] = NoFile /\ mutex' = NoWorker
    BY <1>3 DEF Crash, PublishCrash
  <2> QED  BY <2>1 DEF Working, Groups, Swapping
<1>4. ASSUME UNCHANGED vars, NEW v \in Workers  PROVE Working(v)' /\ Groups(v)' /\ Swapping(v)'
  <2>1. /\ pc'[v] = pc[v] /\ src'[v] = src[v] /\ from'[v] = from[v] /\ temp'[v] = temp[v]
        /\ displaced'[v] = displaced[v] /\ (mutex' = v <=> mutex = v)
        /\ mutex = v => active' = active
    BY <1>4 DEF vars, library
  <2> QED  BY <1>0, <2>1, Untouched
<1> QED  BY <1>1, <1>2, <1>3, <1>4 DEF Next, Done

-----------------------------------------------------------------------------
(* Normalized partials.                                                       *)

\* Before any crash, who leaves a normalized partial is going to remove it.
LEMMA IntermediatesStep ==
    ASSUME TypeOK, \A w \in Workers : Working(w) /\ Groups(w) /\ Swapping(w), Intermediates,
           [Next]_vars
    PROVE  Intermediates'
<1>0. /\ pc \in [Workers -> Stages] /\ src \in [Workers -> Sources \cup {NoSource}]
      /\ normalized \in [Dests -> Partial \cup {NoPartial}]
  BY DEF TypeOK
<1>1. ASSUME NEW w \in Workers, Step(w)  PROVE Intermediates'
  <2> SUFFICES ASSUME NEW d \in Dests, normalized'[d] # NoPartial
               PROVE  /\ Kind[normalized'[d].of] = "nested" /\ Dest[normalized'[d].of] = d
                      /\ crashes' = 0 => \E v \in Workers : Removes(v, d)'
    BY DEF Intermediates
  <2>0. crashes' = crashes
    BY <1>1 DEF Step, Inspect, Take, BeginCopy, EndCopy, EndFlatten, Verify, Open, Write,
                Publish, Displace, Replace, AfterPublish, RemoveSource, Tidy, FailEarly, FailPublish
  <2>1. ASSUME normalized[d] # NoPartial,
               Removes(w, d) => Removes(w, d)'
        PROVE  crashes' = 0 => \E v \in Workers : Removes(v, d)'
    <3>1. SUFFICES ASSUME crashes = 0  PROVE \E v \in Workers : Removes(v, d)'
      BY <2>0
    <3>2. PICK v \in Workers : Removes(v, d)  BY <2>1, <3>1 DEF Intermediates
    <3>3. CASE v = w  BY <2>1, <3>2, <3>3
    <3>4. CASE v # w
      <4>1. pc'[v] = pc[v] /\ src'[v] = src[v]  BY <1>1, <3>4, OtherFact
      <4> QED  BY <3>2, <4>1 DEF Removes
    <3> QED  BY <3>3, <3>4
  <2>2. CASE Inspect(w) /\ Kind[src[w]] = "nested" /\ Dest[src[w]] = d
    <3>1. /\ src[w] \in Sources
          /\ normalized' = [normalized EXCEPT ![d] = [of |-> src[w], by |-> w, done |-> FALSE]]
          /\ pc'[w] = "flatten" /\ src' = src
      BY <1>0, <2>2 DEF Inspect, Working
    <3>2. normalized'[d].of = src[w]  BY <1>0, <3>1
    <3>3. Removes(w, d)'  BY <2>2, <3>1 DEF Removes
    <3> QED  BY <2>2, <3>2, <3>3
  <2>3. CASE ~(Inspect(w) /\ Kind[src[w]] = "nested" /\ Dest[src[w]] = d)
    <3>1. normalized[d] # NoPartial /\ normalized'[d].of = normalized[d].of
      <4>1. CASE Inspect(w)
        <5>1. normalized'[d] = normalized[d]  BY <1>0, <2>3, <4>1 DEF Inspect
        <5> QED  BY <5>1
      <4>2. CASE EndFlatten(w)
        <5>1. CASE normalized[Dest[src[w]]].by = w
          <6>1. normalized' = [normalized EXCEPT ![Dest[src[w]]].done = TRUE]
            BY <4>2, <5>1 DEF EndFlatten
          <6>2. normalized[Dest[src[w]]] # NoPartial  BY <5>1 DEF NoPartial
          <6>3. Dest[src[w]] = d => normalized[d] \in Partial  BY <1>0, <6>2
          <6> QED  BY <1>0, <6>1, <6>2, <6>3 DEF Partial
        <5>2. CASE normalized[Dest[src[w]]].by # w
          BY <4>2, <5>2 DEF EndFlatten
        <5> QED  BY <5>1, <5>2
      <4>3. CASE Tidy(w) \/ FailEarly(w)
        BY <1>0, <4>3 DEF Tidy, FailEarly
      <4>4. CASE ~Inspect(w) /\ ~EndFlatten(w) /\ ~Tidy(w) /\ ~FailEarly(w)
        <5>1. normalized' = normalized
          BY <1>1, <4>4 DEF Step, Take, BeginCopy, EndCopy, Verify, Open, Write, Publish,
                            Displace, Replace, AfterPublish, RemoveSource, FailPublish
        <5> QED  BY <5>1
      <4> QED  BY <4>1, <4>2, <4>3, <4>4
    <3>2. Kind[normalized'[d].of] = "nested" /\ Dest[normalized'[d].of] = d
      BY <3>1 DEF Intermediates
    <3>3. Removes(w, d) => Removes(w, d)'
      <4>1. SUFFICES ASSUME Removes(w, d)  PROVE Removes(w, d)'
        OBVIOUS
      <4>2. /\ src[w] # NoSource /\ Dest[src[w]] = d /\ Kind[src[w]] = "nested"
            /\ pc[w] # "inspect"
        BY <4>1 DEF Removes
      <4>3. CASE Return(w)
        <5>1. pc[w] # "flatten" /\ pc[w] # "tidy"
          <6>1. ASSUME pc[w] = "flatten" \/ pc[w] = "tidy"  PROVE normalized'[d] = NoPartial
            <7>1. CASE Tidy(w)  BY <1>0, <4>2, <7>1 DEF Tidy
            <7>2. CASE FailEarly(w)
              <8>1. pc[w] = "flatten"  BY <6>1, <7>2 DEF FailEarly
              <8> QED  BY <1>0, <4>2, <7>2, <8>1 DEF FailEarly
            <7>3. CASE ~Tidy(w) /\ ~FailEarly(w)
              <8>1. pc[w] = "flatten" => EndFlatten(w)
                BY <1>1, <7>3 DEF Step, Inspect, Take, BeginCopy, EndCopy, Verify, Open,
                   Write, Publish, Displace, Replace, RemoveSource, FailPublish
              <8>2. pc[w] # "tidy"
                BY <1>1, <7>3 DEF Step, Inspect, Take, BeginCopy, EndCopy, EndFlatten, Verify,
                   Open, Write, Publish, Displace, Replace, RemoveSource, FailPublish
              <8>3. EndFlatten(w)  BY <6>1, <8>1, <8>2
              <8>4. pc'[w] = "verify"  BY <1>0, <8>3 DEF EndFlatten
              <8> QED  BY <4>3, <8>4, ReturnFact
            <7> QED  BY <7>1, <7>2, <7>3
          <6> QED  BY <6>1
        <5>2. pc'[w] = "tidy" /\ src' = src
          BY <1>0, <4>2, <4>3, <5>1 DEF Return
        <5> QED  BY <4>2, <5>2 DEF Removes
      <4>4. CASE ~Return(w)
        <5>1. src' = src /\ pc'[w] # "inspect"
          BY <1>0, <1>1, <4>2, <4>4, AfterFact
             DEF Step, Inspect, Take, BeginCopy, EndCopy, EndFlatten, Verify, Open, Write,
                 Publish, Displace, Replace, AfterPublish, RemoveSource, Tidy, FailEarly, FailPublish
        <5> QED  BY <4>2, <5>1 DEF Removes
      <4> QED  BY <4>3, <4>4
    <3> QED  BY <2>1, <3>1, <3>2, <3>3
  <2> QED  BY <2>2, <2>3
<1>2. ASSUME NEW w \in Workers, NEW s \in Sources, Begin(w, s)  PROVE Intermediates'
  <2>1. ASSUME NEW v \in Workers, NEW d \in Dests, Removes(v, d)  PROVE Removes(v, d)'
    <3>1. v # w  BY <1>2, <2>1 DEF Begin, Removes, Working
    <3>2. pc'[v] = pc[v] /\ src'[v] = src[v]  BY <1>0, <1>2, <3>1 DEF Begin
    <3> QED  BY <2>1, <3>2 DEF Removes
  <2>2. UNCHANGED <<normalized, crashes>>  BY <1>2 DEF Begin
  <2> QED  BY <2>1, <2>2 DEF Intermediates
<1>3. CASE Crash
  <2>1. crashes' # 0  BY <1>3 DEF Crash, TypeOK
  <2>2. ASSUME NEW d \in Dests, normalized'[d] # NoPartial
        PROVE  normalized[d] # NoPartial /\ normalized'[d].of = normalized[d].of
    <3>1. normalized[d] # NoPartial
          /\ normalized'[d] = [normalized[d] EXCEPT !.by = NoWorker]
      BY <1>3, <2>2 DEF Crash
    <3>2. normalized[d] \in Partial  BY <1>0, <3>1
    <3> QED  BY <3>1, <3>2 DEF Partial
  <2> QED  BY <2>1, <2>2 DEF Intermediates
<1>4. CASE UNCHANGED vars
  BY <1>4 DEF vars, Intermediates, Removes
<1> QED  BY <1>1, <1>2, <1>3, <1>4 DEF Next, Done

-----------------------------------------------------------------------------
(* The invariant.                                                             *)

\* Every action keeps the invariant; only a crash leaves temporary files.
LEMMA NextInv == IInv /\ [Next]_vars => IInv'
<1> SUFFICES ASSUME IInv, [Next]_vars  PROVE IInv'
  OBVIOUS
<1>1. TypeOK /\ (\A w \in Workers : Working(w) /\ Groups(w) /\ Swapping(w)) /\ Intermediates
  BY DEF IInv
<1>2. crashes' = 0 => orphans' = {}
  <2>1. CASE Crash
    BY <1>1, <2>1 DEF Crash, TypeOK
  <2>2. CASE ~Crash
    <3>1. UNCHANGED <<orphans, crashes>>
      BY <2>2 DEF Next, Step, Begin, Done, Inspect, Take, BeginCopy, EndCopy, EndFlatten,
         Verify, Open, Write, Publish, Displace, Replace, AfterPublish, RemoveSource, Tidy,
         FailEarly, FailPublish, vars
    <3> QED  BY <3>1 DEF IInv
  <2> QED  BY <2>1, <2>2
<1> QED  BY <1>1, <1>2, TypeStep, WorkersStep, IntermediatesStep DEF IInv

\* Where each worker is decides what it holds, in every behaviour.
THEOREM Invariance == Spec => []IInv
BY InitInv, NextInv, PTL DEF Spec

\* The variables stay in their types.
THEOREM TypeCorrect == Spec => []TypeOK
<1>1. IInv => TypeOK  BY DEF IInv
<1> QED  BY <1>1, Invariance, PTL

\* Without a crash nothing stays under a temporary name when its run has ended.
THEOREM NothingLeft == Spec => []NoLitter
<1>1. IInv => NoLitter
  BY DEF IInv, Groups, Intermediates, Removes, NoLitter
<1> QED  BY <1>1, Invariance, PTL

-----------------------------------------------------------------------------
(* No archive is lost, when nested archives that are processed at once have   *)
(* different destinations: each worker then publishes what is in its own.     *)

IOwn == IInv /\ Own

\* The normalized partial a worker opens was written for its archive.
LEMMA OwnInv == ASSUME DistinctNested  PROVE IOwn /\ [Next]_vars => Own'
<1> SUFFICES ASSUME IOwn, [Next]_vars  PROVE Own'
  OBVIOUS
<1>0. /\ TypeOK /\ (\A w \in Workers : Working(w) /\ Groups(w) /\ Swapping(w))
      /\ Intermediates /\ Own
  BY DEF IOwn, IInv
<1>1. ASSUME NEW w \in Workers, Step(w)  PROVE Own'
  <2>1. \A v \in Workers \ {w} : src'[v] = src[v] /\ from'[v] = from[v]
    BY <1>0, <1>1, OtherFact
  <2>2. from'[w] \in {NoSource, src'[w]}
    <3>1. CASE Inspect(w)  BY <1>0, <3>1 DEF Inspect, TypeOK
    <3>2. CASE Open(w)
      <4>1. src[w] \in Sources /\ Kind[src[w]] = "nested" /\ Dest[src[w]] \in Dests
        BY <1>0, <3>2 DEF Open, Working, TypeOK
      <4>2. normalized[Dest[src[w]]] # NoPartial
        BY <3>2 DEF Open, NoPartial
      <4>3. /\ normalized[Dest[src[w]]].of \in Sources
            /\ Kind[normalized[Dest[src[w]]].of] = "nested"
            /\ Dest[normalized[Dest[src[w]]].of] = Dest[src[w]]
        BY <1>0, <4>1, <4>2 DEF Intermediates, TypeOK, Partial
      <4>4. normalized[Dest[src[w]]].of = src[w]
        BY <4>1, <4>3 DEF DistinctNested
      <4> QED  BY <1>0, <3>2, <4>4 DEF Open, TypeOK
    <3>3. CASE Return(w)
      BY <1>0, <3>3, ReturnFact DEF Own, TypeOK
    <3>4. CASE AfterPublish(w) /\ pc[w] \in {"publish", "swap"}
      BY <1>0, <3>4, AfterFact DEF Own, TypeOK
    <3>5. CASE UNCHANGED <<src, from>>  BY <1>0, <3>5 DEF Own
    <3> QED
      BY <1>1, <3>1, <3>2, <3>3, <3>4, <3>5
         DEF Step, Take, BeginCopy, EndCopy, EndFlatten, Verify, Write, Publish, Displace,
             Replace, RemoveSource, Tidy, FailEarly, FailPublish
  <2> QED  BY <1>0, <2>1, <2>2 DEF Own
<1>2. ASSUME NEW w \in Workers, NEW s \in Sources, Begin(w, s)  PROVE Own'
  <2>1. from[w] = NoSource  BY <1>0, <1>2 DEF Begin, Working
  <2> QED  BY <1>0, <1>2, <2>1 DEF Begin, Own, TypeOK
<1>3. CASE Crash  BY <1>3 DEF Crash, Own
<1>4. CASE UNCHANGED vars  BY <1>0, <1>4 DEF vars, Own
<1> QED  BY <1>1, <1>2, <1>3, <1>4 DEF Next, Done

\* A delivered archive stays delivered.
LEMMA DeliveredStays ==
    ASSUME IInv, [Next]_vars, NEW s, Delivered(s)
    PROVE  Delivered(s)'
BY FindableStays DEF IInv, Delivered

\* An archive whose source has been removed is delivered.
LEMMA RemovedFact ==
    ASSUME IOwn, [Next]_vars, NEW w \in Workers, RemoveSource(w), NEW s, s = src[w]
    PROVE  s \in Sources /\ Delivered(s)'
<1>1. /\ pc[w] = "remove" /\ src[w] \in Sources /\ from[w] = src[w]
      /\ Published(w, Last(w))
  BY DEF IOwn, IInv, Own, RemoveSource, Working, Groups, TypeOK
<1>2. Delivered(s)
  BY <1>1, OutputFact DEF Published, Last, Delivered
<1> QED  BY <1>1, <1>2, DeliveredStays DEF IOwn

\* A moved archive has one group, and is delivered once that is published.
LEMMA MovedFact ==
    ASSUME IOwn, [Next]_vars, NEW w \in Workers, Publish(w) \/ Replace(w), Moved(w),
           NEW s, s = src[w]
    PROVE  s \in Sources /\ Delivered(s)'
<1>0. /\ TypeOK /\ Working(w) /\ Groups(w) /\ pc[w] \in {"publish", "swap"}
  BY DEF IOwn, IInv, Publish, Replace
<1>1. /\ src[w] \in Sources /\ from[w] = src[w] /\ Kind[src[w]] = "whole"
  BY <1>0, CandidateFact DEF Working, Moved
<1>2. Last(w) = 1 /\ DOMAIN Outputs[s] = 1..1
  BY <1>1, OutputFact DEF Last
<1>3. Current(w) = 1 /\ Candidate(w).data = Outputs[s][1].data
  BY <1>0, <1>1, <1>2, CandidateFact
<1>4. ASSUME NEW c, c = Outputs[s][1].data  PROVE Findable(c)'
  BY <1>0, <1>3, <1>4, PublishedFact
<1>5. \A i \in DOMAIN Outputs[s] : Findable(Outputs[s][i].data)'
  BY <1>2, <1>4
<1> QED  BY <1>1, <1>5 DEF Delivered

Kept == FinishedVisible /\ ContentKept
IKept == IOwn /\ Kept

\* What a run reports as finished is delivered.
LEMMA FinishedStep == IKept /\ [Next]_vars => FinishedVisible'
<1> SUFFICES ASSUME IKept, [Next]_vars, NEW s \in finished'  PROVE Delivered(s)'
  BY DEF FinishedVisible
<1>0. /\ TypeOK /\ IOwn /\ IInv /\ FinishedVisible
      /\ \A w \in Workers : Working(w) /\ Groups(w) /\ Swapping(w)
  BY DEF IKept, IOwn, IInv, Kept
<1>1. CASE s \in finished
  BY <1>0, <1>1, DeliveredStays DEF FinishedVisible
<1>2. CASE s \notin finished
  <2>1. PICK w \in Workers : Publish(w) \/ Replace(w) \/ RemoveSource(w)
    BY <1>2 DEF Next, Step, Begin, Crash, Done, Inspect, Take, BeginCopy, EndCopy,
       EndFlatten, Verify, Open, Write, Displace, Tidy, FailEarly, FailPublish, vars
  <2>2. CASE RemoveSource(w)
    BY <1>0, <1>2, <2>2, RemovedFact DEF RemoveSource
  <2>3. CASE Publish(w) \/ Replace(w)
    <3>1. AfterPublish(w) /\ pc[w] \in {"publish", "swap"}
      BY <2>3 DEF Publish, Replace
    <3>2. Moved(w) /\ s = src[w]  BY <1>0, <1>2, <3>1, AfterFact
    <3> QED  BY <1>0, <2>3, <3>2, MovedFact
  <2> QED  BY <2>1, <2>2, <2>3
<1> QED  BY <1>1, <1>2

\* Only a moved archive that is being published has left the inbox undelivered.
LEMMA HolderFact ==
    ASSUME IInv, NEW w \in Workers, NEW s \in Sources, HeldBy(w, s)
    PROVE  src[w] = s /\ Moved(w) /\ 1 \in temp[w] /\ pc[w] \in {"publish", "swap"}
BY DEF IInv, HeldBy, Moved, Working, Groups, TypeOK, Stages

\* Whatever happens to a moved archive, it is put somewhere.
LEMMA HeldStep ==
    ASSUME IKept, [Next]_vars, NEW s \in Sources, NEW w \in Workers, HeldBy(w, s)
    PROVE  s \in source' \/ Delivered(s)' \/ HeldBy(w, s)' \/ LeftBehind(s)'
<1>0. /\ TypeOK /\ IOwn /\ IInv
      /\ \A v \in Workers : Working(v) /\ Groups(v) /\ Swapping(v)
  BY DEF IKept, IOwn, IInv
<1>1. src[w] = s /\ Moved(w) /\ 1 \in temp[w] /\ pc[w] \in {"publish", "swap"}
  BY <1>0, HolderFact
<1>2. CASE src'[w] = src[w] /\ temp'[w] = temp[w]
  BY <1>1, <1>2 DEF HeldBy, Moved
<1>3. ASSUME NEW v \in Workers, Step(v)
      PROVE  s \in source' \/ Delivered(s)' \/ HeldBy(w, s)'
  <2>1. CASE v # w
    <3>1. src'[w] = src[w] /\ temp'[w] = temp[w]  BY <1>0, <1>3, <2>1, OtherFact
    <3> QED  BY <1>1, <3>1 DEF HeldBy, Moved
  <2>2. CASE v = w /\ Displace(w)
    BY <1>1, <2>2 DEF Displace, HeldBy, Moved
  <2>3. CASE v = w /\ (Publish(w) \/ Replace(w))
    BY <1>0, <1>1, <2>3, MovedFact
  <2>4. CASE v = w /\ FailPublish(w)
    BY <1>1, <2>4 DEF FailPublish, UndoCandidate
  <2> QED
    BY <1>1, <1>3, <2>1, <2>2, <2>3, <2>4
       DEF Step, Inspect, Take, BeginCopy, EndCopy, EndFlatten, Verify, Open, Write,
           RemoveSource, Tidy, FailEarly
<1>4. ASSUME NEW v \in Workers, NEW q \in Sources, Begin(v, q)
      PROVE  HeldBy(w, s)'
  <2>1. v # w  BY <1>1, <1>4 DEF Begin
  <2>2. src'[w] = src[w] /\ temp'[w] = temp[w]  BY <1>4, <2>1 DEF Begin
  <2> QED  BY <1>1, <2>2 DEF HeldBy, Moved
<1>5. CASE Crash
  <2>1. PICK promoted \in SUBSET {v \in Workers : pc[v] = "copy"} :
           orphans' = orphans \cup
             UNION {{IF v \in promoted THEN Promoted(o) ELSE o : o \in Left(v)} :
                       v \in {u \in Workers : src[u] # NoSource}}
    BY <1>5 DEF Crash
  <2> DEFINE left == [kind |-> "candidate", of |-> s, data |-> Outputs[from[w]][1].data]
  <2>2. left \in Left(w)  BY <1>1 DEF Left, Moved
  <2>3. w \notin promoted /\ src[w] # NoSource  BY <1>1
  <2>4. left \in orphans'  BY <2>1, <2>2, <2>3
  <2>5. left.kind = "candidate" /\ left.of = s  OBVIOUS
  <2> QED  BY <2>4, <2>5 DEF LeftBehind
<1>6. CASE UNCHANGED vars
  BY <1>2, <1>6 DEF vars
<1> QED  BY <1>3, <1>4, <1>5, <1>6 DEF Next, Done

LEMMA KeptStep == IKept /\ [Next]_vars => ContentKept'
<1> SUFFICES ASSUME IKept, [Next]_vars, NEW s \in Sources
             PROVE  \/ s \in source' \/ Delivered(s)'
                    \/ (\E w \in Workers : HeldBy(w, s)') \/ LeftBehind(s)'
  BY DEF ContentKept
<1>0. TypeOK /\ IOwn /\ IInv /\ ContentKept
  BY DEF IKept, IOwn, IInv, Kept
<1>1. CASE s \in source
  <2>1. CASE \E w \in Workers : Take(w) /\ s = src[w]
    <3>1. PICK w \in Workers : Take(w) /\ s = src[w]  BY <2>1
    <3>2. src'[w] = s /\ temp'[w] = {1} /\ Moved(w)  BY <1>0, <3>1 DEF Take, TypeOK
    <3> QED  BY <3>1, <3>2 DEF HeldBy, Moved
  <2>2. CASE \E w \in Workers : RemoveSource(w) /\ s = src[w]
    BY <1>0, <2>2, RemovedFact
  <2>3. CASE s \in source'  BY <2>3
  <2>4. s \in source' \/ \E w \in Workers : (Take(w) \/ RemoveSource(w)) /\ s = src[w]
    BY <1>1 DEF Next, Step, Begin, Crash, Done, Inspect, Take, BeginCopy, EndCopy,
       EndFlatten, Verify, Open, Write, Publish, Displace, Replace, AfterPublish,
       RemoveSource, Tidy, FailEarly, FailPublish, UndoCandidate, vars
  <2> QED  BY <2>1, <2>2, <2>3, <2>4
<1>2. CASE Delivered(s)  BY <1>0, <1>2, DeliveredStays
<1>3. CASE \E w \in Workers : HeldBy(w, s)  BY <1>3, HeldStep
<1>4. CASE LeftBehind(s)
  <2>1. orphans \subseteq orphans'
    BY DEF Next, Step, Begin, Crash, Done, Inspect, Take, BeginCopy, EndCopy,
       EndFlatten, Verify, Open, Write, Publish, Displace, Replace, AfterPublish,
       RemoveSource, Tidy, FailEarly, FailPublish, vars
  <2> QED  BY <1>4, <2>1 DEF LeftBehind
<1> QED  BY <1>0, <1>1, <1>2, <1>3, <1>4 DEF ContentKept

\* The two invariants hold together in every behaviour.
LEMMA KeptInvariance == ASSUME DistinctNested  PROVE Spec => []IKept
<1>1. Init => IKept
  <2> SUFFICES ASSUME Init  PROVE IKept
    OBVIOUS
  <2>1. Own /\ FinishedVisible /\ ContentKept
    BY DEF Init, Own, FinishedVisible, ContentKept
  <2> QED  BY <2>1, InitInv DEF IKept, IOwn, Kept
<1>2. IKept /\ [Next]_vars => IKept'
  <2>1. IKept /\ [Next]_vars => IInv'  BY NextInv DEF IKept, IOwn
  <2>2. IKept /\ [Next]_vars => Own'  BY OwnInv DEF IKept
  <2> QED  BY <2>1, <2>2, FinishedStep, KeptStep DEF IKept, IOwn, Kept
<1> QED  BY <1>1, <1>2, PTL DEF Spec

\* "Keep the source archive until the generated output passes verification"
\* (docs/design.md:16), through failures and crashes: an archive is in the inbox,
\* delivered, in the hands of a worker, or complete under a candidate name.
THEOREM ContentNeverLost == ASSUME DistinctNested  PROVE Spec => []ContentKept
<1>1. IKept => ContentKept  BY DEF IKept, Kept
<1> QED  BY <1>1, KeptInvariance, PTL

\* Every group of a finished archive is where a reader finds it, from then on.
THEOREM FinishedStays == ASSUME DistinctNested  PROVE Spec => []FinishedVisible
<1>1. IKept => FinishedVisible  BY DEF IKept, Kept
<1> QED  BY <1>1, KeptInvariance, PTL
-----------------------------------------------------------------------------
(* The pipeline implements Library.                                           *)

\* While nobody replaces a copy the shelf is what lies at the targets ...
LEMMA ShelfFree == IInv /\ mutex = NoWorker => Shelf = active
<1> SUFFICES ASSUME IInv, mutex = NoWorker  PROVE Shelf = active
  OBVIOUS
<1>1. \A w \in Workers : displaced[w] = NoFile  BY DEF IInv, Swapping
<1> QED  BY <1>1 DEF IInv, TypeOK, PublishTypeOK, Shelf

\* ... and otherwise with the displaced copy at the target it is coming back to.
LEMMA ShelfHeld ==
    \A v \in Workers : IInv /\ pc[v] = "swap" =>
                          Shelf = [active EXCEPT ![Target(v)] = displaced[v]]
<1> SUFFICES ASSUME NEW w \in Workers, IInv, pc[w] = "swap"
             PROVE  Shelf = [active EXCEPT ![Target(w)] = displaced[w]]
  OBVIOUS
<1>1. \A v \in Workers : displaced[v] # NoFile <=> v = w  BY DEF IInv, Swapping
<1>2. Target(w) \in Targets  BY CandidateFact DEF IInv
<1>3. (CHOOSE v \in Workers : displaced[v] # NoFile) = w  BY <1>1
<1>4. \A t \in Targets : Shelf[t] = IF Target(w) = t THEN displaced[w] ELSE active[t]
  BY <1>1, <1>3 DEF Shelf
<1> QED  BY <1>2, <1>4 DEF IInv, TypeOK, PublishTypeOK, Shelf

\* Both, after a step.
LEMMA ShelfNext ==
    ASSUME IInv'
    PROVE  /\ mutex' = NoWorker => Shelf' = active'
           /\ \A v \in Workers : pc'[v] = "swap" =>
                 Shelf' = [active' EXCEPT ![Target(v)'] = displaced'[v]]
<1>1. (IInv /\ mutex = NoWorker => Shelf = active)'  BY ShelfFree, PTL
<1>2. (\A v \in Workers : IInv /\ pc[v] = "swap" =>
                          Shelf = [active EXCEPT ![Target(v)] = displaced[v]])'
  BY ShelfHeld, PTL
<1> QED  BY <1>1, <1>2

\* A step that leaves the library and the replacement under way alone is not seen.
LEMMA ShelfStays ==
    ASSUME IInv, IInv', UNCHANGED library,
           \A v \in Workers : pc[v] = "swap" => pc'[v] = "swap" /\ Target(v)' = Target(v)
    PROVE  Shelf' = Shelf
<1>3. CASE mutex = NoWorker
  BY <1>3, ShelfFree, ShelfNext DEF library
<1>4. ASSUME NEW w \in Workers, mutex = w  PROVE Shelf' = Shelf
  <2>1. pc[w] = "swap"  BY <1>4 DEF IInv, Swapping
  <2>2. pc'[w] = "swap" /\ Target(w)' = Target(w)  BY <2>1
  <2>3. Shelf = [active EXCEPT ![Target(w)] = displaced[w]]  BY <2>1, ShelfHeld
  <2>4. Shelf' = [active' EXCEPT ![Target(w)'] = displaced'[w]]  BY <2>2, ShelfNext
  <2> QED  BY <2>2, <2>3, <2>4 DEF library
<1> QED  BY <1>3, <1>4 DEF IInv, TypeOK, PublishTypeOK

Seen == <<Shelf, quarantine, crashes>>

\* Publications, one by one.
LEMMA PublicationImplements ==
    ASSUME IInv, IInv', NEW w \in Workers, Publish(w) \/ Displace(w) \/ Replace(w)
    PROVE  [Lib!Next]_Seen
<1>0. /\ TypeOK /\ Working(w) /\ Groups(w) /\ Swapping(w)
      /\ pc \in [Workers -> Stages] /\ active \in [Targets -> File \cup {NoFile}]
  BY DEF IInv, TypeOK, PublishTypeOK
<1>3. Target(w) \in Targets /\ Candidate(w) \in File
  BY <1>0, CandidateFact DEF Publish, Displace, Replace
<1>4. Candidate(w) \in Lib!Copy  BY <1>3 DEF File, Lib!Copy
<1>5. crashes' = crashes
  BY DEF Publish, Displace, Replace, AfterPublish
<1>6. CASE Displace(w)
  <2>1. /\ pc'[w] = "swap" /\ mutex = NoWorker /\ UNCHANGED <<src, from, temp, quarantine>>
        /\ displaced'[w] = active[Target(w)]
        /\ active' = [active EXCEPT ![Target(w)] = NoFile]
    BY <1>0, <1>6 DEF Displace, PublishDisplace, TypeOK, PublishTypeOK
  <2>2. Target(w)' = Target(w)  BY <2>1 DEF Target, Current
  <2>3. Shelf = active  BY <2>1, ShelfFree
  <2>4. Shelf' = [active' EXCEPT ![Target(w)'] = displaced'[w]]  BY <2>1, ShelfNext
  <2>5. Shelf' = Shelf  BY <1>0, <1>3, <2>1, <2>2, <2>3, <2>4
  <2> QED  BY <1>5, <2>1, <2>5 DEF Seen
<1>7. CASE PublishNew(Target(w), Candidate(w))
  <2>1. /\ mutex = NoWorker /\ mutex' = NoWorker /\ active[Target(w)] = NoFile
        /\ active' = [active EXCEPT ![Target(w)] = Candidate(w)]
        /\ quarantine' = quarantine
    BY <1>7 DEF PublishNew
  <2>2. Shelf = active /\ Shelf' = active'  BY <2>1, ShelfFree, ShelfNext
  <2>3. Lib!Display(Target(w), Candidate(w))  BY <2>1, <2>2 DEF Lib!Display
  <2> QED  BY <1>3, <1>4, <1>5, <2>3 DEF Lib!Next
<1>8. CASE PublishToQuarantine(Target(w), Candidate(w))
  <2>1. /\ mutex = NoWorker /\ mutex' = NoWorker /\ active[Target(w)] # NoFile
        /\ Decision(active[Target(w)], Candidate(w)) # "use-candidate"
        /\ active' = active
        /\ quarantine' = quarantine \cup {Quarantined(Target(w), Candidate(w))}
    BY <1>8 DEF PublishToQuarantine
  <2>2. Shelf = active /\ Shelf' = active'  BY <2>1, ShelfFree, ShelfNext
  <2>3. active[Target(w)].time \in Nat /\ Candidate(w).time \in Nat
    BY <1>0, <1>3, <2>1 DEF File
  <2>4. \/ Candidate(w).data = active[Target(w)].data
        \/ Candidate(w).time <= active[Target(w)].time
    BY <2>1, <2>3 DEF Decision
  <2>5. Lib!KeepAside(Target(w), Candidate(w))
    BY <2>1, <2>2, <2>4 DEF Lib!KeepAside, Lib!Archive, Quarantined
  <2> QED  BY <1>3, <1>4, <1>5, <2>5 DEF Lib!Next
<1>9. CASE Replace(w)
  <2>1. /\ pc[w] = "swap" /\ mutex' = NoWorker
        /\ active' = [active EXCEPT ![Target(w)] = Candidate(w)]
        /\ quarantine' = quarantine \cup {Quarantined(Target(w), displaced[w])}
    BY <1>9 DEF Replace, PublishReplace
  <2>2. Shelf = [active EXCEPT ![Target(w)] = displaced[w]]  BY <2>1, ShelfHeld
  <2>3. Shelf' = active'  BY <2>1, ShelfNext
  <2>4. Shelf[Target(w)] = displaced[w] /\ displaced[w] # NoFile
    BY <1>0, <1>3, <2>1, <2>2 DEF Swapping
  <2>5. Shelf' = [Shelf EXCEPT ![Target(w)] = Candidate(w)]
    BY <1>0, <1>3, <2>1, <2>2, <2>3
  <2>6. /\ Candidate(w).data # displaced[w].data
        /\ Candidate(w).time > displaced[w].time
    BY <1>0, <2>1 DEF Swapping, Decision
  <2>7. Lib!Display(Target(w), Candidate(w))
    BY <2>1, <2>4, <2>5, <2>6 DEF Lib!Display, Lib!Archive, Quarantined
  <2> QED  BY <1>3, <1>4, <1>5, <2>7 DEF Lib!Next
<1> QED  BY <1>6, <1>7, <1>8, <1>9 DEF Publish

\* A crash takes at most one copy from the shelf, and that one is in quarantine.
LEMMA CrashImplements == ASSUME IInv, IInv', Crash  PROVE Lib!Crash
<1>0. /\ TypeOK /\ crashes' = crashes + 1 /\ active' = active /\ mutex' = NoWorker
      /\ quarantine' = quarantine \cup
            {Quarantined(IF displaced[v] = NoFile THEN NoFile ELSE Target(v), displaced[v]) :
                v \in {u \in Workers : displaced[u] # NoFile}}
  BY DEF IInv, Crash, PublishCrash
<1>2. Shelf' = active  BY <1>0, ShelfNext
<1>3. CASE mutex = NoWorker
  <2>1. \A v \in Workers : displaced[v] = NoFile  BY <1>3 DEF IInv, Swapping
  <2>2. quarantine' = quarantine /\ Shelf = active  BY <1>0, <1>3, <2>1, ShelfFree
  <2> QED  BY <1>0, <1>2, <2>2 DEF Lib!Crash
<1>4. ASSUME NEW w \in Workers, mutex = w  PROVE Lib!Crash
  <2>1. /\ pc[w] = "swap" /\ displaced[w] # NoFile /\ active[Target(w)] = NoFile
        /\ \A v \in Workers : displaced[v] # NoFile <=> v = w
    BY <1>4 DEF IInv, Swapping
  <2>2. Target(w) \in Targets  BY <2>1, CandidateFact DEF IInv
  <2>3. Shelf = [active EXCEPT ![Target(w)] = displaced[w]]  BY <2>1, ShelfHeld
  <2>4. Shelf[Target(w)] = displaced[w] /\ Shelf' = [Shelf EXCEPT ![Target(w)] = NoFile]
    BY <1>0, <1>2, <2>1, <2>2, <2>3 DEF TypeOK, PublishTypeOK
  <2>5. quarantine' = quarantine \cup {Quarantined(Target(w), displaced[w])}
    BY <1>0, <2>1
  <2> QED  BY <1>0, <2>1, <2>2, <2>4, <2>5 DEF Lib!Crash, Lib!Archive, Quarantined
<1> QED  BY <1>0, <1>3, <1>4 DEF TypeOK, PublishTypeOK

\* Every step is one of Library's or is not seen there.
LEMMA StepImplements == IInv /\ IInv' /\ [Next]_vars => [Lib!Next]_Seen
<1> SUFFICES ASSUME IInv, IInv', [Next]_vars  PROVE [Lib!Next]_Seen
  OBVIOUS
<1>0. TypeOK /\ \A w \in Workers : Working(w) /\ Groups(w) /\ Swapping(w)
  BY DEF IInv
<1>1. ASSUME NEW w \in Workers, Step(w)  PROVE [Lib!Next]_Seen
  <2>0. crashes' = crashes
    BY <1>1 DEF Step, Inspect, Take, BeginCopy, EndCopy, EndFlatten, Verify, Open, Write,
                Publish, Displace, Replace, AfterPublish, RemoveSource, Tidy, FailEarly, FailPublish
  <2>1. CASE Publish(w) \/ Displace(w) \/ Replace(w)  BY <2>1, PublicationImplements
  <2>2. CASE FailPublish(w) /\ pc[w] = "swap"
    <3>1. /\ active' = [active EXCEPT ![Target(w)] = displaced[w]]
          /\ mutex' = NoWorker /\ quarantine' = quarantine
      BY <2>2 DEF FailPublish, PublishRollback
    <3>3. Shelf' = active'  BY <3>1, ShelfNext
    <3>4. Shelf' = Shelf  BY <2>2, <3>1, <3>3, ShelfHeld
    <3> QED  BY <2>0, <3>1, <3>4 DEF Seen
  <2>3. CASE /\ ~(Publish(w) \/ Displace(w) \/ Replace(w))
             /\ ~(FailPublish(w) /\ pc[w] = "swap")
    <3>1. UNCHANGED library /\ pc[w] # "swap"
      BY <1>1, <2>3 DEF Step, Inspect, Take, BeginCopy, EndCopy, EndFlatten, Verify, Open,
         Write, RemoveSource, Tidy, FailEarly, FailPublish
    <3>2. \A v \in Workers : pc[v] = "swap" => pc'[v] = "swap" /\ Target(v)' = Target(v)
      BY <1>0, <1>1, <3>1, OtherFact DEF Target, Current
    <3> QED  BY <2>0, <3>1, <3>2, ShelfStays DEF Seen, library
  <2> QED  BY <2>1, <2>2, <2>3
<1>2. ASSUME NEW w \in Workers, NEW s \in Sources, Begin(w, s)  PROVE [Lib!Next]_Seen
  <2>1. /\ pc[w] = "idle" /\ pc' = [pc EXCEPT ![w] = "inspect"]
        /\ src' = [src EXCEPT ![w] = s] /\ UNCHANGED <<library, from, temp, crashes>>
    BY <1>2 DEF Begin
  <2>2. \A v \in Workers : pc[v] = "swap" => pc'[v] = "swap" /\ Target(v)' = Target(v)
    BY <1>0, <2>1 DEF TypeOK, Target, Current
  <2> QED  BY <2>1, <2>2, ShelfStays DEF Seen, library
<1>3. CASE Crash  BY <1>3, CrashImplements DEF Lib!Next
<1>4. CASE UNCHANGED vars
  <2>1. \A v \in Workers : pc[v] = "swap" => pc'[v] = "swap" /\ Target(v)' = Target(v)
    BY <1>4 DEF vars, Target, Current
  <2> QED  BY <1>4, <2>1, ShelfStays DEF Seen, vars, library
<1> QED  BY <1>1, <1>2, <1>3, <1>4 DEF Next, Done

\* A publication is one step to every reader that takes the mutex, follows the
\* comparison of the two files and loses none, through failures and crashes.
THEOREM ImplementsLibrary == Spec => LibrarySpec
<1>1. Init => Lib!Init
  <2> SUFFICES ASSUME Init  PROVE Lib!Init
    OBVIOUS
  <2>1. Shelf = active  BY InitInv, ShelfFree DEF Init, PublishInit
  <2> QED  BY <2>1 DEF Init, PublishInit, Lib!Init
<1>2. IInv /\ IInv' /\ [Next]_vars => [Lib!Next]_Seen  BY StepImplements
<1> QED  BY <1>1, <1>2, Invariance, PTL DEF Spec, LibrarySpec, Lib!Spec, Seen
=============================================================================
