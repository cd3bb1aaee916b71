-------------------------- MODULE MCArchivePipeline --------------------------
(* Small instances of ArchivePipeline: the archives in the inbox and what     *)
(* they hold.  Volumes overlap: the targets t and u are reached by more than  *)
(* one archive, once with the same content.                                   *)
EXTENDS ArchivePipeline, TLC

CONSTANTS a, b, c, d,  \* archives
          t, u,        \* targets
          k, l, m, n,  \* contents
          x, y         \* destinations

Group(target, data) == [target |-> target, data |-> data]

MCTimes == 1..3

\* a lies on the volume of the library and b on another one; the RAR c and the
\* ZIP d hold two volumes each.  a and c hold the same copy of one volume, and
\* two copies of the other differ.
MixedKind == a :> "whole" @@ b :> "whole" @@ c :> "nested" @@ d :> "split"
MixedOutputs == a :> <<Group(t, k)>>
             @@ b :> <<Group(t, l)>>
             @@ c :> <<Group(t, k), Group(u, n)>>
             @@ d :> <<Group(t, l), Group(u, m)>>
MixedModTime == a :> 2 @@ b :> 1 @@ c :> 3 @@ d :> 1
MixedEntries == a :> 1 @@ b :> 1 @@ c :> 2 @@ d :> 2
MixedDest == a :> x @@ b :> x @@ c :> y @@ d :> x
MixedVolume == [s \in {a, b, c, d} |-> s # b]

\* A RAR and a ZIP with nested archives, both named after the same stem.
TwinKind == a :> "nested" @@ b :> "nested"
TwinOutputs == a :> <<Group(t, k)>> @@ b :> <<Group(u, l)>>
TwinModTime == a :> 1 @@ b :> 2
TwinEntries == a :> 1 @@ b :> 1
TwinDest == a :> x @@ b :> x
TwinVolume == [s \in {a, b} |-> TRUE]
=============================================================================
