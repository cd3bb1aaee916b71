----------------------------- MODULE MCReconcile -----------------------------
(* Small libraries for ReconcileRun.  The names a and b are two spellings of  *)
(* the first volume of a work, c is the second one, n has no volume.          *)
EXTENDS ReconcileRun, TLC

CONSTANTS a, b, c, n,     \* names
          old,            \* an old series folder
          k, l, m,        \* contents
          w, v1, v2, none, nopath

MCWork == [x \in {a, b, c, n} |-> w]
MCVolume == a :> v1 @@ b :> v1 @@ c :> v2 @@ n :> none
MCTimes == 1..3

At(place, name) == [place |-> place, name |-> name, marks |-> <<>>]
Of(data, time) == [data |-> data, time |-> time]

\* A volume twice, and the newer file has its home where the older one is.
Variants == At("home", a) :> Of(k, 1) @@ At(old, a) :> Of(l, 3)

\* The newest two are equally old: a choice.
Tie == At("home", a) :> Of(k, 2) @@ At(old, b) :> Of(l, 2)

\* A duplicate in quarantine that is newer than the active copy.
Duplicate == At("home", a) :> Of(k, 1) @@ At("quarantine", a) :> Of(k, 2)

\* A name without a volume that is in conflict with its home, and one free.
Conflict == At("home", n) :> Of(k, 1) @@ At(old, n) :> Of(l, 2) @@ At(old, c) :> Of(m, 1)

DuplicateOnly == {Duplicate}
MCLayouts == {Variants, Tie, Duplicate, Conflict}
MCJobs == {[path |-> At("home", c), file |-> Of(k, 3)]}
=============================================================================
