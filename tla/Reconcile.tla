------------------------------ MODULE Reconcile ------------------------------
(***************************************************************************)
(* What a scan of an existing library decides: internal/organizer/         *)
(* reconcile_progress.go.  An archive is known by the path it has; a path  *)
(* is a place, the name of the archive and the marks " (2)", " (3)" ... it *)
(* was given in quarantine.  The name determines, by the classifier and    *)
(* the clustering, the series folder (so that the home of an archive is a  *)
(* function of its name and marks), the work with its edition, and the     *)
(* volume.                                                                 *)
(***************************************************************************)
EXTENDS Naturals, Sequences, FiniteSets

CONSTANTS Names,     \* file names of archives, without the marks
          Usable,    \* the names from which a series can be determined
          Work,      \* name -> work and edition (reconcileWorkKey)
          Volume,    \* name -> volume
          NoVolume,  \* ... of a name without one
          Roots,     \* other folders of the library: old series folders, roots
          Contents, Times

ASSUME ReconcileAssumption ==
    /\ Usable \subseteq Names
    /\ Times \subseteq Nat
    /\ Roots \cap {"home", "quarantine"} = {}

File == [data : Contents, time : Times]
Path == [place : Roots \cup {"home", "quarantine"}, name : Names, marks : Seq(Nat)]

LastMark == 9999
Suffix == 0

Quarantined(p) == p.place = "quarantine"

\* filepath.Join(outputRoot, Series, Base(source)).
Home(p) == [p EXCEPT !.place = "home"]

\* UniqueQuarantinePath, on the library fs: the name itself, the first free mark,
\* or after the last mark the suffix ".duplicate", free or not.
FreeQuarantine(fs, p) ==
    LET q == [p EXCEPT !.place = "quarantine"]
        Marked(n) == [q EXCEPT !.marks = Append(@, n)]
        Free(n) == Marked(n) \notin DOMAIN fs
        First(n) == Free(n) /\ \A i \in 2..n-1 : ~Free(i)
    IN CASE q \notin DOMAIN fs -> q
         [] q \in DOMAIN fs /\ \E n \in 2..LastMark : First(n) ->
               Marked(CHOOSE n \in 2..LastMark : First(n))
         [] OTHER -> Marked(Suffix)

-----------------------------------------------------------------------------
(* A scan has seen the files seen[p], by os.Lstat; when it decides, the      *)
(* library holds fs, which it reads again for digests and free paths.        *)

Considered(seen) == {p \in DOMAIN seen : p.name \in Usable}

\* Candidates for one group of markExactDuplicatesProgress whose bodies can be
\* read and agree.
SameCopy(fs, p, q) ==
    /\ Work[p.name] = Work[q.name]
    /\ {p, q} \subseteq DOMAIN fs
    /\ fs[p].data = fs[q].data

CopyClasses(seen, fs) ==
    {C \in {{q \in Considered(seen) : SameCopy(fs, p, q)} : p \in Considered(seen)} :
        Cardinality(C) > 1}

\* "active copy preferred, then newer copy"; the first of equals is kept, in the
\* order in which the folders are walked.
Preferred(seen, p, q) ==
    \/ ~Quarantined(p) /\ Quarantined(q)
    \/ Quarantined(p) = Quarantined(q) /\ seen[p].time > seen[q].time

KeeperSets(seen, fs) ==
    {K \in SUBSET UNION CopyClasses(seen, fs) :
        \A C \in CopyClasses(seen, fs) : \E k \in C :
           /\ K \cap C = {k}
           /\ \A q \in C : ~Preferred(seen, q, k)}

\* The copies that are not kept.  A quarantined one stays where it is.
Spare(seen, fs, K) == (UNION CopyClasses(seen, fs)) \ K
Duplicates(seen, fs, K) == {p \in Spare(seen, fs, K) : ~Quarantined(p)}

\* resolveSameVolumeVariantsProgress: all that is left for one work and volume.
Rivals(seen, fs, K, p) ==
    {q \in Considered(seen) \ Duplicates(seen, fs, K) :
        /\ Work[q.name] = Work[p.name]
        /\ Volume[q.name] = Volume[p.name]
        /\ Volume[q.name] # NoVolume}

VolumeGroups(seen, fs, K) ==
    {G \in {Rivals(seen, fs, K, p) : p \in Considered(seen)} : Cardinality(G) > 1}

\* The one file that is newer than all its rivals, if there is one.
Newest(seen, G) == {w \in G : \A q \in G \ {w} : seen[w].time > seen[q].time}

\* Without a unique newest file the user has to choose.
Choices(seen, fs, K) == {G \in VolumeGroups(seen, fs, K) : Newest(seen, G) = {}}

\* Variant: groups without a unique newest file are not left out.
OlderOrEqual(seen, fs, K) ==
    UNION {G \ Newest(seen, G) : G \in VolumeGroups(seen, fs, K)}

Older(seen, fs, K) ==
    UNION {G \ Newest(seen, G) :
              G \in VolumeGroups(seen, fs, K) \ Choices(seen, fs, K)}

\* What goes to quarantine, and where: the free paths are computed now.
Retired(seen, fs, K) ==
    Duplicates(seen, fs, K) \cup {p \in Older(seen, fs, K) : ~Quarantined(p)}

\* markDestinationConflicts
Occupied(fs, p) == Home(p) # p /\ Home(p) \in DOMAIN fs

\* What moves to its home, unless a file is there that does not go to
\* quarantine (restoreConflictsWhoseDestinationWillBeVacated).
Moving(seen, fs, K) ==
    LET settled == Spare(seen, fs, K) \cup Older(seen, fs, K)
                      \cup UNION Choices(seen, fs, K)
    IN {p \in Considered(seen) \ settled :
           /\ Home(p) # p
           /\ Occupied(fs, p) => Home(p) \in Retired(seen, fs, K)}

\* The report of a scan, as far as its execution uses it.  A file without a
\* planned path is kept, in conflict or in error: nothing happens to it.
Report(seen, fs, K) ==
    [plan |-> [p \in Retired(seen, fs, K) \cup Moving(seen, fs, K) |->
                  IF p \in Retired(seen, fs, K) THEN FreeQuarantine(fs, p)
                  ELSE Home(p)],
     choices |-> Choices(seen, fs, K)]

\* The user's selections turn each choice into a move and removals from the
\* library; their quarantine paths are computed when the execution begins.
WithSelections(report, chosen, fs) ==
    LET rejected == {p \in (UNION report.choices) \ chosen : ~Quarantined(p)}
        moved == {p \in chosen : Home(p) # p}
    IN [p \in DOMAIN report.plan \cup rejected \cup moved |->
           CASE p \in rejected -> FreeQuarantine(fs, p)
             [] p \in moved -> Home(p)
             [] OTHER -> report.plan[p]]

Selections(report) ==
    {S \in SUBSET UNION report.choices :
        \A G \in report.choices : Cardinality(S \cap G) = 1}
=============================================================================
