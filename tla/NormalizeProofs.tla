---------------------------- MODULE NormalizeProofs ----------------------------
(***************************************************************************)
(* Theorems about Normalize, for any archives and limits.  A walk has done *)
(* everything that lies behind its stack; the dry run and the job walk the *)
(* same tree of archives, whose levels are Opened.                         *)
(***************************************************************************)
EXTENDS Normalize, FiniteSetTheorems, SequenceTheorems, WellFoundedInduction, TLAPS

-----------------------------------------------------------------------------
(* Induction.  The relation < on Nat is well-founded, so that a set of naturals *)
(* that has 0 and with every number its successor is Nat.                    *)

LEMMA NatMin ==
    ASSUME NEW S \in SUBSET Nat, S # {}
    PROVE  \E x \in S : \A y \in S : x <= y
<1> DEFINE Less == {ss \in Nat \X Nat : ss[1] < ss[2]}
<1>1. IsWellFoundedOn(Less, Nat)  BY NatLessThanWellFounded DEF OpToRel
<1>2. PICK x \in S : \A y \in S : ~(<<y, x>> \in Less)
  <2> HIDE DEF Less
  <2> QED  BY <1>1, WFMin
<1>3. \A y \in S : ~(y < x)  BY <1>2
<1> QED  BY <1>3

LEMMA NatSet ==
    ASSUME NEW S \in SUBSET Nat, 0 \in S, \A n \in S : n + 1 \in S
    PROVE  S = Nat
<1> DEFINE Rest == Nat \ S
<1>1. SUFFICES ASSUME Rest # {}  PROVE FALSE
  OBVIOUS
<1>2. PICK x \in Rest : \A y \in Rest : x <= y  BY <1>1, NatMin
<1>3. x # 0 /\ x - 1 \in Nat /\ ~(x <= x - 1)  OBVIOUS
<1>4. x - 1 \in S  BY <1>2, <1>3
<1>5. (x - 1) + 1 \in S  BY <1>4
<1> QED  BY <1>3, <1>5

-----------------------------------------------------------------------------
(* The levels of the tree.                                                    *)

Below(S) == UNION {{Inside(f, i) : i \in ArchivesIn(f)} : f \in S}

\* The first levels, up to the n-th.
Levels(g, n) == g[0] = {Root} /\ \A m \in 0..n : m # 0 => g[m] = Below(g[m - 1])

LEMMA LevelsExist == \A n \in Nat : \E g : Levels(g, n)
<1> DEFINE S == {n \in Nat : \E g : Levels(g, n)}
<1>1. 0 \in S
  <2>1. Levels([m \in {0} |-> {Root}], 0)  BY DEF Levels
  <2> QED  BY <2>1
<1>2. ASSUME NEW n \in S  PROVE n + 1 \in S
  <2>1. PICK g : Levels(g, n)  OBVIOUS
  <2> DEFINE h == [m \in 0..(n + 1) |-> IF m = n + 1 THEN Below(g[n]) ELSE g[m]]
  <2>2. h[0] = {Root}  BY <2>1 DEF Levels
  <2>3. ASSUME NEW m \in 0..(n + 1), m # 0  PROVE h[m] = Below(h[m - 1])
    <3>1. CASE m = n + 1  BY <3>1
    <3>2. CASE m # n + 1  
      <4>1. m \in 0..n /\ m - 1 \in 0..n BY <3>2, <2>3
      <4>2. g[m] = Below(g[m-1]) BY <2>1, <2>3, <4>1 DEF Levels
      <4> QED BY <3>2, <4>1, <4>2
    <3> QED  BY <3>1, <3>2
  <2>4. Levels(h, n + 1)  BY <2>2, <2>3 DEF Levels
  <2> QED  BY <2>4
<1> HIDE DEF S
<1>3. S = Nat  BY <1>1, <1>2, NatSet DEF S
<1> QED  BY <1>3 DEF S

LEMMA LevelsUnique ==
    ASSUME NEW n \in Nat, NEW k \in Nat, NEW g, NEW h, Levels(g, n), Levels(h, k),
           NEW m \in Nat, m <= n, m <= k
    PROVE  g[m] = h[m]
<1> DEFINE S == {j \in Nat : j <= n /\ j <= k => g[j] = h[j]}
<1>1. 0 \in S  BY DEF Levels
<1>2. ASSUME NEW j \in S  PROVE j + 1 \in S
  <2>1. SUFFICES ASSUME j + 1 <= n, j + 1 <= k  PROVE g[j + 1] = h[j + 1]
    OBVIOUS
  <2>2. /\ g[j + 1] = Below(g[j]) /\ h[j + 1] = Below(h[j]) /\ g[j] = h[j]
    BY <2>1 DEF Levels
  <2> QED  BY <2>2
<1> HIDE DEF S
<1>3. S = Nat  BY <1>1, <1>2, NatSet DEF S
<1> QED  BY <1>3 DEF S

\* The recursive definition defines a function.
LEMMA OpenedDef ==
    /\ Opened[0] = {Root}
    /\ \A n \in Nat : Opened[n + 1] = Below(Opened[n])
<1> DEFINE first(n) == CHOOSE g : Levels(g, n)
           levels == [n \in Nat |-> first(n)[n]]
           Equation(o) == o = [n \in Nat |-> IF n = 0 THEN {Root} ELSE Below(o[n - 1])]
<1>1. \A n \in Nat : Levels(first(n), n)  BY LevelsExist
<1> HIDE DEF first
<1>2. levels[0] = {Root}  BY <1>1 DEF Levels
<1>3. ASSUME NEW n \in Nat  PROVE levels[n + 1] = Below(levels[n])
  <2>1. Levels(first(n), n) /\ Levels(first(n + 1), n + 1)  BY <1>1
  <2>2. first(n)[n] = first(n + 1)[n]  BY <2>1, LevelsUnique
  <2>3. first(n + 1)[n + 1] = Below(first(n + 1)[n])  BY <2>1 DEF Levels
  <2> QED  BY <2>2, <2>3
<1> HIDE DEF levels
<1>4. ASSUME NEW n \in Nat  PROVE levels[n] = IF n = 0 THEN {Root} ELSE Below(levels[n - 1])
  <2>1. CASE n = 0  BY <1>2, <2>1
  <2>2. CASE n # 0
    <3>1. n - 1 \in Nat /\ (n - 1) + 1 = n  BY <2>2
    <3> QED  BY <1>3, <2>2, <3>1
  <2> QED  BY <2>1, <2>2
<1>5. Equation(levels)  BY <1>4 DEF levels
<1>6. Opened = CHOOSE o : Equation(o)  BY DEF Opened, Below
<1>7. Equation(Opened)  BY <1>5, <1>6
<1>8. \A n \in Nat : Opened[n] = IF n = 0 THEN {Root} ELSE Below(Opened[n - 1])
  BY <1>7
<1>9. ASSUME NEW n \in Nat  PROVE Opened[n + 1] = Below(Opened[n])
  <2>1. n + 1 \in Nat /\ n + 1 # 0 /\ (n + 1) - 1 = n  OBVIOUS
  <2> QED  BY <1>8, <2>1
<1> QED  BY <1>8, <1>9

LEMMA OpenedSame == source' = source => Opened' = Opened
BY DEF Opened, Root

LEMMA TreeSame == source' = source => Tree' = Tree /\ Files' = Files
BY OpenedSame DEF Tree, Files

-----------------------------------------------------------------------------
(* Types of the tree.                                                         *)

Frames == [entries : Seq(Entries), prefix : Seq(Part), depth : Nat, path : Seq(Nat),
           next : Nat]

LEMMA EntryType ==
    ASSUME NEW e \in Entries
    PROVE  /\ e.dir \in Seq(Part) /\ e.base \in Part /\ e.size \in Nat
           /\ Supported(e) => Contained[e.of] \in Seq(Entries)
BY NormalizeAssumption DEF Entries

\* Only a folder that is there is stripped.
LEMMA DirType ==
    ASSUME NEW f \in Frames, NEW i \in DOMAIN f.entries
    PROVE  LogicalDir(f, f.entries[i]) \in Seq(Part)
<1>1. f.entries \in Seq(Entries)  BY DEF Frames
<1>2. f.entries[i] \in Entries  BY <1>1
<1>3. f.entries[i].dir \in Seq(Part)  BY <1>2, EntryType
<1>4. CommonRoot(f.entries) # NoFolder => f.entries[i].dir # <<>>
  BY DEF CommonRoot
<1>5. f.entries[i].dir # <<>> => Tail(f.entries[i].dir) \in Seq(Part)
  BY <1>3
<1> QED  BY <1>3, <1>4, <1>5 DEF LogicalDir

LEMMA InsideType ==
    ASSUME NEW f \in Frames, NEW i \in ArchivesIn(f)
    PROVE  /\ Inside(f, i) \in Frames
           /\ Inside(f, i).depth = f.depth + 1
           /\ Inside(f, i).path = Append(f.path, i)
           /\ Inside(f, i).next = 1
           /\ i \in Nat
<1>1. /\ f.entries \in Seq(Entries) /\ f.prefix \in Seq(Part) /\ f.depth \in Nat
      /\ f.path \in Seq(Nat)
  BY DEF Frames
<1>2. i \in DOMAIN f.entries /\ f.entries[i] \in Entries /\ Supported(f.entries[i])
      /\ i \in Nat
  BY <1>1 DEF ArchivesIn
<1>3. Contained[f.entries[i].of] \in Seq(Entries) /\ f.entries[i].base \in Part
  BY <1>2, EntryType
<1>4. LogicalDir(f, f.entries[i]) \in Seq(Part)  BY <1>2, DirType
<1>5. ChildPrefix(f, f.entries[i]) \in Seq(Part)
  <2>1. f.prefix \o LogicalDir(f, f.entries[i]) \in Seq(Part)
    BY <1>1, <1>4, ConcatProperties
  <2>2. (IF Transparent(f.entries) THEN <<>> ELSE <<f.entries[i].base>>) \in Seq(Part)
    BY <1>3
  <2> QED  BY <2>1, <2>2, ConcatProperties DEF ChildPrefix
<1>6. Append(f.path, i) \in Seq(Nat)  BY <1>1, <1>2
<1>7. Inside(f, i) = [entries |-> Contained[f.entries[i].of],
                      prefix |-> ChildPrefix(f, f.entries[i]), depth |-> f.depth + 1,
                      path |-> Append(f.path, i), next |-> 1]
  BY DEF Inside, Frame
<1>8. f.depth + 1 \in Nat  BY <1>1
<1>9. Inside(f, i) \in Frames  BY <1>3, <1>5, <1>6, <1>7, <1>8 DEF Frames
<1> QED  BY <1>2, <1>7, <1>9

\* A frame as it was when its archive was opened.
AsOpened(f) == Frame(f.entries, f.prefix, f.depth, f.path)

LEMMA LevelType ==
    ASSUME source \in Sources
    PROVE  \A n \in Nat : \A f \in Opened[n] :
              f \in Frames /\ f.depth = n /\ Len(f.path) = n /\ f = AsOpened(f)
<1> DEFINE S == {n \in Nat : \A f \in Opened[n] :
                    f \in Frames /\ f.depth = n /\ Len(f.path) = n /\ f = AsOpened(f)}
<1>1. 0 \in S
  <2>1. source.entries \in Seq(Entries)  BY NormalizeAssumption
  <2>2. Root \in Frames /\ Root.depth = 0 /\ Len(Root.path) = 0 /\ Root = AsOpened(Root)
    BY <2>1 DEF Root, Frame, Frames, AsOpened
  <2> QED  BY <2>2, OpenedDef
<1>2. ASSUME NEW n \in S  PROVE n + 1 \in S
  <2>1. SUFFICES ASSUME NEW f \in Opened[n + 1]
                 PROVE  f \in Frames /\ f.depth = n + 1 /\ Len(f.path) = n + 1 /\ f = AsOpened(f)
    OBVIOUS
  <2>2. n \in Nat  OBVIOUS
  <2>3a. PICK g \in Opened[n] : \E i \in ArchivesIn(g) :
            f = Inside(g, i)
    BY <2>2, OpenedDef DEF Below
  <2>3. PICK i \in ArchivesIn(g) : f = Inside(g, i)
    BY <2>3a
  <2>4. g \in Frames /\ g.depth = n /\ Len(g.path) = n  OBVIOUS
  <2>5. f \in Frames /\ f.depth = n + 1 /\ f.path = Append(g.path, i) /\ i \in Nat
    BY <2>3, <2>4, InsideType
  <2>6. Len(f.path) = n + 1
    <3>1. g.path \in Seq(Nat)  BY <2>4 DEF Frames
    <3> QED  BY <2>4, <2>5, <3>1, AppendProperties
  <2>7. f = AsOpened(f)  BY <2>3 DEF Inside, AsOpened, Frame
  <2> QED  BY <2>5, <2>6, <2>7
<1> HIDE DEF S
<1>3. S = Nat  BY <1>1, <1>2, NatSet DEF S
<1> QED  BY <1>3 DEF S

-----------------------------------------------------------------------------
(* Places.                                                                    *)

Agree(p, q, k) == \A m \in 1..k : p[m] = q[m]

LEMMA BelowFact ==
    ASSUME source \in Sources, NEW n \in Nat, NEW f \in Opened[n + 1]
    PROVE  \E g \in Opened[n] : \E i \in ArchivesIn(g) :
              /\ f = Inside(g, i) /\ g \in Frames /\ Len(g.path) = n
              /\ f.path = Append(g.path, i) /\ i \in Nat
              /\ Agree(g.path, f.path, n) /\ f.path[n + 1] = i
<1>1a. PICK g \in Opened[n] : \E i \in ArchivesIn(g) :
          f = Inside(g, i)
  BY OpenedDef DEF Below
<1>1. PICK i \in ArchivesIn(g) : f = Inside(g, i)
  BY <1>1a
<1>2. g \in Frames /\ Len(g.path) = n  BY LevelType
<1>3. f.path = Append(g.path, i) /\ i \in Nat  BY <1>1, <1>2, InsideType
<1>4. g.path \in Seq(Nat)  BY <1>2 DEF Frames
<1>5. Agree(g.path, f.path, n) /\ f.path[n + 1] = i
  BY <1>2, <1>3, <1>4, AppendProperties DEF Agree
<1> QED  BY <1>1, <1>2, <1>3, <1>5

\* A place leads to one archive.
LEMMA OnePlace ==
    ASSUME source \in Sources
    PROVE  \A n \in Nat : \A f, g \in Opened[n] : Agree(f.path, g.path, n) => f = g
<1> DEFINE S == {n \in Nat : \A f, g \in Opened[n] : Agree(f.path, g.path, n) => f = g}
<1>1. 0 \in S  BY OpenedDef
<1>2. ASSUME NEW n \in S  PROVE n + 1 \in S
  <2>1. SUFFICES ASSUME NEW f \in Opened[n + 1], NEW g \in Opened[n + 1],
                        Agree(f.path, g.path, n + 1)
                 PROVE  f = g
    OBVIOUS
  <2>2. n \in Nat  OBVIOUS
  <2>3a. PICK ff \in Opened[n] : \E i \in ArchivesIn(ff) :
            f = Inside(ff, i) /\ Agree(ff.path, f.path, n) /\ f.path[n + 1] = i
    BY <2>2, BelowFact
  <2>3. PICK i \in ArchivesIn(ff) : f = Inside(ff, i) /\ Agree(ff.path, f.path, n) /\ f.path[n + 1] = i
    BY <2>3a
  <2>4a. PICK gg \in Opened[n] : \E k \in ArchivesIn(gg) :
            g = Inside(gg, k) /\ Agree(gg.path, g.path, n) /\ g.path[n + 1] = k
    BY <2>2, BelowFact
  <2>4. PICK k \in ArchivesIn(gg) : g = Inside(gg, k) /\ Agree(gg.path, g.path, n) /\ g.path[n + 1] = k
    BY <2>4a
  <2>5. Agree(ff.path, gg.path, n) /\ i = k
    BY <2>1, <2>2, <2>3, <2>4 DEF Agree
  <2>6. ff = gg  BY <2>5
  <2> QED  BY <2>3, <2>4, <2>5, <2>6
<1> HIDE DEF S
<1>3. S = Nat  BY <1>1, <1>2, NatSet DEF S
<1> QED  BY <1>3 DEF S

\* Every archive lies in an archive of each level above it.
LEMMA Ancestor ==
    ASSUME source \in Sources
    PROVE  \A n \in Nat : \A f \in Opened[n] : \A j \in 0..(n - 1) :
              \E g \in Opened[j] : Agree(g.path, f.path, j) /\ f.path[j + 1] \in ArchivesIn(g)
<1> DEFINE S == {n \in Nat : \A f \in Opened[n] : \A j \in 0..(n - 1) :
                    \E g \in Opened[j] :
                       Agree(g.path, f.path, j) /\ f.path[j + 1] \in ArchivesIn(g)}
<1>1. 0 \in S  OBVIOUS
<1>2. ASSUME NEW n \in S  PROVE n + 1 \in S
  <2>1. SUFFICES ASSUME NEW f \in Opened[n + 1], NEW j \in 0..n
                 PROVE  \E g \in Opened[j] :
                           Agree(g.path, f.path, j) /\ f.path[j + 1] \in ArchivesIn(g)
    OBVIOUS
  <2>2. n \in Nat  OBVIOUS
  <2>3a. PICK h \in Opened[n] : \E i \in ArchivesIn(h) :
            Agree(h.path, f.path, n) /\ f.path[n + 1] = i
    BY <2>2, BelowFact
  <2>3. PICK i \in ArchivesIn(h) : Agree(h.path, f.path, n) /\ f.path[n + 1] = i
    BY <2>3a
  <2>4. CASE j = n  BY <2>3, <2>4
  <2>5. CASE j # n
    <3>1. j \in 0..(n - 1)  BY <2>2, <2>5
    <3>2. PICK g \in Opened[j] : Agree(g.path, h.path, j) /\ h.path[j + 1] \in ArchivesIn(g)
      BY <3>1
    <3>3. Agree(g.path, f.path, j) /\ f.path[j + 1] = h.path[j + 1]
      BY <2>2, <2>3, <3>1, <3>2 DEF Agree
    <3> QED  BY <3>2, <3>3
  <2> QED  BY <2>4, <2>5
<1> HIDE DEF S
<1>3. S = Nat  BY <1>1, <1>2, NatSet DEF S
<1> QED  BY <1>3 DEF S

\* The place of the i-th entry of an archive.
Place(f, i) == Append(f.path, i)

-----------------------------------------------------------------------------
(* Names.                                                                     *)

Names == [dir : Seq(Part), base : Part, ext : STRING]
Leaves == [name : Names, leaf : Seq(Nat)]

\* A mark makes a name differ from the same name with another mark, case or not.
LEMMA MarkFact ==
    ASSUME NEW name \in Names, NEW n \in Nat
    PROVE  /\ Mark(name, n) \in Names
           /\ Mark(name, n).dir = name.dir
           /\ Fold(Mark(name, n)).base.marks = Append(name.base.marks, n)
<1>1. name.base \in Part /\ name.base.marks \in Seq(Nat)  BY DEF Names, Part
<1>2. Mark(name, n) = [dir |-> name.dir,
                       base |-> [stem |-> name.base.stem, marks |-> Append(name.base.marks, n)],
                       ext |-> name.ext]
  <2>1. name = [dir |-> name.dir, base |-> name.base, ext |-> name.ext]
        /\ name.base = [stem |-> name.base.stem, marks |-> name.base.marks]
    BY DEF Names, Part
  <2>2. [name.base EXCEPT !.marks = Append(@, n)] =
           [stem |-> name.base.stem, marks |-> Append(name.base.marks, n)]
    <3>1. ASSUME NEW b \in Part, NEW a
          PROVE  [b EXCEPT !.marks = a] = [stem |-> b.stem, marks |-> a]
      BY DEF Part
    <3> QED  BY <1>1, <3>1
  <2>3. Mark(name, n) = [name EXCEPT !.base = [name.base EXCEPT !.marks = Append(@, n)]]
    BY <2>1 DEF Mark
  <2> QED  BY <2>1, <2>2, <2>3
<1>3. Append(name.base.marks, n) \in Seq(Nat)  BY <1>1
<1>4. Mark(name, n) \in Names  BY <1>2, <1>3 DEF Names, Part
<1>5. Fold(Mark(name, n)).base.marks = Append(name.base.marks, n)
  <2>1. ASSUME NEW b \in Part, NEW c  PROVE [b EXCEPT !.stem = c].marks = b.marks
    BY DEF Part
  <2>2. Mark(name, n).base \in Part /\ Mark(name, n).base.marks = Append(name.base.marks, n)
    BY <1>2, <1>4 DEF Names
  <2>3. Fold(Mark(name, n)).base =
           [Mark(name, n).base EXCEPT !.stem = Lower[Mark(name, n).base.stem]]
    BY DEF Fold
  <2> QED  BY <2>1, <2>2, <2>3
<1>6. Mark(name, n).dir = name.dir  BY <1>2
<1> QED  BY <1>4, <1>5, <1>6

\* There are more marks to try than names that are taken.
LEMMA FreeMark ==
    ASSUME written \in Seq(Leaves), NEW name \in Names
    PROVE  \E n \in 2..(Len(written) + 2) : Fold(Mark(name, n)) \notin Seen
<1> DEFINE N == Len(written)
           Marks == 2..(N + 2)
           user(n) == CHOOSE i \in 1..N : Fold(written[i].name) = Fold(Mark(name, n))
           f == [n \in Marks |-> user(n)]
<1>1. N \in Nat /\ DOMAIN written = 1..N  OBVIOUS
<1>2. SUFFICES ASSUME \A n \in Marks : Fold(Mark(name, n)) \in Seen  PROVE FALSE
  OBVIOUS
<1>3. \A n \in Marks : user(n) \in 1..N /\ Fold(written[user(n)].name) = Fold(Mark(name, n))
  BY <1>1, <1>2 DEF Seen
<1> HIDE DEF user
<1>4. f \in [Marks -> 1..N]  BY <1>3
<1>5. /\ IsFiniteSet(Marks) /\ IsFiniteSet(1..N)
      /\ Cardinality(1..N) < Cardinality(Marks)
  <2>1. IsFiniteSet(1..N) /\ Cardinality(1..N) = N
    <3>1. 1 \in Int /\ N \in Int /\ (IF 1 > N THEN 0 ELSE N - 1 + 1) = N  BY <1>1
    <3> QED  BY <3>1, FS_Interval
  <2>2. N + 2 \in Int /\ ~(2 > N + 2) /\ (N + 2) - 2 + 1 = N + 1  BY <1>1
  <2>3. IsFiniteSet(2..(N + 2)) /\ Cardinality(2..(N + 2)) = N + 1
    BY <2>2, FS_Interval
  <2> QED  BY <1>1, <2>1, <2>3
<1> HIDE DEF N
<1>6. PICK x \in Marks, y \in Marks : x # y /\ f[x] = f[y]
  <2> HIDE DEF f, Marks
  <2> QED  BY <1>4, <1>5, FS_PigeonHole
<1>7. x \in Nat /\ y \in Nat  BY <1>1
<1>8. Fold(Mark(name, x)) = Fold(Mark(name, y))  BY <1>3, <1>6
<1>9. Append(name.base.marks, x) = Append(name.base.marks, y)
  <2>1. Fold(Mark(name, x)).base.marks = Append(name.base.marks, x)  BY <1>7, MarkFact
  <2>2. Fold(Mark(name, y)).base.marks = Append(name.base.marks, y)  BY <1>7, MarkFact
  <2> QED  BY <1>8, <2>1, <2>2
<1>10. name.base.marks \in Seq(Nat)  BY DEF Names, Part
<1> QED  BY <1>6, <1>7, <1>9, <1>10, AppendInjective

\* uniqueArchiveName keeps the folder; its result is new while the marks last.
LEMMA UniqueNameFact ==
    ASSUME written \in Seq(Leaves), NEW name \in Names
    PROVE  /\ UniqueName(name) \in Names
           /\ UniqueName(name).dir = name.dir
           /\ Len(written) + 1 < LastMark => Fold(UniqueName(name)) \notin Seen
<1> DEFINE free == {n \in 2..(Len(written) + 2) : Fold(Mark(name, n)) \notin Seen}
           first == CHOOSE n \in free : \A m \in free : n <= m
<1>1. Len(written) \in Nat  OBVIOUS
<1>2. free # {} /\ free \in SUBSET Nat  BY <1>1, FreeMark
<1>3. first \in free  
  <2> HIDE DEF free
  <2>1. \E n \in free : \A m \in free : n <= m  BY <1>2, NatMin
  <2> QED  BY <2>1
<1>4. first \in Nat /\ first <= Len(written) + 2 /\ Fold(Mark(name, first)) \notin Seen
  BY <1>1, <1>3
<1>5. UniqueName(name) = IF Fold(name) \notin Seen THEN name
                         ELSE IF first <= LastMark THEN Mark(name, first) ELSE Mark(name, 0)
  BY DEF UniqueName
<1> HIDE DEF first
<1>6. UniqueName(name) \in Names /\ UniqueName(name).dir = name.dir
  BY <1>4, <1>5, MarkFact
<1>7. Len(written) + 1 < LastMark => first <= LastMark  BY <1>1, <1>4 DEF LastMark
<1> QED  BY <1>4, <1>5, <1>6, <1>7

-----------------------------------------------------------------------------
(* The invariant.                                                             *)

\* Each open archive lies in the one before it, at the entry that was read last.
StackInv ==
    /\ stack \in Seq(Frames)
    /\ stack # <<>> => phase \in {"preview", "flatten"}
    /\ phase = "flatten" => stack # <<>>
    /\ \A k \in DOMAIN stack : AsOpened(stack[k]) \in Opened[k - 1]
    /\ \A k \in 1..(Len(stack) - 1) :
          /\ stack[k].next - 1 \in ArchivesIn(stack[k])
          /\ AsOpened(stack[k + 1]) = Inside(stack[k], stack[k].next - 1)

\* The places the walk has left behind: an earlier entry of an open archive, or one
\* inside it.
Bound(k) == IF k = Len(stack) THEN stack[k].next ELSE stack[k].next - 1
Behind(p) ==
    \E k \in DOMAIN stack : /\ k <= Len(p) /\ Agree(p, stack[k].path, k - 1)
                            /\ p[k] < Bound(k)

Job == phase \in {"flatten", "split"} \/ (phase = "done" /\ ~Plain(source))
Walked(p) == phase = "flatten" => Behind(p)

\* What is written: every file behind the walk, once, and nothing else.
AllWritten ==
    \A n \in Nat : \A f \in Opened[n] : \A i \in FilesIn(f) :
       Walked(Place(f, i)) =>
          \E j \in DOMAIN written : written[j].leaf = Place(f, i)

\* The j-th file of the normalized ZIP comes from the i-th entry of f.
ComesFrom(j, f, i) == /\ written[j].leaf = Place(f, i)
                      /\ written[j].name.dir = JoinedName(f, f.entries[i]).dir
OnlyFiles ==
    \A j \in DOMAIN written :
       /\ Walked(written[j].leaf)
       /\ \E n \in 0..MaxNestedDepth : \E f \in Opened[n] : \E i \in FilesIn(f) :
             ComesFrom(j, f, i)
Once == \A j, k \in DOMAIN written : j # k => written[j].leaf # written[k].leaf

Recorded ==
    /\ written \in Seq(Leaves)
    /\ phase \in {"preview", "inspect"} => written = <<>>
    /\ phase \in {"flatten", "split"} => ~Plain(source)
    /\ Job => AllWritten /\ OnlyFiles /\ Once
    /\ phase = "done" => published = IF Plain(source) THEN RawOutputs ELSE Outputs

\* The groups of the dry run are those of the files behind it.
GroupAt(f, i) == Group(JoinedName(f, f.entries[i]).dir)
AllGroups == UNION {UNION {{GroupAt(f, i) : i \in FilesIn(f)} : f \in Opened[n]} : n \in Nat}
Foreseen ==
    /\ phase = "preview" =>
          /\ \A n \in Nat : \A f \in Opened[n] : \A i \in FilesIn(f) :
                Behind(Place(f, i)) => GroupAt(f, i) \in groups
          /\ groups \subseteq AllGroups
    /\ phase # "preview" => predicted \in {{}, Preferred(AllGroups, source.entries)}

\* The job's counters count what has been opened, listed and written.
Begun(p) == phase = "flatten" => Behind(p) \/ \E k \in 2..Len(stack) : p = stack[k].path
BegunInner == {p \in Inner : Begun(p)}
Listed == UNION {{Place(f, i) : i \in DOMAIN f.entries} :
                    f \in {g \in Tree : g.path = <<>> \/ g.path \in BegunInner}}
WrittenBytes == {b \in Bytes : Walked(b[1])}
Counted ==
    /\ phase \in {"preview", "inspect"} => nested = 0
    /\ phase = "inspect" => bytes = 0
    /\ Job => /\ IsFiniteSet(BegunInner) /\ nested = Cardinality(BegunInner)
              /\ \A p \in BegunInner : Len(p) <= MaxNestedDepth
              /\ IsFiniteSet(Listed) /\ scanned = Cardinality(Listed)
              /\ IsFiniteSet(WrittenBytes) /\ bytes = Cardinality(WrittenBytes)

IInv == /\ TypeOK
        /\ StackInv
        /\ Recorded /\ UniqueNames
        /\ Foreseen
        /\ Counted

-----------------------------------------------------------------------------
(* The stack.                                                                 *)

LEMMA EntriesFact ==
    ASSUME NEW f \in Frames
    PROVE  /\ f.entries \in Seq(Entries) /\ f.path \in Seq(Nat) /\ f.depth \in Nat
           /\ f.next \in Nat /\ Len(f.entries) \in Nat
           /\ DOMAIN f.entries = 1..Len(f.entries)
           /\ \A i \in DOMAIN f.entries : f.entries[i] \in Entries /\ i \in Nat
           /\ FilesIn(f) \subseteq DOMAIN f.entries /\ ArchivesIn(f) \subseteq DOMAIN f.entries
           /\ FilesIn(f) \cap ArchivesIn(f) = {}
<1>1. f.entries \in Seq(Entries) /\ f.path \in Seq(Nat) /\ f.depth \in Nat /\ f.next \in Nat
  BY DEF Frames
<1>2. \A i \in DOMAIN f.entries : f.entries[i] \in Entries /\ i \in Nat
  BY <1>1
<1> QED  BY <1>1, <1>2 DEF FilesIn, ArchivesIn, ArchiveLike

\* An open archive, as it was opened, is an archive of the tree.
LEMMA StackFact ==
    ASSUME source \in Sources, StackInv, NEW k \in DOMAIN stack
    PROVE  /\ k \in 1..Len(stack) /\ k - 1 \in Nat /\ Len(stack) \in Nat
           /\ stack[k] \in Frames /\ stack[k].depth = k - 1 /\ Len(stack[k].path) = k - 1
           /\ AsOpened(stack[k]) \in Opened[k - 1]
<1>1. k \in 1..Len(stack) /\ k - 1 \in Nat /\ Len(stack) \in Nat /\ stack[k] \in Frames
  BY DEF StackInv
<1>2. AsOpened(stack[k]) \in Opened[k - 1]  BY DEF StackInv
<1>3. AsOpened(stack[k]).depth = k - 1 /\ Len(AsOpened(stack[k]).path) = k - 1
  BY <1>1, <1>2, LevelType
<1> QED  BY <1>1, <1>2, <1>3 DEF AsOpened, Frame

\* What a frame says of its entries does not depend on the next one to be read.
LEMMA SameFrame ==
    ASSUME NEW f, NEW g, f.entries = g.entries, f.prefix = g.prefix, f.depth = g.depth,
           f.path = g.path
    PROVE  /\ AsOpened(f) = AsOpened(g)
           /\ ArchivesIn(f) = ArchivesIn(g) /\ FilesIn(f) = FilesIn(g)
           /\ \A i : Inside(f, i) = Inside(g, i)
           /\ \A e : JoinedName(f, e) = JoinedName(g, e)
<1>1. \A e : LogicalDir(f, e) = LogicalDir(g, e)  BY DEF LogicalDir
<1>2. \A e : JoinedName(f, e) = JoinedName(g, e) /\ ChildPrefix(f, e) = ChildPrefix(g, e)
  BY <1>1 DEF JoinedName, ChildPrefix
<1> QED  BY <1>2 DEF AsOpened, Frame, ArchivesIn, FilesIn, Inside

LEMMA AsOpenedFact ==
    ASSUME NEW f
    PROVE  /\ AsOpened(f).entries = f.entries /\ AsOpened(f).path = f.path
           /\ ArchivesIn(AsOpened(f)) = ArchivesIn(f) /\ FilesIn(AsOpened(f)) = FilesIn(f)
           /\ \A i : Inside(AsOpened(f), i) = Inside(f, i)
           /\ \A e : JoinedName(AsOpened(f), e) = JoinedName(f, e)
<1>1. /\ AsOpened(f).entries = f.entries /\ AsOpened(f).prefix = f.prefix
      /\ AsOpened(f).depth = f.depth /\ AsOpened(f).path = f.path
  BY DEF AsOpened, Frame
<1> QED  BY <1>1, SameFrame

LEMMA TopFact ==
    ASSUME source \in Sources, TypeOK, StackInv, stack # <<>>
    PROVE  /\ Len(stack) \in DOMAIN stack /\ Len(stack) \in Nat
           /\ Top = stack[Len(stack)] /\ Top \in Frames
           /\ Top.depth = Len(stack) - 1 /\ Len(Top.path) = Len(stack) - 1
           /\ AsOpened(Top) \in Opened[Len(stack) - 1]
           /\ Top.next \in 1..(Len(Top.entries) + 1)
           /\ HasEntry => Top.next \in DOMAIN Top.entries /\ Entry \in Entries
                          /\ Entry = Top.entries[Top.next]
<1>1. Len(stack) \in DOMAIN stack /\ Len(stack) \in Nat  BY DEF StackInv
<1>2. Top = stack[Len(stack)]  BY DEF Top, Last
<1>3. /\ Top \in Frames /\ Top.depth = Len(stack) - 1 /\ Len(Top.path) = Len(stack) - 1
      /\ AsOpened(Top) \in Opened[Len(stack) - 1]
  BY <1>1, <1>2, StackFact
<1>4. Top.next \in 1..(Len(Top.entries) + 1)  BY <1>1, <1>2 DEF TypeOK
<1>5. HasEntry => Top.next \in DOMAIN Top.entries
  BY <1>3, <1>4, EntriesFact DEF HasEntry
<1>6. HasEntry => Entry \in Entries /\ Entry = Top.entries[Top.next]
  BY <1>3, <1>5, EntriesFact DEF Entry
<1> QED  BY <1>1, <1>2, <1>3, <1>4, <1>5, <1>6

\* An entry has been read.
LEMMA AdvancedFact ==
    ASSUME source \in Sources, TypeOK, StackInv, HasEntry
    PROVE  /\ Advanced \in Seq(Frames) /\ Len(Advanced) = Len(stack)
           /\ \A k \in DOMAIN stack : k # Len(stack) => Advanced[k] = stack[k]
           /\ \A k \in DOMAIN stack :
                 /\ Advanced[k].entries = stack[k].entries
                 /\ Advanced[k].prefix = stack[k].prefix
                 /\ Advanced[k].depth = stack[k].depth /\ Advanced[k].path = stack[k].path
           /\ Advanced[Len(stack)].next = Top.next + 1
<1> DEFINE n == Len(stack)
           top == [Top EXCEPT !.next = @ + 1]
<1>1. stack # <<>>  BY DEF HasEntry
<1>2. stack \in Seq(Frames) /\ n \in DOMAIN stack /\ Top = stack[n] /\ Top \in Frames
      /\ Top.next \in Nat
  BY <1>1, TopFact, EntriesFact DEF StackInv
<1>3. top \in Frames /\ top.entries = Top.entries /\ top.prefix = Top.prefix
      /\ top.depth = Top.depth /\ top.path = Top.path /\ top.next = Top.next + 1
  <2>1. ASSUME NEW f \in Frames, NEW v \in Nat
        PROVE  LET g == [f EXCEPT !.next = v]
               IN  /\ g \in Frames /\ g.entries = f.entries /\ g.prefix = f.prefix
                   /\ g.depth = f.depth /\ g.path = f.path /\ g.next = v
    BY DEF Frames
  <2>2. Top.next + 1 \in Nat  BY <1>2
  <2> QED  BY <1>2, <2>1, <2>2
<1>4. Advanced = [stack EXCEPT ![n] = top]  BY <1>2 DEF Advanced
<1> HIDE DEF top
<1>5. /\ Advanced \in Seq(Frames) /\ Len(Advanced) = n
      /\ \A k \in DOMAIN stack : Advanced[k] = IF k = n THEN top ELSE stack[k]
  BY <1>2, <1>3, <1>4, ExceptSeq
<1> QED  BY <1>2, <1>3, <1>5

LEMMA AdvanceStack ==
    ASSUME source \in Sources, TypeOK, StackInv, HasEntry, stack' = Advanced,
           source' = source, phase' = phase
    PROVE  StackInv' /\ Len(stack') = Len(stack)
<1>1. stack # <<>> /\ Len(stack) \in Nat /\ stack \in Seq(Frames)  BY TopFact DEF HasEntry, StackInv
<1>2. Advanced \in Seq(Frames) /\ Len(Advanced) = Len(stack) /\ Advanced # <<>>
  BY <1>1, AdvancedFact
<1>3. DOMAIN Advanced = DOMAIN stack  BY <1>1, <1>2
<1>4. ASSUME NEW k \in DOMAIN stack
      PROVE  /\ AsOpened(Advanced[k]) = AsOpened(stack[k])
             /\ ArchivesIn(Advanced[k]) = ArchivesIn(stack[k])
             /\ \A i : Inside(Advanced[k], i) = Inside(stack[k], i)
  BY AdvancedFact, SameFrame
<1>5. \A k \in DOMAIN Advanced : AsOpened(Advanced[k]) \in Opened[k - 1]
  BY <1>3, <1>4 DEF StackInv
<1>6. ASSUME NEW k \in 1..(Len(Advanced) - 1)
      PROVE  /\ Advanced[k].next - 1 \in ArchivesIn(Advanced[k])
             /\ AsOpened(Advanced[k + 1]) = Inside(Advanced[k], Advanced[k].next - 1)
  <2>1. k \in 1..(Len(stack) - 1) /\ k \in DOMAIN stack /\ k + 1 \in DOMAIN stack /\ k # Len(stack)
    BY <1>1, <1>2
  <2>2. Advanced[k] = stack[k]  BY <2>1, AdvancedFact
  <2>3. /\ stack[k].next - 1 \in ArchivesIn(stack[k])
        /\ AsOpened(stack[k + 1]) = Inside(stack[k], stack[k].next - 1)
    BY <2>1 DEF StackInv
  <2> QED  BY <1>4, <2>1, <2>2, <2>3
<1>7. Opened' = Opened  BY OpenedSame
<1>8. StackInv'
  BY <1>1, <1>2, <1>5, <1>6, <1>7 DEF StackInv
<1> QED  BY <1>2, <1>8

LEMMA PushStack ==
    ASSUME source \in Sources, TypeOK, StackInv, HasEntry, Supported(Entry),
           stack' = Append(Advanced, Child), source' = source, phase' = phase
    PROVE  StackInv' /\ Len(stack') = Len(stack) + 1
           /\ Child \in Frames /\ Child.next = 1 /\ Child.path = Leaf
<1> DEFINE n == Len(stack)
<1>1. stack # <<>> /\ n \in Nat /\ stack \in Seq(Frames) /\ n \in DOMAIN stack
  BY TopFact DEF HasEntry, StackInv
<1>2. /\ Top = stack[n] /\ Top \in Frames /\ AsOpened(Top) \in Opened[n - 1]
      /\ Top.next \in DOMAIN Top.entries /\ Entry = Top.entries[Top.next]
  BY <1>1, TopFact
<1>3. Top.next \in ArchivesIn(Top)  BY <1>2 DEF ArchivesIn
<1>4. Child = Inside(Top, Top.next) /\ Child \in Frames /\ Child.next = 1
      /\ Child.path = Append(Top.path, Top.next)
  BY <1>2, <1>3, InsideType DEF Child
<1>5. Advanced \in Seq(Frames) /\ Len(Advanced) = n  BY <1>1, AdvancedFact
<1>6. /\ stack' \in Seq(Frames) /\ Len(stack') = n + 1 /\ stack'[n + 1] = Child
      /\ \A k \in 1..n : stack'[k] = Advanced[k]
      /\ DOMAIN stack' = 1..(n + 1)
  BY <1>1, <1>4, <1>5, AppendProperties
<1>7. ASSUME NEW k \in DOMAIN stack
      PROVE  /\ k \in 1..n
             /\ AsOpened(Advanced[k]) = AsOpened(stack[k])
             /\ ArchivesIn(Advanced[k]) = ArchivesIn(stack[k])
             /\ \A i : Inside(Advanced[k], i) = Inside(stack[k], i)
  BY <1>1, AdvancedFact, SameFrame
<1>8. AsOpened(Child) \in Opened[n]
  <2>1. ArchivesIn(AsOpened(Top)) = ArchivesIn(Top)
        /\ Inside(AsOpened(Top), Top.next) = Inside(Top, Top.next)
    BY AsOpenedFact
  <2>2. Child \in Below(Opened[n - 1])  BY <1>2, <1>3, <1>4, <2>1 DEF Below
  <2>3. n - 1 \in Nat /\ (n - 1) + 1 = n  BY <1>1
  <2>4. Child \in Opened[n]  BY <2>2, <2>3, OpenedDef
  <2> QED  BY <1>1, <2>4, LevelType
<1>9. AsOpened(Child) = Child  BY <1>4 DEF AsOpened, Inside, Frame
<1>10. ASSUME NEW k \in DOMAIN stack'  PROVE AsOpened(stack'[k]) \in Opened[k - 1]
  <2>1. CASE k = n + 1
    <3>1. (n + 1) - 1 = n  BY <1>1
    <3> QED  BY <1>6, <1>8, <2>1, <3>1
  <2>2. CASE k # n + 1
    <3>1. k \in 1..n /\ k \in DOMAIN stack  BY <1>1, <1>6, <2>2
    <3>2. AsOpened(stack[k]) \in Opened[k - 1]  BY <3>1 DEF StackInv
    <3> QED  BY <1>6, <1>7, <3>1, <3>2
  <2> QED  BY <2>1, <2>2
<1>11. ASSUME NEW k \in 1..n
       PROVE  /\ stack'[k].next - 1 \in ArchivesIn(stack'[k])
              /\ AsOpened(stack'[k + 1]) = Inside(stack'[k], stack'[k].next - 1)
  <2>1. k \in DOMAIN stack /\ stack'[k] = Advanced[k]  BY <1>1, <1>6
  <2>2. CASE k = n
    <3>1. stack'[k].next = Top.next + 1  BY <1>1, <2>1, <2>2, AdvancedFact
    <3>2. stack'[k].next - 1 = Top.next  BY <1>2, <3>1, EntriesFact
    <3> QED  BY <1>2, <1>3, <1>4, <1>6, <1>7, <1>9, <2>1, <2>2, <3>2
  <2>3. CASE k # n
    <3>1. k \in 1..(n - 1) /\ k + 1 \in 1..n /\ k + 1 \in DOMAIN stack  BY <1>1, <2>3
    <3>2. /\ stack[k].next - 1 \in ArchivesIn(stack[k])
          /\ AsOpened(stack[k + 1]) = Inside(stack[k], stack[k].next - 1)
      BY <3>1 DEF StackInv
    <3>3. Advanced[k] = stack[k]  BY <2>1, <2>3, AdvancedFact
    <3>4. AsOpened(stack'[k + 1]) = AsOpened(stack[k + 1])  BY <1>6, <1>7, <3>1
    <3> QED  BY <2>1, <3>2, <3>3, <3>4
  <2> QED  BY <2>2, <2>3
<1>12. Opened' = Opened  BY OpenedSame
<1>13. stack' # <<>> /\ phase' \in {"preview", "flatten"}
  <2>1. phase \in {"preview", "flatten"}  BY <1>1 DEF StackInv
  <2> QED  BY <1>1, <1>6, <2>1
<1>14. Len(stack') - 1 = n  BY <1>1, <1>6
<1>15. StackInv'
  BY <1>6, <1>10, <1>11, <1>12, <1>13, <1>14 DEF StackInv
<1>16. Child.path = Leaf  BY <1>4 DEF Leaf
<1> QED  BY <1>4, <1>6, <1>15, <1>16

LEMMA PopStack ==
    ASSUME source \in Sources, StackInv, Len(stack) > 1, stack' = Front(stack),
           source' = source, phase' = phase
    PROVE  /\ StackInv' /\ Len(stack') = Len(stack) - 1
           /\ \A k \in 1..(Len(stack) - 1) : stack'[k] = stack[k]
<1> DEFINE n == Len(stack)
<1>1. stack \in Seq(Frames) /\ n \in Nat /\ DOMAIN stack = 1..n  BY DEF StackInv
<1>2. stack' = SubSeq(stack, 1, n - 1)  BY DEF Front
<1>3. /\ stack' \in Seq(Frames) /\ Len(stack') = n - 1 /\ DOMAIN stack' = 1..(n - 1)
      /\ \A k \in 1..(n - 1) : stack'[k] = stack[k]
  <2>1. 1 \in Int /\ n - 1 \in Int /\ 1 <= n - 1 /\ (n - 1) - 1 + 1 = n - 1
        /\ \A k \in 1..(n - 1) : stack[k] \in Frames /\ 1 + k - 1 = k
    BY <1>1
  <2>2. /\ stack' \in Seq(Frames) /\ Len(stack') = n - 1
        /\ \A k \in 1..(n - 1) : stack'[k] = stack[k]
    BY <1>2, <2>1, SubSeqProperties
  <2> QED  BY <2>2
<1>4. \A k \in DOMAIN stack' : AsOpened(stack'[k]) \in Opened[k - 1]
  BY <1>1, <1>3 DEF StackInv
<1>5. \A k \in 1..(Len(stack') - 1) :
         /\ stack'[k].next - 1 \in ArchivesIn(stack'[k])
         /\ AsOpened(stack'[k + 1]) = Inside(stack'[k], stack'[k].next - 1)
  <2>1. ASSUME NEW k \in 1..(Len(stack') - 1)
        PROVE  k \in 1..(n - 1) /\ k + 1 \in 1..(n - 1)
    BY <1>1, <1>3
  <2> QED  BY <1>1, <1>3, <2>1 DEF StackInv
<1>6. Opened' = Opened  BY OpenedSame
<1>7. phase \in {"preview", "flatten"} /\ stack' # <<>>  BY <1>1, <1>3 DEF StackInv
<1>8. StackInv'  BY <1>3, <1>4, <1>5, <1>6, <1>7 DEF StackInv
<1> QED  BY <1>3, <1>8

LEMMA RootStack ==
    ASSUME source \in Sources, stack' = <<Root>>, source' = source,
           phase' \in {"preview", "flatten"}
    PROVE  StackInv' /\ Len(stack') = 1 /\ stack'[1] = Root /\ Root \in Frames
           /\ Root.next = 1 /\ Root.depth = 0 /\ Root.entries = source.entries /\ Root.path = <<>>
<1>1. Root \in Opened[0] /\ Opened' = Opened  BY OpenedDef, OpenedSame
<1>2. Root \in Frames /\ Root = AsOpened(Root)  BY <1>1, LevelType
<1>3. stack' \in Seq(Frames) /\ Len(stack') = 1 /\ stack'[1] = Root /\ stack' # <<>>
      /\ DOMAIN stack' = {1}
  BY <1>2
<1>4. /\ Root.next = 1 /\ Root.depth = 0 /\ Root.entries = source.entries /\ Root.path = <<>>
  BY DEF Root, Frame
<1>5. StackInv'  BY <1>1, <1>2, <1>3 DEF StackInv
<1> QED  BY <1>2, <1>3, <1>4, <1>5

-----------------------------------------------------------------------------
(* What lies behind the stack.                                                *)

LEMMA PlaceFact ==
    ASSUME source \in Sources, NEW n \in Nat, NEW f \in Opened[n], NEW i \in DOMAIN f.entries
    PROVE  /\ Place(f, i) \in Seq(Nat) /\ Len(Place(f, i)) = n + 1
           /\ Place(f, i)[n + 1] = i
           /\ Agree(Place(f, i), f.path, n)
           /\ \A m \in 1..(n + 1) : Place(f, i)[m] \in Nat \ {0}
<1>1. f \in Frames /\ Len(f.path) = n  BY LevelType
<1>2. f.path \in Seq(Nat) /\ i \in Nat \ {0}  BY <1>1, EntriesFact
<1>3. /\ Place(f, i) \in Seq(Nat) /\ Len(Place(f, i)) = n + 1
      /\ Place(f, i)[n + 1] = i
      /\ \A m \in 1..n : Place(f, i)[m] = f.path[m]
  BY <1>1, <1>2, AppendProperties DEF Place
<1>4. ASSUME NEW m \in 1..n  PROVE f.path[m] \in Nat \ {0}
  <2>1. m - 1 \in 0..(n - 1) /\ m - 1 \in Nat /\ (m - 1) + 1 = m  OBVIOUS
  <2>2. PICK g \in Opened[m - 1] : f.path[m] \in ArchivesIn(g)  BY <2>1, Ancestor
  <2>3. g \in Frames  BY <2>1, LevelType
  <2> QED  BY <2>2, <2>3, EntriesFact
<1>5. ASSUME NEW m \in 1..(n + 1)  PROVE Place(f, i)[m] \in Nat \ {0}
  <2>1. CASE m = n + 1  BY <1>2, <1>3, <2>1
  <2>2. CASE m # n + 1
    <3>1. m \in 1..n  BY <2>2
    <3> QED  BY <1>3, <1>4, <3>1
  <2> QED  BY <2>1, <2>2
<1> QED  BY <1>2, <1>3, <1>5 DEF Agree

\* A place under an archive of the tree is one of its entries or lies in one.
LEMMA EntryOf ==
    ASSUME source \in Sources, NEW n \in Nat, NEW f \in Opened[n], NEW i \in DOMAIN f.entries,
           NEW g, AsOpened(g) \in Opened[n], Agree(Place(f, i), g.path, n)
    PROVE  f = AsOpened(g) /\ i \in DOMAIN g.entries
<1>1. Agree(Place(f, i), f.path, n)  BY PlaceFact
<1>2. AsOpened(g).path = g.path /\ AsOpened(g).entries = g.entries  BY AsOpenedFact
<1>3. Agree(f.path, AsOpened(g).path, n)  BY <1>1, <1>2 DEF Agree
<1>4. f = AsOpened(g)  BY <1>3, OnePlace
<1> QED  BY <1>2, <1>4

LEMMA LiesIn ==
    ASSUME source \in Sources, NEW n \in Nat, NEW f \in Opened[n], NEW i \in DOMAIN f.entries,
           NEW g, NEW k \in 1..n, AsOpened(g) \in Opened[k - 1],
           Agree(Place(f, i), g.path, k - 1)
    PROVE  Place(f, i)[k] \in ArchivesIn(g) /\ Place(f, i)[k] \in DOMAIN g.entries
<1> DEFINE p == Place(f, i)
<1>1. Agree(p, f.path, n)  BY PlaceFact
<1>2. AsOpened(g).path = g.path /\ ArchivesIn(AsOpened(g)) = ArchivesIn(g)  BY AsOpenedFact
<1> HIDE DEF p
<1>3. k - 1 \in 0..(n - 1) /\ (k - 1) + 1 = k /\ k - 1 \in Nat  OBVIOUS
<1>4. PICK h \in Opened[k - 1] : Agree(h.path, f.path, k - 1) /\ f.path[k] \in ArchivesIn(h)
  BY <1>3, Ancestor
<1>5. p[k] = f.path[k] /\ \A m \in 1..(k - 1) : p[m] = f.path[m]
  BY <1>1 DEF Agree
<1>6. Agree(h.path, AsOpened(g).path, k - 1)  BY <1>2, <1>4, <1>5 DEF Agree, p
<1>7. h = AsOpened(g)  BY <1>3, <1>6, OnePlace
<1>8. p[k] \in ArchivesIn(g)  BY <1>2, <1>4, <1>5, <1>7
<1> QED  BY <1>8 DEF p, ArchivesIn

LEMMA InEntries ==
    ASSUME source \in Sources, NEW n \in Nat, NEW f \in Opened[n], NEW i \in DOMAIN f.entries,
           NEW g, NEW k \in 1..(n + 1), AsOpened(g) \in Opened[k - 1],
           Agree(Place(f, i), g.path, k - 1)
    PROVE  Place(f, i)[k] \in DOMAIN g.entries
<1>1. CASE k = n + 1
  <2>1. k - 1 = n /\ Place(f, i)[n + 1] = i  BY <1>1, PlaceFact
  <2>2. AsOpened(g) \in Opened[n] /\ Agree(Place(f, i), g.path, n)  BY <2>1
  <2> QED  BY <1>1, <2>1, <2>2, EntryOf
<1>2. CASE k # n + 1
  <2>1. k \in 1..n  BY <1>2
  <2> QED  BY <2>1, LiesIn
<1> QED  BY <1>1, <1>2

\* The paths of the open archives lead through the entries read last.
LEMMA ChainFact ==
    ASSUME source \in Sources, StackInv
    PROVE  \A l \in DOMAIN stack : \A k \in 1..(l - 1) :
              Agree(stack[l].path, stack[k].path, k - 1) /\ stack[l].path[k] = stack[k].next - 1
<1> DEFINE S == {l \in Nat : l \in DOMAIN stack => \A k \in 1..(l - 1) :
                    Agree(stack[l].path, stack[k].path, k - 1)
                    /\ stack[l].path[k] = stack[k].next - 1}
<1>1. 0 \in S  OBVIOUS
<1>2. ASSUME NEW l \in S  PROVE l + 1 \in S
  <2>1. SUFFICES ASSUME l + 1 \in DOMAIN stack, NEW k \in 1..l
                 PROVE  Agree(stack[l + 1].path, stack[k].path, k - 1)
                        /\ stack[l + 1].path[k] = stack[k].next - 1
    OBVIOUS
  <2>2. /\ l \in DOMAIN stack /\ l \in 1..(Len(stack) - 1) /\ l \in Nat
        /\ stack[l] \in Frames /\ Len(stack[l].path) = l - 1
    <3>1. l \in DOMAIN stack /\ l \in 1..(Len(stack) - 1)  BY <2>1 DEF StackInv
    <3> QED  BY <3>1, StackFact
  <2>3. /\ stack[l].next - 1 \in ArchivesIn(stack[l])
        /\ AsOpened(stack[l + 1]) = Inside(stack[l], stack[l].next - 1)
    BY <2>2 DEF StackInv
  <2>4. stack[l + 1].path = Append(stack[l].path, stack[l].next - 1)
        /\ stack[l].next - 1 \in Nat
    <3>1. AsOpened(stack[l + 1]).path = stack[l + 1].path  BY AsOpenedFact
    <3> QED  BY <2>2, <2>3, <3>1, InsideType
  <2>5. /\ \A m \in 1..(l - 1) : stack[l + 1].path[m] = stack[l].path[m]
        /\ stack[l + 1].path[l] = stack[l].next - 1
    <3>1. stack[l].path \in Seq(Nat) /\ (l - 1) + 1 = l  BY <2>2, EntriesFact
    <3> QED  BY <2>2, <2>4, <3>1, AppendProperties
  <2>6. CASE k = l  BY <2>5, <2>6 DEF Agree
  <2>7. CASE k # l
    <3>1. k \in 1..(l - 1)  BY <2>2, <2>7
    <3>2. Agree(stack[l].path, stack[k].path, k - 1) /\ stack[l].path[k] = stack[k].next - 1
      BY <2>2, <3>1
    <3> QED  BY <2>2, <2>5, <3>1, <3>2 DEF Agree
  <2> QED  BY <2>6, <2>7
<1> HIDE DEF S
<1>3. S = Nat  BY <1>1, <1>2, NatSet DEF S
<1>4. \A l \in DOMAIN stack : l \in Nat  BY DEF StackInv
<1> QED  BY <1>3, <1>4 DEF S

\* The entry that is read next does not lie behind, nor is it open.
LEMMA LeafFact ==
    ASSUME source \in Sources, TypeOK, StackInv, HasEntry
    PROVE  /\ Leaf \in Seq(Nat) /\ Len(Leaf) = Len(stack) /\ Leaf[Len(stack)] = Top.next
           /\ Agree(Leaf, Top.path, Len(stack) - 1)
           /\ ~Behind(Leaf)
           /\ \A k \in DOMAIN stack : stack[k].path # Leaf
<1> DEFINE n == Len(stack)
<1>1. /\ n \in Nat /\ n \in DOMAIN stack /\ Top = stack[n]
      /\ Top \in Frames /\ Len(Top.path) = n - 1 /\ Top.next \in Nat
  BY TopFact, EntriesFact DEF HasEntry
<1>0. \A k \in DOMAIN stack : k \in 1..n /\ stack[k] \in Frames /\ Len(stack[k].path) = k - 1
  BY StackFact
<1> HIDE DEF n
<1>2. /\ Leaf \in Seq(Nat) /\ Len(Leaf) = n /\ Leaf[n] = Top.next
      /\ \A m \in 1..(n - 1) : Leaf[m] = Top.path[m]
  <2>1. Top.path \in Seq(Nat) /\ (n - 1) + 1 = n  BY <1>1, EntriesFact
  <2> QED  BY <1>1, <2>1, AppendProperties DEF Leaf
<1>3. ASSUME NEW k \in DOMAIN stack  PROVE ~(Leaf[k] < Bound(k))
  <2>1. CASE k = n  BY <1>1, <1>2, <2>1 DEF Bound, n
  <2>2. CASE k # n
    <3>1. k \in 1..(n - 1)  BY <1>0, <1>1, <2>2
    <3>2. Top.path[k] = stack[k].next - 1  BY <1>1, <3>1, ChainFact
    <3>3. stack[k].next \in Nat  BY <1>0, EntriesFact
    <3>4. Leaf[k] = Bound(k)  BY <1>2, <2>2, <3>1, <3>2 DEF Bound, n
    <3> QED  BY <3>2, <3>3, <3>4, <3>1, <1>2
  <2> QED  BY <2>1, <2>2
<1>4. ~Behind(Leaf)  BY <1>3 DEF Behind
<1>5. ASSUME NEW k \in DOMAIN stack  PROVE stack[k].path # Leaf
  <2>1. k \in 1..n /\ Len(stack[k].path) = k - 1  BY <1>0
  <2>2. k - 1 # n  BY <1>1, <2>1
  <2> QED  BY <1>2, <2>1, <2>2
<1> QED  BY <1>2, <1>4, <1>5 DEF Agree, n

LEMMA BoundFact ==
    ASSUME StackInv, NEW k \in DOMAIN stack
    PROVE  stack[k].next \in Nat /\ Bound(k) \in Int
           /\ Bound(k) = IF k = Len(stack) THEN stack[k].next ELSE stack[k].next - 1
<1>1. stack[k] \in Frames  BY DEF StackInv
<1> QED  BY <1>1, EntriesFact DEF Bound

\* A file is read: it alone falls behind.
LEMMA BehindAdvance ==
    ASSUME source \in Sources, TypeOK, StackInv, HasEntry, ~ArchiveLike(Entry),
           stack' = Advanced,
           NEW n \in Nat, NEW f \in Opened[n], NEW i \in DOMAIN f.entries
    PROVE  Behind(Place(f, i))' <=> Behind(Place(f, i)) \/ Place(f, i) = Leaf
<1> DEFINE p == Place(f, i)
           l == Len(stack)
<1>1. /\ l \in Nat /\ l \in DOMAIN stack /\ Top = stack[l]
      /\ Top \in Frames /\ Len(Top.path) = l - 1
      /\ AsOpened(Top) \in Opened[l - 1]
      /\ Top.next \in DOMAIN Top.entries /\ Entry = Top.entries[Top.next]
      /\ Top.next \in Nat
  BY TopFact, EntriesFact DEF HasEntry
<1>0. \A k \in DOMAIN stack : k \in 1..l  BY StackFact
<1>2. p \in Seq(Nat) /\ Len(p) = n + 1 /\ \A m \in 1..(n + 1) : p[m] \in Nat
  BY PlaceFact
<1>3. Len(Advanced) = l /\ DOMAIN Advanced = DOMAIN stack
  <2>1. Advanced \in Seq(Frames) /\ Len(Advanced) = l  BY AdvancedFact
  <2>2. stack \in Seq(Frames)  BY DEF StackInv
  <2> QED  BY <2>1, <2>2
<1>4. ASSUME NEW k \in DOMAIN stack
      PROVE  /\ stack'[k].path = stack[k].path
             /\ Bound(k)' = IF k = l THEN Top.next + 1 ELSE Bound(k)
  <2>1. stack'[k].path = stack[k].path /\ (k # l => stack'[k] = stack[k])
        /\ stack'[l].next = Top.next + 1
    BY <1>1, AdvancedFact
  <2> QED  BY <1>3, <2>1 DEF Bound
<1>5. Bound(l) = Top.next  BY <1>1 DEF Bound
<1> HIDE DEF p, l
<1>6. ASSUME Behind(p)  PROVE Behind(p)'
  <2>1. PICK k \in DOMAIN stack : k <= Len(p) /\ Agree(p, stack[k].path, k - 1)
                                  /\ p[k] < Bound(k)
    BY <1>6 DEF Behind
  <2>2. p[k] < Bound(k)'
    <3>1. k \in 1..(n + 1) /\ p[k] \in Nat  BY <1>0, <1>2, <2>1
    <3>2. CASE k = l  BY <1>1, <1>4, <1>5, <2>1, <3>1, <3>2
    <3>3. CASE k # l  BY <1>4, <2>1, <3>3
    <3> QED  BY <3>2, <3>3
  <2> QED  BY <1>3, <1>4, <2>1, <2>2 DEF Behind
<1>7. ASSUME p = Leaf  PROVE Behind(p)'
  <2>1. l <= Len(p) /\ Agree(p, Top.path, l - 1) /\ p[l] = Top.next
    BY <1>1, <1>7, LeafFact DEF l
  <2>2. \E k \in DOMAIN stack : k = l /\ p[k] < Bound(k)'
    <3>1. \E k \in DOMAIN stack : k = l /\ Bound(k)' = Top.next + 1  BY <1>1, <1>4
    <3> QED  BY <1>1, <2>1, <3>1
  <2>3. stack'[l].path = Top.path  BY <1>1, <1>4
  <2> QED  BY <1>1, <1>3, <2>1, <2>2, <2>3 DEF Behind
<1>8. ASSUME Behind(p)', ~Behind(p)  PROVE p = Leaf
  <2>1. PICK k \in DOMAIN stack : k <= Len(p) /\ Agree(p, stack[k].path, k - 1)
                                  /\ p[k] < Bound(k)'
    BY <1>3, <1>4, <1>8 DEF Behind
  <2>2. ~(p[k] < Bound(k))  BY <1>8, <2>1 DEF Behind
  <2>2a. k \in 1..(n + 1) /\ p[k] \in Nat  BY <1>0, <1>2, <2>1
  <2>3. k = l /\ p[k] = Top.next
    <3>1. k = l  BY <1>4, <2>1, <2>2
    <3>2. p[k] < Top.next + 1 /\ ~(p[k] < Top.next)  BY <1>4, <1>5, <2>1, <2>2, <3>1
    <3> QED  BY <1>1, <2>2a, <3>1, <3>2
  <2>4. Top.next \in FilesIn(Top) /\ Top.next \notin ArchivesIn(Top)
    BY <1>1, EntriesFact DEF FilesIn
  <2>5. k = n + 1
    <3>1. SUFFICES ASSUME k # n + 1  PROVE p[k] \in ArchivesIn(Top)
      BY <2>3, <2>4
    <3>2. PICK m \in 1..n : m = k  BY <2>2a, <3>1
    <3>3. AsOpened(Top) \in Opened[m - 1] /\ Agree(Place(f, i), Top.path, m - 1)
      BY <1>1, <2>1, <2>3, <3>2 DEF p
    <3>4. Place(f, i)[m] \in ArchivesIn(Top)  BY <3>3, LiesIn
    <3> QED  BY <3>2, <3>4 DEF p
  <2>6. f = AsOpened(Top) /\ i = Top.next
    <3>1. n = l - 1  BY <1>1, <2>3, <2>5
    <3>2. AsOpened(Top) \in Opened[n] /\ Agree(Place(f, i), Top.path, n)
      BY <1>1, <2>1, <2>3, <3>1 DEF p
    <3>3. f = AsOpened(Top)  BY <3>2, EntryOf
    <3>4. p[n + 1] = i  BY PlaceFact DEF p
    <3> QED  BY <2>3, <2>5, <3>3, <3>4
  <2>7. f.path = Top.path  BY <2>6, AsOpenedFact
  <2> QED  BY <2>6, <2>7 DEF p, Leaf, Place
<1> QED  BY <1>6, <1>7, <1>8 DEF p

\* An archive is opened: what lies behind stays.
LEMMA BehindPush ==
    ASSUME source \in Sources, TypeOK, StackInv, HasEntry, Supported(Entry),
           stack' = Append(Advanced, Child), source' = source, phase' = phase,
           NEW n \in Nat, NEW f \in Opened[n], NEW i \in DOMAIN f.entries
    PROVE  Behind(Place(f, i))' <=> Behind(Place(f, i))
<1> DEFINE p == Place(f, i)
           l == Len(stack)
<1>1. l \in Nat /\ l \in DOMAIN stack /\ Top = stack[l]
  BY TopFact DEF HasEntry
<1>0. DOMAIN stack = 1..l  BY DEF StackInv
<1>2. p \in Seq(Nat) /\ Len(p) = n + 1 /\ \A m \in 1..(n + 1) : p[m] \in Nat \ {0}
  BY PlaceFact
<1>3. StackInv' /\ Len(stack') = l + 1 /\ Child \in Frames /\ Child.next = 1
  BY PushStack
<1> HIDE DEF l
<1>4. /\ DOMAIN stack' = 1..(l + 1) /\ stack'[l + 1] = Child
      /\ \A k \in 1..l : stack'[k] = Advanced[k]
  <2>1. Advanced \in Seq(Frames) /\ Len(Advanced) = l  BY <1>1, AdvancedFact DEF l
  <2> QED  BY <1>1, <1>3, <2>1, AppendProperties
<1>5. ASSUME NEW k \in DOMAIN stack
      PROVE  k \in DOMAIN stack' /\ stack'[k].path = stack[k].path /\ Bound(k)' = Bound(k)
  <2>1. stack'[k] = Advanced[k] /\ Advanced[k].path = stack[k].path
        /\ (k # l => Advanced[k] = stack[k]) /\ Advanced[l].next = Top.next + 1
    BY <1>0, <1>4, AdvancedFact DEF l
  <2>2. k \in 1..l /\ k # l + 1  BY <1>0, <1>1
  <2>3. Bound(k)' = stack'[k].next - 1  BY <1>3, <2>2 DEF Bound
  <2>4. stack[k].next \in Nat /\ Bound(k) = IF k = l THEN stack[k].next ELSE stack[k].next - 1
    BY BoundFact DEF l
  <2>5. Bound(k)' = Bound(k)
    <3>1. CASE k = l  BY <1>1, <2>1, <2>3, <2>4, <3>1
    <3>2. CASE k # l  BY <2>1, <2>3, <2>4, <3>2
    <3> QED  BY <3>1, <3>2
  <2>6. k \in 1..(l + 1)  BY <1>1, <2>2
  <2> QED  BY <1>4, <2>1, <2>5, <2>6
<1>6. \A k : k = l + 1 => Bound(k)' = 1  BY <1>3, <1>4 DEF Bound
<1> HIDE DEF p
<1>7. ASSUME Behind(p)  PROVE Behind(p)'
  <2>1. PICK k \in DOMAIN stack : k <= Len(p) /\ Agree(p, stack[k].path, k - 1)
                                  /\ p[k] < Bound(k)
    BY <1>7 DEF Behind
  <2> QED  BY <1>5, <2>1 DEF Behind
<1>8. ASSUME Behind(p)'  PROVE Behind(p)
  <2>1. PICK k \in DOMAIN stack' : k <= Len(p) /\ Agree(p, stack'[k].path, k - 1)
                                   /\ p[k] < Bound(k)'
    BY <1>8 DEF Behind
  <2>2. k # l + 1
    <3>1. SUFFICES ASSUME k = l + 1  PROVE FALSE
      OBVIOUS
    <3>2. k \in 1..(n + 1)  BY <1>1, <1>2, <2>1, <3>1
    <3>3. p[k] \in Nat \ {0} /\ p[k] < 1  BY <1>2, <1>6, <2>1, <3>1, <3>2
    <3> QED  BY <3>3
  <2>3. k \in DOMAIN stack  BY <1>0, <1>1, <1>4, <2>1, <2>2
  <2> QED  BY <1>5, <2>1, <2>3 DEF Behind
<1> QED  BY <1>7, <1>8 DEF p

\* The path of an inner open archive is the place of an archive.
LEMMA OpenPlace ==
    ASSUME source \in Sources, StackInv, NEW k \in 1..(Len(stack) - 1)
    PROVE  \E f \in Opened[k - 1] : \E i \in ArchivesIn(f) :
              stack[k + 1].path = Place(f, i) /\ i = stack[k].next - 1 /\ f = AsOpened(stack[k])
<1>1. k \in DOMAIN stack  BY DEF StackInv
<1>2. stack[k] \in Frames /\ AsOpened(stack[k]) \in Opened[k - 1]  BY <1>1, StackFact
<1>3. /\ stack[k].next - 1 \in ArchivesIn(stack[k])
      /\ AsOpened(stack[k + 1]) = Inside(stack[k], stack[k].next - 1)
  BY DEF StackInv
<1>4. AsOpened(stack[k + 1]).path = Append(stack[k].path, stack[k].next - 1)
  BY <1>2, <1>3, InsideType
<1>5. /\ AsOpened(stack[k + 1]).path = stack[k + 1].path
      /\ AsOpened(stack[k]).path = stack[k].path
      /\ ArchivesIn(AsOpened(stack[k])) = ArchivesIn(stack[k])
  BY AsOpenedFact
<1>6. stack[k + 1].path = Place(AsOpened(stack[k]), stack[k].next - 1)
  BY <1>4, <1>5 DEF Place
<1> QED  BY <1>2, <1>3, <1>5, <1>6

\* Two entries with one place are the same entry.
LEMMA SamePlace ==
    ASSUME source \in Sources,
           NEW n \in Nat, NEW f \in Opened[n], NEW i \in DOMAIN f.entries,
           NEW m \in Nat, NEW g \in Opened[m], NEW k \in DOMAIN g.entries,
           Place(f, i) = Place(g, k)
    PROVE  n = m /\ f = g /\ i = k
<1>1. /\ Len(Place(f, i)) = n + 1 /\ Place(f, i)[n + 1] = i /\ Agree(Place(f, i), f.path, n)
      /\ Len(Place(g, k)) = m + 1 /\ Place(g, k)[m + 1] = k /\ Agree(Place(g, k), g.path, m)
  BY PlaceFact
<1>2. n = m /\ i = k  BY <1>1
<1>3. Agree(f.path, g.path, n)  BY <1>1, <1>2 DEF Agree
<1> QED  BY <1>2, <1>3, OnePlace

\* An archive is left: it falls behind, and nothing else does.
LEMMA BehindPop ==
    ASSUME source \in Sources, TypeOK, StackInv, Len(stack) > 1, ~HasEntry,
           stack' = Front(stack), source' = source, phase' = phase,
           NEW n \in Nat, NEW f \in Opened[n], NEW i \in DOMAIN f.entries
    PROVE  Behind(Place(f, i))' <=> Behind(Place(f, i)) \/ Place(f, i) = Top.path
<1> DEFINE p == Place(f, i)
           l == Len(stack)
<1>1. /\ l \in Nat /\ l \in DOMAIN stack /\ Top = stack[l] /\ l > 1
      /\ Top \in Frames /\ Len(Top.path) = l - 1 /\ AsOpened(Top) \in Opened[l - 1]
  <2>1. stack # <<>>  OBVIOUS
  <2> QED  BY <2>1, TopFact
<1>0. DOMAIN stack = 1..l  BY DEF StackInv
<1>2. Len(p) = n + 1 /\ \A m \in 1..(n + 1) : p[m] \in Nat \ {0}  BY PlaceFact
<1>3. /\ Len(stack') = l - 1 /\ StackInv'
      /\ \A k \in 1..(l - 1) : stack'[k] = stack[k]
  BY PopStack
<1>4. DOMAIN stack' = 1..(l - 1)  BY <1>3 DEF StackInv
<1>5. \A m \in DOMAIN Top.entries : m < Top.next
  <2>1. Top.next \in 1..(Len(Top.entries) + 1)  BY <1>1, TopFact
  <2>2. stack # <<>>  BY <1>1
  <2>3. ~(Top.next <= Len(Top.entries))  BY <2>2 DEF HasEntry
  <2> QED  BY <1>1, <2>1, <2>3, EntriesFact
<1> HIDE DEF l
<1>6. ASSUME NEW k \in 1..(l - 1)
      PROVE  /\ k \in DOMAIN stack /\ k \in DOMAIN stack' /\ stack'[k].path = stack[k].path
             /\ stack[k].next \in Nat /\ Bound(k) = stack[k].next - 1
             /\ Bound(k)' = IF k = l - 1 THEN stack[k].next ELSE stack[k].next - 1
  <2>1. k \in DOMAIN stack /\ k # l /\ stack'[k] = stack[k]  BY <1>0, <1>1, <1>3
  <2>2. stack[k].next \in Nat /\ Bound(k) = stack[k].next - 1  BY <2>1, BoundFact DEF l
  <2>3. Bound(k)' = IF k = l - 1 THEN stack'[k].next ELSE stack'[k].next - 1
    BY <1>3 DEF Bound
  <2> QED  BY <1>4, <2>1, <2>2, <2>3
<1>7. Bound(l) = Top.next  BY <1>1 DEF Bound, l
<1>8. l - 1 \in 1..(l - 1) /\ (l - 1) + 1 = l /\ l - 1 \in Nat  BY <1>1
<1>9. /\ Agree(Top.path, stack[l - 1].path, l - 2) /\ Top.path[l - 1] = stack[l - 1].next - 1
  <2>1. (l - 1) - 1 = l - 2  BY <1>1
  <2> QED  BY <1>1, <1>8, <2>1, ChainFact
<1> HIDE DEF p
<1>10. ASSUME Behind(p)  PROVE Behind(p)'
  <2>1. PICK k \in DOMAIN stack : k <= Len(p) /\ Agree(p, stack[k].path, k - 1)
                                  /\ p[k] < Bound(k)
    BY <1>10 DEF Behind
  <2>2. CASE k # l
    <3>1. k \in 1..(l - 1) /\ k \in 1..(n + 1) /\ p[k] \in Nat  BY <1>0, <1>1, <1>2, <2>1, <2>2
    <3>2. p[k] < Bound(k)'  BY <1>6, <2>1, <3>1
    <3> QED  BY <1>6, <2>1, <3>1, <3>2 DEF Behind
  <2>3. CASE k = l
    <3>1. l <= Len(p) /\ Agree(p, Top.path, l - 1)  BY <1>1, <2>1, <2>3
    <3>2. /\ p[l - 1] = stack[l - 1].next - 1
          /\ Agree(p, stack[l - 1].path, l - 2)
      BY <1>1, <1>8, <1>9, <3>1 DEF Agree
    <3>3. l - 1 <= Len(p) /\ (l - 1) - 1 = l - 2  BY <1>1, <1>2, <3>1
    <3>4. ASSUME NEW m \in 1..(l - 1), m = l - 1  PROVE p[m] < Bound(m)'
      BY <1>6, <3>2, <3>4
    <3>5. PICK m \in 1..(l - 1) : m = l - 1  BY <1>8
    <3>6. /\ m \in DOMAIN stack' /\ m <= Len(p) /\ Agree(p, stack'[m].path, m - 1)
          /\ p[m] < Bound(m)'
      BY <1>6, <3>2, <3>3, <3>4, <3>5
    <3> QED  BY <3>6 DEF Behind
  <2> QED  BY <2>2, <2>3
<1>11. ASSUME p = Top.path  PROVE Behind(p)'
  <2>1. PICK m \in 1..(l - 1) : m = l - 1  BY <1>8
  <2>2. m <= Len(p) /\ m - 1 = l - 2  BY <1>1, <1>11, <2>1
  <2>3. p[m] < Bound(m)'  BY <1>6, <1>9, <1>11, <2>1
  <2>4. m \in DOMAIN stack' /\ Agree(p, stack'[m].path, m - 1)
    BY <1>6, <1>9, <1>11, <2>1, <2>2
  <2> QED  BY <2>2, <2>3, <2>4 DEF Behind
<1>12. ASSUME Behind(p)', ~Behind(p)  PROVE p = Top.path
  <2>1. PICK k \in DOMAIN stack' : k <= Len(p) /\ Agree(p, stack'[k].path, k - 1)
                                   /\ p[k] < Bound(k)'
    BY <1>12 DEF Behind
  <2>2. k \in 1..(l - 1) /\ k \in 1..(n + 1) /\ k \in DOMAIN stack /\ p[k] \in Nat
        /\ Agree(p, stack[k].path, k - 1) /\ AsOpened(stack[k]) \in Opened[k - 1]
    <3>1. k \in 1..(l - 1) /\ k \in 1..(n + 1)  BY <1>1, <1>2, <1>4, <2>1
    <3>2. k \in DOMAIN stack  BY <1>6, <3>1
    <3> QED  BY <1>2, <1>6, <2>1, <3>1, <3>2, StackFact
  <2>3. ~(p[k] < Bound(k))  BY <1>12, <2>1, <2>2 DEF Behind
  <2>4. k = l - 1 /\ p[k] = stack[k].next - 1
    <3>1. k = l - 1  BY <1>6, <2>1, <2>2, <2>3
    <3>2. p[k] < stack[k].next /\ ~(p[k] < stack[k].next - 1) /\ stack[k].next \in Nat
      BY <1>6, <2>1, <2>2, <2>3, <3>1
    <3> QED  BY <2>2, <3>1, <3>2
  <2>6. CASE k = n + 1
    <3>1. f = AsOpened(stack[k]) /\ i = stack[k].next - 1
      <4>1. n = k - 1  BY <2>2, <2>6
      <4>2. AsOpened(stack[k]) \in Opened[n] /\ Agree(Place(f, i), stack[k].path, n)
        BY <2>2, <4>1 DEF p
      <4>3. f = AsOpened(stack[k])  BY <4>2, EntryOf
      <4>4. p[n + 1] = i  BY PlaceFact DEF p
      <4> QED  BY <2>4, <2>6, <4>3, <4>4
    <3>2. k \in 1..(Len(stack) - 1) /\ k + 1 = l  BY <1>1, <2>2, <2>4 DEF l
    <3>3. stack[k + 1].path = Place(AsOpened(stack[k]), stack[k].next - 1)
      BY <3>2, OpenPlace
    <3> QED  BY <1>1, <3>1, <3>2, <3>3 DEF p
  <2>7. CASE k # n + 1
    <3>1. l \in 1..(n + 1) /\ l <= Len(p)  BY <1>1, <1>2, <2>2, <2>4, <2>7
    <3>2. Agree(p, Top.path, l - 1)
      <4>1. \A m \in 1..(l - 1) : m = l - 1 \/ m \in 1..(l - 2)  BY <1>1
      <4>2. \A m \in 1..(l - 2) : p[m] = stack[l - 1].path[m] /\ Top.path[m] = stack[l - 1].path[m]
        <5>1. (l - 1) - 1 = l - 2  BY <1>1
        <5> QED  BY <1>9, <2>2, <2>4, <5>1 DEF Agree
      <4>3. p[l - 1] = Top.path[l - 1]  BY <1>9, <2>4
      <4> QED  BY <4>1, <4>2, <4>3 DEF Agree
    <3>3. p[l] \in DOMAIN Top.entries  BY <1>1, <3>1, <3>2, InEntries DEF p
    <3>4. p[l] < Bound(l)  BY <1>5, <1>7, <3>3
    <3>5. Behind(p)  BY <1>1, <3>1, <3>2, <3>4 DEF Behind
    <3> QED  BY <1>12, <3>5
  <2> QED  BY <2>6, <2>7
<1> QED  BY <1>10, <1>11, <1>12 DEF p

\* A finished walk has left everything behind, a new one nothing.
LEMMA BehindEnds ==
    ASSUME source \in Sources, StackInv,
           NEW n \in Nat, NEW f \in Opened[n], NEW i \in DOMAIN f.entries
    PROVE  /\ TypeOK /\ Len(stack) = 1 /\ ~HasEntry => Behind(Place(f, i))
           /\ stack' = <<Root>> => ~Behind(Place(f, i))'
<1> DEFINE p == Place(f, i)
<1>1. Len(p) = n + 1 /\ \A m \in 1..(n + 1) : p[m] \in Nat \ {0}  BY PlaceFact
<1>2. ASSUME TypeOK, Len(stack) = 1, ~HasEntry  PROVE Behind(p)
  <2>1. stack # <<>> /\ 1 \in DOMAIN stack
    <3>1. stack \in Seq(Frames)  BY DEF StackInv
    <3>2. DOMAIN stack = 1..Len(stack)  BY <3>1
    <3>3. 1 \in DOMAIN stack  BY <1>2, <3>2
    <3>4. stack # <<>>  BY <3>3
    <3> QED  BY <3>3, <3>4
  <2>2. /\ Top = stack[1] /\ Top \in Frames /\ AsOpened(Top) \in Opened[0]
        /\ Top.next \in 1..(Len(Top.entries) + 1)
    <3>1. 1 - 1 = 0  OBVIOUS
    <3> QED  BY <1>2, <2>1, <3>1, TopFact
  <2>3. Agree(p, Top.path, 0) /\ 1 \in 1..(n + 1) /\ 1 - 1 = 0  BY DEF Agree
  <2> HIDE DEF p
  <2>4. p[1] \in DOMAIN Top.entries
    <3>1. AsOpened(Top) \in Opened[1 - 1] /\ Agree(Place(f, i), Top.path, 1 - 1)
      BY <2>2, <2>3 DEF p
    <3>2. 1 \in 1..(n + 1)  BY <2>3
    <3> QED  BY <3>1, <3>2, InEntries DEF p
  <2>5. ~(Top.next <= Len(Top.entries))  BY <1>2, <2>1 DEF HasEntry
  <2>6. p[1] < Top.next  BY <2>2, <2>4, <2>5, EntriesFact
  <2>7. Bound(1) = Top.next  BY <1>2, <2>2 DEF Bound
  <2> QED  BY <1>1, <2>1, <2>2, <2>3, <2>6, <2>7 DEF Behind
<1>3. ASSUME stack' = <<Root>>  PROVE ~Behind(p)'
  <2> HIDE DEF p
  <2>1. SUFFICES ASSUME Behind(p)'  PROVE FALSE
    OBVIOUS
  <2>2. PICK k \in DOMAIN stack' : p[k] < Bound(k)'  BY <2>1 DEF Behind
  <2>3. k = 1 /\ Len(stack') = 1 /\ stack'[1] = Root  BY <1>3, <2>2
  <2>4. Bound(k)' = 1  BY <2>3 DEF Bound, Root, Frame
  <2>5. p[k] \in Nat \ {0}  BY <1>1, <2>3
  <2> QED  BY <2>2, <2>4, <2>5
<1> QED  BY <1>2, <1>3 DEF p

-----------------------------------------------------------------------------
(* The stack stays well-formed.                                               *)

\* What TypeOK says of the open archives.
NextOK == \A k \in DOMAIN stack : /\ stack[k].depth = k - 1
                                  /\ stack[k].next \in 1..(Len(stack[k].entries) + 1)

\* What the steps do to the stack.
StackSteps ==
    \/ stack' = stack /\ stack = <<>> /\ phase' # "flatten"
    \/ stack' = <<>> /\ phase' # "flatten"
    \/ stack' = <<Root>> /\ stack = <<>> /\ phase' \in {"preview", "flatten"}
    \/ HasEntry /\ ~ArchiveLike(Entry) /\ stack' = Advanced /\ phase' = phase
    \/ HasEntry /\ Supported(Entry) /\ stack' = Append(Advanced, Child) /\ phase' = phase
    \/ Len(stack) > 1 /\ ~HasEntry /\ stack' = Front(stack) /\ phase' = phase

LEMMA StackActions ==
    ASSUME StackInv, Next
    PROVE  StackSteps /\ source' = source
<1>1. CASE PreviewStart
  BY <1>1 DEF PreviewStart, StackSteps
<1>2. CASE PreviewNested
  BY <1>2 DEF PreviewNested, StackSteps
<1>3. CASE PreviewLeaf
  BY <1>3 DEF PreviewLeaf, StackSteps
<1>4. CASE PreviewDone
  BY <1>4 DEF PreviewDone, Planned, StackSteps
<1>5. CASE PreviewFails
  BY <1>5 DEF PreviewFails, Planned, StackSteps
<1>6. CASE Leave
  BY <1>6 DEF Leave, StackSteps
<1>7. CASE PublishPlain
  BY <1>7 DEF PublishPlain, StackSteps, StackInv
<1>8. CASE StartFlatten
  BY <1>8 DEF StartFlatten, StackSteps, StackInv
<1>9. CASE FlattenNested
  BY <1>9 DEF FlattenNested, StackSteps
<1>10. CASE FlattenLeaf
  BY <1>10 DEF FlattenLeaf, StackSteps
<1>11. CASE FlattenDone
  BY <1>11 DEF FlattenDone, StackSteps
<1>12. CASE Split
  BY <1>12 DEF Split, StackSteps, StackInv
<1>13. CASE Fail
  BY <1>13 DEF Fail, StackSteps
<1> QED  BY <1>1, <1>2, <1>3, <1>4, <1>5, <1>6, <1>7, <1>8, <1>9, <1>10, <1>11, <1>12, <1>13
         DEF Next

LEMMA StackStep ==
    ASSUME source \in Sources, TypeOK, StackInv, StackSteps, source' = source
    PROVE  StackInv' /\ NextOK'
<1>1. \A k \in DOMAIN stack : stack[k].next \in 1..(Len(stack[k].entries) + 1)
  BY DEF TypeOK
<1>2. SUFFICES /\ StackInv'
               /\ \A k \in DOMAIN stack' : stack'[k].next \in 1..(Len(stack'[k].entries) + 1)
  <2>1. ASSUME StackInv', NEW k \in DOMAIN stack'  PROVE stack'[k].depth = k - 1
    <3>1. stack'[k] \in Frames /\ k - 1 \in Nat
      <4>1. stack' \in Seq(Frames)  BY <2>1 DEF StackInv
      <4> QED  BY <4>1
    <3>2. AsOpened(stack'[k]) \in Opened[k - 1]  BY <2>1, OpenedSame DEF StackInv
    <3>3. AsOpened(stack'[k]).depth = k - 1  BY <3>1, <3>2, LevelType
    <3> QED  BY <3>3 DEF AsOpened, Frame
  <2> QED  BY <2>1 DEF NextOK
<1>3. CASE stack' = stack /\ stack = <<>> /\ phase' # "flatten"
  BY <1>3 DEF StackInv
<1>4. CASE stack' = <<>> /\ phase' # "flatten"
  BY <1>4 DEF StackInv
<1>5. CASE stack' = <<Root>> /\ phase' \in {"preview", "flatten"}
  <2>1. StackInv' /\ Root \in Frames /\ Root.next = 1  BY <1>5, RootStack
  <2>2. DOMAIN stack' = {1} /\ stack'[1] = Root  BY <1>5
  <2> QED  BY <2>1, <2>2, EntriesFact
<1>6. CASE HasEntry /\ stack' = Advanced /\ phase' = phase
  <2>1. StackInv' /\ Len(stack') = Len(stack)  BY <1>6, AdvanceStack
  <2>2. DOMAIN stack' = DOMAIN stack  BY <2>1 DEF StackInv
  <2>3. stack # <<>>  BY <1>6 DEF HasEntry
  <2>4. Top \in Frames /\ Top.next \in DOMAIN Top.entries /\ Top = stack[Len(stack)]
    BY <1>6, <2>3, TopFact
  <2>5. ASSUME NEW k \in DOMAIN stack'
        PROVE  stack'[k].next \in 1..(Len(stack'[k].entries) + 1)
    <3>1. k \in DOMAIN stack  BY <2>2
    <3>2. CASE k = Len(stack)
      <4>1. stack'[k].next = Top.next + 1 /\ stack'[k].entries = Top.entries
        BY <1>6, <2>4, <3>1, <3>2, AdvancedFact
      <4> QED  BY <2>4, <4>1, EntriesFact
    <3>3. CASE k # Len(stack)
      <4>1. stack'[k] = stack[k]  BY <1>6, <3>1, <3>3, AdvancedFact
      <4> QED  BY <1>1, <3>1, <4>1
    <3> QED  BY <3>2, <3>3
  <2> QED  BY <2>1, <2>5
<1>7. CASE HasEntry /\ Supported(Entry) /\ stack' = Append(Advanced, Child) /\ phase' = phase
  <2>1. StackInv' /\ Len(stack') = Len(stack) + 1 /\ Child \in Frames /\ Child.next = 1
    BY <1>7, PushStack
  <2>2. Advanced \in Seq(Frames) /\ Len(Advanced) = Len(stack) /\ Len(stack) \in Nat
    BY <1>7, AdvancedFact DEF StackInv
  <2>3. DOMAIN stack' = 1..(Len(stack) + 1) /\ stack'[Len(stack) + 1] = Child
        /\ \A k \in 1..Len(stack) : stack'[k] = Advanced[k]
    BY <1>7, <2>1, <2>2, AppendProperties
  <2>4. stack # <<>>  BY <1>7 DEF HasEntry
  <2>5. Top \in Frames /\ Top.next \in DOMAIN Top.entries /\ Top = stack[Len(stack)]
    BY <1>7, <2>4, TopFact
  <2>6. \A k \in 1..Len(stack) : k \in DOMAIN stack  BY DEF StackInv
  <2>7. ASSUME NEW k \in DOMAIN stack'
        PROVE  stack'[k].next \in 1..(Len(stack'[k].entries) + 1)
    <3>1. CASE k = Len(stack) + 1  BY <2>1, <2>3, <3>1, EntriesFact
    <3>2. CASE k # Len(stack) + 1
      <4>1. k \in 1..Len(stack) /\ k \in DOMAIN stack  BY <2>2, <2>3, <2>6, <3>2
      <4>2. stack'[k] = Advanced[k]  BY <2>3, <4>1
      <4>3. CASE k = Len(stack)
        <5>1. stack'[k].next = Top.next + 1 /\ stack'[k].entries = Top.entries
          BY <1>7, <2>5, <4>1, <4>2, <4>3, AdvancedFact
        <5> QED  BY <2>5, <5>1, EntriesFact
      <4>4. CASE k # Len(stack)
        <5>1. stack'[k] = stack[k]  BY <1>7, <4>1, <4>2, <4>4, AdvancedFact
        <5> QED  BY <1>1, <4>1, <5>1
      <4> QED  BY <4>3, <4>4
    <3> QED  BY <3>1, <3>2
  <2> QED  BY <2>1, <2>7
<1>8. CASE Len(stack) > 1 /\ stack' = Front(stack) /\ phase' = phase
  <2>1. StackInv' /\ Len(stack') = Len(stack) - 1
        /\ \A k \in 1..(Len(stack) - 1) : stack'[k] = stack[k]
    BY <1>8, PopStack
  <2>2. ASSUME NEW k \in DOMAIN stack'
        PROVE  stack'[k].next \in 1..(Len(stack'[k].entries) + 1)
    <3>1. k \in 1..(Len(stack) - 1) /\ k \in DOMAIN stack
      <4>1. DOMAIN stack' = 1..(Len(stack) - 1)  BY <2>1 DEF StackInv
      <4>2. DOMAIN stack = 1..Len(stack) /\ Len(stack) \in Nat  BY DEF StackInv
      <4> QED  BY <4>1, <4>2
    <3> QED  BY <1>1, <2>1, <3>1
  <2> QED  BY <2>1, <2>2
<1> QED  BY <1>3, <1>4, <1>5, <1>6, <1>7, <1>8 DEF StackSteps

-----------------------------------------------------------------------------
(* The limits.                                                                *)

StackLimit == 1 + IF phase = "preview" THEN PreviewDepth ELSE MaxNestedDepth
ScanLimit == IF phase = "preview" THEN PreviewEntries ELSE MaxArchiveEntries
ByteLimit == IF phase = "preview" THEN PreviewSpool ELSE MaxExpandedBytes

LEMMA TypeParts ==
    TypeOK <=> /\ source \in Sources /\ phase \in Phases
               /\ Len(stack) \in 0..StackLimit /\ NextOK
               /\ archives \in 0..PreviewArchives
               /\ scanned \in 0..ScanLimit /\ bytes \in 0..ByteLimit
               /\ nested \in 0..MaxNestedArchives
               /\ Len(written) \in 0..MaxArchiveEntries
BY DEF TypeOK, NextOK, StackLimit, ScanLimit, ByteLimit

LEMMA Limits ==
    /\ MaxNestedDepth \in Nat \ {0} /\ MaxNestedArchives \in Nat \ {0}
    /\ MaxArchiveEntries \in Nat \ {0} /\ MaxExpandedBytes \in Nat \ {0}
    /\ PreviewDepth \in Nat \ {0} /\ PreviewArchives \in Nat \ {0}
    /\ PreviewEntries \in Nat \ {0} /\ PreviewSpool \in Nat \ {0}
BY NormalizeAssumption

LEMMA SourceType == source \in Sources => Len(source.entries) \in Nat
BY NormalizeAssumption

\* What the guards say of the entry they admit.
LEMMA EntryLimits ==
    ASSUME source \in Sources, TypeOK, StackInv, HasEntry
    PROVE  /\ Len(stack) \in Nat /\ Top.depth = Len(stack) - 1
           /\ Entry \in Entries /\ Entry.size \in Nat
           /\ Supported(Entry) => Contained[Entry.of] \in Seq(Entries)
                                  /\ Len(Contained[Entry.of]) \in Nat
<1>1. stack # <<>>  BY DEF HasEntry
<1>2. Len(stack) \in Nat /\ Top.depth = Len(stack) - 1 /\ Entry \in Entries
  BY <1>1, TopFact
<1>3. Entry.size \in Nat /\ (Supported(Entry) => Contained[Entry.of] \in Seq(Entries))
  BY <1>2, EntryType
<1> QED  BY <1>2, <1>3

LEMMA TypeStep ==
    ASSUME TypeOK, StackInv, written \in Seq(Leaves), Next
    PROVE  TypeOK'
<1> USE Limits
<1>1. source' = source /\ StackInv' /\ NextOK' /\ source' \in Sources
  <2>1. source \in Sources  BY DEF TypeOK
  <2>2. StackSteps /\ source' = source  BY StackActions
  <2> QED  BY <2>1, <2>2, StackStep
<1>2. /\ source \in Sources /\ phase \in Phases
      /\ Len(stack) \in 0..StackLimit /\ NextOK
      /\ archives \in 0..PreviewArchives
      /\ scanned \in 0..ScanLimit /\ bytes \in 0..ByteLimit
      /\ nested \in 0..MaxNestedArchives
      /\ Len(written) \in 0..MaxArchiveEntries
  BY TypeParts
<1>3. SUFFICES /\ phase' \in Phases
               /\ Len(stack') \in 0..StackLimit'
               /\ archives' \in 0..PreviewArchives
               /\ scanned' \in 0..ScanLimit' /\ bytes' \in 0..ByteLimit'
               /\ nested' \in 0..MaxNestedArchives
               /\ Len(written') \in 0..MaxArchiveEntries
  BY <1>1, TypeParts DEF TypeOK, NextOK, StackLimit, ScanLimit, ByteLimit
<1>4. Len(source.entries) \in Nat  BY <1>2, SourceType
<1>5. CASE PreviewStart
  <2>1. Len(stack') = 1  BY <1>5 DEF PreviewStart
  <2> QED  BY <1>2, <1>4, <1>5, <2>1
           DEF PreviewStart, StackLimit, ScanLimit, ByteLimit
<1>6. ASSUME PreviewNested \/ FlattenNested  PROVE Len(stack') = Len(stack) + 1
  BY <1>2, <1>6, PushStack DEF PreviewNested, FlattenNested
<1>7. ASSUME PreviewLeaf \/ FlattenLeaf  PROVE Len(stack') = Len(stack)
  BY <1>2, <1>7, AdvanceStack DEF PreviewLeaf, FlattenLeaf
<1>8. CASE PreviewNested
  <2>1. /\ phase = "preview" /\ phase' = phase /\ HasEntry /\ Supported(Entry) /\ PreviewAdmits
        /\ archives' = archives + 1
        /\ scanned' = scanned + Len(Contained[Entry.of])
        /\ bytes' = bytes + Entry.size
        /\ nested' = nested /\ written' = written
    BY <1>8 DEF PreviewNested
  <2>2. /\ Len(stack) \in Nat /\ Top.depth = Len(stack) - 1 /\ Entry.size \in Nat
        /\ Len(Contained[Entry.of]) \in Nat
    BY <1>2, <2>1, EntryLimits
  <2>3. /\ bytes + Entry.size <= PreviewSpool /\ Top.depth + 1 <= PreviewDepth
        /\ archives < PreviewArchives
        /\ scanned + Len(Contained[Entry.of]) <= PreviewEntries
    BY <2>1 DEF PreviewAdmits
  <2>4. /\ StackLimit' = 1 + PreviewDepth /\ ScanLimit' = PreviewEntries
        /\ ByteLimit' = PreviewSpool
    BY <2>1 DEF StackLimit, ScanLimit, ByteLimit
  <2>5. scanned \in Nat /\ bytes \in Nat
    BY <1>2, <2>1 DEF ScanLimit, ByteLimit
  <2>6. Len(stack') \in 0..StackLimit'  BY <1>6, <1>8, <2>2, <2>3, <2>4
  <2>7. scanned' \in 0..ScanLimit' /\ bytes' \in 0..ByteLimit'
    <3>1. scanned' = scanned + Len(Contained[Entry.of]) /\ bytes' = bytes + Entry.size
      BY <2>1
    <3>2. scanned' \in 0..PreviewEntries  BY <2>2, <2>3, <2>5, <3>1
    <3>3. bytes' \in 0..PreviewSpool  BY <2>2, <2>3, <2>5, <3>1
    <3> QED  BY <2>4, <3>2, <3>3
  <2>8. archives' \in 0..PreviewArchives  BY <1>2, <2>1, <2>3
  <2> QED  BY <1>2, <2>1, <2>6, <2>7, <2>8
<1>9. CASE PreviewLeaf
  BY <1>2, <1>7, <1>9 DEF PreviewLeaf, StackLimit, ScanLimit, ByteLimit
<1>10. CASE PreviewDone \/ PreviewFails
  <2>1. /\ phase' = "inspect" /\ stack' = <<>> /\ scanned' = 0 /\ bytes' = 0
        /\ archives' = archives /\ nested' = nested /\ written' = written
    BY <1>10 DEF PreviewDone, PreviewFails, Planned
  <2>2. Len(stack') = 0  BY <2>1
  <2> QED  BY <1>2, <2>1, <2>2 DEF Phases, StackLimit, ScanLimit, ByteLimit
<1>11. CASE Leave
  <2>1. Len(stack') = Len(stack) - 1 /\ Len(stack) > 1
    BY <1>2, <1>11, PopStack DEF Leave
  <2> QED  BY <1>2, <1>11, <2>1 DEF Leave, StackLimit, ScanLimit, ByteLimit
<1>12. CASE PublishPlain
  BY <1>2, <1>12 DEF PublishPlain, Phases, StackLimit, ScanLimit, ByteLimit
<1>13. CASE StartFlatten
  <2>1. Len(stack') = 1  BY <1>13 DEF StartFlatten
  <2> QED  BY <1>2, <1>4, <1>13, <2>1
           DEF StartFlatten, Phases, StackLimit, ScanLimit, ByteLimit
<1>14. CASE FlattenNested
  <2>1. /\ phase = "flatten" /\ phase' = phase /\ HasEntry /\ Supported(Entry) /\ FlattenAdmits
        /\ nested' = nested + 1
        /\ scanned' = scanned + Len(Contained[Entry.of])
        /\ archives' = archives /\ bytes' = bytes /\ written' = written
    BY <1>14 DEF FlattenNested
  <2>2. /\ Len(stack) \in Nat /\ Top.depth = Len(stack) - 1
        /\ Len(Contained[Entry.of]) \in Nat
    BY <1>2, <2>1, EntryLimits
  <2>3. /\ nested < MaxNestedArchives /\ Top.depth + 1 <= MaxNestedDepth
        /\ scanned + Len(Contained[Entry.of]) <= MaxArchiveEntries
    BY <2>1 DEF FlattenAdmits
  <2> QED  BY <1>2, <1>6, <1>14, <2>1, <2>2, <2>3 DEF StackLimit, ScanLimit, ByteLimit
<1>15. CASE FlattenLeaf
  <2>1. /\ phase = "flatten" /\ phase' = phase /\ HasEntry
        /\ Len(written) < MaxArchiveEntries /\ bytes + Entry.size <= MaxExpandedBytes
        /\ bytes' = bytes + Entry.size
        /\ archives' = archives /\ scanned' = scanned /\ nested' = nested
    BY <1>15 DEF FlattenLeaf
  <2>2. Entry.size \in Nat  BY <1>2, <2>1, EntryLimits
  <2>3. Len(written') = Len(written) + 1
    <3>1. \E w : written' = Append(written, w)  BY <1>15 DEF FlattenLeaf
    <3> QED  BY <3>1
  <2> QED  BY <1>2, <1>7, <1>15, <2>1, <2>2, <2>3 DEF StackLimit, ScanLimit, ByteLimit
<1>16. CASE FlattenDone
  <2>1. Len(stack') = 0  BY <1>16 DEF FlattenDone
  <2> QED  BY <1>2, <1>16, <2>1 DEF FlattenDone, Phases, StackLimit, ScanLimit, ByteLimit
<1>17. CASE Split
  BY <1>2, <1>17 DEF Split, Phases, StackLimit, ScanLimit, ByteLimit
<1>18. CASE Fail
  <2>1. Len(stack') = 0 /\ Len(written') = 0  BY <1>18 DEF Fail
  <2> QED  BY <1>2, <1>18, <2>1 DEF Fail, Phases, StackLimit, ScanLimit, ByteLimit
<1> QED  BY <1>5, <1>8, <1>9, <1>10, <1>11, <1>12, <1>13, <1>14, <1>15, <1>16, <1>17, <1>18
         DEF Next

-----------------------------------------------------------------------------
(* What is written.                                                           *)

LEMMA JoinedType ==
    ASSUME NEW f \in Frames, NEW i \in DOMAIN f.entries
    PROVE  JoinedName(f, f.entries[i]) \in Names
<1>1. f.entries[i] \in Entries /\ f.prefix \in Seq(Part)  BY EntriesFact DEF Frames
<1>2. f.entries[i].base \in Part /\ f.entries[i].ext \in STRING
  BY <1>1, EntryType DEF Entries
<1>3. LogicalDir(f, f.entries[i]) \in Seq(Part)  BY DirType
<1>4. f.prefix \o LogicalDir(f, f.entries[i]) \in Seq(Part)
  BY <1>1, <1>3, ConcatProperties
<1> QED  BY <1>2, <1>4 DEF JoinedName, Names

\* The entry that is read, as an entry of the tree.
LEMMA TopPlace ==
    ASSUME source \in Sources, TypeOK, StackInv, HasEntry
    PROVE  /\ Len(stack) - 1 \in Nat
           /\ phase = "flatten" => Len(stack) - 1 \in 0..MaxNestedDepth
           /\ AsOpened(Top) \in Opened[Len(stack) - 1]
           /\ Top.next \in DOMAIN AsOpened(Top).entries
           /\ AsOpened(Top).entries[Top.next] = Entry
           /\ Place(AsOpened(Top), Top.next) = Leaf
           /\ JoinedName(AsOpened(Top), Entry) = JoinedName(Top, Entry)
           /\ JoinedName(Top, Entry) \in Names
           /\ ~ArchiveLike(Entry) => Top.next \in FilesIn(AsOpened(Top))
           /\ Supported(Entry) => Top.next \in ArchivesIn(AsOpened(Top))
<1>1. stack # <<>>  BY DEF HasEntry
<1>2. /\ Len(stack) \in DOMAIN stack /\ Len(stack) \in Nat /\ Top \in Frames
      /\ AsOpened(Top) \in Opened[Len(stack) - 1]
      /\ Top.next \in DOMAIN Top.entries /\ Entry = Top.entries[Top.next]
  BY <1>1, TopFact
<1>3. Len(stack) - 1 \in Nat  BY <1>2, StackFact
<1>4. phase = "flatten" => Len(stack) - 1 \in 0..MaxNestedDepth
  <2>1. Len(stack) \in 0..StackLimit  BY TypeParts
  <2> QED  BY <1>3, <2>1, Limits DEF StackLimit
<1>5. /\ AsOpened(Top).entries = Top.entries /\ AsOpened(Top).path = Top.path
      /\ JoinedName(AsOpened(Top), Entry) = JoinedName(Top, Entry)
  BY AsOpenedFact
<1>6. Place(AsOpened(Top), Top.next) = Leaf  BY <1>5 DEF Place, Leaf
<1>7. JoinedName(Top, Entry) \in Names  BY <1>2, JoinedType
<1>8. /\ ~ArchiveLike(Entry) => Top.next \in FilesIn(AsOpened(Top))
      /\ Supported(Entry) => Top.next \in ArchivesIn(AsOpened(Top))
  BY <1>2, <1>5 DEF FilesIn, ArchivesIn
<1> QED  BY <1>2, <1>3, <1>4, <1>5, <1>6, <1>7, <1>8

\* No file has the place of an open archive.
LEMMA NotOpen ==
    ASSUME source \in Sources, TypeOK, StackInv, stack # <<>>, Len(stack) > 1,
           NEW n \in Nat, NEW f \in Opened[n], NEW i \in DOMAIN f.entries,
           Place(f, i) = Top.path
    PROVE  i \in ArchivesIn(f)
<1>1. Len(stack) \in Nat  BY DEF StackInv
<1>2. PICK k \in 1..(Len(stack) - 1) : k + 1 = Len(stack)
  <2>1. Len(stack) - 1 \in 1..(Len(stack) - 1) /\ (Len(stack) - 1) + 1 = Len(stack)
    BY <1>1
  <2> QED  BY <2>1
<1>3. Top = stack[k + 1]  BY <1>2, TopFact
<1>4. PICK g \in Opened[k - 1] : \E j \in ArchivesIn(g) : Top.path = Place(g, j)
  BY <1>3, OpenPlace
<1>5. PICK j \in ArchivesIn(g) : Top.path = Place(g, j)  BY <1>4
<1>6. k - 1 \in Nat /\ j \in DOMAIN g.entries  BY DEF ArchivesIn
<1>7. f = g /\ i = j  BY <1>5, <1>6, SamePlace
<1> QED  BY <1>7

\* Only the steps that write a file take one behind the job.
LEMMA WalkedStep ==
    ASSUME TypeOK, StackInv,
           FlattenNested \/ (Leave /\ phase = "flatten") \/ FlattenDone \/ Split,
           NEW n \in Nat, NEW f \in Opened[n], NEW i \in FilesIn(f)
    PROVE  Walked(Place(f, i))' <=> Walked(Place(f, i))
<1>1. source \in Sources /\ f \in Frames /\ i \in DOMAIN f.entries /\ i \notin ArchivesIn(f)
  <2>1. source \in Sources  BY DEF TypeOK
  <2> QED  BY <2>1, LevelType, EntriesFact
<1>2. CASE FlattenNested
  <2>1. Behind(Place(f, i))' <=> Behind(Place(f, i))
    BY <1>1, <1>2, BehindPush DEF FlattenNested
  <2> QED  BY <1>2, <2>1 DEF FlattenNested, Walked
<1>3. CASE Leave /\ phase = "flatten"
  <2>1. Len(stack) > 1 /\ Len(stack) \in Nat /\ stack # <<>>  BY <1>3 DEF Leave, StackInv
  <2>2. Behind(Place(f, i))' <=> Behind(Place(f, i)) \/ Place(f, i) = Top.path
    BY <1>1, <1>3, BehindPop DEF Leave
  <2>3. Place(f, i) # Top.path  BY <1>1, <2>1, NotOpen
  <2> QED  BY <1>3, <2>2, <2>3 DEF Leave, Walked
<1>4. CASE FlattenDone
  <2>1. Behind(Place(f, i))  BY <1>1, <1>4, BehindEnds DEF FlattenDone
  <2> QED  BY <1>4, <2>1 DEF FlattenDone, Walked
<1>5. CASE Split
  BY <1>5 DEF Split, Walked
<1> QED  BY <1>2, <1>3, <1>4, <1>5

LEMMA WrittenKept ==
    ASSUME source' = source, written' = written, AllWritten, OnlyFiles, Once,
           \A n \in Nat : \A f \in Opened[n] : \A i \in FilesIn(f) :
              Walked(Place(f, i))' <=> Walked(Place(f, i))
    PROVE  AllWritten' /\ OnlyFiles' /\ Once'
<1>1. Opened' = Opened  BY OpenedSame
<1>2. AllWritten'  BY <1>1 DEF AllWritten
<1>3. OnlyFiles'
  <2>1. SUFFICES ASSUME NEW j \in DOMAIN written
                 PROVE  /\ Walked(written[j].leaf)'
                        /\ \E n \in 0..MaxNestedDepth : \E f \in Opened[n] : \E i \in FilesIn(f) :
                              ComesFrom(j, f, i)'
    BY <1>1 DEF OnlyFiles
  <2>2. PICK n \in 0..MaxNestedDepth : \E f \in Opened[n] : \E i \in FilesIn(f) :
           ComesFrom(j, f, i)
    BY DEF OnlyFiles
  <2>3. PICK f \in Opened[n] : \E i \in FilesIn(f) : ComesFrom(j, f, i)  BY <2>2
  <2>4. PICK i \in FilesIn(f) : ComesFrom(j, f, i)  BY <2>3
  <2>5. ComesFrom(j, f, i)'  BY <2>4 DEF ComesFrom
  <2>6. written[j].leaf = Place(f, i) /\ Walked(written[j].leaf) /\ n \in Nat
    BY <2>4 DEF ComesFrom, OnlyFiles
  <2>7. Walked(Place(f, i))'  BY <2>6
  <2>8. Walked(written[j].leaf)'  BY <2>6, <2>7 DEF Walked, Behind
  <2> QED  BY <2>5, <2>8
<1>4. Once'  BY DEF Once
<1> QED  BY <1>2, <1>3, <1>4

\* A file is written under a name of its own.
LEMMA WrittenLeaf ==
    ASSUME TypeOK, StackInv, written \in Seq(Leaves), AllWritten, OnlyFiles, Once, FlattenLeaf
    PROVE  AllWritten' /\ OnlyFiles' /\ Once' /\ written' \in Seq(Leaves)
<1> DEFINE name == UniqueName(JoinedName(Top, Entry))
           new == [name |-> name, leaf |-> Leaf]
           N == Len(written)
           F == AsOpened(Top)
           m == Len(stack) - 1
<1>1. /\ source \in Sources /\ HasEntry /\ ~ArchiveLike(Entry) /\ stack' = Advanced
      /\ phase = "flatten" /\ phase' = "flatten" /\ source' = source
      /\ written' = Append(written, new)
  BY DEF TypeOK, FlattenLeaf
<1>2. /\ m \in 0..MaxNestedDepth /\ m \in Nat /\ F \in Opened[m] /\ Top.next \in FilesIn(F)
      /\ Place(F, Top.next) = Leaf /\ F.entries[Top.next] = Entry
      /\ JoinedName(F, Entry) = JoinedName(Top, Entry) /\ JoinedName(Top, Entry) \in Names
  BY <1>1, TopPlace
<1>3. name \in Names /\ name.dir = JoinedName(Top, Entry).dir  BY <1>2, UniqueNameFact
<1>4. Leaf \in Seq(Nat) /\ ~Behind(Leaf)  BY <1>1, LeafFact
<1> HIDE DEF name, F, m
<1>5. new \in Leaves /\ new.leaf = Leaf /\ new.name = name  BY <1>3, <1>4 DEF Leaves
<1> HIDE DEF new
<1>6. /\ N \in Nat /\ DOMAIN written = 1..N
      /\ written' \in Seq(Leaves) /\ DOMAIN written' = 1..(N + 1)
      /\ written'[N + 1] = new /\ \A j \in 1..N : written'[j] = written[j]
  BY <1>1, <1>5, AppendProperties
<1>7. Opened' = Opened  BY <1>1, OpenedSame
<1> HIDE DEF N
<1>8. ASSUME NEW n \in Nat, NEW f \in Opened[n], NEW i \in FilesIn(f)
      PROVE  Behind(Place(f, i))' <=> Behind(Place(f, i)) \/ Place(f, i) = Leaf
  <2>1. f \in Frames  BY <1>1, LevelType
  <2>2. i \in DOMAIN f.entries  BY <2>1, EntriesFact
  <2> QED  BY <1>1, <2>2, BehindAdvance
<1>9. AllWritten'
  <2>1. SUFFICES ASSUME NEW n \in Nat, NEW f \in Opened[n], NEW i \in FilesIn(f),
                        Walked(Place(f, i))'
                 PROVE  \E j \in 1..(N + 1) : written'[j].leaf = Place(f, i)
    BY <1>6, <1>7 DEF AllWritten
  <2>2. CASE Place(f, i) = Leaf
    <3>1. N + 1 \in 1..(N + 1)  BY <1>6
    <3> QED  BY <1>5, <1>6, <2>2, <3>1
  <2>3. CASE Place(f, i) # Leaf
    <3>1. Behind(Place(f, i))'  BY <1>1, <2>1 DEF Walked
    <3>2. Walked(Place(f, i))  BY <1>8, <2>3, <3>1 DEF Walked
    <3>3. PICK j \in 1..N : written[j].leaf = Place(f, i)  BY <1>6, <3>2 DEF AllWritten
    <3>4. j \in 1..(N + 1)  BY <1>6
    <3> QED  BY <1>6, <3>3, <3>4
  <2> QED  BY <2>2, <2>3
<1>10. OnlyFiles'
  <2>1. SUFFICES ASSUME NEW j \in 1..(N + 1)
                 PROVE  /\ Walked(written[j].leaf)'
                        /\ \E n \in 0..MaxNestedDepth : \E f \in Opened[n] : \E i \in FilesIn(f) :
                              ComesFrom(j, f, i)'
    BY <1>6, <1>7 DEF OnlyFiles, Walked, Behind
  <2>2. SUFFICES \E n \in 0..MaxNestedDepth : \E f \in Opened[n] : \E i \in FilesIn(f) :
                    ComesFrom(j, f, i)' /\ Walked(Place(f, i))'
    <3>1. ASSUME NEW f, NEW i, ComesFrom(j, f, i)', Walked(Place(f, i))'
          PROVE  Walked(written[j].leaf)'
      <4>1. written'[j].leaf = Place(f, i)  BY <3>1 DEF ComesFrom
      <4> QED  BY <3>1, <4>1 DEF Walked, Behind
    <3> QED  BY <3>1
  <2>3. CASE j = N + 1
    <3>1. written'[j].leaf = Place(F, Top.next)
          /\ written'[j].name.dir = JoinedName(F, F.entries[Top.next]).dir
      BY <1>2, <1>3, <1>5, <1>6, <2>3
    <3>2. PICK n \in 0..MaxNestedDepth : n = m  BY <1>2
    <3>3. PICK f \in Opened[n] : f = F  BY <1>2, <3>2
    <3>4. PICK i \in FilesIn(f) : i = Top.next  BY <1>2, <3>3
    <3>5. ComesFrom(j, f, i)'  BY <3>1, <3>3, <3>4 DEF ComesFrom
    <3>6. n \in Nat /\ Place(f, i) = Leaf  BY <1>2, <3>2, <3>3, <3>4
    <3>7. Behind(Place(f, i))'  BY <1>8, <3>6
    <3> QED  BY <3>5, <3>7 DEF Walked
  <2>4. CASE j # N + 1
    <3>1. j \in 1..N /\ j \in DOMAIN written  BY <1>6, <2>4
    <3>2. Walked(written[j].leaf)
          /\ \E n \in 0..MaxNestedDepth : \E f \in Opened[n] : \E i \in FilesIn(f) :
                ComesFrom(j, f, i)
      BY <3>1 DEF OnlyFiles
    <3>3. PICK n \in 0..MaxNestedDepth : \E f \in Opened[n] : \E i \in FilesIn(f) :
             ComesFrom(j, f, i)
      BY <3>2
    <3>4. PICK f \in Opened[n] : \E i \in FilesIn(f) : ComesFrom(j, f, i)  BY <3>3
    <3>5. PICK i \in FilesIn(f) : ComesFrom(j, f, i)  BY <3>4
    <3>6. ComesFrom(j, f, i)'  BY <1>6, <3>1, <3>5 DEF ComesFrom
    <3>7. Behind(Place(f, i))  BY <1>1, <3>2, <3>5 DEF ComesFrom, Walked
    <3>8. n \in Nat  OBVIOUS
    <3>9. Behind(Place(f, i))'  BY <1>8, <3>7, <3>8
    <3> QED  BY <3>6, <3>9 DEF Walked
  <2> QED  BY <2>3, <2>4
<1>11. Once'
  <2>1. ASSUME NEW j \in 1..N  PROVE written[j].leaf # Leaf
    <3>1. j \in DOMAIN written  BY <1>6
    <3>2. Behind(written[j].leaf)  BY <1>1, <3>1 DEF OnlyFiles, Walked
    <3> QED  BY <1>4, <3>2 DEF Behind
  <2>2. \A j, k \in 1..N : j # k => written[j].leaf # written[k].leaf  BY <1>6 DEF Once
  <2>3. ASSUME NEW j \in 1..(N + 1), NEW k \in 1..(N + 1), j # k
        PROVE  written'[j].leaf # written'[k].leaf
    <3>1. (j \in 1..N \/ j = N + 1) /\ (k \in 1..N \/ k = N + 1)  BY <1>6
    <3> QED  BY <1>5, <1>6, <2>1, <2>2, <2>3, <3>1
  <2> QED  BY <1>6, <2>3 DEF Once
<1> QED  BY <1>6, <1>9, <1>10, <1>11

LEMMA NamesLeaf ==
    ASSUME TypeOK, StackInv, written \in Seq(Leaves), UniqueNames, FlattenLeaf
    PROVE  UniqueNames'
<1> DEFINE name == UniqueName(JoinedName(Top, Entry))
           new == [name |-> name, leaf |-> Leaf]
           N == Len(written)
<1>1. /\ source \in Sources /\ HasEntry /\ written' = Append(written, new)
  BY DEF TypeOK, FlattenLeaf
<1>2. JoinedName(Top, Entry) \in Names  BY <1>1, TopPlace
<1>3. name \in Names /\ (N + 1 < LastMark => Fold(name) \notin Seen)  BY <1>2, UniqueNameFact
<1>4. Leaf \in Seq(Nat)  BY <1>1, LeafFact
<1> HIDE DEF name
<1>5. new \in Leaves /\ new.name = name  BY <1>3, <1>4 DEF Leaves
<1> HIDE DEF new
<1>6. /\ N \in Nat /\ DOMAIN written = 1..N
      /\ written' \in Seq(Leaves) /\ DOMAIN written' = 1..(N + 1) /\ Len(written') = N + 1
      /\ written'[N + 1] = new /\ \A j \in 1..N : written'[j] = written[j]
  BY <1>1, <1>5, AppendProperties
<1>7. \A j \in 1..N : Fold(written[j].name) \in Seen  BY <1>6 DEF Seen
<1> HIDE DEF N
<1>8. SUFFICES ASSUME N + 1 < LastMark, NEW i \in 1..(N + 1), NEW k \in 1..(N + 1), i # k
               PROVE  Fold(written'[i].name) # Fold(written'[k].name)
  BY <1>6 DEF UniqueNames
<1>9. \A j, l \in 1..N : j # l => Fold(written[j].name) # Fold(written[l].name)
  <2>1. N < LastMark  BY <1>6, <1>8 DEF LastMark
  <2> QED  BY <1>6, <2>1 DEF UniqueNames, N
<1>10. (i \in 1..N \/ i = N + 1) /\ (k \in 1..N \/ k = N + 1)  BY <1>6
<1> QED  BY <1>3, <1>5, <1>6, <1>7, <1>8, <1>9, <1>10

LEMMA OutputsSame ==
    source' = source /\ written' = written => Outputs' = Outputs /\ RawOutputs' = RawOutputs
BY DEF Outputs, RawOutputs, RawGroup, WrittenGroups, WrittenGroup

LEMMA NamesSame == written' = written /\ UniqueNames => UniqueNames'
BY DEF UniqueNames

LEMMA RecordedStep ==
    ASSUME TypeOK, StackInv, Recorded, UniqueNames, Next
    PROVE  Recorded' /\ UniqueNames'
<1>1. /\ written \in Seq(Leaves)
      /\ phase \in {"preview", "inspect"} => written = <<>>
      /\ phase \in {"flatten", "split"} => ~Plain(source)
      /\ Job => AllWritten /\ OnlyFiles /\ Once
      /\ phase = "done" => published = IF Plain(source) THEN RawOutputs ELSE Outputs
  BY DEF Recorded
<1>2. source \in Sources /\ source' = source
  BY StackActions DEF TypeOK
<1>3. CASE PreviewStart \/ PreviewNested \/ PreviewLeaf \/ PreviewDone \/ PreviewFails
           \/ (Leave /\ phase # "flatten")
  <2>1. phase \in {"preview", "inspect"} /\ phase' \in {"preview", "inspect"} /\ written' = written
    BY <1>3 DEF PreviewStart, PreviewNested, PreviewLeaf, PreviewDone, PreviewFails, Planned, Leave
  <2>2. ~Job'  BY <2>1 DEF Job
  <2>3. Recorded'  BY <1>1, <2>1, <2>2 DEF Recorded
  <2> QED  BY <2>1, <2>3, NamesSame
<1>4. CASE PublishPlain
  <2>1. phase' = "done" /\ Plain(source) /\ written' = written /\ published' = RawOutputs
    BY <1>4 DEF PublishPlain
  <2>2. ~Job'  BY <1>2, <2>1 DEF Job
  <2>3. Plain(source') /\ RawOutputs' = RawOutputs  BY <1>2, <2>1, OutputsSame
  <2>4. Recorded'  BY <1>1, <2>1, <2>2, <2>3 DEF Recorded
  <2> QED  BY <2>1, <2>4, NamesSame
<1>5. CASE StartFlatten
  <2>1. /\ phase' = "flatten" /\ ~Plain(source') /\ written' = <<>> /\ written = <<>>
        /\ stack' = <<Root>>
    BY <1>1, <1>2, <1>5 DEF StartFlatten
  <2>2. AllWritten'
    <3>1. SUFFICES ASSUME NEW n \in Nat, NEW f \in Opened[n], NEW i \in FilesIn(f)
                   PROVE  ~Walked(Place(f, i))'
      BY <1>2, OpenedSame DEF AllWritten
    <3>2. i \in DOMAIN f.entries  BY DEF FilesIn
    <3>3. ~Behind(Place(f, i))'  BY <1>2, <2>1, <3>2, BehindEnds
    <3> QED  BY <2>1, <3>3 DEF Walked
  <2>3. OnlyFiles' /\ Once'  BY <2>1 DEF OnlyFiles, Once
  <2>4. written' \in Seq(Leaves)  BY <2>1
  <2>5. Recorded'  BY <2>1, <2>2, <2>3, <2>4 DEF Recorded
  <2> QED  BY <2>1, <2>5, NamesSame
<1>6. CASE FlattenNested \/ (Leave /\ phase = "flatten") \/ FlattenDone \/ Split
  <2>1. /\ phase \in {"flatten", "split"} /\ phase' \in {"flatten", "split", "done"}
        /\ written' = written /\ (phase' = "done" => published' = Outputs)
    BY <1>6 DEF FlattenNested, Leave, FlattenDone, Split
  <2>2. AllWritten /\ OnlyFiles /\ Once  BY <1>1, <2>1 DEF Job
  <2>3. \A n \in Nat : \A f \in Opened[n] : \A i \in FilesIn(f) :
           Walked(Place(f, i))' <=> Walked(Place(f, i))
    BY <1>6, WalkedStep
  <2>4. AllWritten' /\ OnlyFiles' /\ Once'  BY <1>2, <2>1, <2>2, <2>3, WrittenKept
  <2>5. ~Plain(source')  BY <1>1, <1>2, <2>1
  <2>6. Outputs' = Outputs  BY <1>2, <2>1, OutputsSame
  <2>7. Recorded'  BY <1>1, <2>1, <2>4, <2>5, <2>6 DEF Recorded
  <2> QED  BY <2>1, <2>7, NamesSame
<1>7. CASE FlattenLeaf
  <2>1. phase = "flatten" /\ phase' = "flatten"  BY <1>7 DEF FlattenLeaf
  <2>2. AllWritten /\ OnlyFiles /\ Once  BY <1>1, <2>1 DEF Job
  <2>3. AllWritten' /\ OnlyFiles' /\ Once' /\ written' \in Seq(Leaves)
    BY <1>1, <1>7, <2>2, WrittenLeaf
  <2>4. Recorded'  BY <1>1, <1>2, <2>1, <2>3 DEF Recorded
  <2> QED  BY <1>1, <1>7, <2>4, NamesLeaf
<1>8. CASE Fail
  <2>1. phase' = "failed" /\ written' = <<>>  BY <1>8 DEF Fail
  <2>2. written' \in Seq(Leaves) /\ ~Job'  BY <2>1 DEF Job
  <2>3. Recorded'  BY <2>1, <2>2 DEF Recorded
  <2> QED  BY <2>1, <2>3 DEF UniqueNames
<1> QED  BY <1>3, <1>4, <1>5, <1>6, <1>7, <1>8 DEF Next

-----------------------------------------------------------------------------
(* The dry run.                                                               *)

LEMMA AllGroupsSame == source' = source => AllGroups' = AllGroups
BY OpenedSame DEF AllGroups

LEMMA AllGroupsFact ==
    ASSUME NEW n \in Nat, NEW f \in Opened[n], NEW i \in FilesIn(f)
    PROVE  GroupAt(f, i) \in AllGroups
BY DEF AllGroups

LEMMA ForeseenStep ==
    ASSUME TypeOK, StackInv, Foreseen, Next
    PROVE  Foreseen'
<1>1. source \in Sources /\ source' = source /\ Opened' = Opened /\ AllGroups' = AllGroups
  <2>1. source' = source  BY StackActions
  <2> QED  BY <2>1, OpenedSame, AllGroupsSame DEF TypeOK
<1>2. /\ phase = "preview" =>
            /\ \A n \in Nat : \A f \in Opened[n] : \A i \in FilesIn(f) :
                  Behind(Place(f, i)) => GroupAt(f, i) \in groups
            /\ groups \subseteq AllGroups
      /\ phase # "preview" => predicted \in {{}, Preferred(AllGroups, source.entries)}
  BY DEF Foreseen
<1>3. \A n \in Nat : \A f \in Opened[n] : \A i \in FilesIn(f) : i \in DOMAIN f.entries
  BY DEF FilesIn
<1>4. CASE PreviewStart
  <2>1. phase = "preview" /\ phase' = "preview" /\ groups' = groups /\ stack' = <<Root>>
    BY <1>4 DEF PreviewStart
  <2>2. \A n \in Nat : \A f \in Opened[n] : \A i \in FilesIn(f) : ~Behind(Place(f, i))'
    BY <1>1, <1>3, <2>1, BehindEnds
  <2> QED  BY <1>1, <1>2, <2>1, <2>2 DEF Foreseen
<1>5. CASE PreviewNested
  <2>1. phase = "preview" /\ phase' = "preview" /\ groups' = groups
    BY <1>5 DEF PreviewNested
  <2>2. \A n \in Nat : \A f \in Opened[n] : \A i \in FilesIn(f) :
           Behind(Place(f, i))' => Behind(Place(f, i))
    BY <1>1, <1>3, <1>5, BehindPush DEF PreviewNested
  <2> QED  BY <1>1, <1>2, <2>1, <2>2 DEF Foreseen
<1>6. CASE PreviewLeaf
  <2>1. /\ phase = "preview" /\ phase' = "preview" /\ groups' = groups \cup {PreviewGroup}
        /\ HasEntry /\ ~ArchiveLike(Entry) /\ stack' = Advanced
    BY <1>6 DEF PreviewLeaf
  <2> DEFINE m == Len(stack) - 1
             F == AsOpened(Top)
  <2>2. /\ m \in Nat /\ F \in Opened[m] /\ Top.next \in FilesIn(F)
        /\ Place(F, Top.next) = Leaf
        /\ GroupAt(F, Top.next) = PreviewGroup
    BY <1>1, <2>1, TopPlace DEF GroupAt, PreviewGroup
  <2>3. Top.next \in DOMAIN F.entries  BY <2>2 DEF FilesIn
  <2>4. ASSUME NEW n \in Nat, NEW f \in Opened[n], NEW i \in FilesIn(f), Behind(Place(f, i))'
        PROVE  GroupAt(f, i) \in groups'
    <3>1. i \in DOMAIN f.entries  BY <1>3
    <3>2. Behind(Place(f, i)) \/ Place(f, i) = Leaf
      BY <1>1, <2>1, <2>4, <3>1, BehindAdvance
    <3>3. CASE Behind(Place(f, i))  BY <1>2, <2>1, <3>3
    <3>4. CASE Place(f, i) = Leaf
      <4>1. f = F /\ i = Top.next  BY <1>1, <2>2, <2>3, <3>1, <3>4, SamePlace
      <4> QED  BY <2>1, <2>2, <4>1
    <3> QED  BY <3>2, <3>3, <3>4
  <2>5. PreviewGroup \in AllGroups  BY <2>2, AllGroupsFact
  <2> QED  BY <1>1, <1>2, <2>1, <2>4, <2>5 DEF Foreseen
<1>7. CASE Leave /\ phase = "preview"
  <2>1. Len(stack) > 1 /\ stack # <<>> /\ phase' = "preview" /\ groups' = groups /\ Len(stack) \in Nat
    BY <1>7 DEF Leave, StackInv
  <2>2. ASSUME NEW n \in Nat, NEW f \in Opened[n], NEW i \in FilesIn(f), Behind(Place(f, i))'
        PROVE  Behind(Place(f, i))
    <3>1. i \in DOMAIN f.entries /\ i \notin ArchivesIn(f)
      <4>1. f \in Frames  BY <1>1, LevelType
      <4> QED  BY <4>1, EntriesFact
    <3>2. Behind(Place(f, i)) \/ Place(f, i) = Top.path
      BY <1>1, <1>7, <2>2, <3>1, BehindPop DEF Leave
    <3>3. Place(f, i) # Top.path  BY <1>1, <2>1, <3>1, NotOpen
    <3> QED  BY <3>2, <3>3
  <2> QED  BY <1>1, <1>2, <1>7, <2>1, <2>2 DEF Foreseen
<1>8. CASE PreviewDone
  <2>1. /\ phase = "preview" /\ phase' = "inspect" /\ Len(stack) = 1 /\ ~HasEntry
        /\ predicted' = Preferred(groups, source.entries)
    BY <1>8 DEF PreviewDone, Planned
  <2>2. AllGroups \subseteq groups
    <3>1. SUFFICES ASSUME NEW n \in Nat, NEW f \in Opened[n], NEW i \in FilesIn(f)
                   PROVE  GroupAt(f, i) \in groups
      BY DEF AllGroups
    <3>2. Behind(Place(f, i))  BY <1>1, <1>3, <2>1, BehindEnds
    <3> QED  BY <1>2, <2>1, <3>2
  <2>3. groups = AllGroups  BY <1>2, <2>1, <2>2
  <2> QED  BY <1>1, <2>1, <2>3 DEF Foreseen
<1>9. CASE PreviewFails
  BY <1>9 DEF PreviewFails, Planned, Foreseen
<1>10. CASE ~(phase = "preview")
  <2>1. phase' # "preview" /\ predicted' = predicted
    BY <1>10 DEF Next, PreviewStart, PreviewNested, PreviewLeaf, PreviewDone, PreviewFails, Leave,
       PublishPlain, StartFlatten, FlattenNested, FlattenLeaf, FlattenDone, Split, Fail
  <2> QED  BY <1>1, <1>2, <1>10, <2>1 DEF Foreseen
<1> QED  BY <1>4, <1>5, <1>6, <1>7, <1>8, <1>9, <1>10 DEF Next, PublishPlain, StartFlatten,
            FlattenNested, FlattenLeaf, FlattenDone, Split, Fail

-----------------------------------------------------------------------------
(* What is counted.                                                           *)

LEMMA InnerFact ==
    \A p : p \in Inner <=> \E n \in 0..(MaxNestedDepth + 1) : \E f \in Opened[n] :
                              \E i \in ArchivesIn(f) : p = Place(f, i)
BY DEF Inner, Tree, Place

LEMMA FilesFact ==
    \A p : p \in Files <=> \E n \in 0..(MaxNestedDepth + 1) : \E f \in Opened[n] :
                              \E i \in FilesIn(f) : p = Place(f, i)
BY DEF Files, Tree, Place

LEMMA BytesFact ==
    \A b : b \in Bytes <=> \E n \in 0..(MaxNestedDepth + 1) : \E f \in Opened[n] :
                              \E i \in FilesIn(f) : b \in {Place(f, i)} \X (1..f.entries[i].size)
<1> DEFINE B(f, i) == {Place(f, i)} \X (1..f.entries[i].size)
<1>1. Bytes = UNION {UNION {B(f, i) : i \in FilesIn(f)} : f \in Tree}  BY DEF Bytes, Place
<1> HIDE DEF B
<1>2. \A b : b \in Bytes <=> \E n \in 0..(MaxNestedDepth + 1) : \E f \in Opened[n] :
                              \E i \in FilesIn(f) : b \in B(f, i)
  BY <1>1 DEF Tree
<1> QED  BY <1>2 DEF B

LEMMA SetsSame == source' = source => Tree' = Tree /\ Inner' = Inner /\ Bytes' = Bytes
BY OpenedSame DEF Tree, Inner, Bytes

\* Only the steps that open an archive start one.
LEMMA BegunStep ==
    ASSUME TypeOK, StackInv,
           FlattenLeaf \/ (Leave /\ phase = "flatten") \/ FlattenDone \/ Split,
           NEW n \in Nat, NEW f \in Opened[n], NEW i \in ArchivesIn(f)
    PROVE  Begun(Place(f, i))' <=> Begun(Place(f, i))
<1>1. source \in Sources /\ f \in Frames /\ i \in DOMAIN f.entries /\ i \notin FilesIn(f)
  <2>1. source \in Sources  BY DEF TypeOK
  <2>2. f \in Frames  BY <2>1, LevelType
  <2>3. i \in DOMAIN f.entries  BY DEF ArchivesIn
  <2> QED  BY <2>1, <2>2, <2>3, EntriesFact
<1>2. CASE FlattenLeaf
  <2>1. /\ HasEntry /\ ~ArchiveLike(Entry) /\ stack' = Advanced
        /\ phase = "flatten" /\ phase' = "flatten"
    BY <1>2 DEF FlattenLeaf
  <2>2. Behind(Place(f, i))' <=> Behind(Place(f, i)) \/ Place(f, i) = Leaf
    BY <1>1, <2>1, BehindAdvance
  <2>3. Place(f, i) # Leaf
    <3>1. PICK m \in Nat : m = Len(stack) - 1  BY <1>1, <2>1, TopPlace
    <3>2. /\ AsOpened(Top) \in Opened[m] /\ Top.next \in FilesIn(AsOpened(Top))
          /\ Top.next \in DOMAIN AsOpened(Top).entries
          /\ Place(AsOpened(Top), Top.next) = Leaf
      BY <1>1, <2>1, <3>1, TopPlace
    <3> QED  BY <1>1, <3>2, SamePlace
  <2>4. Len(stack') = Len(stack) /\ \A k \in 2..Len(stack) : stack'[k].path = stack[k].path
    <3>1. \A k \in 2..Len(stack) : k \in DOMAIN stack  BY DEF StackInv
    <3> QED  BY <1>1, <2>1, <3>1, AdvancedFact
  <2> QED  BY <2>1, <2>2, <2>3, <2>4 DEF Begun
<1>3. CASE Leave /\ phase = "flatten"
  <2>1. Len(stack) > 1 /\ Len(stack) \in Nat /\ stack # <<>> /\ stack' = Front(stack)
        /\ phase' = "flatten"
    BY <1>3 DEF Leave, StackInv
  <2>2. Behind(Place(f, i))' <=> Behind(Place(f, i)) \/ Place(f, i) = Top.path
    BY <1>1, <1>3, BehindPop DEF Leave
  <2>3. Len(stack') = Len(stack) - 1 /\ \A k \in 1..(Len(stack) - 1) : stack'[k] = stack[k]
    BY <1>1, <1>3, <2>1, PopStack DEF Leave
  <2>4. Top = stack[Len(stack)] /\ Len(stack) \in 2..Len(stack)  BY <1>1, <2>1, TopFact
  <2>5. (\E k \in 2..Len(stack) : Place(f, i) = stack[k].path)
        <=> (\E k \in 2..Len(stack') : Place(f, i) = stack'[k].path) \/ Place(f, i) = Top.path
    <3>1. \A k \in 2..Len(stack) : k = Len(stack) \/ k \in 2..Len(stack')  BY <2>1, <2>3
    <3>2. \A k \in 2..Len(stack') : k \in 2..Len(stack) /\ k \in 1..(Len(stack) - 1)
      BY <2>1, <2>3
    <3> QED  BY <2>3, <2>4, <3>1, <3>2
  <2> QED  BY <1>3, <2>1, <2>2, <2>5 DEF Begun
<1>4. CASE FlattenDone
  <2>1. Behind(Place(f, i))  BY <1>1, <1>4, BehindEnds DEF FlattenDone
  <2> QED  BY <1>4, <2>1 DEF FlattenDone, Begun
<1>5. CASE Split
  BY <1>5 DEF Split, Begun
<1> QED  BY <1>2, <1>3, <1>4, <1>5

LEMMA BegunKept ==
    ASSUME source' = source,
           \A n \in Nat : \A f \in Opened[n] : \A i \in ArchivesIn(f) :
              Begun(Place(f, i))' <=> Begun(Place(f, i))
    PROVE  BegunInner' = BegunInner /\ Listed' = Listed
<1>1. Inner' = Inner /\ Tree' = Tree  BY SetsSame
<1>2. ASSUME NEW p \in Inner  PROVE Begun(p)' <=> Begun(p)
  <2>1. PICK n \in 0..(MaxNestedDepth + 1) : \E f \in Opened[n] : \E i \in ArchivesIn(f) :
           p = Place(f, i)
    BY InnerFact
  <2>2. PICK f \in Opened[n] : \E i \in ArchivesIn(f) : p = Place(f, i)  BY <2>1
  <2>3. PICK i \in ArchivesIn(f) : p = Place(f, i)  BY <2>2
  <2>4. n \in Nat  OBVIOUS
  <2>5. Begun(Place(f, i))' <=> Begun(Place(f, i))  BY <2>4
  <2> QED  BY <2>3, <2>5 DEF Begun, Behind
<1>3. BegunInner' = BegunInner  BY <1>1, <1>2 DEF BegunInner
<1> QED  BY <1>1, <1>3 DEF Listed

LEMMA BytesKept ==
    ASSUME source' = source,
           \A n \in Nat : \A f \in Opened[n] : \A i \in FilesIn(f) :
              Walked(Place(f, i))' <=> Walked(Place(f, i))
    PROVE  WrittenBytes' = WrittenBytes
<1>1. Bytes' = Bytes  BY SetsSame
<1>2. ASSUME NEW b \in Bytes  PROVE Walked(b[1])' <=> Walked(b[1])
  <2>1. PICK n \in 0..(MaxNestedDepth + 1) : \E f \in Opened[n] : \E i \in FilesIn(f) :
           b \in {Place(f, i)} \X (1..f.entries[i].size)
    BY BytesFact
  <2>2. PICK f \in Opened[n] : \E i \in FilesIn(f) : b \in {Place(f, i)} \X (1..f.entries[i].size)
    BY <2>1
  <2>3. PICK i \in FilesIn(f) : b \in {Place(f, i)} \X (1..f.entries[i].size)  BY <2>2
  <2>4. n \in Nat /\ b[1] = Place(f, i)  BY <2>3
  <2>5. Walked(Place(f, i))' <=> Walked(Place(f, i))  BY <2>4
  <2> QED  BY <2>4, <2>5 DEF Walked, Behind
<1> QED  BY <1>1, <1>2 DEF WrittenBytes

LEMMA CountImage ==
    ASSUME NEW N \in Nat, NEW T, NEW F \in [1..N -> T],
           \A t \in T : \E i \in 1..N : F[i] = t,
           \A i, k \in 1..N : F[i] = F[k] => i = k
    PROVE  IsFiniteSet(T) /\ Cardinality(T) = N
<1>1. IsFiniteSet(1..N) /\ Cardinality(1..N) = N
  <2>1. 1 \in Int /\ N \in Int /\ (IF 1 > N THEN 0 ELSE N - 1 + 1) = N  OBVIOUS
  <2> QED  BY <2>1, FS_Interval
<1>2. F \in Surjection(1..N, T)  BY DEF Surjection
<1>3. F \in Injection(1..N, T)  BY DEF Injection, IsInjective
<1> QED  BY <1>1, <1>2, <1>3, FS_Surjection

LEMMA CountUnion ==
    ASSUME NEW S, NEW T, IsFiniteSet(S), IsFiniteSet(T), S \cap T = {}
    PROVE  IsFiniteSet(S \cup T) /\ Cardinality(S \cup T) = Cardinality(S) + Cardinality(T)
<1>1. Cardinality(S) \in Nat /\ Cardinality(T) \in Nat /\ Cardinality({}) = 0
  BY FS_CardinalityType, FS_EmptySet
<1>2. /\ IsFiniteSet(S \cup T)
      /\ Cardinality(S \cup T) = Cardinality(S) + Cardinality(T) - Cardinality(S \cap T)
  BY FS_Union
<1>3. Cardinality(S \cap T) = 0  BY <1>1
<1>4. Cardinality(S) + Cardinality(T) - 0 = Cardinality(S) + Cardinality(T)  BY <1>1
<1> QED  BY <1>2, <1>3, <1>4

\* An archive has as many places as entries, a file as many as bytes.
LEMMA CountPlaces ==
    ASSUME source \in Sources, NEW n \in Nat, NEW f \in Opened[n]
    PROVE  /\ IsFiniteSet({Place(f, i) : i \in DOMAIN f.entries})
           /\ Cardinality({Place(f, i) : i \in DOMAIN f.entries}) = Len(f.entries)
<1> DEFINE N == Len(f.entries)
           T == {Place(f, i) : i \in DOMAIN f.entries}
           F == [i \in 1..N |-> Place(f, i)]
<1>1. N \in Nat /\ DOMAIN f.entries = 1..N
  <2>1. f \in Frames  BY LevelType
  <2> QED  BY <2>1, EntriesFact
<1>2. F \in [1..N -> T] /\ \A t \in T : \E i \in 1..N : F[i] = t  BY <1>1
<1>3. \A i, k \in 1..N : F[i] = F[k] => i = k
  <2>1. ASSUME NEW i \in 1..N, NEW k \in 1..N, F[i] = F[k]  PROVE i = k
    <3>1. Place(f, i) = Place(f, k) /\ i \in DOMAIN f.entries /\ k \in DOMAIN f.entries
      BY <1>1, <2>1
    <3> QED  BY <3>1, SamePlace
  <2> QED  BY <2>1
<1> HIDE DEF F, T, N
<1>4. IsFiniteSet(T) /\ Cardinality(T) = N  BY <1>1, <1>2, <1>3, CountImage
<1> QED  BY <1>4 DEF T, N

LEMMA CountBytes ==
    ASSUME NEW p, NEW N \in Nat
    PROVE  IsFiniteSet({p} \X (1..N)) /\ Cardinality({p} \X (1..N)) = N
<1> DEFINE T == {p} \X (1..N)
           F == [i \in 1..N |-> <<p, i>>]
<1>1. F \in [1..N -> T] /\ (\A t \in T : \E i \in 1..N : F[i] = t)
      /\ (\A i, k \in 1..N : F[i] = F[k] => i = k)
  OBVIOUS
<1> HIDE DEF F, T
<1>2. IsFiniteSet(T) /\ Cardinality(T) = N  BY <1>1, CountImage
<1> QED  BY <1>2 DEF T

\* The archive that is opened, as an archive of the tree.
LEMMA ChildPlace ==
    ASSUME TypeOK, StackInv, FlattenNested
    PROVE  /\ Len(stack) \in 1..MaxNestedDepth /\ Len(stack) - 1 \in Nat
           /\ Child \in Opened[Len(stack)] /\ Child.path = Leaf
           /\ Child.entries = Contained[Entry.of]
           /\ Leaf \in Inner /\ ~Begun(Leaf)
<1>1. source \in Sources /\ HasEntry /\ Supported(Entry) /\ phase = "flatten" /\ FlattenAdmits
  BY DEF TypeOK, FlattenNested
<1>2. Len(stack) \in 1..MaxNestedDepth
  <2>1. Len(stack) \in Nat /\ Top.depth = Len(stack) - 1 /\ Top.depth + 1 <= MaxNestedDepth
    BY <1>1, EntryLimits DEF FlattenAdmits
  <2>2. Len(stack) # 0
    <3>1. Len(stack) - 1 \in Nat  BY <1>1, TopPlace
    <3> QED  BY <2>1, <3>1
  <2> QED  BY <2>1, <2>2, Limits
<1>3. /\ Len(stack) - 1 \in Nat /\ (Len(stack) - 1) + 1 = Len(stack)
      /\ Len(stack) - 1 \in 0..(MaxNestedDepth + 1)
  BY <1>2, Limits
<1>4. /\ AsOpened(Top) \in Opened[Len(stack) - 1]
      /\ Top.next \in ArchivesIn(AsOpened(Top))
      /\ Place(AsOpened(Top), Top.next) = Leaf
      /\ AsOpened(Top).entries[Top.next] = Entry
  BY <1>1, TopPlace
<1>5. Child = Inside(AsOpened(Top), Top.next)  BY AsOpenedFact DEF Child
<1>6. Child \in Opened[Len(stack)]
  <2>1. Child \in Below(Opened[Len(stack) - 1])  BY <1>4, <1>5 DEF Below
  <2> QED  BY <1>3, <2>1, OpenedDef
<1>7. Child.path = Leaf /\ Child.entries = Contained[Entry.of]
  BY <1>4, <1>5 DEF Inside, Frame, Place
<1>8. Leaf \in Inner  BY <1>3, <1>4, InnerFact
<1>9. ~Begun(Leaf)
  <2>1. ~Behind(Leaf) /\ \A k \in DOMAIN stack : stack[k].path # Leaf  BY <1>1, LeafFact
  <2>2. \A k \in 2..Len(stack) : k \in DOMAIN stack  BY DEF StackInv
  <2> QED  BY <1>1, <2>1, <2>2 DEF Begun
<1> QED  BY <1>2, <1>3, <1>6, <1>7, <1>8, <1>9

\* An archive is opened: it is counted, and so are its entries.
LEMMA CountedNested ==
    ASSUME TypeOK, StackInv, FlattenNested,
           IsFiniteSet(BegunInner), nested = Cardinality(BegunInner),
           \A p \in BegunInner : Len(p) <= MaxNestedDepth,
           IsFiniteSet(Listed), scanned = Cardinality(Listed)
    PROVE  /\ IsFiniteSet(BegunInner') /\ nested' = Cardinality(BegunInner')
           /\ \A p \in BegunInner' : Len(p) <= MaxNestedDepth
           /\ IsFiniteSet(Listed') /\ scanned' = Cardinality(Listed')
<1> DEFINE l == Len(stack)
           C == {Place(Child, i) : i \in DOMAIN Child.entries}
<1>1. /\ source \in Sources /\ source' = source /\ HasEntry /\ Supported(Entry)
      /\ phase = "flatten" /\ phase' = "flatten" /\ stack' = Append(Advanced, Child)
      /\ nested' = nested + 1 /\ scanned' = scanned + Len(Contained[Entry.of])
  BY DEF TypeOK, FlattenNested
<1>2. /\ l \in 1..MaxNestedDepth /\ l \in Nat /\ Child \in Opened[l] /\ Child.path = Leaf
      /\ Child.entries = Contained[Entry.of] /\ Leaf \in Inner /\ ~Begun(Leaf)
      /\ l \in 0..(MaxNestedDepth + 1)
  BY ChildPlace, Limits
<1>3. Leaf \in Seq(Nat) /\ Len(Leaf) = l  BY <1>1, LeafFact
<1>4. Inner' = Inner /\ Tree' = Tree  BY <1>1, SetsSame
<1>5. Len(stack') = l + 1 /\ stack'[l + 1] = Child
      /\ \A k \in 2..l : stack'[k].path = stack[k].path
  <2>1. Advanced \in Seq(Frames) /\ Len(Advanced) = l /\ Child \in Frames
    BY <1>1, AdvancedFact, PushStack
  <2>2. /\ Len(stack') = l + 1 /\ stack'[l + 1] = Child
        /\ \A k \in 1..l : stack'[k] = Advanced[k]
    BY <1>1, <1>2, <2>1, AppendProperties
  <2>3. \A k \in 2..l : k \in DOMAIN stack /\ k \in 1..l  BY DEF StackInv
  <2> QED  BY <1>1, <2>2, <2>3, AdvancedFact
<1> HIDE DEF l
<1>6. ASSUME NEW p \in Inner  PROVE Begun(p)' <=> Begun(p) \/ p = Leaf
  <2>1. PICK n \in 0..(MaxNestedDepth + 1) : \E f \in Opened[n] : \E i \in ArchivesIn(f) :
           p = Place(f, i)
    BY InnerFact
  <2>2. PICK f \in Opened[n] : \E i \in ArchivesIn(f) : p = Place(f, i)  BY <2>1
  <2>3. PICK i \in ArchivesIn(f) : p = Place(f, i)  BY <2>2
  <2>4. n \in Nat /\ i \in DOMAIN f.entries  BY DEF ArchivesIn
  <2>5. Behind(Place(f, i))' <=> Behind(Place(f, i))  BY <1>1, <2>4, BehindPush
  <2>6. Behind(p)' <=> Behind(p)  BY <2>3, <2>5 DEF Behind
  <2>7. (\E k \in 2..Len(stack') : p = stack'[k].path)
        <=> (\E k \in 2..l : p = stack[k].path) \/ p = Leaf
    <3>1. l + 1 \in 2..(l + 1) /\ \A k \in 2..(l + 1) : k = l + 1 \/ k \in 2..l
      BY <1>2
    <3>2. \A k \in 2..l : k \in 2..(l + 1)  BY <1>2
    <3> QED  BY <1>2, <1>5, <3>1, <3>2
  <2> QED  BY <1>1, <2>6, <2>7 DEF Begun, l
<1>7. BegunInner' = BegunInner \cup {Leaf} /\ Leaf \notin BegunInner
  BY <1>2, <1>4, <1>6 DEF BegunInner
<1>8. IsFiniteSet(BegunInner') /\ nested' = Cardinality(BegunInner')
  BY <1>1, <1>7, FS_AddElement
<1>9. \A p \in BegunInner' : Len(p) <= MaxNestedDepth
  BY <1>2, <1>3, <1>7
<1>10. Child \in Tree /\ Child.path # <<>>
  BY <1>2, <1>3 DEF Tree
<1>11. ASSUME NEW f \in Tree, f.path = Leaf  PROVE f = Child
  <2>1. PICK n \in 0..(MaxNestedDepth + 1) : f \in Opened[n]  BY DEF Tree
  <2>2. n \in Nat /\ Len(f.path) = n  BY <1>1, <2>1, LevelType
  <2>3. n = l  BY <1>3, <1>11, <2>2
  <2> QED  BY <1>1, <1>2, <1>11, <2>1, <2>3, OnePlace DEF Agree
<1>12. Listed' = Listed \cup C
  <2> DEFINE old == {g \in Tree : g.path = <<>> \/ g.path \in BegunInner}
             of(f) == {Place(f, i) : i \in DOMAIN f.entries}
  <2>1. {g \in Tree : g.path = <<>> \/ g.path \in BegunInner'} = old \cup {Child}
    BY <1>2, <1>7, <1>10, <1>11
  <2>2. Listed = UNION {of(f) : f \in old} /\ Listed' = UNION {of(f) : f \in old \cup {Child}}
    BY <1>4, <2>1 DEF Listed
  <2>3. C = of(Child)  OBVIOUS
  <2> HIDE DEF old, of, C
  <2> QED  BY <2>2, <2>3
<1>13. Listed \cap C = {}
  <2>1. SUFFICES ASSUME NEW f \in Tree, f.path = <<>> \/ f.path \in BegunInner,
                        NEW i \in DOMAIN f.entries, NEW k \in DOMAIN Child.entries,
                        Place(f, i) = Place(Child, k)
                 PROVE  FALSE
    BY DEF Listed
  <2>2. PICK n \in 0..(MaxNestedDepth + 1) : f \in Opened[n]  BY DEF Tree
  <2>3. n \in Nat  OBVIOUS
  <2>4. f = Child  BY <1>1, <1>2, <2>1, <2>2, <2>3, SamePlace
  <2> QED  BY <1>2, <1>7, <1>10, <2>1, <2>4
<1>14. IsFiniteSet(C) /\ Cardinality(C) = Len(Contained[Entry.of])
  BY <1>1, <1>2, CountPlaces
<1> HIDE DEF C
<1>15. IsFiniteSet(Listed') /\ Cardinality(Listed') = Cardinality(Listed) + Cardinality(C)
  BY <1>12, <1>13, <1>14, CountUnion
<1> QED  BY <1>1, <1>8, <1>9, <1>14, <1>15

\* A file is written: its bytes are counted.
LEMMA CountedLeaf ==
    ASSUME TypeOK, StackInv, FlattenLeaf,
           IsFiniteSet(WrittenBytes), bytes = Cardinality(WrittenBytes)
    PROVE  IsFiniteSet(WrittenBytes') /\ bytes' = Cardinality(WrittenBytes')
<1> DEFINE B == {Leaf} \X (1..Entry.size)
           F == AsOpened(Top)
<1>1. /\ source \in Sources /\ source' = source /\ HasEntry /\ ~ArchiveLike(Entry)
      /\ stack' = Advanced /\ phase = "flatten" /\ phase' = "flatten"
      /\ bytes' = bytes + Entry.size
  BY DEF TypeOK, FlattenLeaf
<1>2. PICK m \in 0..MaxNestedDepth : m = Len(stack) - 1  BY <1>1, TopPlace
<1>3. /\ m \in Nat /\ m \in 0..(MaxNestedDepth + 1) /\ F \in Opened[m]
      /\ Top.next \in FilesIn(F) /\ Top.next \in DOMAIN F.entries
      /\ F.entries[Top.next] = Entry /\ Place(F, Top.next) = Leaf
  BY <1>1, <1>2, TopPlace, Limits
<1>4. Entry.size \in Nat /\ ~Behind(Leaf)  BY <1>1, EntryLimits, LeafFact
<1> HIDE DEF F
<1>5. Bytes' = Bytes  BY <1>1, SetsSame
<1>6. B \subseteq Bytes  BY <1>3, BytesFact
<1>7. ASSUME NEW b \in Bytes
      PROVE  /\ b[1] = Leaf => b \in B
             /\ Behind(b[1])' <=> Behind(b[1]) \/ b[1] = Leaf
  <2>1. PICK n \in 0..(MaxNestedDepth + 1) : \E f \in Opened[n] : \E i \in FilesIn(f) :
           b \in {Place(f, i)} \X (1..f.entries[i].size)
    BY BytesFact
  <2>2. PICK f \in Opened[n] : \E i \in FilesIn(f) : b \in {Place(f, i)} \X (1..f.entries[i].size)
    BY <2>1
  <2>3. PICK i \in FilesIn(f) : b \in {Place(f, i)} \X (1..f.entries[i].size)  BY <2>2
  <2>4. n \in Nat /\ b[1] = Place(f, i) /\ i \in DOMAIN f.entries  BY <2>3 DEF FilesIn
  <2>5. Behind(Place(f, i))' <=> Behind(Place(f, i)) \/ Place(f, i) = Leaf
    BY <1>1, <2>4, BehindAdvance
  <2>6. Behind(b[1])' <=> Behind(b[1]) \/ b[1] = Leaf  BY <2>4, <2>5 DEF Behind
  <2>7. ASSUME b[1] = Leaf  PROVE b \in B
    <3>1. Place(f, i) = Place(F, Top.next)  BY <1>3, <2>4, <2>7
    <3>2. n \in Nat /\ i \in DOMAIN f.entries  BY <2>4
    <3>3. PICK j \in DOMAIN F.entries : j = Top.next  BY <1>3
    <3>4. f = F /\ i = j  BY <1>1, <1>3, <3>1, <3>2, <3>3, SamePlace
    <3> QED  BY <1>3, <2>3, <3>3, <3>4
  <2> QED  BY <2>6, <2>7
<1>8. \A b \in B : b[1] = Leaf  OBVIOUS
<1> HIDE DEF B
<1>9. WrittenBytes' = WrittenBytes \cup B /\ WrittenBytes \cap B = {}
  <2>1. \A b \in Bytes : (b[1] = Leaf) <=> b \in B  BY <1>7, <1>8
  <2>2. WrittenBytes = {b \in Bytes : Behind(b[1])}
    BY <1>1 DEF WrittenBytes, Walked
  <2>3. WrittenBytes' = {b \in Bytes : Behind(b[1])'}
    BY <1>1, <1>5 DEF WrittenBytes, Walked
  <2>4. \A b \in B : ~Behind(b[1])  BY <1>4, <1>8 DEF Behind
  <2> QED  BY <1>6, <1>7, <2>1, <2>2, <2>3, <2>4
<1>10. IsFiniteSet(B) /\ Cardinality(B) = Entry.size  BY <1>4, CountBytes DEF B
<1>11. IsFiniteSet(WrittenBytes') /\ Cardinality(WrittenBytes') = Cardinality(WrittenBytes) + Cardinality(B)
  BY <1>9, <1>10, CountUnion
<1> QED  BY <1>1, <1>10, <1>11

LEMMA CountedStart ==
    ASSUME TypeOK, StackInv, StartFlatten, nested = 0, bytes = 0
    PROVE  /\ IsFiniteSet(BegunInner') /\ nested' = Cardinality(BegunInner')
           /\ \A p \in BegunInner' : Len(p) <= MaxNestedDepth
           /\ IsFiniteSet(Listed') /\ scanned' = Cardinality(Listed')
           /\ IsFiniteSet(WrittenBytes') /\ bytes' = Cardinality(WrittenBytes')
<1>1. /\ source \in Sources /\ source' = source /\ phase' = "flatten" /\ stack' = <<Root>>
      /\ nested' = 0 /\ bytes' = 0 /\ scanned' = Len(source.entries)
  BY DEF TypeOK, StartFlatten
<1>2. Inner' = Inner /\ Bytes' = Bytes /\ Tree' = Tree  BY <1>1, SetsSame
<1>3. BegunInner' = {}
  <2>1. ASSUME NEW p \in Inner  PROVE ~Begun(p)'
    <3>1. PICK n \in 0..(MaxNestedDepth + 1) : \E f \in Opened[n] : \E i \in ArchivesIn(f) :
             p = Place(f, i)
      BY InnerFact
    <3>2. PICK f \in Opened[n] : \E i \in ArchivesIn(f) : p = Place(f, i)  BY <3>1
    <3>3. PICK i \in ArchivesIn(f) : p = Place(f, i)  BY <3>2
    <3>4. n \in Nat /\ i \in DOMAIN f.entries  BY DEF ArchivesIn
    <3>5. ~Behind(Place(f, i))'  BY <1>1, <3>4, BehindEnds
    <3>6. ~Behind(p)'  BY <3>3, <3>5 DEF Behind
    <3>7. ~(\E k \in 2..Len(stack') : p = stack'[k].path)  BY <1>1
    <3> QED  BY <1>1, <3>6, <3>7 DEF Begun
  <2> QED  BY <1>2, <2>1 DEF BegunInner
<1>4. WrittenBytes' = {}
  <2>1. ASSUME NEW b \in Bytes  PROVE ~Walked(b[1])'
    <3>1. PICK n \in 0..(MaxNestedDepth + 1) : \E f \in Opened[n] : \E i \in FilesIn(f) :
             b \in {Place(f, i)} \X (1..f.entries[i].size)
      BY BytesFact
    <3>2. PICK f \in Opened[n] : \E i \in FilesIn(f) : b \in {Place(f, i)} \X (1..f.entries[i].size)
      BY <3>1
    <3>3. PICK i \in FilesIn(f) : b \in {Place(f, i)} \X (1..f.entries[i].size)  BY <3>2
    <3>4. n \in Nat /\ i \in DOMAIN f.entries /\ b[1] = Place(f, i)  BY <3>3 DEF FilesIn
    <3>5. ~Behind(Place(f, i))'  BY <1>1, <3>4, BehindEnds
    <3>6. ~Behind(b[1])'  BY <3>4, <3>5 DEF Behind
    <3> QED  BY <1>1, <3>6 DEF Walked
  <2> QED  BY <1>2, <2>1 DEF WrittenBytes
<1>5. Listed' = {Place(Root, i) : i \in DOMAIN Root.entries}
  <2>1. \A f \in Tree : f.path = <<>> <=> f = Root
    <3>1. ASSUME NEW f \in Tree, f.path = <<>>  PROVE f = Root
      <4>1. PICK n \in 0..(MaxNestedDepth + 1) : f \in Opened[n]  BY DEF Tree
      <4>2. n \in Nat /\ Len(f.path) = n  BY <1>1, <4>1, LevelType
      <4>3. n = 0  BY <3>1, <4>2
      <4> QED  BY <4>1, <4>3, OpenedDef
    <3> QED  BY <3>1 DEF Root, Frame
  <2>2. Root \in Tree
    <3>1. 0 \in 0..(MaxNestedDepth + 1) /\ Root \in Opened[0]  BY Limits, OpenedDef
    <3> QED  BY <3>1 DEF Tree
  <2>3. {g \in Tree : g.path = <<>> \/ g.path \in BegunInner'} = {Root}
    BY <1>3, <2>1, <2>2
  <2>4. Listed' = UNION {{Place(f, i) : i \in DOMAIN f.entries} : f \in {Root}}
    BY <1>2, <2>3 DEF Listed
  <2> QED  BY <2>4
<1>6. IsFiniteSet(Listed') /\ Cardinality(Listed') = Len(source.entries)
  <2>1. 0 \in Nat /\ Root \in Opened[0] /\ Root.entries = source.entries
    BY OpenedDef DEF Root, Frame
  <2> QED  BY <1>1, <1>5, <2>1, CountPlaces
<1> QED  BY <1>1, <1>3, <1>4, <1>6, FS_EmptySet

LEMMA CountedStep ==
    ASSUME TypeOK, StackInv, Counted, Next
    PROVE  Counted'
<1>1. source' = source  BY StackActions
<1>2. Job => /\ IsFiniteSet(BegunInner) /\ nested = Cardinality(BegunInner)
             /\ \A p \in BegunInner : Len(p) <= MaxNestedDepth
             /\ IsFiniteSet(Listed) /\ scanned = Cardinality(Listed)
             /\ IsFiniteSet(WrittenBytes) /\ bytes = Cardinality(WrittenBytes)
  BY DEF Counted
<1>3. CASE PreviewStart \/ PreviewNested \/ PreviewLeaf \/ PreviewDone \/ PreviewFails
           \/ (Leave /\ phase # "flatten")
  BY <1>3 DEF PreviewStart, PreviewNested, PreviewLeaf, PreviewDone, PreviewFails, Planned, Leave,
     Counted, Job
<1>4. CASE PublishPlain
  <2>1. phase' = "done" /\ Plain(source')  BY <1>1, <1>4 DEF PublishPlain
  <2> QED  BY <2>1 DEF Counted, Job
<1>5. CASE StartFlatten
  <2>1. phase = "inspect" /\ phase' = "flatten"  BY <1>5 DEF StartFlatten
  <2>2. nested = 0 /\ bytes = 0  BY <2>1 DEF Counted
  <2> QED  BY <1>5, <2>1, <2>2, CountedStart DEF Counted
<1>6. CASE FlattenNested
  <2>1. phase = "flatten" /\ phase' = "flatten" /\ bytes' = bytes  BY <1>6 DEF FlattenNested
  <2>2. WrittenBytes' = WrittenBytes
    <3>1. \A n \in Nat : \A f \in Opened[n] : \A i \in FilesIn(f) :
             Walked(Place(f, i))' <=> Walked(Place(f, i))
      BY <1>6, WalkedStep
    <3> QED  BY <1>1, <3>1, BytesKept
  <2>3. Job  BY <2>1 DEF Job
  <2>4. /\ IsFiniteSet(BegunInner') /\ nested' = Cardinality(BegunInner')
        /\ \A p \in BegunInner' : Len(p) <= MaxNestedDepth
        /\ IsFiniteSet(Listed') /\ scanned' = Cardinality(Listed')
    BY <1>2, <1>6, <2>3, CountedNested
  <2> QED  BY <1>2, <2>1, <2>2, <2>3, <2>4 DEF Counted
<1>7. CASE FlattenLeaf
  <2>1. phase = "flatten" /\ phase' = "flatten" /\ nested' = nested /\ scanned' = scanned
    BY <1>7 DEF FlattenLeaf
  <2>2. BegunInner' = BegunInner /\ Listed' = Listed
    <3>1. \A n \in Nat : \A f \in Opened[n] : \A i \in ArchivesIn(f) :
             Begun(Place(f, i))' <=> Begun(Place(f, i))
      BY <1>7, BegunStep
    <3> QED  BY <1>1, <3>1, BegunKept
  <2>3. Job  BY <2>1 DEF Job
  <2>4. IsFiniteSet(WrittenBytes') /\ bytes' = Cardinality(WrittenBytes')
    BY <1>2, <1>7, <2>3, CountedLeaf
  <2> QED  BY <1>2, <2>1, <2>2, <2>3, <2>4 DEF Counted
<1>8. CASE (Leave /\ phase = "flatten") \/ FlattenDone \/ (Split /\ Job)
  <2>1. /\ nested' = nested /\ scanned' = scanned /\ bytes' = bytes /\ Job
        /\ phase' \in {"flatten", "split", "done"}
    BY <1>8 DEF Leave, FlattenDone, Split, Job
  <2>2. BegunInner' = BegunInner /\ Listed' = Listed
    <3>1. \A n \in Nat : \A f \in Opened[n] : \A i \in ArchivesIn(f) :
             Begun(Place(f, i))' <=> Begun(Place(f, i))
      BY <1>8, BegunStep
    <3> QED  BY <1>1, <3>1, BegunKept
  <2>3. WrittenBytes' = WrittenBytes
    <3>1. \A n \in Nat : \A f \in Opened[n] : \A i \in FilesIn(f) :
             Walked(Place(f, i))' <=> Walked(Place(f, i))
      BY <1>8, WalkedStep
    <3> QED  BY <1>1, <3>1, BytesKept
  <2> QED  BY <1>2, <2>1, <2>2, <2>3 DEF Counted
<1>9. CASE Fail
  BY <1>9 DEF Fail, Counted, Job
<1>10. CASE Split  BY <1>8, <1>10 DEF Split, Job
<1> QED  BY <1>3, <1>4, <1>5, <1>6, <1>7, <1>8, <1>9, <1>10 DEF Next

-----------------------------------------------------------------------------
(* The invariant holds.                                                       *)

LEMMA InitInv == Init => IInv
<1> SUFFICES ASSUME Init  PROVE IInv
  OBVIOUS
<1>1. /\ source \in Sources /\ phase = "preview" /\ stack = <<>> /\ archives = 0 /\ scanned = 0
      /\ bytes = 0 /\ nested = 0 /\ groups = {} /\ written = <<>>
  BY DEF Init
<1>2. Len(stack) = 0 /\ DOMAIN stack = {} /\ Len(written) = 0 /\ DOMAIN written = {}  BY <1>1
<1>3. TypeOK
  <2>1. /\ Len(stack) \in 0..StackLimit /\ scanned \in 0..ScanLimit /\ bytes \in 0..ByteLimit
    BY <1>1, <1>2, Limits DEF StackLimit, ScanLimit, ByteLimit
  <2>2. NextOK  BY <1>2 DEF NextOK
  <2> QED  BY <1>1, <1>2, <2>1, <2>2, TypeParts, Limits DEF Phases
<1>4. StackInv
  <2>1. stack \in Seq(Frames)  BY <1>1
  <2>2. 1..(Len(stack) - 1) = {}  BY <1>2
  <2> QED  BY <1>1, <1>2, <2>1, <2>2 DEF StackInv
<1>5. Recorded /\ UniqueNames
  <2>1. written \in Seq(Leaves) /\ ~Job  BY <1>1 DEF Job
  <2> QED  BY <1>1, <1>2, <2>1 DEF Recorded, UniqueNames
<1>6. Foreseen
  <2>1. \A p : ~Behind(p)  BY <1>2 DEF Behind
  <2> QED  BY <1>1, <2>1 DEF Foreseen
<1>7. Counted  BY <1>1 DEF Counted, Job
<1> QED  BY <1>3, <1>4, <1>5, <1>6, <1>7 DEF IInv

LEMMA NextInv == IInv /\ [Next]_vars => IInv'
<1> SUFFICES ASSUME IInv, [Next]_vars  PROVE IInv'
  OBVIOUS
<1>1. TypeOK /\ StackInv /\ Recorded /\ UniqueNames /\ Foreseen /\ Counted  BY DEF IInv
<1>2. CASE Next
  <2>1. StackSteps /\ source' = source /\ source \in Sources
    BY <1>1, <1>2, StackActions DEF TypeOK
  <2>2. StackInv'  BY <1>1, <2>1, StackStep
  <2>3. TypeOK'
    <3>1. written \in Seq(Leaves)  BY <1>1 DEF Recorded
    <3> QED  BY <1>1, <1>2, <3>1, TypeStep
  <2>4. Recorded' /\ UniqueNames'  BY <1>1, <1>2, RecordedStep
  <2>5. Foreseen'  BY <1>1, <1>2, ForeseenStep
  <2>6. Counted'  BY <1>1, <1>2, CountedStep
  <2> QED  BY <2>2, <2>3, <2>4, <2>5, <2>6 DEF IInv
<1>3. CASE UNCHANGED vars
  <2>1. /\ source' = source /\ phase' = phase /\ stack' = stack /\ archives' = archives
        /\ scanned' = scanned /\ bytes' = bytes /\ nested' = nested /\ groups' = groups
        /\ predicted' = predicted /\ written' = written /\ published' = published
    BY <1>3 DEF vars
  <2>2. TypeOK'  BY <1>1, <2>1 DEF TypeOK
  <2>3. /\ Opened' = Opened /\ Inner' = Inner /\ Bytes' = Bytes /\ Tree' = Tree
        /\ AllGroups' = AllGroups /\ Outputs' = Outputs /\ RawOutputs' = RawOutputs
    BY <2>1, OpenedSame, SetsSame, AllGroupsSame, OutputsSame
  <2>4. StackInv'  BY <1>1, <2>1, <2>3 DEF StackInv
  <2>5. /\ \A p : Behind(p)' <=> Behind(p)
        /\ \A p : Walked(p)' <=> Walked(p)
        /\ \A p : Begun(p)' <=> Begun(p)
        /\ Job' <=> Job
    BY <2>1 DEF Behind, Bound, Walked, Begun, Job
  <2>6. Recorded'
    <3>1. ASSUME Job  PROVE AllWritten' /\ OnlyFiles' /\ Once'
      <4>1. AllWritten /\ OnlyFiles /\ Once  BY <1>1, <3>1 DEF Recorded
      <4> QED  BY <2>1, <2>5, <4>1, WrittenKept
    <3> QED  BY <1>1, <2>1, <2>3, <2>5, <3>1 DEF Recorded
  <2>7. UniqueNames'  BY <1>1, <2>1, NamesSame
  <2>8. Foreseen'  BY <1>1, <2>1, <2>3, <2>5 DEF Foreseen
  <2>9. Counted'
    <3>1. BegunInner' = BegunInner /\ Listed' = Listed  BY <2>1, <2>5, BegunKept
    <3>2. WrittenBytes' = WrittenBytes  BY <2>1, <2>5, BytesKept
    <3> QED  BY <1>1, <2>1, <2>5, <3>1, <3>2 DEF Counted
  <2> QED  BY <2>2, <2>4, <2>6, <2>7, <2>8, <2>9 DEF IInv
<1> QED  BY <1>2, <1>3

LEMMA Invariant == Spec => []IInv
BY InitInv, NextInv, PTL DEF Spec

\* The dry run and the job stay within their limits and never lose track of the
\* open archives (preview.go, nested_flatten.go), whatever the archives contain.
THEOREM TypeCorrect == Spec => []TypeOK
<1>1. IInv => TypeOK  BY DEF IInv
<1> QED  BY <1>1, Invariant, PTL

\* No two files of the normalized ZIP have the same name but for case, whatever
\* names and marks the archives bring along (uniqueArchiveName).
THEOREM NamesUnique == Spec => []UniqueNames
<1>1. IInv => UniqueNames  BY DEF IInv
<1> QED  BY <1>1, Invariant, PTL

-----------------------------------------------------------------------------
(* What is published.                                                         *)

LEMMA PlainFiles ==
    ASSUME source \in Sources, Plain(source)
    PROVE  Files = {<<i>> : i \in DOMAIN source.entries}
<1>1. /\ Root \in Opened[0] /\ Root.entries = source.entries /\ Root.path = <<>>
      /\ \A f \in Opened[0] : f = Root
  BY OpenedDef DEF Root, Frame
<1>2. ArchivesIn(Root) = {} /\ FilesIn(Root) = DOMAIN source.entries
  BY <1>1 DEF Plain, ArchivesIn, FilesIn, ArchiveLike
<1>3. ASSUME NEW n \in Nat, NEW f \in Opened[n]  PROVE n = 0
  <2>1. SUFFICES ASSUME n # 0  PROVE FALSE
    OBVIOUS
  <2>2. 0 \in 0..(n - 1)  BY <2>1
  <2>3. \E g \in Opened[0] : f.path[0 + 1] \in ArchivesIn(g)  BY <2>2, Ancestor
  <2> QED  BY <1>1, <1>2, <2>3
<1>4. \A i \in DOMAIN source.entries : Place(Root, i) = <<i>>
  BY <1>1 DEF Place
<1>5. 0 \in 0..(MaxNestedDepth + 1) /\ \A n \in 0..(MaxNestedDepth + 1) : n \in Nat
  BY Limits
<1>6. ASSUME NEW p \in Files  PROVE p \in {<<i>> : i \in DOMAIN source.entries}
  <2>1. PICK n \in 0..(MaxNestedDepth + 1) : \E f \in Opened[n] : \E i \in FilesIn(f) :
           p = Place(f, i)
    BY FilesFact
  <2>2. PICK f \in Opened[n] : \E i \in FilesIn(f) : p = Place(f, i)  BY <2>1
  <2>3. f = Root  BY <1>1, <1>3, <1>5
  <2> QED  BY <1>2, <1>4, <2>2, <2>3
<1>7. ASSUME NEW i \in DOMAIN source.entries  PROVE <<i>> \in Files
  <2>1. i \in FilesIn(Root) /\ <<i>> = Place(Root, i)  BY <1>2, <1>4
  <2> QED  BY <1>1, <1>5, <2>1, FilesFact
<1> QED  BY <1>6, <1>7

LEMMA PublishedAll == IInv => NothingLost
<1> SUFFICES ASSUME IInv, phase = "done"
             PROVE  /\ UNION {p.leaves : p \in published} = Files
                    /\ \A p, q \in published : p # q => p.leaves \cap q.leaves = {}
  BY DEF NothingLost
<1>1. source \in Sources  BY DEF IInv, TypeOK
<1>2. /\ published = IF Plain(source) THEN RawOutputs ELSE Outputs
      /\ Job => AllWritten /\ OnlyFiles /\ Once
  BY DEF IInv, Recorded
<1>3. CASE Plain(source)
  <2> DEFINE leaves(g) == {<<i>> : i \in {k \in DOMAIN source.entries : RawGroup(k) = g}}
  <2>1. published = {[group |-> g, leaves |-> leaves(g)] :
                        g \in {RawGroup(i) : i \in DOMAIN source.entries}}
    BY <1>2, <1>3 DEF RawOutputs
  <2>2. \A p \in published : \E g \in {RawGroup(i) : i \in DOMAIN source.entries} :
           p = [group |-> g, leaves |-> leaves(g)] /\ p.leaves = leaves(g)
    <3> HIDE DEF leaves
    <3> QED  BY <2>1
  <2>3. \A i \in DOMAIN source.entries : \E p \in published : p.leaves = leaves(RawGroup(i))
    <3> HIDE DEF leaves
    <3>1. ASSUME NEW i \in DOMAIN source.entries
          PROVE  [group |-> RawGroup(i), leaves |-> leaves(RawGroup(i))] \in published
      BY <2>1
    <3>2. \A g : [group |-> g, leaves |-> leaves(g)].leaves = leaves(g)  OBVIOUS
    <3> QED  BY <3>1, <3>2
  <2>4. UNION {p.leaves : p \in published} = {<<i>> : i \in DOMAIN source.entries}
    <3>1. \A i \in DOMAIN source.entries : <<i>> \in leaves(RawGroup(i))  OBVIOUS
    <3>2. \A g : leaves(g) \subseteq {<<i>> : i \in DOMAIN source.entries}  OBVIOUS
    <3> HIDE DEF leaves
    <3> QED  BY <2>2, <2>3, <3>1, <3>2
  <2>5. ASSUME NEW p \in published, NEW q \in published, NEW x \in p.leaves \cap q.leaves
        PROVE  p = q
    <3>1. PICK g : p = [group |-> g, leaves |-> leaves(g)] /\ p.leaves = leaves(g)  BY <2>2
    <3>2. PICK h : q = [group |-> h, leaves |-> leaves(h)] /\ q.leaves = leaves(h)  BY <2>2
    <3>3. PICK i : x = <<i>> /\ RawGroup(i) = g  BY <3>1
    <3>4. PICK k : x = <<k>> /\ RawGroup(k) = h  BY <3>2
    <3>5. g = h  BY <3>3, <3>4
    <3> QED  BY <3>1, <3>2, <3>5
  <2> QED  BY <1>1, <1>3, <2>4, <2>5, PlainFiles
<1>4. CASE ~Plain(source)
  <2> DEFINE leaves(g) == {written[i].leaf : i \in {k \in DOMAIN written : WrittenGroup(k) = g}}
             name(g) == IF WrittenGroups = {NoFolder} THEN CommonRoot(source.entries) ELSE g
  <2>1. AllWritten /\ OnlyFiles /\ Once  BY <1>2, <1>4 DEF Job
  <2>2. published = {[group |-> name(g), leaves |-> leaves(g)] : g \in WrittenGroups}
    BY <1>2, <1>4 DEF Outputs
  <2>3. \A p \in published : \E g \in WrittenGroups :
           p = [group |-> name(g), leaves |-> leaves(g)] /\ p.leaves = leaves(g)
    <3> HIDE DEF leaves, name
    <3> QED  BY <2>2
  <2>4. \A g \in WrittenGroups : \E p \in published : p.leaves = leaves(g)
    <3> HIDE DEF leaves, name
    <3>1. \A g \in WrittenGroups : [group |-> name(g), leaves |-> leaves(g)] \in published
      BY <2>2
    <3>2. \A g : [group |-> name(g), leaves |-> leaves(g)].leaves = leaves(g)  OBVIOUS
    <3> QED  BY <3>1, <3>2
  <2>5. UNION {p.leaves : p \in published} = {written[j].leaf : j \in DOMAIN written}
    <3>1. \A j \in DOMAIN written : written[j].leaf \in leaves(WrittenGroup(j))
                                   /\ WrittenGroup(j) \in WrittenGroups
      BY DEF WrittenGroups
    <3>2. \A g : leaves(g) \subseteq {written[j].leaf : j \in DOMAIN written}  OBVIOUS
    <3> HIDE DEF leaves
    <3> QED  BY <2>3, <2>4, <3>1, <3>2
  <2>6. {written[j].leaf : j \in DOMAIN written} = Files
    <3>1. ASSUME NEW j \in DOMAIN written  PROVE written[j].leaf \in Files
      <4>1. PICK n \in 0..MaxNestedDepth : \E f \in Opened[n] : \E i \in FilesIn(f) :
               ComesFrom(j, f, i)
        BY <2>1 DEF OnlyFiles
      <4>2. n \in 0..(MaxNestedDepth + 1)  BY Limits
      <4> QED  BY <4>1, <4>2, FilesFact DEF ComesFrom
    <3>2. ASSUME NEW p \in Files  PROVE \E j \in DOMAIN written : written[j].leaf = p
      <4>1. PICK n \in 0..(MaxNestedDepth + 1) : \E f \in Opened[n] : \E i \in FilesIn(f) :
               p = Place(f, i)
        BY FilesFact
      <4>2. PICK f \in Opened[n] : \E i \in FilesIn(f) : p = Place(f, i)  BY <4>1
      <4>3. n \in Nat /\ \A i : Walked(Place(f, i))  BY DEF Walked
      <4> QED  BY <2>1, <4>2, <4>3 DEF AllWritten
    <3> QED  BY <3>1, <3>2
  <2>7. ASSUME NEW p \in published, NEW q \in published, NEW x \in p.leaves \cap q.leaves
        PROVE  p = q
    <3>1. PICK g \in WrittenGroups : p = [group |-> name(g), leaves |-> leaves(g)]
                                     /\ p.leaves = leaves(g)
      BY <2>3
    <3>2. PICK h \in WrittenGroups : q = [group |-> name(h), leaves |-> leaves(h)]
                                     /\ q.leaves = leaves(h)
      BY <2>3
    <3>3. PICK j \in DOMAIN written : x = written[j].leaf /\ WrittenGroup(j) = g  BY <3>1
    <3>4. PICK k \in DOMAIN written : x = written[k].leaf /\ WrittenGroup(k) = h  BY <3>2
    <3>5. j = k  BY <2>1, <3>3, <3>4 DEF Once
    <3>6. g = h  BY <3>3, <3>4, <3>5
    <3> QED  BY <3>1, <3>2, <3>6
  <2> QED  BY <2>5, <2>6, <2>7
<1> QED  BY <1>3, <1>4

\* A job that succeeds has published every file of the source and of the archives
\* in it, each once, however deep they are nested (zip_process.go, nested_flatten.go,
\* collection_split.go).
THEOREM NothingIsLost == Spec => []NothingLost
BY PublishedAll, Invariant, PTL

\* The files of the normalized ZIP are grouped as the files of the tree are.
LEMMA GroupsAgree ==
    ASSUME source \in Sources, phase # "flatten", AllWritten, OnlyFiles
    PROVE  WrittenGroups = AllGroups
<1>1. ASSUME NEW j \in DOMAIN written  PROVE WrittenGroup(j) \in AllGroups
  <2>1. PICK n \in 0..MaxNestedDepth : \E f \in Opened[n] : \E i \in FilesIn(f) :
           ComesFrom(j, f, i)
    BY DEF OnlyFiles
  <2>2. PICK f \in Opened[n] : \E i \in FilesIn(f) : ComesFrom(j, f, i)  BY <2>1
  <2>3. PICK i \in FilesIn(f) : ComesFrom(j, f, i)  BY <2>2
  <2>4. WrittenGroup(j) = GroupAt(f, i)  BY <2>3 DEF ComesFrom, WrittenGroup, GroupAt
  <2>5. n \in Nat  OBVIOUS
  <2> QED  BY <2>4, <2>5, AllGroupsFact
<1>2. ASSUME NEW n \in Nat, NEW f \in Opened[n], NEW i \in FilesIn(f)
      PROVE  \E j \in DOMAIN written : WrittenGroup(j) = GroupAt(f, i)
  <2>1. PICK j \in DOMAIN written : written[j].leaf = Place(f, i)
    BY DEF AllWritten, Walked
  <2>2. PICK m \in 0..MaxNestedDepth : \E g \in Opened[m] : \E k \in FilesIn(g) :
           ComesFrom(j, g, k)
    BY DEF OnlyFiles
  <2>3. PICK g \in Opened[m] : \E k \in FilesIn(g) : ComesFrom(j, g, k)  BY <2>2
  <2>4. PICK k \in FilesIn(g) : ComesFrom(j, g, k)  BY <2>3
  <2>5. m \in Nat /\ i \in DOMAIN f.entries /\ k \in DOMAIN g.entries  BY DEF FilesIn
  <2>6. Place(f, i) = Place(g, k)  BY <2>1, <2>4 DEF ComesFrom
  <2>7. f = g /\ i = k  BY <2>5, <2>6, SamePlace
  <2> QED  BY <2>4, <2>7 DEF ComesFrom, WrittenGroup, GroupAt
<1> QED  BY <1>1, <1>2 DEF WrittenGroups, AllGroups

LEMMA PlannedGroups == IInv => PreviewAgrees
<1> SUFFICES ASSUME IInv, phase = "done", predicted # {}, ~Plain(source)
             PROVE  predicted = {p.group : p \in published}
  BY DEF PreviewAgrees
<1>1. source \in Sources /\ predicted = Preferred(AllGroups, source.entries)
  BY DEF IInv, TypeOK, Foreseen
<1>2. AllWritten /\ OnlyFiles /\ published = Outputs
  BY DEF IInv, Recorded, Job
<1>3. WrittenGroups = AllGroups  BY <1>1, <1>2, GroupsAgree
<1> DEFINE leaves(g) == {written[i].leaf : i \in {k \in DOMAIN written : WrittenGroup(k) = g}}
           name(g) == IF WrittenGroups = {NoFolder} THEN CommonRoot(source.entries) ELSE g
<1>4. published = {[group |-> name(g), leaves |-> leaves(g)] : g \in WrittenGroups}
  BY <1>2 DEF Outputs
<1>5. {p.group : p \in published} = {name(g) : g \in WrittenGroups}
  <2> HIDE DEF leaves, name
  <2>1. \A g \in WrittenGroups : [group |-> name(g), leaves |-> leaves(g)] \in published
    BY <1>4
  <2>2. \A g : [group |-> name(g), leaves |-> leaves(g)].group = name(g)  OBVIOUS
  <2>3. \A p \in published : \E g \in WrittenGroups :
           p = [group |-> name(g), leaves |-> leaves(g)]
    BY <1>4
  <2>4. ASSUME NEW p \in published  PROVE p.group \in {name(g) : g \in WrittenGroups}
    <3>1. PICK g \in WrittenGroups : p = [group |-> name(g), leaves |-> leaves(g)]
      BY <2>3
    <3>2. p.group = name(g)  BY <3>1, <2>2
    <3> QED  BY <3>2
  <2>5. ASSUME NEW g \in WrittenGroups  PROVE name(g) \in {p.group : p \in published}
    <3> DEFINE r == [group |-> name(g), leaves |-> leaves(g)]
    <3>1. r \in published /\ r.group = name(g)  BY <2>1, <2>2
    <3> HIDE DEF r
    <3> QED  BY <3>1
  <2> QED  BY <2>4, <2>5
<1>6. {name(g) : g \in WrittenGroups} = Preferred(WrittenGroups, source.entries)
  BY DEF Preferred
<1> QED  BY <1>1, <1>3, <1>5, <1>6

\* Where the archive is normalized, a plan that was shown names exactly the outputs
\* the job publishes, although the two walk the archive by themselves and with
\* limits of their own (preview.go, collection_split.go).
THEOREM DryRunAgrees == Spec => []PreviewAgrees
BY PlannedGroups, Invariant, PTL

LEMMA CountedAll == IInv => WithinLimits
<1> SUFFICES ASSUME IInv, phase = "done", ~Plain(source)
             PROVE  /\ \A p \in Inner : Len(p) <= MaxNestedDepth
                    /\ Cardinality(Inner) <= MaxNestedArchives
                    /\ Cardinality(Files) + Cardinality(Inner) <= MaxArchiveEntries
                    /\ Cardinality(Bytes) <= MaxExpandedBytes
  BY DEF WithinLimits
<1>1. /\ source \in Sources
      /\ nested \in 0..MaxNestedArchives
      /\ scanned \in 0..MaxArchiveEntries
      /\ bytes \in 0..MaxExpandedBytes
  BY DEF IInv, TypeOK
<1>2. /\ IsFiniteSet(BegunInner) /\ nested = Cardinality(BegunInner)
      /\ \A p \in BegunInner : Len(p) <= MaxNestedDepth
      /\ IsFiniteSet(Listed) /\ scanned = Cardinality(Listed)
      /\ IsFiniteSet(WrittenBytes) /\ bytes = Cardinality(WrittenBytes)
  BY DEF IInv, Counted, Job
<1>3. BegunInner = Inner /\ WrittenBytes = Bytes
  BY DEF BegunInner, Begun, WrittenBytes, Walked
<1>4. ASSUME NEW n \in 0..(MaxNestedDepth + 1), NEW f \in Opened[n], NEW i \in DOMAIN f.entries
      PROVE  Place(f, i) \in Listed
  <2>1. f \in Tree  BY DEF Tree
  <2>2. f.path = <<>> \/ f.path \in Inner
    <3>1. CASE n = 0  BY <3>1, OpenedDef DEF Root, Frame
    <3>2. CASE n # 0
      <4>1. PICK m \in 0..(MaxNestedDepth + 1) : m \in Nat /\ n = m + 1
        <5>1. n - 1 \in 0..(MaxNestedDepth + 1) /\ n - 1 \in Nat /\ n = (n - 1) + 1
          BY <3>2, Limits
        <5> QED  BY <5>1
      <4>2. \E g \in Opened[m] : \E k \in ArchivesIn(g) : f.path = Place(g, k)
        BY <1>1, <4>1, BelowFact DEF Place
      <4> QED  BY <4>2, InnerFact
    <3> QED  BY <3>1, <3>2
  <2> QED  BY <1>3, <2>1, <2>2 DEF Listed
<1>5. Files \cup Inner \subseteq Listed
  <2>1. ASSUME NEW p \in Files  PROVE p \in Listed
    <3>1. PICK n \in 0..(MaxNestedDepth + 1) : \E f \in Opened[n] : \E i \in FilesIn(f) :
             p = Place(f, i)
      BY FilesFact
    <3>2. \A f \in Opened[n] : \A i \in FilesIn(f) : i \in DOMAIN f.entries  BY DEF FilesIn
    <3> QED  BY <1>4, <3>1, <3>2
  <2>2. ASSUME NEW p \in Inner  PROVE p \in Listed
    <3>1. PICK n \in 0..(MaxNestedDepth + 1) : \E f \in Opened[n] : \E i \in ArchivesIn(f) :
             p = Place(f, i)
      BY InnerFact
    <3>2. \A f \in Opened[n] : \A i \in ArchivesIn(f) : i \in DOMAIN f.entries  BY DEF ArchivesIn
    <3> QED  BY <1>4, <3>1, <3>2
  <2> QED  BY <2>1, <2>2
<1>6. Files \cap Inner = {}
  <2>1. SUFFICES ASSUME NEW p \in Files, p \in Inner  PROVE FALSE
    OBVIOUS
  <2>2. PICK n \in 0..(MaxNestedDepth + 1) : \E f \in Opened[n] : \E i \in FilesIn(f) :
           p = Place(f, i)
    BY FilesFact
  <2>3. PICK f \in Opened[n] : \E i \in FilesIn(f) : p = Place(f, i)  BY <2>2
  <2>4. PICK i \in FilesIn(f) : p = Place(f, i)  BY <2>3
  <2>5. PICK m \in 0..(MaxNestedDepth + 1) : \E g \in Opened[m] : \E k \in ArchivesIn(g) :
           p = Place(g, k)
    BY <2>1, InnerFact
  <2>6. PICK g \in Opened[m] : \E k \in ArchivesIn(g) : p = Place(g, k)  BY <2>5
  <2>7. PICK k \in ArchivesIn(g) : p = Place(g, k)  BY <2>6
  <2>8. n \in Nat /\ m \in Nat /\ i \in DOMAIN f.entries /\ k \in DOMAIN g.entries
    BY DEF FilesIn, ArchivesIn
  <2>9. Place(f, i) = Place(g, k)  BY <2>4, <2>7
  <2>10. f = g /\ i = k  BY <1>1, <2>8, <2>9, SamePlace
  <2>11. f \in Frames  BY <1>1, <2>8, LevelType
  <2> QED  BY <2>10, <2>11, EntriesFact
<1>7. /\ IsFiniteSet(Files) /\ IsFiniteSet(Inner)
      /\ Cardinality(Files \cup Inner) <= Cardinality(Listed)
  <2>1. Files \in SUBSET Listed /\ Inner \in SUBSET Listed /\ Files \cup Inner \in SUBSET Listed
    BY <1>5
  <2> QED  BY <1>2, <2>1, FS_Subset
<1>8. Cardinality(Files \cup Inner) = Cardinality(Files) + Cardinality(Inner)
  BY <1>6, <1>7, CountUnion
<1>9. Cardinality(Files) + Cardinality(Inner) <= MaxArchiveEntries
  <2>1. Cardinality(Files) \in Nat /\ Cardinality(Inner) \in Nat
    BY <1>7, FS_CardinalityType
  <2>2. Cardinality(Files) + Cardinality(Inner) <= scanned  BY <1>2, <1>7, <1>8
  <2> QED  BY <1>1, <2>1, <2>2, Limits
<1> QED  BY <1>1, <1>2, <1>3, <1>9

\* What is published was within every limit of the configuration: the depth, the
\* number of archives, of entries and of bytes of the whole tree, for archives that
\* contain themselves too (nested_flatten.go).
THEOREM LimitsHold == Spec => []WithinLimits
BY CountedAll, Invariant, PTL
=============================================================================
