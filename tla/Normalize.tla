------------------------------- MODULE Normalize -------------------------------
(***************************************************************************)
(* Which files end up in which output ZIP: the dry run                     *)
(* (internal/archive/preview.go) and then the execution of one archive     *)
(* (processor.go, zip_process.go, rar_process.go, nested_flatten.go,       *)
(* collection_split.go).  Both walk the archive recursively, each with its *)
(* own limits; the walk is a stack of open archives, one action per entry. *)
(*                                                                         *)
(* A name is a sequence of folders, a base and an extension; a folder or a *)
(* base is a stem and the collision marks " (2)", " (3)", ... behind it.   *)
(* ZIP and RAR differ only in how they are listed.  "Broken" stands for    *)
(* everything the listing refuses: a damaged archive, a link, an unsafe    *)
(* name.  Publication itself is OutputPublish's subject: here all groups   *)
(* are published at once.                                                  *)
(***************************************************************************)
EXTENDS Naturals, FiniteSets, SequencesExt

CONSTANTS Sources,         \* archives that may be dropped into the inbox
          Contained,       \* the entries of the archives inside them
          Broken,          \* the inner archives whose listing is refused
          Lower,           \* strings.ToLower on the stems
          NoFolder,        \* the group "" of the files without a folder
          NoArchive,       \* an entry that is no archive
          MaxNestedDepth, MaxNestedArchives,    \* Config
          MaxArchiveEntries, MaxExpandedBytes,
          PreviewDepth, PreviewArchives,        \* constants of preview.go
          PreviewEntries, PreviewSpool

LastMark == 99999

Supported(e) == e.ext \in {"zip", "rar"}
ArchiveLike(e) == Supported(e) \/ e.ext = "7z"

Part == [stem : DOMAIN Lower, marks : Seq(Nat)]
Entries ==
    {e \in [dir : Seq(Part), base : Part, ext : STRING, of : DOMAIN Contained \cup {NoArchive},
            size : Nat] :
        Supported(e) => e.of \in DOMAIN Contained}

ASSUME NormalizeAssumption ==
    /\ \A n \in {MaxNestedDepth, MaxNestedArchives, MaxArchiveEntries, MaxExpandedBytes,
                 PreviewDepth, PreviewArchives, PreviewEntries, PreviewSpool} : n \in Nat \ {0}
    /\ Broken \subseteq DOMAIN Contained
    /\ \A a \in DOMAIN Contained : Contained[a] \in Seq(Entries)
    /\ \A s \in Sources : s.kind \in {"zip", "rar"} /\ s.entries \in Seq(Entries)

VARIABLES source,    \* the archive, [kind, entries]
          phase,     \* the dry run, the job's stages, its end
          stack,     \* the open archives, outermost first
          archives,  \* previewState.archives
          scanned,   \* entries listed so far
          bytes,     \* spooledBytes of the dry run, expandedBytes of the job
          nested,    \* flattenState.nestedArchives
          groups,    \* previewState.groups
          predicted, \* the groups the plan shows, {} if the dry run failed
          written,   \* the normalized ZIP: [name, leaf] in order
          published  \* the outputs: [group, leaves]

vars == <<source, phase, stack, archives, scanned, bytes, nested, groups, predicted,
          written, published>>

Phases == {"preview", "inspect", "flatten", "split", "done", "failed"}
TypeOK ==
    /\ source \in Sources /\ phase \in Phases
    /\ Len(stack) \in 0..(1 + IF phase = "preview" THEN PreviewDepth ELSE MaxNestedDepth)
    /\ \A i \in DOMAIN stack : /\ stack[i].depth = i - 1
                               /\ stack[i].next \in 1..(Len(stack[i].entries) + 1)
    /\ archives \in 0..PreviewArchives
    /\ scanned \in 0..(IF phase = "preview" THEN PreviewEntries ELSE MaxArchiveEntries)
    /\ bytes \in 0..(IF phase = "preview" THEN PreviewSpool ELSE MaxExpandedBytes)
    /\ nested \in 0..MaxNestedArchives
    /\ Len(written) \in 0..MaxArchiveEntries

-----------------------------------------------------------------------------
(* Names.                                                                  *)

\* commonRoot: the first folder all entries of an archive share, if any.
CommonRoot(entries) ==
    IF /\ entries # <<>>
       /\ \A i \in DOMAIN entries : entries[i].dir # <<>>
       /\ \A i \in DOMAIN entries : entries[i].dir[1] = entries[1].dir[1]
    THEN entries[1].dir[1] ELSE NoFolder

\* The shared folder is stripped from the outermost archive only.
LogicalDir(f, e) ==
    IF f.depth = 0 /\ CommonRoot(f.entries) # NoFolder THEN Tail(e.dir) ELSE e.dir

\* An archive that holds nothing but one archive adds no folder of its own.
Transparent(entries) == Len(entries) = 1 /\ ArchiveLike(entries[1])

\* nestedChildPrefix
ChildPrefix(f, e) ==
    f.prefix \o LogicalDir(f, e) \o (IF Transparent(f.entries) THEN <<>> ELSE <<e.base>>)

\* joinedArchiveName
JoinedName(f, e) ==
    [dir |-> f.prefix \o LogicalDir(f, e), base |-> e.base, ext |-> e.ext]

Fold(name) ==
    LET low(c) == [c EXCEPT !.stem = Lower[c.stem]]
    IN  [dir |-> [i \in DOMAIN name.dir |-> low(name.dir[i])], base |-> low(name.base),
         ext |-> name.ext]
Mark(name, n) == [name EXCEPT !.base.marks = Append(@, n)]
Seen == {Fold(written[i].name) : i \in DOMAIN written}

\* Variant: the names are compared as they are written, case and all.
UniqueNameCased(name) ==
    LET seen == {written[i].name : i \in DOMAIN written}
        free == {n \in 2..(Len(written) + 2) : Mark(name, n) \notin seen}
    IN  IF name \notin seen THEN name
        ELSE Mark(name, CHOOSE n \in free : \A m \in free : n <= m)

\* uniqueArchiveName: the first of name, "name (2)", "name (3)", ... that is not
\* taken; mark 0 stands for " (duplicate)".
UniqueName(name) ==
    LET free == {n \in 2..(Len(written) + 2) : Fold(Mark(name, n)) \notin Seen}
        first == CHOOSE n \in free : \A m \in free : n <= m
    IN  IF Fold(name) \notin Seen THEN name
        ELSE IF first <= LastMark THEN Mark(name, first) ELSE Mark(name, 0)

Group(dir) == IF dir = <<>> THEN NoFolder ELSE dir[1]

\* A single group of loose files takes the name of the stripped folder.
Preferred(found, entries) ==
    IF found = {NoFolder} THEN {CommonRoot(entries)} ELSE found

-----------------------------------------------------------------------------
(* The walk.                                                               *)

Frame(entries, prefix, depth, path) ==
    [entries |-> entries, prefix |-> prefix, depth |-> depth, path |-> path, next |-> 1]
Root == Frame(source.entries, <<>>, 0, <<>>)

\* The archive that is the i-th entry of an open one.
Inside(f, i) == Frame(Contained[f.entries[i].of], ChildPrefix(f, f.entries[i]), f.depth + 1,
                      Append(f.path, i))

Top == Last(stack)
HasEntry == stack # <<>> /\ Top.next <= Len(Top.entries)
Entry == Top.entries[Top.next]
Leaf == Append(Top.path, Top.next)
Advanced == [stack EXCEPT ![Len(stack)].next = @ + 1]
Child == Inside(Top, Top.next)

Init ==
    /\ source \in Sources
    /\ phase = "preview"
    /\ stack = <<>>
    /\ archives = 0 /\ scanned = 0
    /\ bytes = 0 /\ nested = 0
    /\ groups = {} /\ predicted = {}
    /\ written = <<>> /\ published = {}

\* previewArchivePath opens the source.
PreviewStart ==
    /\ phase = "preview" /\ stack = <<>>
    /\ Len(source.entries) <= PreviewEntries
    /\ stack' = <<Root>>
    /\ archives' = 1
    /\ scanned' = Len(source.entries)
    /\ UNCHANGED <<source, phase, bytes, nested, groups, predicted, written, published>>

\* previewArchivePath and the listing of the archive inside the current one.
PreviewAdmits ==
    /\ bytes + Entry.size <= PreviewSpool /\ bytes < PreviewSpool
    /\ Top.depth + 1 <= PreviewDepth
    /\ archives < PreviewArchives
    /\ Entry.of \notin Broken
    /\ scanned + Len(Contained[Entry.of]) <= PreviewEntries

PreviewNested ==
    /\ phase = "preview" /\ HasEntry
    /\ Supported(Entry) /\ PreviewAdmits
    /\ stack' = Append(Advanced, Child)
    /\ archives' = archives + 1
    /\ scanned' = scanned + Len(Contained[Entry.of])
    /\ bytes' = bytes + Entry.size
    /\ UNCHANGED <<source, phase, nested, groups, predicted, written, published>>

\* Variant: the dry run forgets the folder of the nested archive.
PreviewGroupLocal == Group(LogicalDir(Top, Entry))

\* addPreviewLeaf
PreviewGroup == Group(JoinedName(Top, Entry).dir)

PreviewLeaf ==
    /\ phase = "preview" /\ HasEntry
    /\ ~ArchiveLike(Entry)
    /\ groups' = groups \cup {PreviewGroup}
    /\ stack' = Advanced
    /\ UNCHANGED <<source, phase, archives, scanned, bytes, nested, predicted, written,
                   published>>

Leave ==
    /\ phase \in {"preview", "flatten"}
    /\ Len(stack) > 1 /\ ~HasEntry
    /\ stack' = Front(stack)
    /\ UNCHANGED <<source, phase, archives, scanned, bytes, nested, groups, predicted,
                   written, published>>

\* The plan is shown (PreviewOutputTargets), then the job starts.  After a dry
\* run that failed the job may be started all the same.
Planned(result) ==
    /\ predicted' = result
    /\ phase' = "inspect"
    /\ stack' = <<>>
    /\ scanned' = 0 /\ bytes' = 0
    /\ UNCHANGED <<source, archives, nested, groups, written, published>>

PreviewDone ==
    /\ phase = "preview" /\ Len(stack) = 1 /\ ~HasEntry
    /\ Planned(Preferred(groups, source.entries))

\* A limit, a 7z, a broken archive, or an I/O error.
PreviewFails == phase = "preview" /\ Planned({})

-----------------------------------------------------------------------------
(* The execution.                                                          *)

\* InspectZIP counts the nested archives by their names; a RAR is always
\* decoded by the recursive normalizer.
Plain(s) == s.kind = "zip" /\ \A i \in DOMAIN s.entries : ~ArchiveLike(s.entries[i])

\* zipGroups on the names as they are; every file stays in the group it is in.
RawGroup(i) == Group(source.entries[i].dir)
RawOutputs ==
    {[group |-> g, leaves |-> {<<i>> : i \in {k \in DOMAIN source.entries : RawGroup(k) = g}}] :
        g \in {RawGroup(i) : i \in DOMAIN source.entries}}

\* processZIP without nested archives: the ZIP is renamed to its only folder or
\* split by folder, and nothing is rewritten.
PublishPlain ==
    /\ phase = "inspect" /\ Plain(source)
    /\ source.entries # <<>>
    /\ published' = RawOutputs
    /\ phase' = "done"
    /\ UNCHANGED <<source, stack, archives, scanned, bytes, nested, groups, predicted, written>>

\* flattenArchiveToZIP opens the source.
StartFlatten ==
    /\ phase = "inspect" /\ ~Plain(source)
    /\ Len(source.entries) <= MaxArchiveEntries
    /\ phase' = "flatten"
    /\ stack' = <<Root>>
    /\ scanned' = Len(source.entries)
    /\ UNCHANGED <<source, archives, bytes, nested, groups, predicted, written, published>>

\* Variant: the archives are not counted.
FlattenAdmitsMany ==
    /\ Top.depth + 1 <= MaxNestedDepth
    /\ Entry.of \notin Broken
    /\ scanned + Len(Contained[Entry.of]) <= MaxArchiveEntries

\* Variant: the depth is compared one level too late.
FlattenAdmitsDeeper ==
    /\ nested < MaxNestedArchives
    /\ Top.depth <= MaxNestedDepth
    /\ Entry.of \notin Broken
    /\ scanned + Len(Contained[Entry.of]) <= MaxArchiveEntries

\* consumeNestedZIPEntry, flattenPath and the first pass over the inner archive.
FlattenAdmits ==
    /\ nested < MaxNestedArchives
    /\ Top.depth + 1 <= MaxNestedDepth
    /\ Entry.of \notin Broken
    /\ scanned + Len(Contained[Entry.of]) <= MaxArchiveEntries

FlattenNested ==
    /\ phase = "flatten" /\ HasEntry
    /\ Supported(Entry) /\ FlattenAdmits
    /\ stack' = Append(Advanced, Child)
    /\ nested' = nested + 1
    /\ scanned' = scanned + Len(Contained[Entry.of])
    /\ UNCHANGED <<source, phase, archives, bytes, groups, predicted, written, published>>

\* writeLeaf: an entry that would pass the limit on expanded bytes, or any entry
\* once the limit is reached, ends the run.
FlattenLeaf ==
    /\ phase = "flatten" /\ HasEntry
    /\ ~ArchiveLike(Entry)
    /\ Len(written) < MaxArchiveEntries
    /\ bytes < MaxExpandedBytes /\ bytes + Entry.size <= MaxExpandedBytes
    /\ written' = Append(written, [name |-> UniqueName(JoinedName(Top, Entry)), leaf |-> Leaf])
    /\ bytes' = bytes + Entry.size
    /\ stack' = Advanced
    /\ UNCHANGED <<source, phase, archives, scanned, nested, groups, predicted, published>>

\* The normalized ZIP is complete and verified (VerifyZIPNoNestedArchives).
FlattenDone ==
    /\ phase = "flatten" /\ Len(stack) = 1 /\ ~HasEntry
    /\ written # <<>>
    /\ \A i \in DOMAIN written : ~ArchiveLike(written[i].name)
    /\ phase' = "split"
    /\ stack' = <<>>
    /\ UNCHANGED <<source, archives, scanned, bytes, nested, groups, predicted, written,
                   published>>

WrittenGroup(i) == Group(written[i].name.dir)
WrittenGroups == {WrittenGroup(i) : i \in DOMAIN written}

\* Variant: loose files are dropped when there are folders beside them.
OutputsOfFolders ==
    LET found == IF WrittenGroups = {NoFolder} THEN WrittenGroups ELSE WrittenGroups \ {NoFolder}
    IN  {[group |-> CHOOSE p \in Preferred({g}, source.entries) : TRUE,
          leaves |-> {written[i].leaf : i \in {k \in DOMAIN written : WrittenGroup(k) = g}}] :
            g \in found}

\* splitNormalizedZIP: one output per top folder, loose files in the default one.
Outputs ==
    LET name(g) == IF WrittenGroups = {NoFolder} THEN CommonRoot(source.entries) ELSE g
    IN  {[group |-> name(g),
          leaves |-> {written[i].leaf : i \in {k \in DOMAIN written : WrittenGroup(k) = g}}] :
            g \in WrittenGroups}

Split ==
    /\ phase = "split"
    /\ published' = Outputs
    /\ phase' = "done"
    /\ UNCHANGED <<source, stack, archives, scanned, bytes, nested, groups, predicted, written>>

\* A limit, a 7z, a broken archive, an empty result, or an I/O error: the
\* normalized ZIP is removed and nothing is published.
Fail ==
    /\ phase \in {"inspect", "flatten", "split"}
    /\ phase' = "failed"
    /\ stack' = <<>> /\ written' = <<>>
    /\ UNCHANGED <<source, archives, scanned, bytes, nested, groups, predicted, published>>

Next == \/ PreviewStart \/ PreviewNested \/ PreviewLeaf \/ PreviewDone \/ PreviewFails \/ Leave
        \/ PublishPlain \/ StartFlatten \/ FlattenNested \/ FlattenLeaf \/ FlattenDone
        \/ Split \/ Fail

Spec == Init /\ [][Next]_vars

-----------------------------------------------------------------------------
(* Correctness.  The reference definitions go down level by level, without a *)
(* stack; an archive that contains itself has archives at every level.       *)

FilesIn(f) == {i \in DOMAIN f.entries : ~ArchiveLike(f.entries[i])}
ArchivesIn(f) == {i \in DOMAIN f.entries : Supported(f.entries[i])}

\* The archives n levels below the source.
Opened ==
    LET o[n \in Nat] ==
            IF n = 0 THEN {Root} ELSE UNION {{Inside(f, i) : i \in ArchivesIn(f)} : f \in o[n - 1]}
    IN  o

\* The archives a run within the limits can open, and one level more.
Tree == UNION {Opened[n] : n \in 0..(MaxNestedDepth + 1)}

\* The places of the files and of the inner archives, and of each byte of the files.
Files == UNION {{Append(f.path, i) : i \in FilesIn(f)} : f \in Tree}
Inner == UNION {{Append(f.path, i) : i \in ArchivesIn(f)} : f \in Tree}
Bytes == UNION {UNION {{Append(f.path, i)} \X (1..f.entries[i].size) : i \in FilesIn(f)} :
                   f \in Tree}

\* No two files of the normalized ZIP have names that a case-insensitive file
\* system takes for one, whatever folders and marks the sources bring along, as
\* long as there are fewer files than marks (uniqueArchiveName).
UniqueNames ==
    Len(written) < LastMark =>
        \A i, k \in DOMAIN written : i # k => Fold(written[i].name) # Fold(written[k].name)

\* A run that succeeds, after which the source is removed, has published every
\* file of the source and of every archive in it, each in one output and once
\* ("so nothing is lost", zip_process.go).
NothingLost ==
    phase = "done" =>
        /\ UNION {p.leaves : p \in published} = Files
        /\ \A p, q \in published : p # q => p.leaves \cap q.leaves = {}

\* Whatever is published was within every limit: no file is nested deeper, no
\* more archives were opened, no more entries read, no more bytes written than
\* the configuration allows, even for an archive that contains itself.
WithinLimits ==
    phase = "done" /\ ~Plain(source) =>
        /\ \A p \in Inner : Len(p) <= MaxNestedDepth
        /\ Cardinality(Inner) <= MaxNestedArchives
        /\ Cardinality(Files) + Cardinality(Inner) <= MaxArchiveEntries
        /\ Cardinality(Bytes) <= MaxExpandedBytes

\* Where the archive is normalized, the dry run and the job agree on the outputs:
\* a prediction that was shown names exactly the groups that are published.
PreviewAgrees ==
    phase = "done" /\ predicted # {} /\ ~Plain(source) =>
        predicted = {p.group : p \in published}

\* "PreviewOutputTargets mirrors the recursive grouping performed by Process"
\* (preview.go:42): the same, for every archive.
PreviewMirrorsProcess ==
    phase = "done" /\ predicted # {} => predicted = {p.group : p \in published}
=============================================================================
