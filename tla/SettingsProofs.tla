---------------------------- MODULE SettingsProofs ----------------------------
(***************************************************************************)
(* Theorems about SettingsStore, for any folders, aliases and number of    *)
(* requests.  A request and the scan keep what they have read while others *)
(* go on; the invariant says of each such value whether it is still true.  *)
(***************************************************************************)
EXTENDS SettingsStore, FiniteSetTheorems, TLAPS

\* Nothing of a process is left when it is down.
Down == ~up => /\ plans = {} /\ resolved = {} /\ scan = "off"
               /\ \A s \in Savers : pc[s] = "idle"

Locking == pc[Foldering] # "idle" => locked

\* A request has a file open exactly while it writes.
Handles == \A s \in Savers : handle[s] # None <=> pc[s] = "write"

\* path.tmp and path are never the same file, nor is the file being written.
Apart == tmp # None => tmp # file

Saving(s) == pc[s] \in {"write", "rename"}

\* As long as no save has begun inside another one, there is one save between
\* Open and Rename at most, and what is at path.tmp is its work.
Unshared ==
    ~clash =>
       /\ \A p, q \in Savers : Saving(p) /\ Saving(q) => p = q
       /\ \A s \in Savers : pc[s] = "write" =>
             /\ tmp \in {None, handle[s]}
             /\ handle[s] # file
             /\ body[handle[s]] = Empty
       /\ \A s \in Savers : pc[s] = "rename" /\ tmp # None => body[tmp] \in Setting

\* What a scan has read of the folders is true until it ends, and the plans belong
\* to the folders in use, or to those a change is going to restore.
Current ==
    /\ ~half => plans \subseteq {IF locked THEN old ELSE folders}
    /\ scan \in {"aliases", "resolve", "out", "finish"} => found.root = folders.root
    /\ scan = "finish" => found.out = folders.out

Fresh ==
    /\ ResolvedIsFresh
    /\ scan \in {"aliases", "resolve"} => late \/ found.names \subseteq {aliases}
    /\ scan \in {"off", "root"} => found.names = {}

\* What a request that nobody overlaps has done so far: it works alone, the organizer
\* is as it has left it, the store follows with Commit and the file with Rename.
Sole(s) ==
    /\ Working = {s}
    /\ aliases = began[s].aliases
    /\ IF s = Foldering
       THEN old = began[s].folders /\ folders = [root |-> next[s].root, out |-> next[s].out]
       ELSE folders = began[s].folders
    /\ memory = IF pc[s] = "apply" THEN next[s] ELSE began[s].memory
    /\ Now.file = IF pc[s] \in {"commit", "apply"} THEN next[s] ELSE began[s].file
    /\ pc[s] = "write" =>
          tmp = handle[s] /\ handle[s] # file /\ body[handle[s]] = Empty
    /\ pc[s] = "rename" /\ tmp # None => body[tmp] = next[s]

Snapshot == [file : Setting \cup {Empty, Torn}, memory : Setting, folders : Pair,
             aliases : SUBSET Aliases]

Alone == /\ began \in [Savers -> Snapshot]
         /\ \A s \in Working \ mixed : Sole(s)

IInv == /\ TypeOK
        /\ Down /\ Locking
        /\ Handles /\ Apart /\ Unshared /\ FileReadable
        /\ Current
        /\ Fresh
        /\ Alone

USE SettingsAssumption DEF Savers

\* The initial state satisfies the invariant.
LEMMA InitInv == Init => IInv
<1> SUFFICES ASSUME Init  PROVE IInv
  OBVIOUS
<1> USE DEF Init
<1>1. FirstSetting \in Setting /\ Plain(Default) \in Pair
  BY DEF FirstSetting, Setting, Plain, Pair
<1>2. TypeOK
  <2>1. /\ body \in [Inodes -> Setting \cup {Empty, Torn}]
        /\ pc \in [Savers -> Steps] /\ next \in [Savers -> Setting]
        /\ handle \in [Savers -> Inodes \cup {None}]
    BY <1>1 DEF Steps
  <2>2. saves \in 0..MaxSaves /\ faults \in 0..MaxFaults  OBVIOUS
  <2>3. scan \in ScanSteps /\ found \in Scanned  BY DEF ScanSteps, Unread, Scanned
  <2> QED  BY <1>1, <2>1, <2>2, <2>3 DEF TypeOK
<1>3. Down /\ Locking /\ Handles /\ Apart
  BY DEF Down, Locking, Handles, Apart
<1>4. Unshared /\ FileReadable  BY DEF Unshared, Saving, FileReadable
<1>5. Current /\ Fresh  BY DEF Current, Fresh, ResolvedIsFresh, Unread
<1>6. Alone
  <2>1. Nothing \in Snapshot  BY <1>1 DEF Nothing, Snapshot
  <2>2. Working = {}  BY DEF Working
  <2> QED  BY <2>1, <2>2 DEF Alone
<1> QED  BY <1>2, <1>3, <1>4, <1>5, <1>6 DEF IInv

-----------------------------------------------------------------------------
(* There are more inodes than can be in use, so that a new file has one.      *)

\* The requests other than s and the file leave an inode free.
LEMMA FreeInode ==
    ASSUME NEW s \in Savers
    PROVE  \E i \in Inodes : i # file /\ \A q \in Savers \ {s} : handle[q] # i
<1> DEFINE Others == Savers \ {s}
           Held == {handle[q] : q \in Others}
           holder == [q \in Others |-> handle[q]]
<1>1. IsFiniteSet(Savers) /\ Cardinality(Savers) = Cardinality(Editors) + 1
  BY FS_AddElement, Foldering \notin Editors
<1>2. IsFiniteSet(Others) /\ Cardinality(Others) = Cardinality(Editors)
      /\ Cardinality(Editors) \in Nat
  <2>1. Cardinality(Others) = Cardinality(Savers) - 1 /\ IsFiniteSet(Others)
    BY <1>1, FS_RemoveElement
  <2>2. Cardinality(Editors) \in Nat  BY FS_CardinalityType
  <2> QED  BY <1>1, <2>1, <2>2
<1>3. holder \in Surjection(Others, Held)
  BY DEF Surjection
<1> HIDE DEF holder, Held, Others
<1>4. IsFiniteSet(Held) /\ Cardinality(Held) <= Cardinality(Others)
  BY <1>2, <1>3, FS_Surjection
<1>5. Cardinality(Held) \in Nat  BY <1>4, FS_CardinalityType
<1>6. /\ IsFiniteSet(Held \cup {file}) /\ Cardinality(Held \cup {file}) \in Nat
      /\ Cardinality(Held \cup {file}) <= Cardinality(Editors) + 1
  <2>1. /\ IsFiniteSet(Held \cup {file})
        /\ Cardinality(Held \cup {file}) =
              IF file \in Held THEN Cardinality(Held) ELSE Cardinality(Held) + 1
    BY <1>4, FS_AddElement
  <2>2. Cardinality(Held \cup {file}) \in Nat  BY <2>1, FS_CardinalityType
  <2> QED  BY <1>2, <1>4, <1>5, <2>1, <2>2
<1>7. SUFFICES ASSUME Inodes \subseteq Held \cup {file}  PROVE FALSE
  BY DEF Held, Others
<1>8. Cardinality(Inodes) <= Cardinality(Held \cup {file})
      /\ Cardinality(Inodes) \in Nat
  BY <1>6, <1>7, FS_Subset, FS_CardinalityType
<1> QED  BY <1>2, <1>6, <1>8, SMT

\* Temporary is an inode, and a new one when nothing is at path.tmp.
LEMMA TemporaryFact ==
    ASSUME TypeOK, Apart, NEW s \in Savers, handle[s] = None
    PROVE  /\ Temporary \in Inodes
           /\ Temporary # file
           /\ tmp = None => \A q \in Savers : handle[q] # Temporary
<1>1. CASE tmp # None  BY <1>1 DEF Temporary, TypeOK, Apart
<1>2. CASE tmp = None
  <2> DEFINE Unused(i) == i # file /\ \A q \in Savers : handle[q] # i
  <2>1. \E i \in Inodes : Unused(i)  BY FreeInode
  <2>2. Temporary = CHOOSE i \in Inodes : Unused(i)  BY <1>2 DEF Temporary
  <2> QED  BY <1>2, <2>1, <2>2
<1> QED  BY <1>1, <1>2

-----------------------------------------------------------------------------
(* Type correctness.                                                          *)

USE DEF disk, organizer, requests, scanning, history, bounds, Goto, ScanTo

\* The end of a request.
LEMMA ReturnType ==
    ASSUME TypeOK, NEW s \in Savers, Return(s)
    PROVE  /\ pc' = [pc EXCEPT ![s] = "idle"] /\ pc' \in [Savers -> Steps]
           /\ next' \in [Savers -> Setting] /\ handle' \in [Savers -> Inodes \cup {None}]
           /\ mixed' \subseteq Savers /\ clash' \in BOOLEAN
<1>1. FirstSetting \in Setting  BY DEF FirstSetting, Setting
<1> QED  BY <1>1 DEF TypeOK, Return, Steps

LEMMA RequestType ==
    ASSUME TypeOK, NEW s \in Savers, NEW setting \in Setting, Request(s, setting)
    PROVE  /\ pc' = [pc EXCEPT ![s] = "open"] /\ pc' \in [Savers -> Steps]
           /\ next' \in [Savers -> Setting] /\ saves' \in 0..MaxSaves
           /\ mixed' \subseteq Savers
           /\ UNCHANGED <<clash, half, late>>
<1>1. mixed' \subseteq Savers  BY DEF TypeOK, Request, Working
<1>2. saves' \in 0..MaxSaves  BY DEF TypeOK, Request
<1> QED  BY <1>1, <1>2 DEF TypeOK, Request, Steps

\* What a request does keeps the types.
LEMMA SaveStepType ==
    ASSUME TypeOK, Handles, Apart, NEW s \in Savers, SaveStep(s)
    PROVE  TypeOK'
<1>1. CASE Open(s)
  <2>1. handle[s] = None  BY <1>1 DEF Open, Handles
  <2>2. Temporary \in Inodes  BY <2>1, TemporaryFact
  <2>4. clash' \in BOOLEAN  BY <1>1 DEF Open, TypeOK
  <2>5. /\ tmp' \in Inodes /\ body' \in [Inodes -> Setting \cup {Empty, Torn}]
        /\ handle' \in [Savers -> Inodes \cup {None}] /\ pc' \in [Savers -> Steps]
        /\ pc[Foldering] # "idle" => pc'[Foldering] # "idle"
    BY <1>1, <2>2 DEF Open, TypeOK, Steps
  <2> QED  BY <1>1, <2>4, <2>5 DEF Open, TypeOK
<1>2. CASE Write(s) \/ Rename(s) \/ SaveFails(s) \/ RemoveTmp(s) \/ Commit(s)
  <2>1. /\ pc' \in [Savers -> Steps]
        /\ pc[Foldering] # "idle" => pc'[Foldering] # "idle"
    BY <1>2 DEF Write, Rename, SaveFails, RemoveTmp, Commit, TypeOK, Steps
  <2>2. handle' \in [Savers -> Inodes \cup {None}]
    BY <1>2 DEF Write, Rename, SaveFails, RemoveTmp, Commit, TypeOK
  <2>3. body' \in [Inodes -> Setting \cup {Empty, Torn}]
    BY <1>2 DEF Write, Rename, SaveFails, RemoveTmp, Commit, TypeOK
  <2>4. file' \in Inodes \cup {None} /\ tmp' \in Inodes \cup {None} /\ memory' \in Setting
    BY <1>2 DEF Write, Rename, SaveFails, RemoveTmp, Commit, TypeOK
  <2>5. UNCHANGED <<present, up, organizer, next, old, locked, scanning, history, bounds>>
    BY <1>2 DEF Write, Rename, SaveFails, RemoveTmp, Commit
  <2> QED  BY <2>1, <2>2, <2>3, <2>4, <2>5 DEF TypeOK
<1>3. ASSUME s \in Editors, ApplyAliases(s) \/ AbandonAlias(s)  PROVE TypeOK'
  <2>1. Return(s)  BY <1>3 DEF ApplyAliases, AbandonAlias
  <2>2. next[s].aliases \subseteq Aliases  BY DEF TypeOK, Setting
  <2>3. pc'[Foldering] = pc[Foldering]  BY <1>3, <2>1, ReturnType DEF TypeOK
  <2>4. aliases' \subseteq Aliases /\ resolved' \subseteq SUBSET Aliases /\ late' \in BOOLEAN
        /\ tmp' \in Inodes \cup {None} /\ half' \in BOOLEAN
    BY <1>3, <2>2 DEF ApplyAliases, AbandonAlias, TypeOK
  <2>5. UNCHANGED <<file, body, present, up, memory, folders, old, locked, scanning, bounds>>
    BY <1>3 DEF ApplyAliases, AbandonAlias
  <2> QED  BY <2>1, <2>3, <2>4, <2>5, ReturnType DEF TypeOK
<1>4. CASE ApplyFolders \/ AbandonFolders
  <2>1. Return(Foldering)  BY <1>4 DEF ApplyFolders, AbandonFolders
  <2>2. old' \in Pair  BY <1>4 DEF ApplyFolders, AbandonFolders, Plain, Pair
  <2>3. folders' \in Pair  BY <1>4 DEF ApplyFolders, AbandonFolders, TypeOK, Pair
  <2>4. /\ tmp' \in Inodes \cup {None} /\ plans' \subseteq Pair
        /\ resolved' \subseteq SUBSET Aliases /\ half' \in BOOLEAN
    BY <1>4 DEF ApplyFolders, AbandonFolders, TypeOK
  <2>5. locked' = FALSE
        /\ UNCHANGED <<file, body, present, up, memory, aliases, scan, found, late, bounds>>
    BY <1>4 DEF ApplyFolders, AbandonFolders
  <2> QED  BY <2>1, <2>2, <2>3, <2>4, <2>5, ReturnType DEF TypeOK
<1> QED  BY <1>1, <1>2, <1>3, <1>4 DEF SaveStep, ApplyAliases, AbandonAlias

LEMMA ScanStepType ==
    ASSUME TypeOK, StartScan \/ ScanStep
    PROVE  TypeOK'
<1> USE DEF TypeOK, ScanSteps
<1>1. /\ scan' \in ScanSteps /\ found' \in Scanned /\ plans' \subseteq Pair
      /\ resolved' \subseteq SUBSET Aliases /\ half' \in BOOLEAN /\ late' \in BOOLEAN
      /\ (up /\ ~locked) \/ scan # "off"
  <2>1. CASE StartScan \/ ScanResolve \/ FailScan
    BY <2>1 DEF StartScan, ScanResolve, FailScan, Scanned
  <2>2. CASE ScanRoot \/ ScanPlan \/ ScanAliases \/ ScanOut
    BY <2>2 DEF ScanRoot, ScanPlan, ScanAliases, ScanOut, Scanned, Pair
  <2>3. CASE EndScan
    <3>1. Unread \in Scanned  BY DEF Unread, Scanned
    <3>2. [root |-> found.root, out |-> found.out] \in Pair  BY DEF Scanned, Pair
    <3> QED  BY <2>3, <3>1, <3>2 DEF EndScan
  <2> QED  BY <2>1, <2>2, <2>3 DEF ScanStep
<1>2. UNCHANGED <<disk, present, up, memory, folders, aliases, requests, mixed, clash, bounds>>
  BY DEF StartScan, ScanStep, ScanRoot, ScanPlan, ScanAliases, ScanResolve,
         ScanOut, EndScan, FailScan
<1> QED  BY <1>1, <1>2 DEF TypeOK

\* A saved setting, with the folders that can be used.
LEMMA LoadedFact == TypeOK => Loaded \in Setting
BY DEF TypeOK, Loaded, FirstSetting, Setting

LEMMA BootType ==
    ASSUME TypeOK, Down, Handles, Apart, Boot
    PROVE  TypeOK'
<1> DEFINE rooted == IF Loaded.root \in present THEN Loaded ELSE With(Loaded, Plain(Default))
           usable == With(rooted, [root |-> rooted.root,
                                   out |-> IF rooted.out \in present THEN rooted.out
                                           ELSE rooted.root])
<1>1. rooted \in Setting  BY LoadedFact DEF With, Plain, Setting
<1>2. usable \in Setting  BY <1>1 DEF With, Setting
<1>3. handle[Foldering] = None  BY DEF Boot, Down, Handles
<1>4. Temporary \in Inodes  BY <1>3, TemporaryFact
<1>5. /\ folders' = [root |-> usable.root, out |-> usable.out]
      /\ aliases' = usable.aliases /\ up' = TRUE
      /\ UNCHANGED <<present, resolved, requests, scanning, history, bounds>>
      /\ \/ /\ file' = Temporary /\ body' = [body EXCEPT ![file'] = usable]
            /\ tmp' = None /\ memory' = usable
         \/ /\ memory' = rooted /\ UNCHANGED <<file, body>>
            /\ tmp' = tmp \/ tmp' = None
  BY DEF Boot
<1> HIDE DEF rooted, usable
<1>6. folders' \in Pair /\ aliases' \subseteq Aliases  BY <1>2, <1>5 DEF Setting, Pair
<1>7. /\ file' \in Inodes \cup {None} /\ tmp' \in Inodes \cup {None}
      /\ body' \in [Inodes -> Setting \cup {Empty, Torn}] /\ memory' \in Setting
  BY <1>1, <1>2, <1>4, <1>5 DEF TypeOK
<1> QED  BY <1>5, <1>6, <1>7 DEF TypeOK

LEMMA TypeStep ==
    ASSUME TypeOK, Down, Handles, Apart, [Next]_vars
    PROVE  TypeOK'
<1>1. ASSUME NEW s \in Editors, EditAlias(s)  PROVE TypeOK'
  <2>1. PICK names \in {memory.aliases \cup {a} : a \in Aliases}
                          \cup {memory.aliases \ {a} : a \in Aliases} :
           Request(s, [memory EXCEPT !.aliases = names])
    BY <1>1 DEF EditAlias
  <2>2. [memory EXCEPT !.aliases = names] \in Setting  BY DEF TypeOK, Setting
  <2>3. pc'[Foldering] = pc[Foldering]  BY <2>1, <2>2, RequestType DEF TypeOK
  <2>4. UNCHANGED <<disk, present, up, memory, organizer, handle, old, locked, scanning, faults>>
    BY <1>1 DEF EditAlias
  <2> QED  BY <2>1, <2>2, <2>3, <2>4, RequestType DEF TypeOK
<1>2. ASSUME NEW p \in Pair, ChangeFolders(p)  PROVE TypeOK'
  <2>1. With(memory, p) \in Setting  BY DEF TypeOK, With, Setting, Pair
  <2>2. Request(Foldering, With(memory, p))  BY <1>2 DEF ChangeFolders
  <2>3. pc'[Foldering] = "open"  BY <2>1, <2>2, RequestType DEF TypeOK
  <2>4. /\ up /\ scan = "off" /\ old' = folders /\ folders' = p /\ resolved' = {}
        /\ locked' = TRUE
        /\ UNCHANGED <<disk, present, up, memory, aliases, handle, scanning, faults>>
    BY <1>2 DEF ChangeFolders
  <2> QED  BY <2>1, <2>2, <2>3, <2>4, RequestType DEF TypeOK
<1>3. ASSUME NEW p \in Pair, RejectOutput(p)  PROVE TypeOK'
  <2>1. /\ folders' \in Pair /\ resolved' = {} /\ mixed' \subseteq Savers
        /\ half' \in BOOLEAN
    BY <1>3 DEF RejectOutput, TypeOK, Pair, Working
  <2>2. UNCHANGED <<disk, present, up, memory, aliases, requests, scanning, clash, late, bounds>>
    BY <1>3 DEF RejectOutput
  <2> QED  BY <2>1, <2>2 DEF TypeOK
<1>4. ASSUME NEW s \in Savers, SaveStep(s)  PROVE TypeOK'
  BY <1>4, SaveStepType
<1>5. CASE StartScan \/ ScanStep  BY <1>5, ScanStepType
<1>6. CASE Crash
  <2>1. FirstSetting \in Setting /\ Plain(Default) \in Pair /\ Unread \in Scanned
    BY DEF FirstSetting, Setting, Plain, Pair, Unread, Scanned
  <2>2. /\ pc' \in [Savers -> Steps] /\ next' \in [Savers -> Setting]
        /\ handle' \in [Savers -> Inodes \cup {None}] /\ scan' \in ScanSteps
    BY <1>6, <2>1 DEF Crash, Steps, ScanSteps
  <2>3. faults' \in 0..MaxFaults  BY <1>6 DEF Crash, Fault, TypeOK
  <2>4. /\ memory' = FirstSetting /\ folders' = Plain(Default) /\ aliases' = {}
        /\ old' = Plain(Default) /\ found' = Unread /\ plans' = {} /\ resolved' = {}
        /\ mixed' = {} /\ half' = FALSE /\ late' = FALSE /\ up' = FALSE /\ locked' = FALSE
        /\ scan' = "off" /\ UNCHANGED <<disk, present, clash, saves>>
    BY <1>6 DEF Crash
  <2> QED  BY <2>1, <2>2, <2>3, <2>4 DEF TypeOK
<1>7. CASE Boot  BY <1>7, BootType
<1>8. ASSUME NEW f \in Folders, Unmount(f) \/ Mount(f)  PROVE TypeOK'
  <2>1. present' \subseteq Folders /\ faults' \in 0..MaxFaults
    BY <1>8 DEF Unmount, Mount, Fault, TypeOK
  <2>2. UNCHANGED <<disk, up, memory, organizer, requests, scanning, history, saves>>
    BY <1>8 DEF Unmount, Mount
  <2> QED  BY <2>1, <2>2 DEF TypeOK
<1>9. CASE UNCHANGED vars  BY <1>9 DEF TypeOK, vars
<1> QED  BY <1>1, <1>2, <1>3, <1>4, <1>5, <1>6, <1>7, <1>8, <1>9 DEF Next

-----------------------------------------------------------------------------
(* Who holds what.                                                            *)

\* A process that is down has no request, no scan, and nothing in memory.
LEMMA DownStep ==
    ASSUME TypeOK, Down, [Next]_vars
    PROVE  Down'
<1> USE DEF Down
<1>1. ASSUME NEW s \in Editors, EditAlias(s)  PROVE Down'
  BY <1>1 DEF EditAlias
<1>2. ASSUME NEW p \in Pair, ChangeFolders(p) \/ RejectOutput(p)  PROVE Down'
  BY <1>2 DEF ChangeFolders, RejectOutput
<1>3. ASSUME NEW s \in Savers, SaveStep(s)  PROVE Down'
  <2>1. pc[s] # "idle" /\ up' = up
    BY <1>3 DEF SaveStep, Open, Write, Rename, SaveFails, RemoveTmp, Commit, ApplyAliases,
                AbandonAlias, ApplyFolders, AbandonFolders
  <2> QED  BY <2>1
<1>4. CASE StartScan \/ ScanStep
  BY <1>4 DEF StartScan, ScanStep, ScanRoot, ScanPlan, ScanAliases, ScanResolve,
              ScanOut, EndScan, FailScan
<1>5. CASE Crash \/ Boot  BY <1>5 DEF Crash, Boot
<1>6. ASSUME NEW f \in Folders, Unmount(f) \/ Mount(f)  PROVE Down'
  BY <1>6 DEF Unmount, Mount
<1>7. CASE UNCHANGED vars  BY <1>7 DEF vars
<1> QED  BY <1>1, <1>2, <1>3, <1>4, <1>5, <1>6, <1>7 DEF Next

\* The request that changes folders holds st.mu until it ends.
LEMMA LockingStep ==
    ASSUME TypeOK, Locking, [Next]_vars
    PROVE  Locking'
<1> USE DEF Locking, TypeOK
<1>1. ASSUME NEW s \in Editors, EditAlias(s)  PROVE Locking'
  BY <1>1 DEF EditAlias, Request
<1>2. ASSUME NEW p \in Pair, ChangeFolders(p) \/ RejectOutput(p)  PROVE Locking'
  BY <1>2 DEF ChangeFolders, RejectOutput
<1>3. ASSUME NEW s \in Savers, SaveStep(s)  PROVE Locking'
  <2>1. CASE Open(s) \/ Write(s) \/ Rename(s) \/ SaveFails(s) \/ RemoveTmp(s) \/ Commit(s)
    BY <2>1 DEF Open, Write, Rename, SaveFails, RemoveTmp, Commit
  <2>2. CASE ApplyAliases(s) \/ AbandonAlias(s)
    BY <2>2 DEF ApplyAliases, AbandonAlias, Return
  <2>3. CASE ApplyFolders \/ AbandonFolders
    BY <2>3 DEF ApplyFolders, AbandonFolders, Return
  <2> QED  BY <1>3, <2>1, <2>2, <2>3 DEF SaveStep
<1>4. CASE StartScan \/ ScanStep
  BY <1>4 DEF StartScan, ScanStep, ScanRoot, ScanPlan, ScanAliases, ScanResolve,
              ScanOut, EndScan, FailScan
<1>5. CASE Crash \/ Boot  BY <1>5 DEF Crash, Boot
<1>6. ASSUME NEW f \in Folders, Unmount(f) \/ Mount(f)  PROVE Locking'
  BY <1>6 DEF Unmount, Mount
<1>7. CASE UNCHANGED vars  BY <1>7 DEF vars
<1> QED  BY <1>1, <1>2, <1>3, <1>4, <1>5, <1>6, <1>7 DEF Next

\* A file is opened, written and closed by one request.
LEMMA HandlesStep ==
    ASSUME TypeOK, Apart, Handles, [Next]_vars
    PROVE  Handles'
<1> USE DEF Handles
<1>0. pc \in [Savers -> Steps] /\ handle \in [Savers -> Inodes \cup {None}]
  BY DEF TypeOK
<1>1. ASSUME NEW s \in Editors, EditAlias(s)  PROVE Handles'
  BY <1>0, <1>1 DEF EditAlias, Request
<1>2. ASSUME NEW p \in Pair, ChangeFolders(p) \/ RejectOutput(p)  PROVE Handles'
  BY <1>0, <1>2 DEF ChangeFolders, RejectOutput, Request
<1>3. ASSUME NEW s \in Savers, SaveStep(s)  PROVE Handles'
  <2>1. CASE Open(s)
    <3>1. handle[s] = None  BY <2>1 DEF Open
    <3>2. Temporary \in Inodes  BY <3>1, TemporaryFact
    <3>3. handle' = [handle EXCEPT ![s] = Temporary] /\ pc' = [pc EXCEPT ![s] = "write"]
      BY <2>1 DEF Open
    <3> QED  BY <1>0, <3>2, <3>3
  <2>2. CASE Write(s) \/ Rename(s) \/ SaveFails(s) \/ RemoveTmp(s) \/ Commit(s)
    BY <1>0, <2>2 DEF Write, Rename, SaveFails, RemoveTmp, Commit
  <2>3. CASE ApplyAliases(s) \/ AbandonAlias(s)
    BY <1>0, <2>3 DEF ApplyAliases, AbandonAlias, Return
  <2>4. CASE ApplyFolders \/ AbandonFolders
    BY <1>0, <2>4 DEF ApplyFolders, AbandonFolders, Return
  <2> QED  BY <1>3, <2>1, <2>2, <2>3, <2>4 DEF SaveStep
<1>4. CASE StartScan \/ ScanStep
  BY <1>4 DEF StartScan, ScanStep, ScanRoot, ScanPlan, ScanAliases, ScanResolve,
              ScanOut, EndScan, FailScan
<1>5. CASE Crash \/ Boot  BY <1>5 DEF Crash, Boot
<1>6. ASSUME NEW f \in Folders, Unmount(f) \/ Mount(f)  PROVE Handles'
  BY <1>6 DEF Unmount, Mount
<1>7. CASE UNCHANGED vars  BY <1>7 DEF vars
<1> QED  BY <1>1, <1>2, <1>3, <1>4, <1>5, <1>6, <1>7 DEF Next

-----------------------------------------------------------------------------
(* The file.                                                                  *)

\* Only the steps of a save and the start of the program touch the file.
LEMMA DiskFact ==
    ASSUME TypeOK, [Next]_vars,
           ~\E s \in Savers : Open(s) \/ Write(s) \/ Rename(s) \/ SaveFails(s),
           ~Boot
    PROVE  /\ UNCHANGED <<file, body, clash>>
           /\ tmp' = tmp \/ tmp' = None
           /\ \A s \in Savers : Saving(s)' => Saving(s) /\ pc'[s] = pc[s] /\ handle'[s] = handle[s]
<1> USE DEF Saving
<1>0. pc \in [Savers -> Steps]  BY DEF TypeOK
<1>1. ASSUME NEW s \in Editors, EditAlias(s)
      PROVE  /\ UNCHANGED <<disk, clash, handle>>
             /\ \A q \in Savers : Saving(q)' => pc'[q] = pc[q]
  BY <1>0, <1>1 DEF EditAlias, Request
<1>2. ASSUME NEW p \in Pair, ChangeFolders(p) \/ RejectOutput(p)
      PROVE  /\ UNCHANGED <<disk, clash, handle>>
             /\ \A q \in Savers : Saving(q)' => pc'[q] = pc[q]
  BY <1>0, <1>2 DEF ChangeFolders, RejectOutput, Request
<1>3. ASSUME NEW s \in Savers, SaveStep(s)
      PROVE  /\ UNCHANGED <<file, body, clash, handle>>
             /\ tmp' = tmp \/ tmp' = None
             /\ \A q \in Savers : Saving(q)' => pc'[q] = pc[q]
  <2>1. CASE RemoveTmp(s) \/ Commit(s)  BY <1>0, <2>1 DEF RemoveTmp, Commit
  <2>2. CASE ApplyAliases(s) \/ AbandonAlias(s)
    BY <1>0, <2>2 DEF ApplyAliases, AbandonAlias, Return
  <2>3. CASE ApplyFolders \/ AbandonFolders
    BY <1>0, <2>3 DEF ApplyFolders, AbandonFolders, Return
  <2> QED  BY <1>3, <2>1, <2>2, <2>3 DEF SaveStep
<1>4. CASE StartScan \/ ScanStep
  BY <1>4 DEF StartScan, ScanStep, ScanRoot, ScanPlan, ScanAliases, ScanResolve,
              ScanOut, EndScan, FailScan
<1>5. CASE Crash  BY <1>0, <1>5 DEF Crash
<1>6. ASSUME NEW f \in Folders, Unmount(f) \/ Mount(f)
      PROVE  UNCHANGED <<disk, clash, pc, handle>>
  BY <1>6 DEF Unmount, Mount
<1>7. CASE UNCHANGED vars  BY <1>7 DEF vars
<1> QED  BY <1>1, <1>2, <1>3, <1>4, <1>5, <1>6, <1>7 DEF Next

\* A file at the path is whole until a save opens a file inside another save.
LEMMA FileStep ==
    ASSUME TypeOK, Down, Handles, Apart, Unshared, FileReadable, [Next]_vars
    PROVE  Apart' /\ Unshared' /\ FileReadable'
<1> USE DEF Saving
<1>0. /\ pc \in [Savers -> Steps] /\ handle \in [Savers -> Inodes \cup {None}]
      /\ body \in [Inodes -> Setting \cup {Empty, Torn}]
      /\ file \in Inodes \cup {None} /\ tmp \in Inodes \cup {None}
      /\ next \in [Savers -> Setting]
  BY DEF TypeOK
<1>1. ASSUME NEW s \in Savers, Open(s)  PROVE Apart' /\ Unshared' /\ FileReadable'
  <2>1. handle[s] = None  BY <1>1 DEF Open, Handles
  <2>2. Temporary \in Inodes /\ Temporary # file  BY <2>1, TemporaryFact
  <2>3. /\ tmp' = Temporary /\ handle' = [handle EXCEPT ![s] = Temporary]
        /\ body' = [body EXCEPT ![Temporary] = Empty] /\ pc' = [pc EXCEPT ![s] = "write"]
        /\ clash' = (clash \/ \E q \in Savers \ {s} : pc[q] \in {"write", "rename"})
        /\ UNCHANGED file
    BY <1>1 DEF Open
  <2>4. Apart'  BY <2>2, <2>3 DEF Apart
  <2>5. Unshared'
    <3> SUFFICES ASSUME ~clash'  PROVE Unshared'
      BY DEF Unshared
    <3>1. ~clash /\ \A q \in Savers : Saving(q)' => q = s  BY <1>0, <2>3
    <3>2. pc'[s] = "write" /\ handle'[s] = tmp' /\ body'[tmp'] = Empty /\ tmp' # file'
      BY <1>0, <2>2, <2>3
    <3> QED  BY <3>1, <3>2 DEF Unshared
  <2>6. FileReadable'  BY <1>0, <2>2, <2>3 DEF FileReadable
  <2> QED  BY <2>4, <2>5, <2>6
<1>2. ASSUME NEW s \in Savers, Write(s)  PROVE Apart' /\ Unshared' /\ FileReadable'
  <2>1. pc[s] = "write" /\ handle[s] \in Inodes
    BY <1>0, <1>2 DEF Write, Handles
  <2>2. PICK b : /\ b \in IF body[handle[s]] = Empty THEN {next[s]} ELSE {next[s], Torn}
                 /\ body' = [body EXCEPT ![handle[s]] = b]
    BY <1>2 DEF Write
  <2>3. /\ handle' = [handle EXCEPT ![s] = None] /\ pc' = [pc EXCEPT ![s] = "rename"]
        /\ UNCHANGED <<file, tmp, clash>>
    BY <1>2 DEF Write
  <2>4. Apart'  BY <2>3 DEF Apart
  <2>5. ASSUME ~clash
        PROVE  /\ \A q \in Savers : Saving(q) => q = s
               /\ handle[s] # file /\ body'[handle[s]] \in Setting
               /\ tmp \in {None, handle[s]}
    BY <1>0, <2>1, <2>2, <2>5 DEF Unshared
  <2>6. Unshared'
    <3> SUFFICES ASSUME ~clash  PROVE Unshared'
      BY <2>3 DEF Unshared
    <3>1. \A q \in Savers : Saving(q)' => q = s  BY <1>0, <2>3, <2>5
    <3>2. pc'[s] = "rename"  BY <1>0, <2>3
    <3> QED  BY <2>3, <2>5, <3>1, <3>2 DEF Unshared
  <2>7. FileReadable'  BY <1>0, <2>1, <2>2, <2>3, <2>5 DEF FileReadable
  <2> QED  BY <2>4, <2>6, <2>7
<1>3. ASSUME NEW s \in Savers, Rename(s)  PROVE Apart' /\ Unshared' /\ FileReadable'
  <2>1. /\ pc[s] = "rename" /\ tmp # None /\ file' = tmp /\ tmp' = None
        /\ pc' = [pc EXCEPT ![s] = "commit"]
        /\ UNCHANGED <<body, handle, clash>>
    BY <1>3 DEF Rename
  <2>2. ~clash => body[tmp] \in Setting /\ \A q \in Savers : ~Saving(q)'
    BY <1>0, <2>1 DEF Unshared
  <2> QED  BY <2>1, <2>2 DEF Apart, Unshared, FileReadable
<1>4. ASSUME NEW s \in Savers, SaveFails(s)  PROVE Apart' /\ Unshared' /\ FileReadable'
  <2>1. /\ body' = IF handle[s] = None THEN body ELSE [body EXCEPT ![handle[s]] = Torn]
        /\ handle' = [handle EXCEPT ![s] = None] /\ UNCHANGED <<file, tmp, clash>>
        /\ pc' = [pc EXCEPT ![s] = IF pc[s] = "open" THEN "failed" ELSE "remove"]
    BY <1>4 DEF SaveFails
  <2>2. CASE handle[s] = None
    BY <1>0, <2>1, <2>2 DEF Apart, Unshared, FileReadable, Handles
  <2>3. CASE handle[s] # None
    <3>1. pc[s] = "write"  BY <2>3 DEF Handles
    <3>2. ~clash => handle[s] # file /\ \A q \in Savers : ~Saving(q)'
      BY <1>0, <2>1, <3>1 DEF Unshared
    <3> QED  BY <1>0, <2>1, <2>3, <3>2 DEF Apart, Unshared, FileReadable
  <2> QED  BY <2>2, <2>3
<1>5. CASE Boot
  <2>1. \A q \in Savers : ~Saving(q)'  BY <1>5 DEF Boot, Down
  <2>2. CASE UNCHANGED <<file, body>>
    <3>1. UNCHANGED clash /\ (tmp' = tmp \/ tmp' = None)
      BY <1>5, <2>2 DEF Boot
    <3> QED  BY <2>1, <2>2, <3>1 DEF Apart, Unshared, FileReadable
  <2>3. CASE ~UNCHANGED <<file, body>>
    <3>1. handle[Foldering] = None  BY <1>5 DEF Boot, Down, Handles
    <3>2. Temporary \in Inodes  BY <3>1, TemporaryFact
    <3>3. file' = Temporary /\ tmp' = None /\ body' = [body EXCEPT ![file'] = memory']
          /\ UNCHANGED clash
      BY <1>5, <2>3 DEF Boot
    <3>4. memory' \in Setting  BY <1>5, BootType DEF TypeOK
    <3> QED  BY <1>0, <2>1, <3>2, <3>3, <3>4 DEF Apart, Unshared, FileReadable
  <2> QED  BY <2>2, <2>3
<1>6. CASE /\ ~\E s \in Savers : Open(s) \/ Write(s) \/ Rename(s) \/ SaveFails(s)
           /\ ~Boot
  <2>1. /\ UNCHANGED <<file, body, clash>>
        /\ tmp' = tmp \/ tmp' = None
        /\ \A s \in Savers : Saving(s)' => Saving(s) /\ pc'[s] = pc[s] /\ handle'[s] = handle[s]
    BY <1>6, DiskFact
  <2> QED  BY <2>1 DEF Apart, Unshared, FileReadable
<1> QED  BY <1>1, <1>2, <1>3, <1>4, <1>5, <1>6

-----------------------------------------------------------------------------
(* Plans and series names.                                                    *)

\* What a scan has read of the folders stays true until it ends: they change under
\* st.mu, while no scan runs, and the plans go with them or they come back.
LEMMA CurrentStep ==
    ASSUME TypeOK, Down, Locking, Current, [Next]_vars
    PROVE  Current'
<1> USE DEF Current
<1>0. folders \in Pair /\ old \in Pair /\ found \in Scanned /\ plans \subseteq Pair
      /\ locked \in BOOLEAN /\ (locked => up /\ scan = "off")
  BY DEF TypeOK
<1>1. ASSUME NEW s \in Editors, EditAlias(s)  PROVE Current'
  BY <1>1 DEF EditAlias, Request
<1>2. ASSUME NEW p \in Pair, ChangeFolders(p)  PROVE Current'
  BY <1>2 DEF ChangeFolders, Request
<1>3. ASSUME NEW p \in Pair, RejectOutput(p)  PROVE Current'
  <2>1. /\ ~locked /\ scan = "off" /\ UNCHANGED <<plans, scan, locked, old>>
        /\ folders' = [folders EXCEPT !.root = IF folders.root \in present
                                               THEN folders.root ELSE p.root]
        /\ half' = (half \/ folders.root \notin present)
    BY <1>3 DEF RejectOutput
  <2>2. ~half' => folders' = folders  BY <1>0, <2>1 DEF Pair
  <2> QED  BY <2>1, <2>2
<1>4. ASSUME NEW s \in Savers, SaveStep(s)  PROVE Current'
  <2>1. CASE Open(s) \/ Write(s) \/ Rename(s) \/ SaveFails(s) \/ RemoveTmp(s) \/ Commit(s)
    BY <2>1 DEF Open, Write, Rename, SaveFails, RemoveTmp, Commit
  <2>2. CASE ApplyAliases(s) \/ AbandonAlias(s)
    BY <2>2 DEF ApplyAliases, AbandonAlias
  <2>3. CASE ApplyFolders
    <3>1. locked /\ plans' = {} /\ scan' = scan
      BY <2>3 DEF ApplyFolders, Locking
    <3> QED  BY <1>0, <3>1
  <2>4. CASE AbandonFolders
    <3>1. /\ locked /\ ~locked' /\ UNCHANGED <<plans, scan>>
          /\ folders' = [root |-> IF old.root \in present THEN old.root ELSE folders.root,
                         out |-> IF old.out \in present THEN old.out ELSE folders.out]
          /\ half' = (half \/ ~({old.root, old.out} \subseteq present))
      BY <2>4 DEF AbandonFolders, Locking
    <3>2. ~half' => folders' = old  BY <1>0, <3>1 DEF Pair
    <3> QED  BY <1>0, <3>1, <3>2
  <2> QED  BY <1>4, <2>1, <2>2, <2>3, <2>4 DEF SaveStep
<1>5. CASE StartScan \/ ScanPlan \/ ScanAliases \/ ScanResolve \/ FailScan
  BY <1>0, <1>5 DEF StartScan, ScanPlan, ScanAliases, ScanResolve, FailScan, Scanned
<1>6. CASE ScanRoot \/ ScanOut
  BY <1>0, <1>6 DEF ScanRoot, ScanOut, Scanned
<1>7. CASE EndScan
  <2>1. /\ ~locked /\ locked' = locked /\ folders' = folders /\ scan' = "off"
        /\ plans' = {[root |-> found.root, out |-> found.out]}
        /\ found.root = folders.root /\ found.out = folders.out
    BY <1>7 DEF EndScan
  <2>2. [root |-> found.root, out |-> found.out] = folders  BY <1>0, <2>1 DEF Pair
  <2> QED  BY <2>1, <2>2
<1>8. CASE Crash \/ Boot  BY <1>8 DEF Crash, Boot, Down
<1>9. ASSUME NEW f \in Folders, Unmount(f) \/ Mount(f)  PROVE Current'
  BY <1>9 DEF Unmount, Mount
<1>10. CASE UNCHANGED vars  BY <1>10 DEF vars
<1> QED  BY <1>1, <1>2, <1>3, <1>4, <1>5, <1>6, <1>7, <1>8, <1>9, <1>10 DEF Next, ScanStep

\* The names are found with the aliases that the scan has read, and dropped with them.
LEMMA FreshStep ==
    ASSUME TypeOK, Down, Fresh, [Next]_vars
    PROVE  Fresh'
<1> USE DEF Fresh, ResolvedIsFresh
<1>1. ASSUME NEW s \in Editors, EditAlias(s)  PROVE Fresh'
  BY <1>1 DEF EditAlias, Request
<1>2. ASSUME NEW p \in Pair, ChangeFolders(p) \/ RejectOutput(p)  PROVE Fresh'
  BY <1>2 DEF ChangeFolders, RejectOutput, Request
<1>3. ASSUME NEW s \in Savers, SaveStep(s)  PROVE Fresh'
  <2>1. CASE Open(s) \/ Write(s) \/ Rename(s) \/ SaveFails(s) \/ RemoveTmp(s) \/ Commit(s)
    BY <2>1 DEF Open, Write, Rename, SaveFails, RemoveTmp, Commit
  <2>2. CASE ApplyAliases(s) \/ AbandonAlias(s)
    BY <2>2 DEF ApplyAliases, AbandonAlias
  <2>3. CASE ApplyFolders \/ AbandonFolders
    BY <2>3 DEF ApplyFolders, AbandonFolders
  <2> QED  BY <1>3, <2>1, <2>2, <2>3 DEF SaveStep
<1>4. CASE StartScan \/ ScanRoot \/ ScanResolve \/ ScanOut \/ EndScan \/ FailScan
  BY <1>4 DEF StartScan, ScanRoot, ScanResolve, ScanOut, EndScan, FailScan, TypeOK,
              Scanned, Unread
<1>5. CASE ScanPlan \/ ScanAliases
  BY <1>5 DEF ScanPlan, ScanAliases, TypeOK, Scanned
<1>6. CASE Crash \/ Boot  BY <1>6 DEF Crash, Boot, Down, Unread
<1>7. ASSUME NEW f \in Folders, Unmount(f) \/ Mount(f)  PROVE Fresh'
  BY <1>7 DEF Unmount, Mount
<1>8. CASE UNCHANGED vars  BY <1>8 DEF vars
<1> QED  BY <1>1, <1>2, <1>3, <1>4, <1>5, <1>6, <1>7, <1>8 DEF Next, ScanStep

-----------------------------------------------------------------------------
(* Requests that nobody overlaps.                                             *)

\* Whatever leaves the requests and what they save alone keeps what is said of them.
LEMMA SoleSame ==
    ASSUME NEW s, Sole(s),
           UNCHANGED <<disk, memory, folders, aliases, pc, next, handle, old, began>>
    PROVE  Sole(s)'
BY DEF Sole, Working, Now

LEMMA NowFact == TypeOK => Now \in Snapshot
<1> SUFFICES ASSUME TypeOK  PROVE Now \in Snapshot
  OBVIOUS
<1>1. FirstSetting \in Setting  BY DEF FirstSetting, Setting, TypeOK
<1>2. (IF file = None THEN FirstSetting ELSE body[file]) \in Setting \cup {Empty, Torn}
  BY <1>1 DEF TypeOK
<1> QED  BY <1>2 DEF TypeOK, Now, Snapshot

\* A request begins: it is alone, or all requests are mixed.
LEMMA RequestAlone ==
    ASSUME TypeOK, Alone, NEW s \in Savers, NEW setting \in Setting, Request(s, setting),
           pc[s] = "idle", UNCHANGED <<disk, memory, aliases>>,
           IF s = Foldering THEN /\ old' = folders
                                 /\ folders' = [root |-> setting.root, out |-> setting.out]
                            ELSE folders' = folders
    PROVE  Alone'
<1>0. /\ pc \in [Savers -> Steps] /\ next \in [Savers -> Setting]
      /\ began \in [Savers -> Snapshot] /\ Now \in Snapshot
  BY NowFact DEF TypeOK, Alone
<1>1. /\ pc' = [pc EXCEPT ![s] = "open"] /\ next' = [next EXCEPT ![s] = setting]
      /\ began' = [began EXCEPT ![s] = Now]
      /\ mixed' = IF Working = {} THEN mixed \ {s} ELSE mixed \cup Working \cup {s}
  BY DEF Request
<1>2. began' \in [Savers -> Snapshot]  BY <1>0, <1>1
<1>3. Working' = Working \cup {s}  BY <1>0, <1>1 DEF Working
<1>4. ASSUME NEW q \in Working' \ mixed'  PROVE Sole(q)'
  <2>1. Working = {} /\ q = s /\ Working' = {s}  BY <1>1, <1>3, <1>4
  <2>2. pc'[s] = "open" /\ next'[s] = setting /\ began'[s] = Now  BY <1>0, <1>1
  <2>3. Now.file' = Now.file /\ Now.memory = memory /\ Now.aliases = aliases
        /\ Now.folders = folders
    BY DEF Now
  <2> QED  BY <2>1, <2>2, <2>3 DEF Sole
<1> QED  BY <1>2, <1>4 DEF Alone

\* A save that runs alone takes its steps on the file and on the store in order.
LEMMA SaveAlone ==
    ASSUME TypeOK, Handles, Apart, Alone, NEW s \in Savers,
           Open(s) \/ Write(s) \/ Rename(s) \/ SaveFails(s) \/ RemoveTmp(s) \/ Commit(s)
    PROVE  Alone'
<1>0. /\ pc \in [Savers -> Steps] /\ handle \in [Savers -> Inodes \cup {None}]
      /\ body \in [Inodes -> Setting \cup {Empty, Torn}]
      /\ file \in Inodes \cup {None} /\ tmp \in Inodes \cup {None}
  BY DEF TypeOK
<1>1. /\ UNCHANGED <<folders, aliases, next, old, began, mixed>>
      /\ pc[s] # "idle" /\ Working' = Working
  BY <1>0 DEF Open, Write, Rename, SaveFails, RemoveTmp, Commit, Working
<1>2. ASSUME NEW q \in Working' \ mixed'  PROVE Sole(q)'
  <2>1. q = s /\ Sole(s) /\ Working' = {s}
    BY <1>1, <1>2 DEF Alone, Sole, Working
  <2>2. /\ aliases' = began'[s].aliases
        /\ IF s = Foldering
           THEN old' = began'[s].folders
                /\ folders' = [root |-> next'[s].root, out |-> next'[s].out]
           ELSE folders' = began'[s].folders
    BY <1>1, <2>1 DEF Sole
  <2>3. CASE Open(s)
    <3>1. handle[s] = None  BY <2>3 DEF Open, Handles
    <3>2. Temporary \in Inodes /\ Temporary # file  BY <3>1, TemporaryFact
    <3>3. /\ pc[s] = "open" /\ tmp' = Temporary
          /\ handle' = [handle EXCEPT ![s] = Temporary]
          /\ body' = [body EXCEPT ![Temporary] = Empty]
          /\ pc' = [pc EXCEPT ![s] = "write"] /\ UNCHANGED <<file, memory>>
      BY <2>3 DEF Open
    <3>4. /\ pc'[s] = "write" /\ handle'[s] = tmp' /\ tmp' # file' /\ body'[tmp'] = Empty
          /\ Now.file' = Now.file
      BY <1>0, <3>2, <3>3 DEF Now
    <3> QED  BY <1>1, <2>1, <2>2, <3>3, <3>4 DEF Sole
  <2>4. CASE Write(s)
    <3>1. /\ pc[s] = "write" /\ tmp = handle[s] /\ tmp # file /\ body[tmp] = Empty
          /\ tmp \in Inodes
      BY <1>0, <2>1, <2>4 DEF Write, Sole, Handles
    <3>2. body' = [body EXCEPT ![tmp] = next[s]]
      BY <2>4, <3>1 DEF Write
    <3>3. pc' = [pc EXCEPT ![s] = "rename"] /\ UNCHANGED <<file, tmp, memory>>
      BY <2>4 DEF Write
    <3>4. pc'[s] = "rename" /\ body'[tmp'] = next'[s] /\ Now.file' = Now.file
      BY <1>0, <1>1, <3>1, <3>2, <3>3 DEF Now
    <3> QED  BY <1>1, <2>1, <2>2, <3>1, <3>3, <3>4 DEF Sole
  <2>5. CASE Rename(s)
    <3>1. /\ pc[s] = "rename" /\ tmp # None /\ file' = tmp
          /\ pc' = [pc EXCEPT ![s] = "commit"] /\ UNCHANGED <<body, memory>>
      BY <2>5 DEF Rename
    <3>2. pc'[s] = "commit" /\ Now.file' = next'[s]
      BY <1>0, <1>1, <2>1, <3>1 DEF Now, Sole
    <3> QED  BY <1>1, <2>1, <2>2, <3>1, <3>2 DEF Sole
  <2>6. CASE SaveFails(s)
    <3>1. /\ pc[s] \in {"open", "write", "rename"}
          /\ body' = IF handle[s] = None THEN body ELSE [body EXCEPT ![handle[s]] = Torn]
          /\ pc' = [pc EXCEPT ![s] = IF pc[s] = "open" THEN "failed" ELSE "remove"]
          /\ UNCHANGED <<file, memory>>
      BY <2>6 DEF SaveFails
    <3>2. handle[s] # None => handle[s] # file /\ handle[s] \in Inodes
      BY <1>0, <2>1 DEF Handles, Sole
    <3>3. pc'[s] \in {"failed", "remove"} /\ Now.file' = Now.file
      BY <1>0, <3>1, <3>2 DEF Now
    <3> QED  BY <1>1, <2>1, <2>2, <3>1, <3>3 DEF Sole
  <2>7. CASE Commit(s)
    <3>1. /\ pc[s] = "commit" /\ pc' = [pc EXCEPT ![s] = "apply"] /\ memory' = next[s]
          /\ UNCHANGED <<file, body>>
      BY <2>7 DEF Commit
    <3>2. pc'[s] = "apply" /\ Now.file' = Now.file  BY <1>0, <3>1 DEF Now
    <3> QED  BY <1>1, <2>1, <2>2, <3>1, <3>2 DEF Sole
  <2>8. CASE RemoveTmp(s)
    <3>1. /\ pc[s] = "remove" /\ pc' = [pc EXCEPT ![s] = "failed"]
          /\ UNCHANGED <<file, body, memory>>
      BY <2>8 DEF RemoveTmp
    <3>2. pc'[s] = "failed" /\ Now.file' = Now.file  BY <1>0, <3>1 DEF Now
    <3> QED  BY <1>1, <2>1, <2>2, <3>1, <3>2 DEF Sole
  <2> QED  BY <2>3, <2>4, <2>5, <2>6, <2>7, <2>8
<1> QED  BY <1>1, <1>2 DEF Alone

\* A request ends; another one that is not mixed would have been alone with it.
LEMMA ReturnAlone ==
    ASSUME TypeOK, Alone, NEW s \in Savers, pc[s] # "idle", Return(s)
    PROVE  Alone'
<1>0. pc \in [Savers -> Steps] /\ began \in [Savers -> Snapshot]  BY DEF TypeOK, Alone
<1>1. /\ pc' = [pc EXCEPT ![s] = "idle"] /\ mixed' = mixed \ {s}
      /\ began' = [began EXCEPT ![s] = Nothing]
  BY DEF Return
<1>2. Nothing \in Snapshot
  BY DEF Nothing, Snapshot, FirstSetting, Setting, Plain, Pair
<1>3. Working' = Working \ {s}  BY <1>0, <1>1 DEF Working
<1>4. Working' \ mixed' = {}
  <2> SUFFICES ASSUME NEW q \in Working' \ mixed'  PROVE FALSE
    OBVIOUS
  <2>1. q \in Working \ mixed /\ q # s  BY <1>1, <1>3
  <2>2. Working = {q}  BY <2>1 DEF Alone, Sole
  <2> QED  BY <2>1, <2>2 DEF Working
<1> QED  BY <1>0, <1>1, <1>2, <1>4 DEF Alone

LEMMA AloneStep ==
    ASSUME TypeOK, Down, Handles, Apart, Alone, [Next]_vars
    PROVE  Alone'
<1>1. ASSUME NEW s \in Editors, EditAlias(s)  PROVE Alone'
  <2>1. PICK names \in {memory.aliases \cup {a} : a \in Aliases}
                          \cup {memory.aliases \ {a} : a \in Aliases} :
           Request(s, [memory EXCEPT !.aliases = names])
    BY <1>1 DEF EditAlias
  <2>2. [memory EXCEPT !.aliases = names] \in Setting  BY DEF TypeOK, Setting
  <2>3. pc[s] = "idle" /\ UNCHANGED <<disk, memory, folders, aliases>> /\ s # Foldering
    BY <1>1 DEF EditAlias
  <2> QED  BY <2>1, <2>2, <2>3, RequestAlone
<1>2. ASSUME NEW p \in Pair, ChangeFolders(p)  PROVE Alone'
  <2>1. With(memory, p) \in Setting  BY DEF TypeOK, With, Setting, Pair
  <2>2. /\ Request(Foldering, With(memory, p)) /\ pc[Foldering] = "idle"
        /\ old' = folders /\ folders' = p /\ UNCHANGED <<disk, memory, aliases>>
    BY <1>2 DEF ChangeFolders
  <2>3. p = [root |-> With(memory, p).root, out |-> With(memory, p).out]
    BY DEF With, Pair
  <2> QED  BY <2>1, <2>2, <2>3, RequestAlone
<1>3. ASSUME NEW p \in Pair, RejectOutput(p)  PROVE Alone'
  <2>1. mixed' = mixed \cup Working /\ UNCHANGED <<pc, began>>
    BY <1>3 DEF RejectOutput
  <2>2. Working' \ mixed' = {}  BY <2>1 DEF Working
  <2> QED  BY <2>1, <2>2 DEF Alone
<1>4. ASSUME NEW s \in Savers, SaveStep(s)  PROVE Alone'
  <2>1. CASE Open(s) \/ Write(s) \/ Rename(s) \/ SaveFails(s) \/ RemoveTmp(s) \/ Commit(s)
    BY <2>1, SaveAlone
  <2>2. CASE ApplyAliases(s) \/ AbandonAlias(s)
    BY <2>2, ReturnAlone DEF ApplyAliases, AbandonAlias
  <2>3. CASE ApplyFolders \/ AbandonFolders
    BY <2>3, ReturnAlone DEF ApplyFolders, AbandonFolders
  <2> QED  BY <1>4, <2>1, <2>2, <2>3 DEF SaveStep
<1>5. CASE \/ UNCHANGED <<disk, memory, folders, aliases, pc, next, handle, old, began, mixed>>
           \/ Crash \/ Boot
  <2>1. CASE UNCHANGED <<disk, memory, folders, aliases, pc, next, handle, old, began, mixed>>
    <3>1. Working' = Working  BY <2>1 DEF Working
    <3> QED  BY <2>1, <3>1, SoleSame DEF Alone
  <2>2. CASE Crash
    <3>1. Working' = {} /\ began' = [s \in Savers |-> Nothing]
      BY <2>2 DEF Crash, Working
    <3>2. Nothing \in Snapshot
      BY DEF Nothing, Snapshot, FirstSetting, Setting, Plain, Pair
    <3> QED  BY <3>1, <3>2 DEF Alone
  <2>3. CASE Boot
    <3>1. Working' = {} /\ began' = began  BY <2>3 DEF Boot, Down, Working
    <3> QED  BY <3>1 DEF Alone
  <2> QED  BY <1>5, <2>1, <2>2, <2>3
<1>6. CASE StartScan \/ ScanStep
  BY <1>5, <1>6 DEF StartScan, ScanStep, ScanRoot, ScanPlan, ScanAliases, ScanResolve, ScanOut,
                    EndScan, FailScan
<1>7. ASSUME NEW f \in Folders, Unmount(f) \/ Mount(f)  PROVE Alone'
  BY <1>5, <1>7 DEF Unmount, Mount
<1>8. CASE UNCHANGED vars  BY <1>5, <1>8 DEF vars
<1> QED  BY <1>1, <1>2, <1>3, <1>4, <1>5, <1>6, <1>7, <1>8 DEF Next

\* A request that was alone ends: with everything applied, or with everything undone
\* except for a folder that is gone.
LEMMA EndStep ==
    ASSUME TypeOK, Alone, [Next]_vars, NEW s \in Working \ mixed, up', pc'[s] = "idle"
    PROVE  \/ Applied(s, Now')
           \/ Now' = began[s]
           \/ ~({old.root, old.out} \subseteq present)
              /\ Now' = [began[s] EXCEPT !.folders = folders']
<1>0. /\ pc \in [Savers -> Steps] /\ s \in Savers /\ pc[s] # "idle" /\ Sole(s)
      /\ began[s] \in Snapshot /\ old \in Pair /\ folders \in Pair
  BY DEF TypeOK, Alone, Working
<1>1. CASE ApplyAliases(s)
  <2>1. pc[s] = "apply" /\ aliases' = next[s].aliases /\ UNCHANGED <<disk, memory, folders>>
        /\ s # Foldering
    BY <1>1 DEF ApplyAliases
  <2>2. /\ Now'.file = next[s] /\ Now'.memory = next[s] /\ Now'.aliases = next[s].aliases
        /\ Now'.folders = began[s].folders
    BY <1>0, <2>1 DEF Sole, Now
  <2> QED  BY <2>1, <2>2 DEF Applied
<1>2. CASE s = Foldering /\ ApplyFolders
  <2>1. pc[s] = "apply" /\ UNCHANGED <<disk, memory, folders, aliases>>
    BY <1>2 DEF ApplyFolders
  <2>2. /\ Now'.file = next[s] /\ Now'.memory = next[s]
        /\ Now'.folders = [root |-> next[s].root, out |-> next[s].out]
        /\ Now'.aliases = began[s].aliases
    BY <1>0, <1>2, <2>1 DEF Sole, Now
  <2> QED  BY <1>2, <2>2 DEF Applied
<1>3. CASE AbandonAlias(s)
  <2>1. pc[s] = "failed" /\ UNCHANGED <<disk, memory, folders, aliases>> /\ s # Foldering
    BY <1>3 DEF AbandonAlias
  <2>2. Now' = began[s]
    BY <1>0, <2>1 DEF Sole, Now, Snapshot
  <2> QED  BY <2>2
<1>4. CASE s = Foldering /\ AbandonFolders
  <2>1. /\ pc[s] = "failed" /\ UNCHANGED <<file, body, memory, aliases>>
        /\ folders' = [root |-> IF old.root \in present THEN old.root ELSE folders.root,
                       out |-> IF old.out \in present THEN old.out ELSE folders.out]
    BY <1>4 DEF AbandonFolders
  <2>2. Now' = [file |-> began[s].file, memory |-> began[s].memory, folders |-> folders',
                aliases |-> began[s].aliases]
    BY <1>0, <2>1 DEF Sole, Now
  <2>3. Now' = [began[s] EXCEPT !.folders = folders']
    BY <1>0, <2>2 DEF Snapshot
  <2>4. old = began[s].folders  BY <1>0, <1>4 DEF Sole
  <2>5. CASE {old.root, old.out} \subseteq present
    <3>1. folders' = old  BY <1>0, <2>1, <2>5 DEF Pair
    <3> QED  BY <1>0, <2>2, <2>4, <3>1 DEF Snapshot
  <2> QED  BY <2>3, <2>5
<1>5. ASSUME NEW q \in Savers, SaveStep(q)
      PROVE  \/ q = s /\ (ApplyAliases(s) \/ AbandonAlias(s))
             \/ q = s /\ s = Foldering /\ (ApplyFolders \/ AbandonFolders)
  <2>1. pc[q] # "idle"
    BY <1>5 DEF SaveStep, Open, Write, Rename, SaveFails, RemoveTmp, Commit, ApplyAliases,
                AbandonAlias, ApplyFolders, AbandonFolders
  <2>2. q = s  BY <1>0, <2>1 DEF Sole, Working
  <2>3. ~(Open(q) \/ Write(q) \/ Rename(q) \/ SaveFails(q) \/ RemoveTmp(q) \/ Commit(q))
    BY <1>0, <2>2 DEF Open, Write, Rename, SaveFails, RemoveTmp, Commit
  <2> QED  BY <1>5, <2>2, <2>3 DEF SaveStep
<1>6. ASSUME NEW q \in Editors, EditAlias(q)  PROVE FALSE
  BY <1>0, <1>6 DEF EditAlias, Request
<1>7. ASSUME NEW p \in Pair, ChangeFolders(p) \/ RejectOutput(p)  PROVE FALSE
  BY <1>0, <1>7 DEF ChangeFolders, RejectOutput, Request
<1>8. ~(StartScan \/ ScanStep)
  BY <1>0 DEF StartScan, ScanStep, ScanRoot, ScanPlan, ScanAliases, ScanResolve,
              ScanOut, EndScan, FailScan
<1>9. ~(Crash \/ Boot \/ UNCHANGED vars)  BY <1>0 DEF Crash, Boot, vars
<1>10. ASSUME NEW f \in Folders, Unmount(f) \/ Mount(f)  PROVE FALSE
  BY <1>0, <1>10 DEF Unmount, Mount
<1> QED  BY <1>1, <1>2, <1>3, <1>4, <1>5, <1>6, <1>7, <1>8, <1>9, <1>10 DEF Next

-----------------------------------------------------------------------------
(* The theorems.                                                              *)

\* Every action keeps the invariant.
LEMMA NextInv == IInv /\ [Next]_vars => IInv'
<1> SUFFICES ASSUME IInv, [Next]_vars  PROVE IInv'
  OBVIOUS
<1> USE DEF IInv
<1>1. TypeOK' /\ Down' /\ Locking'  BY TypeStep, DownStep, LockingStep
<1>2. Handles' /\ Apart' /\ Unshared' /\ FileReadable'  BY HandlesStep, FileStep
<1>3. Current' /\ Fresh'  BY CurrentStep, FreshStep
<1>4. Alone'  BY AloneStep
<1> QED  BY <1>1, <1>2, <1>3, <1>4

\* The invariant holds in every state of every behaviour.
THEOREM Invariance == Spec => []IInv
BY InitInv, NextInv, PTL DEF Spec

\* Type correctness: in particular an inode is free whenever a file is created, and
\* st.mu is held by a request, never during a scan.
THEOREM TypeCorrect == Spec => []TypeOK
BY Invariance, PTL DEF IInv

\* While st.mu is free, stored plans belong to the folders in use, however requests,
\* scans, failures, crashes and folders that vanish interleave.
THEOREM PlansCorrect == Spec => []PlansAreCurrent
<1>1. IInv => PlansAreCurrent
  BY DEF IInv, Current, PlansAreCurrent
<1> QED  BY Invariance, <1>1, PTL

\* What is at the path is whole, for any number of requests, crashes and failures,
\* unless a save has begun inside another one.
THEOREM FileCorrect == Spec => []FileReadable
BY Invariance, PTL DEF IInv

\* Series names that no alias has overtaken were found with the aliases in use.
THEOREM NamesCorrect == Spec => []ResolvedIsFresh
<1>1. IInv => ResolvedIsFresh
  BY DEF IInv, Fresh
<1> QED  BY Invariance, <1>1, PTL

\* A request that no other overlaps is applied to the file, the store and the organizer,
\* or undone in all three, for any folders and aliases and at whichever step it fails.
THEOREM RequestsAreAtomic == Spec => AllOrNothing
<1>1. IInv /\ [Next]_vars =>
         [\A s \in Working \ mixed :
             up' /\ pc'[s] = "idle" =>
                \/ Applied(s, Now')
                \/ Now' = began[s]
                \/ ~({old.root, old.out} \subseteq present)
                   /\ Now' = [began[s] EXCEPT !.folders = folders']]_vars
  BY EndStep DEF IInv
<1> QED  BY Invariance, <1>1, PTL DEF Spec, AllOrNothing
=============================================================================
