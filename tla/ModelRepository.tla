--------------------------- MODULE ModelRepository ---------------------------
(***************************************************************************)
(* The model repository of src/src/ModelRepository.cpp: the scan at        *)
(* startup that chooses the version of a model to serve, and the lookup of *)
(* one version for a load request, while somebody changes the tree.        *)
(*                                                                         *)
(* A directory name is a sequence of characters, of which 0 .. 9 are       *)
(* digits.  A directory is listed in one step; what was listed may be gone *)
(* when it is looked into.  The models of a repository are scanned one     *)
(* after the other and have nothing in common, so there is one.            *)
(***************************************************************************)
EXTENDS Integers, Sequences, FiniteSets, SequencesExt

CONSTANTS
    RawNames,   \* the names a version directory may have
    FileNames,  \* the files it may hold, in the order of sortedEntries
    BackendOf,  \* backendForModelFile, "" for a file that is no model
    Priority,   \* backendPriority, a sequence of backends
    MaxChanges  \* bound on the changes to the tree

ASSUME RepositoryAssumption ==
    /\ IsFiniteSet(RawNames) /\ \A raw \in RawNames : raw \in Seq(Nat) /\ raw # <<>>
    /\ DOMAIN BackendOf = ToSet(FileNames) /\ MaxChanges \in Nat

VARIABLES
    tree,     \* the files of every version directory there is
    task,     \* the scan or a lookup, and the groups it has yet to try
    catalog,  \* what the scan found
    found,    \* what a lookup found
    stable,   \* history: the directories that could be served ever since the scan began
    changes   \* changes to the tree so far

repositoryVars == <<tree, task, catalog, found, stable, changes>>

NoModel == [version |-> <<>>, dir |-> <<>>, file |-> "", backend |-> ""]
NoTask == [pc |-> "idle", groups |-> <<>>, asked |-> <<>>]

-----------------------------------------------------------------------------
(* Version names are compared digit by digit, they may be longer than any  *)
(* integer.                                                                *)

IsNumericVersion(raw) == raw # <<>> /\ ToSet(raw) \subseteq 0 .. 9

\* Leading zeros are dropped; "000" is "0".
CanonicalVersion(raw) ==
    LET first == SelectInSeq(raw, LAMBDA d : d # 0)
    IN IF first = 0 THEN <<0>> ELSE SubSeq(raw, first, Len(raw))

\* operator< of std::string: where they first differ, s ends or has the lesser character.
Before(s, t) ==
    \E i \in DOMAIN t :
       /\ i \in DOMAIN s => s[i] < t[i]
       /\ \A j \in 1 .. i - 1 : j \in DOMAIN s /\ s[j] = t[j]

\* Mutant of IsHigherVersion: version names are compared as text.
IsHigherText(candidate, current) == Before(current, candidate)

IsHigherVersion(candidate, current) ==
    LET lhs == CanonicalVersion(candidate)
        rhs == CanonicalVersion(current)
    IN IF Len(lhs) # Len(rhs) THEN Len(lhs) > Len(rhs) ELSE Before(rhs, lhs)

\* groupVersionsDescending: the directories of every version.
GroupVersions(names) ==
    LET numeric == {raw \in names : IsNumericVersion(raw)}
    IN [v \in {CanonicalVersion(raw) : raw \in numeric} |->
           {raw \in numeric : CanonicalVersion(raw) = v}]

\* It sorts the groups, the highest version in front, and the directories of a group
\* as text; the loops over the groups take them in that order.
HighestVersion(versions) == CHOOSE v \in versions : \A w \in versions \ {v} : IsHigherVersion(v, w)
FirstName(names) == CHOOSE raw \in names : \A other \in names \ {raw} : Before(raw, other)

BackendRank(backend) ==
    LET rank == SelectInSeq(Priority, LAMBDA b : b = backend)
    IN IF rank = 0 THEN Len(Priority) + 1 ELSE rank

\* pickModelFile: the model file of the best backend, the first of them by name.
PickModelFile(files) ==
    LET Better(best, file) ==
          IF file \in files /\ BackendOf[file] # ""
             /\ (best = "" \/ BackendRank(BackendOf[file]) < BackendRank(BackendOf[best]))
          THEN file ELSE best
    IN FoldLeft(Better, "", FileNames)

\* The same of a directory that may be gone: its listing is empty then.
FilesIn(raw) == IF raw \in DOMAIN tree THEN tree[raw] ELSE {}

\* Only the first directory of a group is looked into.
Picked(groups, v) ==
    LET raw == FirstName(groups[v])
        file == PickModelFile(FilesIn(raw))
    IN IF file = "" THEN NoModel
       ELSE [version |-> v, dir |-> raw, file |-> file, backend |-> BackendOf[file]]

\* The directories a scan that saw the whole tree at once could choose.
Servable(t) ==
    LET groups == GroupVersions(DOMAIN t)
        fronts == {FirstName(groups[v]) : v \in DOMAIN groups}
    IN {raw \in fronts : PickModelFile(t[raw]) # ""}

-----------------------------------------------------------------------------
\* scanModelRepository lists the version directories of the model.
BeginScan ==
    /\ task.pc = "start"
    /\ task' = [task EXCEPT !.pc = "scan", !.groups = GroupVersions(DOMAIN tree)]
    /\ stable' = Servable(tree)
    /\ UNCHANGED <<tree, catalog, found, changes>>

\* One turn of its loop over the groups; the first that holds a model is served.
ScanGroup ==
    LET v == HighestVersion(DOMAIN task.groups)
    IN
    /\ task.pc = "scan" /\ DOMAIN task.groups # {}
    /\ catalog' = Picked(task.groups, v)
    /\ task' = IF catalog' = NoModel
               THEN [task EXCEPT !.groups = Restrict(@, DOMAIN @ \ {v})]
               ELSE NoTask
    /\ UNCHANGED <<tree, found, stable, changes>>

\* No version is left: the model is not served.
ScanEnd ==
    /\ task.pc = "scan" /\ DOMAIN task.groups = {}
    /\ task' = NoTask
    /\ UNCHANGED <<tree, catalog, found, stable, changes>>

\* Mutant of TargetVersion: the version asked for is compared as it was written.
TargetVersionRaw(asked) == asked

TargetVersion(asked) == CanonicalVersion(asked)

\* resolveRepositoryModelVersion: a version is compared with what is listed, never used
\* as a path.
BeginResolve(asked) ==
    /\ task.pc = "idle"
    /\ task' = IF IsNumericVersion(asked)
               THEN [pc |-> "resolve", groups |-> GroupVersions(DOMAIN tree), asked |-> asked]
               ELSE [NoTask EXCEPT !.pc = "resolved", !.asked = asked]
    /\ found' = NoModel
    /\ UNCHANGED <<tree, catalog, stable, changes>>

\* Its loop over the groups, which stops at the version it looks for.
EndResolve ==
    LET target == TargetVersion(task.asked)
    IN
    /\ task.pc = "resolve"
    /\ found' = IF target \in DOMAIN task.groups THEN Picked(task.groups, target) ELSE NoModel
    /\ task' = [task EXCEPT !.pc = "resolved"]
    /\ UNCHANGED <<tree, catalog, stable, changes>>

\* The caller has its answer.
Return ==
    /\ task.pc = "resolved" /\ task' = NoTask
    /\ UNCHANGED <<tree, catalog, found, stable, changes>>

\* A version directory is created, filled or removed by somebody else.
ChangeTree ==
    /\ changes < MaxChanges /\ changes' = changes + 1
    /\ \E raw \in RawNames :
         \/ raw \notin DOMAIN tree
            /\ tree' = [r \in DOMAIN tree \cup {raw} |-> IF r = raw THEN {} ELSE tree[r]]
         \/ raw \in DOMAIN tree
            /\ \E file \in ToSet(FileNames) \ tree[raw] : tree' = [tree EXCEPT ![raw] = @ \cup {file}]
         \/ raw \in DOMAIN tree /\ tree' = [r \in DOMAIN tree \ {raw} |-> tree[r]]
    /\ stable' = stable \cap Servable(tree')
    /\ UNCHANGED <<task, catalog, found>>

-----------------------------------------------------------------------------
RepositoryInit ==
    /\ tree \in UNION {[names -> SUBSET ToSet(FileNames)] : names \in SUBSET RawNames}
    /\ task = [NoTask EXCEPT !.pc = "start"]
    /\ catalog = NoModel /\ found = NoModel
    /\ stable = {} /\ changes = 0

RepositoryNext ==
    \/ BeginScan \/ ScanGroup \/ ScanEnd
    \/ (\E asked \in RawNames : BeginResolve(asked)) \/ EndResolve \/ Return
    \/ ChangeTree

RepositorySpec == RepositoryInit /\ [][RepositoryNext]_repositoryVars

-----------------------------------------------------------------------------
(* Properties.                                                             *)

\* The number a name stands for.
Value(raw) == FoldLeft(LAMBDA n, d : 10 * n + d, 0, raw)

\* The scan is not fooled by a tree that changes under it: once it has ended, what it
\* serves is at least as high, as a number, as every version whose first directory held
\* a model from the beginning of the scan to its end.
ScanServesHighest ==
    task.pc \notin {"start", "scan"} =>
        \A raw \in stable : catalog # NoModel /\ Value(catalog.version) >= Value(raw)

\* A load that names the version the scan serves, with zeros in front or without, finds
\* the file the scan found, however many directories have that version, as long as the
\* tree is what it was.
ResolveAgreesWithScan ==
    task.pc = "resolved" /\ IsNumericVersion(task.asked) /\ changes = 0 /\ catalog # NoModel =>
        (Value(task.asked) = Value(catalog.version) => found = catalog)

=============================================================================
