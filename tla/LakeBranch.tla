------------------------------ MODULE LakeBranch ------------------------------
(***************************************************************************)
(* The branches of one pool (lake/branch.go, pool.go, branches/store.go,   *)
(* commits/store.go): commit objects on storage, branch pointers in the    *)
(* pool's journal store, and clients in any number of processes that load, *)
(* delete, compact, revert, merge and vacuum concurrently.                 *)
(*                                                                         *)
(* The branch store is the atomic table of KVStore (JournalStore           *)
(* implements it).  Commit objects never change once written, so what      *)
(* commits.Store computes from a path is kept per commit: snapOf is        *)
(* Store.Snapshot and anc is Store.Path, both fixed when the object is     *)
(* written.  IDs are allocated in order, so that a commit is larger than   *)
(* its ancestors; the code uses fresh KSUIDs and compares them for         *)
(* equality only.                                                          *)
(*                                                                         *)
(* Building and writing a commit object (LookupByName, create, Put) is one *)
(* step: it reads the branch pointer once, then immutable objects, and     *)
(* writes a file nobody else knows of.  The pointer update is the next.    *)
(***************************************************************************)
EXTENDS CommitOps

CONSTANTS Clients,      \* concurrent users of the pool
          Branches,     \* branch names
          Main,         \* "main"
          NoBranch,     \* no such branch
          Kinds,        \* the operations in use
          MaxTries,     \* maxCommitRetries (10 in the code)
          MaxCommits,   \* bound: commit objects
          MaxObjs,      \* bound: data objects
          MaxOps,       \* bound: operations begun
          MaxCrashes    \* bound: clients that crash

AllKinds == {"load", "delete", "deletewhere", "revert", "compact", "merge",
             "addvectors", "deletevectors"}
PoolKinds == {"duplicates", "branch", "unbranch", "vacuum", "failures"}

ASSUME MainAssumption == Main \in Branches
ASSUME ObjsAssumption == Objs = 1..MaxObjs
ASSUME NoBranchAssumption == NoBranch \notin Nat
ASSUME LakeBoundsAssumption ==
    /\ MaxTries \in Nat \ {0}
    /\ MaxCommits \in Nat
    /\ MaxObjs \in Nat
    /\ MaxOps \in Nat
    /\ MaxCrashes \in Nat
    /\ Kinds \subseteq AllKinds \cup PoolKinds

VARIABLES
    branch,     \* the branch store: tip of each branch, or NoBranch
    object,     \* commits/<id>.bsup, or NoObject
    files,      \* data objects whose files exist
    content,    \* the rows written to each data object
    nextCommit, \* next commit ID
    nextObj,    \* next data object ID
    pc,         \* where each client is
    req,        \* the operation it executes
    mine,       \* Branch.commit: object.Commit
    tries,      \* Branch.commit: retries
    begun,      \* number of operations begun (bound)
    crashes,    \* number of crashes (bound)
    snapOf,     \* Store.Snapshot(commit)
    anc,        \* Store.Path(commit), as a set
    published,  \* history: commits that became the tip of a branch
    onBranch    \* history: commits published on each branch

storage == <<branch, object, files, content, nextCommit, nextObj>>
locals == <<pc, req, mine, tries>>
bounds == <<begun, crashes>>
derived == <<snapOf, anc>>
history == <<published, onBranch>>
vars == <<storage, locals, bounds, derived, history>>
-------------------------------------------------------------------------------
Nil == 0                        \* ksuid.Nil
CommitIDs == 1..MaxCommits
Tips == 0..MaxCommits
NoObject == [parent |-> NoBranch]

Store == INSTANCE StoreOps WITH Keys <- Branches, Vals <- Tips, Absent <- NoBranch

Live == {b \in Branches : branch[b] # NoBranch}
TipOf(b) == snapOf[branch[b]]

(* An operation: the branch it commits to, the IDs it names (twice: those   *)
(* named more than once), the data objects it wrote before it commits, the *)
(* vectors it wrote, and the commit it reverts or merges.                   *)
Request(kind, b, ids, twice, add, addvec, commit) ==
    [kind |-> kind, br |-> b, ids |-> ids, twice |-> twice, add |-> add,
     addvec |-> addvec, commit |-> commit]

NoRequest == Request("load", Main, {}, {}, {}, {}, Nil)

Requests == [kind : AllKinds, br : Branches, ids : IDSets, twice : IDSets,
             add : IDSets, addvec : IDSets, commit : Tips]

Init ==
    /\ branch = [b \in Branches |-> IF b = Main THEN Nil ELSE NoBranch]
    /\ object = [m \in CommitIDs |-> NoObject]
    /\ files = {}
    /\ content = [o \in Objs |-> {}]
    /\ nextCommit = 1
    /\ nextObj = 1
    /\ pc = [c \in Clients |-> "idle"]
    /\ req = [c \in Clients |-> NoRequest]
    /\ mine = [c \in Clients |-> Nil]
    /\ tries = [c \in Clients |-> 0]
    /\ begun = 0
    /\ crashes = 0
    /\ snapOf = [m \in Tips |-> NewSnapshot]
    /\ anc = [m \in Tips |-> {}]
    /\ published = {}
    /\ onBranch = [b \in Branches |-> {}]
-------------------------------------------------------------------------------
(* A client calls an operation of the branch r.br. *)
Begin(c, r) ==
    /\ r.kind \in Kinds
    /\ pc[c] = "idle"
    /\ begun < MaxOps
    /\ branch[r.br] # NoBranch
    /\ begun' = begun + 1
    /\ pc' = [pc EXCEPT ![c] = "prepare"]
    /\ req' = [req EXCEPT ![c] = r]
    /\ UNCHANGED <<branch, object, nextCommit, mine, tries, crashes, derived, history>>

(* The writer stores a new data object that holds the given rows. *)
WriteData(rows) ==
    /\ nextObj <= MaxObjs
    /\ nextObj' = nextObj + 1
    /\ files' = files \cup {nextObj}
    /\ content' = [content EXCEPT ![nextObj] = rows]

NoWrite == UNCHANGED <<files, content, nextObj>>

(* Branch.Load.  A row is named after the object it was loaded with. *)
BeginLoad(c, b) ==
    /\ Begin(c, Request("load", b, {}, {}, {nextObj}, {}, Nil))
    /\ WriteData({nextObj})

(* Branch.Delete, given IDs that are on the branch's tip now. *)
BeginDelete(c, b, ids, twice) ==
    /\ ids # {}
    /\ Begin(c, Request("delete", b, ids, twice, {}, {}, Nil))
    /\ NoWrite

(* Branch.DeleteWhere: ids are the rows the filter matches. *)
BeginDeleteWhere(c, b, ids) ==
    /\ Begin(c, Request("deletewhere", b, ids, {}, {}, {}, Nil))
    /\ NoWrite

(* Branch.Revert *)
BeginRevert(c, b, m) ==
    /\ Begin(c, Request("revert", b, {}, {}, {}, {}, m))
    /\ NoWrite

(* exec.Compact reads two or more objects of the tip and writes them to    *)
(* one, with a vector if writeVectors is set; then Branch.CommitCompact.   *)
BeginCompact(c, b, ids, writeVectors) ==
    /\ Cardinality(ids) > 1
    /\ ids \subseteq files
    /\ Begin(c, Request("compact", b, ids, {}, {nextObj},
                        IF writeVectors THEN {nextObj} ELSE {}, Nil))
    /\ WriteData(UNION {content[o] : o \in ids})

(* Root.MergeBranch opens the child: its tip is read here, once. *)
BeginMerge(c, child, b) ==
    /\ branch[child] # NoBranch
    /\ Begin(c, Request("merge", b, {}, {}, {}, {}, branch[child]))
    /\ NoWrite

(* Branch.AddVectors and Branch.DeleteVectors *)
BeginVectors(c, kind, b, ids, twice) ==
    /\ ids # {}
    /\ kind = "addvectors" => ids \subseteq files
    /\ Begin(c, Request(kind, b, ids, twice, {}, {}, Nil))
    /\ NoWrite
-------------------------------------------------------------------------------
(***************************************************************************)
(* The constructors passed to Branch.commit: the commit object for request *)
(* r on parent p, or the empty set if the constructor returns an error.    *)
(***************************************************************************)
LoadObject(r, p) == {NewObject(p, {}, r.add, {}, {}, {}, {})}

(* (A variant that does not look the IDs up again on a retry.) *)
DeletesObject_NoLookup(r, p) == {NewObject(p, r.ids, {}, {}, {}, r.twice, {})}

DeletesObject(r, p) ==
    {o \in {NewObject(p, r.ids, {}, {}, {}, r.twice, {})} :
        snapOf[p].ok /\ r.ids \subseteq snapOf[p].objects}

(* The objects DeleteWhere rewrites, and the rows it keeps of them. *)
Matching(r, p) == {o \in snapOf[p].objects : content[o] \cap r.ids # {}}
KeptRows(r, p) == (UNION {content[o] : o \in Matching(r, p)}) \ r.ids

DeleteWhereObject(r, p) ==
    {o \in {NewObject(p, Matching(r, p), 
                      IF KeptRows(r, p) = {} THEN {} ELSE {nextObj}, {}, {}, {}, {})} :
        /\ snapOf[p].ok
        /\ snapOf[p].objects \subseteq files
        /\ Matching(r, p) # {}}

(* Store.PatchOfCommit *)
PatchOfCommit(m) ==
    IF m = Nil THEN BadPatch
    ELSE PlayOnPatch(NewPatch(snapOf[object[m].parent]), object[m])

RevertObject(r, p) ==
    {o \in {Revert(PatchOfCommit(r.commit), snapOf[p], p)} :
        /\ PatchOfCommit(r.commit).ok
        /\ snapOf[p].ok
        /\ o.del \cup o.add # {}}

(* (A variant that does not delete the source objects.) *)
CompactPatch_KeepSources(r, base) ==
    [NewPatch(base) EXCEPT !.objects = r.add, !.vectors = r.addvec]

CompactPatch(r, base) ==
    [NewPatch(base) EXCEPT !.objects = r.add, !.vectors = r.addvec, !.del = r.ids]

CompactObject(r, p) ==
    {o \in {NewCommitObject(CompactPatch(r, snapOf[p]), p)} :
        /\ snapOf[p].ok
        /\ r.add \cap snapOf[p].objects = {}
        /\ r.addvec \cap snapOf[p].vectors = {}
        /\ r.ids \subseteq snapOf[p].objects}

(* commonAncestor: the latest commit on both paths. *)
CommonAncestor(m, n) ==
    LET common == anc[m] \cap anc[n]
    IN  IF common = {} THEN Nil ELSE CHOOSE a \in common : \A x \in common : x <= a

(* (A variant that leaves out the last commit of the path.) *)
PatchOfPath_SkipLeaf(baseID, m) ==
    LET patch[n \in Tips] ==
            IF n = baseID THEN NewPatch(snapOf[baseID])
            ELSE PlayOnPatch(patch[object[n].parent], object[n])
    IN  IF m = baseID THEN patch[m] ELSE patch[object[m].parent]

(* Store.PatchOfPath(base, baseID, m), where baseID is on the path of m. *)
PatchOfPath(baseID, m) ==
    LET patch[n \in Tips] ==
            IF n = baseID THEN NewPatch(snapOf[baseID])
            ELSE PlayOnPatch(patch[object[n].parent], object[n])
    IN  patch[m]

(* Branch.buildMergeObject *)
MergeObject(r, p) ==
    LET baseID == CommonAncestor(p, r.commit)
        diff == Diff(PatchOfPath(baseID, p), PatchOfPath(baseID, r.commit))
    IN  IF baseID = Nil THEN {}
        ELSE {o \in {NewCommitObject(diff, p)} : diff.ok}

VectorsObject(r, p) ==
    {o \in {IF r.kind = "addvectors"
            THEN NewObject(p, {}, {}, {}, r.ids, {}, r.twice)
            ELSE NewObject(p, {}, {}, r.ids, {}, {}, r.twice)} :
        /\ snapOf[p].ok
        /\ r.ids \subseteq snapOf[p].objects
        /\ IF r.kind = "addvectors" THEN r.ids \cap snapOf[p].vectors = {}
                                    ELSE r.ids \subseteq snapOf[p].vectors}

Create(r, p) ==
    CASE r.kind = "load" -> LoadObject(r, p)
      [] r.kind = "delete" -> DeletesObject(r, p)
      [] r.kind = "deletewhere" -> DeleteWhereObject(r, p)
      [] r.kind = "revert" -> RevertObject(r, p)
      [] r.kind = "compact" -> CompactObject(r, p)
      [] r.kind = "merge" -> MergeObject(r, p)
      [] OTHER -> VectorsObject(r, p)
-------------------------------------------------------------------------------
(* The operation returns.  exec.Compact aborts its writer on an error,     *)
(* which deletes the object it wrote; the others leave theirs behind.      *)
Return(c) ==
    /\ pc' = [pc EXCEPT ![c] = "idle"]
    /\ req' = [req EXCEPT ![c] = NoRequest]
    /\ mine' = [mine EXCEPT ![c] = Nil]
    /\ tries' = [tries EXCEPT ![c] = 0]

AbortWriter(c) ==
    files' = IF req[c].kind = "compact" THEN files \ req[c].add ELSE files

(* One iteration of Branch.commit up to the update of the branch pointer. *)
Prepare(c) ==
    /\ pc[c] = "prepare"
    /\ branch[req[c].br] # NoBranch
    /\ nextCommit <= MaxCommits
    /\ \E o \in Create(req[c], branch[req[c].br]) :
        /\ object' = [object EXCEPT ![nextCommit] = o]
        /\ snapOf' = [snapOf EXCEPT ![nextCommit] = Play(snapOf[o.parent], o)]
        /\ anc' = [anc EXCEPT ![nextCommit] = anc[o.parent] \cup {nextCommit}]
        /\ IF req[c].kind = "deletewhere" /\ o.add # {}
           THEN WriteData(KeptRows(req[c], o.parent))
           ELSE NoWrite
    /\ nextCommit' = nextCommit + 1
    /\ mine' = [mine EXCEPT ![c] = nextCommit]
    /\ pc' = [pc EXCEPT ![c] = "publish"]
    /\ UNCHANGED <<branch, req, tries, bounds, history>>

(* LookupByName or the constructor returns an error. *)
PrepareFails(c) ==
    /\ pc[c] = "prepare"
    /\ branch[req[c].br] # NoBranch => Create(req[c], branch[req[c].br]) = {}
    /\ Return(c)
    /\ AbortWriter(c)
    /\ UNCHANGED <<branch, object, content, nextCommit, nextObj, bounds, derived, history>>

(* (A variant without the constraint.) *)
PointerUpdate_NoConstraint(c) == Store!Update(req[c].br, mine[c], NoBranch)

(* branches.Store.Update with parentCheck. *)
PointerUpdate(c) == Store!Update(req[c].br, mine[c], object[mine[c]].parent)

Publish(c) ==
    /\ pc[c] = "publish"
    /\ Store!Admissible(branch, PointerUpdate(c))
    /\ branch' = Store!Apply(branch, PointerUpdate(c))
    /\ published' = published \cup {mine[c]}
    /\ onBranch' = [onBranch EXCEPT ![req[c].br] = @ \cup {mine[c]}]
    /\ Return(c)
    /\ UNCHANGED <<object, files, content, nextCommit, nextObj, bounds, derived>>

(* (A variant that removes the parent's commit object.) *)
RemoveObject_Parent(c) ==
    object' = [object EXCEPT ![object[mine[c]].parent] = NoObject]

RemoveObject(c) == object' = [object EXCEPT ![mine[c]] = NoObject]

(* ErrConstraint: the object is removed and the loop goes on. *)
Conflict(c) ==
    /\ pc[c] = "publish"
    /\ branch[req[c].br] # NoBranch
    /\ ~Store!Admissible(branch, PointerUpdate(c))
    /\ RemoveObject(c)
    /\ IF tries[c] + 1 < MaxTries
       THEN /\ tries' = [tries EXCEPT ![c] = @ + 1]
            /\ mine' = [mine EXCEPT ![c] = Nil]
            /\ pc' = [pc EXCEPT ![c] = "prepare"]
            /\ UNCHANGED <<req, files>>
       ELSE Return(c) /\ AbortWriter(c)
    /\ UNCHANGED <<branch, content, nextCommit, nextObj, bounds, derived, history>>

(* The branch is gone, or the store gives up (a storage error, or its own  *)
(* retries are exhausted) without an effect.  Removing the object may fail *)
(* as well.                                                                *)
UpdateFails(c) ==
    /\ pc[c] = "publish"
    /\ branch[req[c].br] = NoBranch \/ "failures" \in Kinds
    /\ RemoveObject(c) \/ ("failures" \in Kinds /\ UNCHANGED object)
    /\ Return(c)
    /\ AbortWriter(c)
    /\ UNCHANGED <<branch, content, nextCommit, nextObj, bounds, derived, history>>

(* The process of a client dies, between any two steps. *)
Crash(c) ==
    /\ pc[c] # "idle"
    /\ crashes < MaxCrashes
    /\ crashes' = crashes + 1
    /\ Return(c)
    /\ UNCHANGED <<storage, begun, derived, history>>
-------------------------------------------------------------------------------
(* CreateBranch at a commit that is or was on a branch, or at no commit.   *)
(* The code takes any ID; callers have one from a branch or from the log.  *)
CreateBranch(b, m) ==
    /\ "branch" \in Kinds
    /\ m \in published \cup {Nil}
    /\ Store!Admissible(branch, Store!Insert(b, m))
    /\ branch' = Store!Apply(branch, Store!Insert(b, m))
    /\ onBranch' = [onBranch EXCEPT ![b] = {}]
    /\ UNCHANGED <<object, files, content, nextCommit, nextObj, locals, bounds,
                   derived, published>>

(* Pool.removeBranch: the constraint makes the lookup and the removal one  *)
(* step.                                                                   *)
RemoveBranch(b) ==
    /\ "unbranch" \in Kinds
    /\ branch[b] # NoBranch
    /\ branch' = Store!Apply(branch, Store!Delete(b, branch[b], branch[b]))
    /\ onBranch' = [onBranch EXCEPT ![b] = {}]
    /\ UNCHANGED <<object, files, content, nextCommit, nextObj, locals, bounds,
                   derived, published>>

(* (A variant that does not spare what the leaf refers to.) *)
Vacuumable_All(leaf) == UNION {object[m].add : m \in anc[leaf] \ {leaf}}

(* Store.Vacuumable *)
Vacuumable(leaf) ==
    (UNION {object[m].add : m \in anc[leaf] \ {leaf}}) \ snapOf[leaf].objects

(* Pool.Vacuum deletes the files one by one, in any order. *)
VacuumFile(leaf, o) ==
    /\ "vacuum" \in Kinds
    /\ leaf \in published
    /\ snapOf[leaf].ok
    /\ o \in Vacuumable(leaf) \cap files
    /\ files' = files \ {o}
    /\ UNCHANGED <<branch, object, content, nextCommit, nextObj, locals, bounds,
                   derived, history>>
-------------------------------------------------------------------------------
Duplicates(ids) == IF "duplicates" \in Kinds THEN SUBSET ids ELSE {{}}

BeginOp(c, b) ==
    \/ BeginLoad(c, b)
    \/ \E ids \in SUBSET TipOf(b).objects :
        \/ \E twice \in Duplicates(ids) : BeginDelete(c, b, ids, twice)
        \/ \E writeVectors \in BOOLEAN : BeginCompact(c, b, ids, writeVectors)
        \/ \E kind \in {"addvectors", "deletevectors"}, twice \in Duplicates(ids) :
              BeginVectors(c, kind, b, ids, twice)
    \/ \E o \in 1..(nextObj - 1) : BeginDeleteWhere(c, b, {o})
    \/ \E m \in published : BeginRevert(c, b, m)
    \/ \E child \in Branches : BeginMerge(c, child, b)

Next ==
    \/ \E c \in Clients :
        \/ \E b \in Live : BeginOp(c, b)
        \/ Prepare(c) \/ PrepareFails(c)
        \/ Publish(c) \/ Conflict(c) \/ UpdateFails(c)
        \/ Crash(c)
    \/ \E b \in Branches :
        \/ \E m \in Tips : CreateBranch(b, m)
        \/ RemoveBranch(b)
    \/ \E leaf \in CommitIDs, o \in Objs : VacuumFile(leaf, o)

Spec == Init /\ [][Next]_vars
-------------------------------------------------------------------------------
(***************************************************************************)
(* Properties.                                                             *)
(***************************************************************************)
(* Types of the pool's state. *)
TypeOK ==
    /\ branch \in [Branches -> Tips \cup {NoBranch}]
    /\ object \in [CommitIDs -> CommitObjects(Tips) \cup {NoObject}]
    /\ files \in IDSets
    /\ content \in [Objs -> IDSets]
    /\ nextCommit \in 1..(MaxCommits + 1)
    /\ nextObj \in 1..(MaxObjs + 1)
    /\ pc \in [Clients -> {"idle", "prepare", "publish"}]
    /\ req \in [Clients -> Requests]
    /\ mine \in [Clients -> Tips]
    /\ tries \in [Clients -> 0..(MaxTries - 1)]
    /\ begun \in 0..MaxOps
    /\ crashes \in 0..MaxCrashes
    /\ snapOf \in [Tips -> Snapshots]
    /\ anc \in [Tips -> SUBSET CommitIDs]
    /\ published \subseteq CommitIDs
    /\ onBranch \in [Branches -> SUBSET CommitIDs]

(* Every commit that was ever the tip of a branch keeps its commit object, *)
(* and so do its ancestors, down to the empty pool: Branch.commit only     *)
(* removes an object that no pointer was ever moved to (branch.go:395).    *)
HistoryKept ==
    /\ \A m \in published :
        /\ object[m] # NoObject
        /\ object[m].parent \in published \cup {Nil}
    /\ \A b \in Live : branch[b] \in published \cup {Nil}

(* The tip of every branch can be turned into a snapshot: each commit on   *)
(* its path plays on its parent although the two were built by clients     *)
(* that did not know of each other (branch.go:358-369).                    *)
TipReadable == \A b \in Live : TipOf(b).ok

(* A commit that was acknowledged stays on the path of its branch, as long *)
(* as the branch exists: no pointer update overwrites another.             *)
NoLostCommit == \A b \in Live : onBranch[b] \subseteq anc[branch[b]]

(* Every object of every tip has its data file: what Vacuum and the abort  *)
(* of a compaction delete is not in use on a branch.                       *)
TipDataPresent == \A b \in Live : TipOf(b).objects \subseteq files

(* No row is in two objects of a tip, however compactions, deletions and   *)
(* rewrites of the same objects interleave.  (The types of the state are   *)
(* checked along with it.)                                                 *)
NoDuplicateRows ==
    /\ TypeOK
    /\ \A b \in Live : \A o1, o2 \in TipOf(b).objects :
          o1 # o2 => content[o1] \cap content[o2] = {}

Rows(s) == UNION {content[o] : o \in s.objects}

(* Client c's pointer update takes effect in this step. *)
Publishes(c) ==
    /\ pc[c] = "publish"
    /\ branch'[req[c].br] = mine[c]
    /\ branch[req[c].br] # mine[c]

(* The rows of the tip after a commit of request r on a tip with rows R. *)
RowsAfter(r, R) ==
    CASE r.kind = "load" -> R \cup UNION {content[o] : o \in r.add}
      [] r.kind = "delete" -> R \ UNION {content[o] : o \in r.ids}
      [] r.kind = "deletewhere" -> R \ r.ids
      [] OTHER -> R

(* Each load, delete, delete-where, compaction and vector operation has    *)
(* exactly its own effect on the rows of the tip that is current when it   *)
(* commits, not on the tip it was computed from: a compaction in           *)
(* particular neither loses nor revives a row.                             *)
EffectAtTip ==
    [][\A c \in Clients :
        Publishes(c) /\ req[c].kind \notin {"revert", "merge"} =>
            Rows(snapOf[mine[c]]) = RowsAfter(req[c], Rows(TipOf(req[c].br)))]_vars

(* What the commits between base and m delete. *)
DeletedSince(base, m) == UNION {object[n].del : n \in anc[m] \ anc[base]}

(* A merge makes the parent branch reflect what the child branch added and *)
(* deleted since their common ancestor (docs/commands/super-db.md:656-658),*)
(* whatever else happened on either branch, provided that the parent has   *)
(* not deleted since an object that the child added or deleted: such       *)
(* merges are conflicts to the comments of Diff (patch.go:158-159,         *)
(* 172-173) and should have failed.                                        *)
MergeReflectsChild ==
    [][\A c \in Clients :
        LET base == CommonAncestor(branch[req[c].br], req[c].commit)
            old == snapOf[base].objects
            tip == TipOf(req[c].br)
            child == snapOf[req[c].commit]
            added == child.objects \ old
            deleted == old \ child.objects
        IN  /\ Publishes(c)
            /\ req[c].kind = "merge"
            /\ tip.ok
            /\ child.ok
            /\ DeletedSince(base, branch[req[c].br]) \cap (added \cup deleted) = {}
            => /\ snapOf[mine[c]].ok
               /\ snapOf[mine[c]].objects = (tip.objects \cup added) \ deleted]_vars

(* A merge does not add an object that the parent branch had and deleted   *)
(* (patch.go:158-159: "create an add, unless the parent deletes it, then   *)
(* return an error").                                                      *)
MergeKeepsDeletes ==
    [][\A c \in Clients :
        Publishes(c) /\ req[c].kind = "merge" =>
            \A m \in anc[branch[req[c].br]] :
                object[mine[c]].add \cap object[m].del = {}]_vars
-------------------------------------------------------------------------------
(***************************************************************************)
(* The inductive invariant behind HistoryKept, NoLostCommit and            *)
(* TipReadable, in named parts.                                            *)
(***************************************************************************)
Committed == published \cup {Nil}
Pending(c) == pc[c] = "publish"

(* The types the other parts need. *)
LakeTypes ==
    /\ branch \in [Branches -> Tips \cup {NoBranch}]
    /\ object = [m \in CommitIDs |-> object[m]]
    /\ nextCommit \in Nat \ {0}
    /\ nextObj \in Nat \ {0}
    /\ pc \in [Clients -> {"idle", "prepare", "publish"}]
    /\ req = [c \in Clients |-> req[c]]
    /\ \A c \in Clients : req[c].br \in Branches
    /\ mine \in [Clients -> Tips]
    /\ snapOf = [m \in Tips |-> snapOf[m]]
    /\ anc \in [Tips -> SUBSET CommitIDs]
    /\ published \subseteq CommitIDs
    /\ onBranch \in [Branches -> SUBSET CommitIDs]

(* Commits are published once, on top of a published parent. *)
PublishedInv ==
    /\ \A m \in published : m < nextCommit /\ object[m].parent \in Committed
    /\ \A b \in Live : branch[b] \in Committed

(* A commit that is written and not yet published has a published parent   *)
(* and belongs to one client.                                              *)
PendingInv ==
    /\ \A c \in Clients : Pending(c) =>
        /\ mine[c] \in CommitIDs
        /\ mine[c] < nextCommit
        /\ mine[c] \notin published
        /\ object[mine[c]].parent \in Committed
        /\ anc[mine[c]] = anc[object[mine[c]].parent] \cup {mine[c]}
    /\ \A c, d \in Clients : Pending(c) /\ Pending(d) /\ c # d => mine[c] # mine[d]

HistoryInv == LakeTypes /\ PublishedInv /\ PendingInv /\ NoLostCommit

(* Commits that can be read and name no object twice. *)
Readable(m) ==
    /\ snapOf[m].ok
    /\ snapOf[m].objects \subseteq 1..(nextObj - 1)
    /\ m # Nil => object[m].twice = {}

(* What each client is about to do. *)
RequestInv ==
    \A c \in Clients :
        /\ req[c].kind # "merge"
        /\ req[c].twice = {}
        /\ req[c].add \subseteq 1..(nextObj - 1)
        /\ req[c].kind = "revert" => req[c].commit \in published

(* The data objects a client wrote are on no path, until it publishes      *)
(* them, and in nobody else's request.                                     *)
UnsharedInv ==
    \A c \in Clients :
        /\ \A m \in Committed : req[c].add \cap snapOf[m].objects = {}
        /\ \A d \in Clients : c # d =>
            /\ req[c].add \cap req[d].add = {}
            /\ Pending(d) => req[c].add \cap snapOf[mine[d]].objects = {}

SnapshotInv ==
    /\ \A m \in Committed : Readable(m)
    /\ \A c \in Clients : Pending(c) => Readable(mine[c])
    /\ RequestInv
    /\ UnsharedInv

(* No merges, and no ID named twice in a request: either can publish a     *)
(* commit that deletes an object its parent does not have.                 *)
PlainKinds == Kinds \cap {"merge", "duplicates"} = {}

(* The inductive invariant: commit objects in use stay, each one published *)
(* on top of the tip it was computed from, and, without merges and         *)
(* duplicate IDs, each one can be played on its parent (Branch.commit and  *)
(* the constructors of branch.go).                                         *)
LakeInv == HistoryInv /\ (PlainKinds => SnapshotInv)
-------------------------------------------------------------------------------
(***************************************************************************)
(* The inductive invariant behind NoDuplicateRows and EffectAtTip.         *)
(***************************************************************************)
(* No merges, reverts and duplicate IDs: a revert brings objects back that *)
(* may have been compacted into another one.                               *)
RowKindsOnly == Kinds \cap {"merge", "revert", "duplicates"} = {}

(* The objects of a snapshot share no row. *)
Disjoint(s) ==
    \A o1, o2 \in s.objects : o1 # o2 => content[o1] \cap content[o2] = {}

(* What a client has written for its request r: a load wrote rows that are *)
(* in no other object, a compaction the rows of the objects it replaces.   *)
Written(r) ==
    /\ r.ids \subseteq 1..(nextObj - 1)
    /\ r.kind = "load" => \A a \in r.add :
        content[a] = {a} /\ \A o \in Objs \ {a} : a \notin content[o]
    /\ r.kind = "compact" => \E a \in Objs :
        /\ r.add = {a}
        /\ a \notin r.ids
        /\ content[a] = UNION {content[o] : o \in r.ids}

(* No snapshot holds a row twice, and a commit that is not yet published   *)
(* has the effect its client asked for.                                    *)
RowsInv ==
    /\ \A o \in Objs : content[o] \subseteq 1..(nextObj - 1)
    /\ \A c \in Clients : req[c].kind # "revert" /\ Written(req[c])
    /\ \A m \in Committed : Disjoint(snapOf[m])
    /\ \A c \in Clients : Pending(c) =>
        /\ Disjoint(snapOf[mine[c]])
        /\ Rows(snapOf[mine[c]]) =
               RowsAfter(req[c], Rows(snapOf[object[mine[c]].parent]))
-------------------------------------------------------------------------------
(***************************************************************************)
(* The inductive invariant behind TipDataPresent.                          *)
(***************************************************************************)
(* Vacuum only knows the branch it is called on, and a revert may need     *)
(* what it deleted.                                                        *)
DataKinds ==
    /\ PlainKinds
    /\ "vacuum" \in Kinds => Kinds \cap {"branch", "revert"} = {}

(* A commit whose data must be there: a tip, or, if nothing is vacuumed,   *)
(* any commit.                                                             *)
InUse(m) == "vacuum" \in Kinds => \E b \in Live : branch[b] = m

(* What a commit adds is in its snapshot, and its path consists of         *)
(* published commits.                                                      *)
PathInv ==
    /\ \A m \in published :
        object[m].add \subseteq snapOf[m].objects /\ anc[m] \subseteq published
    /\ anc[Nil] = {}
    /\ \A c \in Clients : Pending(c) =>
        /\ object[mine[c]].add \subseteq snapOf[mine[c]].objects
        /\ anc[mine[c]] \subseteq published \cup {mine[c]}

(* An object that was on the path of m and is not in the snapshot of m     *)
(* does not come back on top of m.                                         *)
Gone(n) ==
    \A m \in anc[n] : \A k \in anc[m] :
        object[k].add \cap snapOf[n].objects \subseteq snapOf[m].objects

(* A pool with Vacuum has one branch. *)
OneBranchInv ==
    /\ \A b \in Live : b = Main /\ published \subseteq anc[branch[b]]
    /\ \A m \in Committed : Gone(m)
    /\ \A c \in Clients : Pending(c) => Gone(mine[c])

DataInv ==
    /\ \A c \in Clients : pc[c] # "idle" =>
            req[c].kind \in Kinds /\ req[c].add \subseteq files
    /\ \A m \in Committed : InUse(m) => snapOf[m].objects \subseteq files
    /\ \A c \in Clients : Pending(c) /\ InUse(object[mine[c]].parent) =>
            snapOf[mine[c]].objects \subseteq files
    /\ PathInv
    /\ "vacuum" \in Kinds => OneBranchInv
===============================================================================
