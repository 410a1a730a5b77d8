------------------------------ MODULE CommitOps ------------------------------
(***************************************************************************)
(* Snapshots, patches and commit objects (lake/commits: snapshot.go,       *)
(* patch.go, object.go) as operators on sets.                              *)
(*                                                                         *)
(* Every constructor of a commit object lists its actions in the order     *)
(* deletes, adds, vector deletes, vector adds, and the actions of one kind *)
(* commute, so that a commit object is four sets.  A list of IDs may name  *)
(* an ID more than once: these IDs are in twice (data objects) and in      *)
(* twicevec (vectors).                                                     *)
(***************************************************************************)
EXTENDS Naturals, FiniteSets

CONSTANT Objs       \* IDs of data objects

IDSets == SUBSET Objs

(* A Snapshot.  ok is FALSE where the code returns an error instead. *)
Snapshots == [ok : BOOLEAN, objects : IDSets, vectors : IDSets]

NewSnapshot == [ok |-> TRUE, objects |-> {}, vectors |-> {}]
BadSnapshot == [ok |-> FALSE, objects |-> {}, vectors |-> {}]

(* A commits.Object with the given parent. *)
NewObject(parent, del, add, delvec, addvec, twice, twicevec) ==
    [parent |-> parent, del |-> del, add |-> add, delvec |-> delvec,
     addvec |-> addvec, twice |-> twice, twicevec |-> twicevec]

CommitObjects(Parents) ==
    [parent : Parents, del : IDSets, add : IDSets, delvec : IDSets,
     addvec : IDSets, twice : IDSets, twicevec : IDSets]
-------------------------------------------------------------------------------
(* PlayAction of every action of o succeeds on Snapshot s.  The second     *)
(* action on an ID that is named twice always fails.                       *)
Playable(s, o) ==
    /\ o.twice = {}
    /\ o.twicevec = {}
    /\ o.del \subseteq s.objects
    /\ o.add \cap (s.objects \ o.del) = {}
    /\ o.delvec \subseteq s.vectors
    /\ o.addvec \cap (s.vectors \ o.delvec) = {}

(* The snapshot of a commit from the snapshot of its parent.  Deleting an   *)
(* object leaves its vector in the snapshot.                                *)
Play(s, o) ==
    IF s.ok /\ Playable(s, o)
    THEN [ok |-> TRUE,
          objects |-> (s.objects \ o.del) \cup o.add,
          vectors |-> (s.vectors \ o.delvec) \cup o.addvec]
    ELSE BadSnapshot
-------------------------------------------------------------------------------
(* A Patch over a base Snapshot: its diff (objects, vectors) and what it    *)
(* deletes from the base (del, delvec).                                     *)
NewPatch(base) ==
    [ok |-> base.ok, base |-> base, objects |-> {}, vectors |-> {},
     del |-> {}, delvec |-> {}, twice |-> {}, twicevec |-> {}]

BadPatch == NewPatch(BadSnapshot)

(* The objects Patch.Lookup finds.  It does not consult deletedObjects. *)
Lookup(p) == p.objects \cup p.base.objects
HasVector(p) == p.vectors \cup p.base.vectors

(* PlayAction of every action of o succeeds on Patch p.  A second delete   *)
(* of a base object is not an error.                                       *)
PlayableOnPatch(p, o) ==
    /\ o.del \subseteq Lookup(p)
    /\ o.twice \cap (o.add \cup (o.del \cap p.objects)) = {}
    /\ o.twicevec \cap (o.addvec \cup (o.delvec \cap p.vectors)) = {}
    /\ o.add \cap (p.base.objects \cup (p.objects \ o.del)) = {}
    /\ o.delvec \subseteq HasVector(p)
    /\ o.addvec \cap (p.base.vectors \cup (p.vectors \ o.delvec)) = {}

PlayOnPatch(p, o) ==
    IF p.ok /\ PlayableOnPatch(p, o)
    THEN LET dels == o.del \ p.objects
             delvecs == o.delvec \ p.vectors
         IN  [p EXCEPT !.objects = (@ \ o.del) \cup o.add,
                       !.vectors = (@ \ o.delvec) \cup o.addvec,
                       !.del = @ \cup dels,
                       !.delvec = @ \cup delvecs,
                       !.twice = @ \cup o.twice \cup (p.del \cap dels),
                       !.twicevec = @ \cup o.twicevec \cup (p.delvec \cap delvecs)]
    ELSE BadPatch

(* Patch.NewCommitObject *)
NewCommitObject(p, parent) ==
    NewObject(parent, p.del, p.objects, p.delvec, p.vectors,
              p.twice, p.twicevec)

(* Patch.Revert: undo what the patch did, where the tip still shows it. *)
(* Vectors are left alone.                                              *)
Revert(p, tip, parent) ==
    NewObject(parent, p.objects \cap tip.objects, p.del \ tip.objects,
              {}, {}, p.twice \ tip.objects, {})

(* Diff: the changes of the child patch that the parent patch lacks.  The   *)
(* objects deletedObjects of the child guards against are base objects,     *)
(* which the parent patch always finds: no error is possible there.         *)
DiffAdds(parent, child) == Lookup(child) \ Lookup(parent)

Diff(parent, child) ==
    IF /\ parent.ok
       /\ child.ok
       /\ DiffAdds(parent, child) \cap child.del = {}
       /\ child.del \subseteq Lookup(parent)
       /\ DiffAdds(parent, child) \cup child.del # {}
    THEN [ok |-> TRUE, base |-> parent.base,
          objects |-> DiffAdds(parent, child), vectors |-> {},
          del |-> child.del, delvec |-> {}, twice |-> child.twice, twicevec |-> {}]
    ELSE BadPatch
===============================================================================
