------------------------------- MODULE StoreOps -------------------------------
(***************************************************************************)
(* The key-value table kept by a journal.Store and the operations on it    *)
(* (lake/journal/store.go).  A table maps a key (a branch name, a pool     *)
(* name) to an entry (a branch config, a pool config) or to Absent.        *)
(* Entries are abstracted to values that can only be compared: a           *)
(* Constraint closure of the code compares one field of the stored entry,  *)
(* here the whole value.                                                   *)
(***************************************************************************)
EXTENDS Naturals

CONSTANTS Keys,     \* keys of the store
          Vals,     \* entries of the store
          Absent    \* no entry under this key

ASSUME AbsentAssumption == Absent \notin Vals

Table == [Keys -> Vals \cup {Absent}]

EmptyTable == [k \in Keys |-> Absent]

WriteKinds == {"insert", "update", "delete", "move"}

(* An operation.  exp is what the Constraint of Update and Delete requires *)
(* the stored entry to be (Absent: no constraint); old is the key Move     *)
(* takes the entry from.  Unused fields hold any value.                    *)
WriteOps == [kind : WriteKinds, key : Keys, old : Keys,
             val : Vals, exp : Vals \cup {Absent}]

Insert(k, v) == [kind |-> "insert", key |-> k, old |-> k, val |-> v, exp |-> Absent]
Update(k, v, x) == [kind |-> "update", key |-> k, old |-> k, val |-> v, exp |-> x]
Delete(k, v, x) == [kind |-> "delete", key |-> k, old |-> k, val |-> v, exp |-> x]
Move(j, k, v) == [kind |-> "move", key |-> k, old |-> j, val |-> v, exp |-> Absent]

(* The fn() that commit evaluates on the loaded table before it writes. *)
Admissible(t, o) ==
    \/ /\ o.kind = "insert"
       /\ t[o.key] = Absent
    \/ /\ o.kind = "move"
       /\ t[o.old] # Absent
       /\ t[o.key] = Absent
    \/ /\ o.kind \in {"update", "delete"}
       /\ t[o.key] # Absent
       /\ o.exp \in {Absent, t[o.key]}

(* What load does to the table when it replays the entry of o. *)
Apply(t, o) ==
    [k \in Keys |->
        IF k = o.key THEN (IF o.kind = "delete" THEN Absent ELSE o.val)
        ELSE IF o.kind = "move" /\ k = o.old THEN Absent
        ELSE t[k]]

(* load refuses an Update of a key that the table being built lacks. *)
Replayable(t, o) == o.kind = "update" => t[o.key] # Absent
===============================================================================
