-------------------------------- MODULE KVStore --------------------------------
(***************************************************************************)
(* What journal.Store promises its callers (lake/branches, lake/pools):    *)
(* one table, changed by atomic conditional updates.  An update takes      *)
(* effect only if its condition holds on the table it changes.             *)
(***************************************************************************)
EXTENDS StoreOps

CONSTANT Ops        \* the updates that callers may issue

VARIABLE db

Init == db = EmptyTable

Commit(o) ==
    /\ Admissible(db, o)
    /\ db' = Apply(db, o)

Next == \E o \in Ops : Commit(o)

Spec == Init /\ [][Next]_db
================================================================================
