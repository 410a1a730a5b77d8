---------------------------- MODULE MCSnapshotCache ----------------------------
EXTENDS SnapshotCache, TLC

CONSTANTS c1, c2, p1, p2

ThreeObjs == 1..3

(* The third commit deletes the object of the first. *)
ThirdDeletesFirst == [m \in 1..3 |-> IF m = 3 THEN {1} ELSE {}]

(* One goroutine in each of two processes. *)
TwoClients == c1 :> p1 @@ c2 :> p2

(* Processes are interchangeable, each together with its goroutine. *)
ProcessSymmetry ==
    {f \in Permutations(Clients \cup Procs) :
        \A c \in Clients : f[c] \in Clients /\ f[ProcOf[c]] = ProcOf[f[c]]}
================================================================================
