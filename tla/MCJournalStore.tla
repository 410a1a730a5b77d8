---------------------------- MODULE MCJournalStore ----------------------------
(***************************************************************************)
(* Instances of JournalStore for TLC.                                      *)
(***************************************************************************)
EXTENDS JournalStore, TLC

CONSTANTS c1, c2, c3,   \* clients
          p1, p2,       \* processes
          k1, k2,       \* keys
          v1, v2,       \* values
          Pairs         \* which clients work together

(* Two processes of one goroutine each. *)
OnePerProcess == c1 :> p1 @@ c2 :> p2

(* Two goroutines of one process, and another process. *)
ThreadsAndProcess == c1 :> p1 @@ c2 :> p1 @@ c3 :> p2

(* A branch (k1) is created, updated, deleted and moved to k2. *)
AllKinds == {Insert(k1, v1), Update(k1, v2, v1), Delete(k1, v1, v2),
             Move(k1, k2, v2)}

(***************************************************************************)
(* Two of the clients are at work: goroutines that share a Store, or those *)
(* of two processes.                                                       *)
(***************************************************************************)
VARIABLE active  \* the clients at work

PairsInit == Init /\ active \in Pairs

PairsNext ==
    /\ \/ \E c \in active : BeginRead(c)
       \/ \E c \in active, o \in WOps : BeginUpdate(c, o)
       \/ \E c \in active : Step(c)
       \/ \E c \in active : Crash(StoreOf[c])
    /\ UNCHANGED active

PairsSpec ==
    /\ PairsInit /\ [][PairsNext]_<<vars, active>>
    /\ \A c \in Clients : /\ WF_vars(c \in active /\ Step(c))
                          /\ WF_vars(c \in active /\ BeginRead(c))
===============================================================================
