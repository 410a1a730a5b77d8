------------------------------- MODULE LakePools -------------------------------
(***************************************************************************)
(* The pools of a lake (lake/root.go, lake/pools/store.go, lake/pool.go).  *)
(* A pool is an entry (name, ID) of the lake's pool store and a directory  *)
(* named after the ID that holds its branches, commits and data.  The two  *)
(* are created, renamed and removed in several steps by clients in any     *)
(* number of processes.                                                    *)
(*                                                                         *)
(* The pool store is the atomic table of KVStore, keyed by name.  An entry *)
(* of the code holds the ID, the name and settings that never change; the  *)
(* table here maps the name to the ID.  IDs are fresh KSUIDs.              *)
(***************************************************************************)
EXTENDS Naturals, FiniteSets

CONSTANTS Clients,      \* concurrent users of the lake
          Names,        \* pool names
          NoPool,       \* no pool of that name
          Kinds,        \* the operations in use
          MaxPools,     \* bound: pool IDs
          MaxRenames,   \* bound: renames begun
          MaxCrashes    \* bound: clients that crash

PoolIDs == 1..MaxPools

ASSUME NoPoolAssumption == NoPool \notin Nat
ASSUME PoolsAssumption ==
    /\ MaxPools \in Nat
    /\ MaxRenames \in Nat
    /\ MaxCrashes \in Nat
    /\ Kinds \subseteq {"create", "remove", "rename"}

VARIABLES
    pools,      \* the pool store: ID of each name, or NoPool
    dirs,       \* pools whose directory exists, with its branch store and main
    nextID,     \* next pool ID
    pc,         \* where each client is
    name,       \* the name it works with (create: new; rename, remove: found)
    id,         \* the pool it works on
    newName,    \* Rename: newName
    renames,    \* number of renames begun (bound)
    crashes,    \* number of crashes (bound)
    owned,      \* history: pools created and not being removed
    stale       \* history: a rename moved a name that had changed hands

poolVars == <<pools, dirs, nextID, pc, name, id, newName, renames, crashes, owned, stale>>
-------------------------------------------------------------------------------
Store == INSTANCE StoreOps WITH Keys <- Names, Vals <- PoolIDs, Absent <- NoPool

AnyName == CHOOSE n \in Names : TRUE

Listed == {pools[n] : n \in Names} \ {NoPool}

PoolsInit ==
    /\ pools = [n \in Names |-> NoPool]
    /\ dirs = {}
    /\ nextID = 1
    /\ pc = [c \in Clients |-> "idle"]
    /\ name = [c \in Clients |-> AnyName]
    /\ id = [c \in Clients |-> 0]
    /\ newName = [c \in Clients |-> AnyName]
    /\ renames = 0
    /\ crashes = 0
    /\ owned = {}
    /\ stale = FALSE

Return(c) ==
    /\ pc' = [pc EXCEPT ![c] = "idle"]
    /\ name' = [name EXCEPT ![c] = AnyName]
    /\ id' = [id EXCEPT ![c] = 0]
    /\ newName' = [newName EXCEPT ![c] = AnyName]

(* Root.CreatePool finds the name unused.  (A name in use is an error.) *)
BeginCreate(c, n) ==
    /\ "create" \in Kinds
    /\ pc[c] = "idle"
    /\ nextID <= MaxPools
    /\ pools[n] = NoPool
    /\ pc' = [pc EXCEPT ![c] = "mkdir"]
    /\ name' = [name EXCEPT ![c] = n]
    /\ id' = [id EXCEPT ![c] = nextID]
    /\ nextID' = nextID + 1
    /\ UNCHANGED <<pools, dirs, newName, renames, crashes, owned, stale>>

(* CreatePool: the branch store and the main branch. *)
CreateDirectory(c) ==
    /\ pc[c] = "mkdir"
    /\ dirs' = dirs \cup {id[c]}
    /\ pc' = [pc EXCEPT ![c] = "add"]
    /\ UNCHANGED <<pools, nextID, name, id, newName, renames, crashes, owned, stale>>

(* pools.Add *)
AddEntry(c) ==
    LET o == Store!Insert(name[c], id[c])
    IN  /\ pc[c] = "add"
        /\ Store!Admissible(pools, o)
        /\ pools' = Store!Apply(pools, o)
        /\ owned' = owned \cup {id[c]}
        /\ Return(c)
        /\ UNCHANGED <<dirs, nextID, renames, crashes, stale>>

(* Somebody else took the name: the directory is removed. *)
AddFails(c) ==
    /\ pc[c] = "add"
    /\ ~Store!Admissible(pools, Store!Insert(name[c], id[c]))
    /\ dirs' = dirs \ {id[c]}
    /\ Return(c)
    /\ UNCHANGED <<pools, nextID, renames, crashes, owned, stale>>
-------------------------------------------------------------------------------
(* (A variant that removes the directory before the entry.) *)
BeginRemove_DirectoryFirst(c, n) ==
    /\ "remove" \in Kinds
    /\ pc[c] = "idle"
    /\ pools[n] # NoPool
    /\ pc' = [pc EXCEPT ![c] = "rmdir"]
    /\ name' = [name EXCEPT ![c] = n]
    /\ id' = [id EXCEPT ![c] = pools[n]]
    /\ UNCHANGED <<pools, dirs, nextID, newName, renames, crashes, owned, stale>>

(* RemovePool and Rename look the pool up by its ID; the entry found has   *)
(* the name the pool has now.                                              *)
BeginRemove(c, n) ==
    /\ "remove" \in Kinds
    /\ pc[c] = "idle"
    /\ pools[n] # NoPool
    /\ pc' = [pc EXCEPT ![c] = "delete"]
    /\ name' = [name EXCEPT ![c] = n]
    /\ id' = [id EXCEPT ![c] = pools[n]]
    /\ UNCHANGED <<pools, dirs, nextID, newName, renames, crashes, owned, stale>>

(* (A variant without the constraint on the ID.) *)
DeleteOp_AnyID(c) == Store!Delete(name[c], id[c], NoPool)

(* pools.Remove deletes the entry if it still is this pool's. *)
DeleteOp(c) == Store!Delete(name[c], id[c], id[c])

DeleteEntry(c) ==
    /\ pc[c] = "delete"
    /\ Store!Admissible(pools, DeleteOp(c))
    /\ pools' = Store!Apply(pools, DeleteOp(c))
    /\ owned' = owned \ {id[c]}
    /\ pc' = [pc EXCEPT ![c] = "rmdir"]
    /\ UNCHANGED <<dirs, nextID, name, id, newName, renames, crashes, stale>>

DeleteFails(c) ==
    /\ pc[c] = "delete"
    /\ ~Store!Admissible(pools, DeleteOp(c))
    /\ Return(c)
    /\ UNCHANGED <<pools, dirs, nextID, renames, crashes, owned, stale>>

(* DeleteByPrefix of the pool's directory. *)
RemoveDirectory(c) ==
    /\ pc[c] = "rmdir"
    /\ dirs' = dirs \ {id[c]}
    /\ Return(c)
    /\ UNCHANGED <<pools, nextID, renames, crashes, owned, stale>>

BeginRename(c, n, m) ==
    /\ "rename" \in Kinds
    /\ pc[c] = "idle"
    /\ renames < MaxRenames
    /\ pools[n] # NoPool
    /\ renames' = renames + 1
    /\ pc' = [pc EXCEPT ![c] = "move"]
    /\ name' = [name EXCEPT ![c] = n]
    /\ id' = [id EXCEPT ![c] = pools[n]]
    /\ newName' = [newName EXCEPT ![c] = m]
    /\ UNCHANGED <<pools, dirs, nextID, crashes, owned, stale>>

(* store.Move from the name that was found to the new one. *)
MoveEntry(c) ==
    LET o == Store!Move(name[c], newName[c], id[c])
    IN  /\ pc[c] = "move"
        /\ IF Store!Admissible(pools, o)
           THEN /\ pools' = Store!Apply(pools, o)
                /\ stale' = (stale \/ pools[name[c]] # id[c])
           ELSE UNCHANGED <<pools, stale>>
        /\ Return(c)
        /\ UNCHANGED <<dirs, nextID, renames, crashes, owned>>

(* The process of a client dies, between any two steps. *)
Crash(c) ==
    /\ pc[c] # "idle"
    /\ crashes < MaxCrashes
    /\ crashes' = crashes + 1
    /\ Return(c)
    /\ UNCHANGED <<pools, dirs, nextID, renames, owned, stale>>

PoolsNext ==
    \E c \in Clients :
        \/ \E n \in Names :
            \/ BeginCreate(c, n)
            \/ BeginRemove(c, n)
            \/ \E m \in Names : BeginRename(c, n, m)
        \/ CreateDirectory(c) \/ AddEntry(c) \/ AddFails(c)
        \/ DeleteEntry(c) \/ DeleteFails(c) \/ RemoveDirectory(c)
        \/ MoveEntry(c)
        \/ Crash(c)

PoolsSpec == PoolsInit /\ [][PoolsNext]_poolVars
-------------------------------------------------------------------------------
(* Every pool that is listed has its directory, however creations, removals *)
(* and crashes interleave (root.go: the directory is made before the entry  *)
(* is added and removed after the entry is deleted), as long as no rename   *)
(* moved a name that had changed hands.                                     *)
ListedPoolsExist == stale \/ Listed \subseteq dirs

(* A pool that was created stays listed, with its directory, under exactly *)
(* one name until it is removed.  The only step that can break this is a   *)
(* rename (pools/store.go:91) of a name that belongs to another pool by    *)
(* the time it is moved.                                                   *)
PoolsKept ==
    stale \/
    /\ owned \subseteq dirs
    /\ \A p \in owned : Cardinality({n \in Names : pools[n] = p}) = 1
-------------------------------------------------------------------------------
(***************************************************************************)
(* The inductive invariant behind both, in named parts.                    *)
(***************************************************************************)
(* Clients that are creating a pool, and those that work on one they found. *)
Creating(c) == pc[c] \in {"mkdir", "add"}
Working(c) == pc[c] \in {"delete", "rmdir", "move"}

PoolTypes ==
    /\ pools \in [Names -> PoolIDs \cup {NoPool}]
    /\ nextID \in Nat \ {0}
    /\ pc \in [Clients -> {"idle", "mkdir", "add", "delete", "rmdir", "move"}]
    /\ name = [c \in Clients |-> name[c]]
    /\ id \in [Clients -> PoolIDs \cup {0}]
    /\ newName = [c \in Clients |-> newName[c]]
    /\ \A c \in Clients : pc[c] # "idle" => id[c] \in PoolIDs /\ name[c] \in Names
    /\ \A c \in Clients : pc[c] = "move" => newName[c] \in Names
    /\ stale \in BOOLEAN

(* The pools that are owned are the listed ones, each under one name, and  *)
(* have their directories.                                                 *)
ListInv ==
    /\ owned = Listed
    /\ \A m, n \in Names : pools[m] = pools[n] /\ pools[m] # NoPool => m = n
    /\ owned \subseteq dirs
    /\ \A p \in owned : p < nextID

(* A pool that is being created is not listed yet and is nobody else's     *)
(* business; its directory is there when its entry is about to be added.   *)
CreatingInv ==
    \A c \in Clients : Creating(c) =>
        /\ id[c] \notin owned
        /\ id[c] < nextID
        /\ pc[c] = "add" => id[c] \in dirs
        /\ \A d \in Clients : d # c /\ pc[d] # "idle" => id[d] # id[c]

(* A directory is removed once its pool is not listed, for good. *)
WorkingInv ==
    \A c \in Clients :
        /\ Working(c) => id[c] < nextID
        /\ pc[c] = "rmdir" => id[c] \notin owned

PoolInv == PoolTypes /\ (~stale => ListInv /\ CreatingInv /\ WorkingInv)
================================================================================
