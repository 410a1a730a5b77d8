----------------------------- MODULE SnapshotCache -----------------------------
(***************************************************************************)
(* Store.Snapshot of lake/commits/store.go: the snapshot of a commit is    *)
(* taken from an in-memory cache (snapshots, one per process), or from a   *)
(* <commit>.snap.bsup file, or is computed by walking to the nearest       *)
(* ancestor that has one and playing the commit objects in between.  What  *)
(* was computed is stored as a file for every process to use.              *)
(*                                                                         *)
(* The commits are 1..Depth, each the child of the one before.  Commit m   *)
(* adds the data object m and deletes the data objects Deletes[m], which   *)
(* commits before it have added.                                           *)
(*                                                                         *)
(* storage.Put on a file system opens with O_TRUNC and then writes: two    *)
(* steps, and one on an object store, which shows an object once its       *)
(* upload is complete.  A snapshot that is being written is an empty file, *)
(* and decodeSnapshot takes the end of the file for the end of the         *)
(* snapshot.                                                               *)
(***************************************************************************)
EXTENDS CommitOps

CONSTANTS Clients,      \* goroutines that need snapshots
          Procs,        \* processes
          ProcOf,       \* the process of a client
          Depth,        \* bound: length of the path
          Deletes,      \* what each commit deletes
          Engines,      \* storage engines: "file", "object"
          MaxCrashes    \* bound: process crashes

ASSUME ProcOfAssumption == ProcOf \in [Clients -> Procs]
ASSUME DepthAssumption ==
    /\ Depth \in Nat
    /\ MaxCrashes \in Nat
    /\ Engines \subseteq {"file", "object"}
    /\ Objs = 1..Depth
    /\ Deletes \in [1..Depth -> SUBSET Objs]
    /\ \A m \in 1..Depth : Deletes[m] \subseteq 1..(m - 1)

VARIABLES
    engine,     \* the engine the pool is on
    file,       \* <commit>.snap.bsup, or NoSnapshot
    cache,      \* Store.snapshots of each process
    pc,         \* where each client is
    leaf,       \* the commit whose snapshot it needs
    at,         \* Snapshot: at; then the commit whose objects are played
    snap,       \* Snapshot: base, then snap
    got,        \* what the client's last call returned, and for which commit
    crashes     \* number of crashes (bound)

vars == <<engine, file, cache, pc, leaf, at, snap, got, crashes>>
-------------------------------------------------------------------------------
Nil == 0
Commits == 1..Depth
NoSnapshot == BadSnapshot
NothingGot == [leaf |-> Nil, snap |-> NewSnapshot]

(* The commit object of m. *)
Object(m) == NewObject(m - 1, Deletes[m], {m}, {}, {}, {}, {})

(* What the snapshot of m is: what its path adds and does not delete. *)
Reference(m) ==
    [ok |-> TRUE, objects |-> (1..m) \ UNION {Deletes[n] : n \in 1..m}, vectors |-> {}]

Init ==
    /\ engine \in Engines
    /\ file = [m \in Commits |-> NoSnapshot]
    /\ cache = [p \in Procs |-> [m \in Commits |-> NoSnapshot]]
    /\ pc = [c \in Clients |-> "idle"]
    /\ leaf = [c \in Clients |-> Nil]
    /\ at = [c \in Clients |-> Nil]
    /\ snap = [c \in Clients |-> NewSnapshot]
    /\ got = [c \in Clients |-> NothingGot]
    /\ crashes = 0

Goto(c, label) == pc' = [pc EXCEPT ![c] = label]

Cached(c, m) == cache[ProcOf[c]][m]

(* snapshots.Add *)
AddToCache(c, m, s) == cache' = [cache EXCEPT ![ProcOf[c]][m] = s]

Forget(c) ==
    /\ leaf' = [leaf EXCEPT ![c] = Nil]
    /\ at' = [at EXCEPT ![c] = Nil]
    /\ snap' = [snap EXCEPT ![c] = NewSnapshot]

(* Snapshot returns s. *)
Return(c, s) ==
    /\ got' = [got EXCEPT ![c] = [leaf |-> leaf[c], snap |-> s]]
    /\ Goto(c, "idle")
    /\ Forget(c)

Call(c, m) ==
    /\ pc[c] = "idle"
    /\ leaf' = [leaf EXCEPT ![c] = m]
    /\ got' = [got EXCEPT ![c] = NothingGot]
    /\ Goto(c, "lookup")
    /\ UNCHANGED <<file, cache, at, snap, crashes, engine>>

(* The cache is consulted for the leaf. *)
LookupHit(c) ==
    /\ pc[c] = "lookup"
    /\ Cached(c, leaf[c]) # NoSnapshot
    /\ Return(c, Cached(c, leaf[c]))
    /\ UNCHANGED <<file, cache, crashes, engine>>

LookupMiss(c) ==
    /\ pc[c] = "lookup"
    /\ Cached(c, leaf[c]) = NoSnapshot
    /\ Goto(c, "open")
    /\ UNCHANGED <<file, cache, leaf, at, snap, got, crashes, engine>>

(* getSnapshot of the leaf. *)
OpenFound(c) ==
    /\ pc[c] = "open"
    /\ file[leaf[c]] # NoSnapshot
    /\ AddToCache(c, leaf[c], file[leaf[c]])
    /\ Return(c, file[leaf[c]])
    /\ UNCHANGED <<file, crashes, engine>>

OpenMissing(c) ==
    /\ pc[c] = "open"
    /\ file[leaf[c]] = NoSnapshot
    /\ at' = [at EXCEPT ![c] = leaf[c]]
    /\ Goto(c, "walk")
    /\ UNCHANGED <<file, cache, leaf, snap, got, crashes, engine>>

(* One iteration of the walk to the root: a cached snapshot is a base... *)
WalkCached(c) ==
    /\ pc[c] = "walk"
    /\ at[c] # Nil
    /\ Cached(c, at[c]) # NoSnapshot
    /\ snap' = [snap EXCEPT ![c] = Cached(c, at[c])]
    /\ Goto(c, "play")
    /\ UNCHANGED <<file, cache, leaf, at, got, crashes, engine>>

WalkNotCached(c) ==
    /\ pc[c] = "walk"
    /\ at[c] # Nil
    /\ Cached(c, at[c]) = NoSnapshot
    /\ Goto(c, "walkFile")
    /\ UNCHANGED <<file, cache, leaf, at, snap, got, crashes, engine>>

(* ... and so is a stored one; otherwise the parent is next. *)
WalkFound(c) ==
    /\ pc[c] = "walkFile"
    /\ file[at[c]] # NoSnapshot
    /\ AddToCache(c, at[c], file[at[c]])
    /\ snap' = [snap EXCEPT ![c] = file[at[c]]]
    /\ Goto(c, "play")
    /\ UNCHANGED <<file, leaf, at, got, crashes, engine>>

WalkMissing(c) ==
    /\ pc[c] = "walkFile"
    /\ file[at[c]] = NoSnapshot
    /\ at' = [at EXCEPT ![c] = Object(at[c]).parent]
    /\ Goto(c, "walk")
    /\ UNCHANGED <<file, cache, leaf, snap, got, crashes, engine>>

WalkRoot(c) ==
    /\ pc[c] = "walk"
    /\ at[c] = Nil
    /\ Goto(c, "play")
    /\ UNCHANGED <<file, cache, leaf, at, snap, got, crashes, engine>>

(* (A variant that leaves out the leaf's own object.) *)
Played_SkipLeaf(c) == at[c] + 1 >= leaf[c]

(* The objects found on the walk are played from the base up: at is now the *)
(* commit that snap shows.                                                  *)
Played(c) == at[c] = leaf[c]

(* (A variant that ignores deletes.) *)
PlayNext_AddsOnly(c) == Play(snap[c], [Object(at[c] + 1) EXCEPT !.del = {}])

PlayNext(c) == Play(snap[c], Object(at[c] + 1))

PlayObject(c) ==
    /\ pc[c] = "play"
    /\ ~Played(c)
    /\ PlayNext(c).ok
    /\ snap' = [snap EXCEPT ![c] = PlayNext(c)]
    /\ at' = [at EXCEPT ![c] = @ + 1]
    /\ UNCHANGED <<file, cache, pc, leaf, got, crashes, engine>>

(* An error ends the call. *)
PlayFails(c) ==
    /\ pc[c] = "play"
    /\ ~Played(c)
    /\ ~PlayNext(c).ok
    /\ Goto(c, "idle")
    /\ Forget(c)
    /\ UNCHANGED <<file, cache, got, crashes, engine>>

PlayEnds(c) ==
    /\ pc[c] = "play"
    /\ Played(c)
    /\ Goto(c, "put")
    /\ UNCHANGED <<file, cache, leaf, at, snap, got, crashes, engine>>

(* putSnapshot: the file is created or truncated... *)
TruncFile(c) ==
    /\ pc[c] = "put"
    /\ engine = "file"
    /\ file' = [file EXCEPT ![leaf[c]] = NewSnapshot]
    /\ Goto(c, "write")
    /\ UNCHANGED <<cache, leaf, at, snap, got, crashes, engine>>

(* ... and written; then the snapshot is cached. *)
WriteFile(c) ==
    /\ pc[c] = IF engine = "object" THEN "put" ELSE "write"
    /\ file' = [file EXCEPT ![leaf[c]] = snap[c]]
    /\ AddToCache(c, leaf[c], snap[c])
    /\ Return(c, snap[c])
    /\ UNCHANGED <<crashes, engine>>

(* A failure to store the snapshot is logged and has no other effect. *)
PutFails(c) ==
    /\ pc[c] = "put"
    /\ AddToCache(c, leaf[c], snap[c])
    /\ Return(c, snap[c])
    /\ UNCHANGED <<file, crashes, engine>>

(* The cache of a process is bounded: entries are evicted. *)
Evict(p, m) ==
    /\ cache[p][m] # NoSnapshot
    /\ cache' = [cache EXCEPT ![p][m] = NoSnapshot]
    /\ UNCHANGED <<file, pc, leaf, at, snap, got, crashes, engine>>

Crash(p) ==
    LET mine == {c \in Clients : ProcOf[c] = p}
    IN  /\ crashes < MaxCrashes
        /\ crashes' = crashes + 1
        /\ cache' = [cache EXCEPT ![p] = [m \in Commits |-> NoSnapshot]]
        /\ pc' = [c \in Clients |-> IF c \in mine THEN "idle" ELSE pc[c]]
        /\ leaf' = [c \in Clients |-> IF c \in mine THEN Nil ELSE leaf[c]]
        /\ at' = [c \in Clients |-> IF c \in mine THEN Nil ELSE at[c]]
        /\ snap' = [c \in Clients |-> IF c \in mine THEN NewSnapshot ELSE snap[c]]
        /\ got' = [c \in Clients |-> IF c \in mine THEN NothingGot ELSE got[c]]
        /\ UNCHANGED <<file, engine>>

Step(c) ==
    \/ LookupHit(c) \/ LookupMiss(c) \/ OpenFound(c) \/ OpenMissing(c)
    \/ WalkCached(c) \/ WalkNotCached(c) \/ WalkFound(c) \/ WalkMissing(c) \/ WalkRoot(c)
    \/ PlayObject(c) \/ PlayFails(c) \/ PlayEnds(c)
    \/ TruncFile(c) \/ WriteFile(c) \/ PutFails(c)

Next ==
    \/ \E c \in Clients : (\E m \in Commits : Call(c, m)) \/ Step(c)
    \/ \E p \in Procs : Crash(p) \/ (\E m \in Commits : Evict(p, m))

Spec == Init /\ [][Next]_vars
-------------------------------------------------------------------------------
(* On an object store a client is served the snapshot that the commits on  *)
(* the path define, whichever of the cache, a file of its own or another   *)
(* process, or the walk it comes from.                                     *)
ServedExact ==
    engine = "object" =>
        \A c \in Clients : got[c].leaf # Nil => got[c].snap = Reference(got[c].leaf)

(* On a file system too, while files are being replaced and after a crash  *)
(* that left one empty, a snapshot never shows an object that its commit   *)
(* does not have (one that was deleted, or not yet added).                 *)
ServedSound ==
    \A c \in Clients : got[c].leaf # Nil =>
        got[c].snap.objects \subseteq Reference(got[c].leaf).objects
-------------------------------------------------------------------------------
(***************************************************************************)
(* The inductive invariant behind both, in named parts.                    *)
(***************************************************************************)
(* A snapshot that may stand for that of m: the right one on an object     *)
(* store, and one that shows no object it should not on a file system.     *)
Sound(s, m) ==
    /\ s.ok
    /\ s.objects \subseteq Reference(m).objects
    /\ engine = "object" => s = Reference(m)

CacheTypes ==
    /\ engine \in {"file", "object"}
    /\ file = [m \in Commits |-> file[m]]
    /\ cache = [p \in Procs |-> [m \in Commits |-> cache[p][m]]]
    /\ pc \in [Clients -> {"idle", "lookup", "open", "walk", "walkFile", "play", "put",
                           "write"}]
    /\ leaf \in [Clients -> 0..Depth]
    /\ at \in [Clients -> 0..Depth]
    /\ snap = [c \in Clients |-> snap[c]]
    /\ got = [c \in Clients |-> got[c]]

(* What is stored, in files and in memory. *)
StoredInv ==
    /\ \A m \in Commits : file[m] # NoSnapshot => Sound(file[m], m)
    /\ \A p \in Procs, m \in Commits :
          cache[p][m] # NoSnapshot => Sound(cache[p][m], m)

(* What the clients hold: a call has nothing until it has found a base,    *)
(* and then the snapshot of the commit it has come to.                     *)
CallInv ==
    \A c \in Clients :
        /\ pc[c] # "idle" => leaf[c] # Nil
        /\ pc[c] \in {"walk", "walkFile", "play"} => at[c] <= leaf[c]
        /\ pc[c] = "walkFile" => at[c] # Nil
        /\ pc[c] \in {"idle", "lookup", "open", "walk", "walkFile"} => snap[c] = NewSnapshot
        /\ pc[c] = "play" => Sound(snap[c], at[c])
        /\ pc[c] \in {"put", "write"} => Sound(snap[c], leaf[c])
        /\ pc[c] = "write" => engine = "file"

GotInv ==
    \A c \in Clients : got[c].leaf # Nil =>
        got[c].leaf \in Commits /\ Sound(got[c].snap, got[c].leaf)

SnapshotInv == CacheTypes /\ StoredInv /\ CallInv /\ GotInv
================================================================================
