-------------------------- MODULE SnapshotCacheProofs --------------------------
(***************************************************************************)
(* Proofs about SnapshotCache, for every number of processes and clients,  *)
(* every length of the path and whatever its commits delete.               *)
(***************************************************************************)
EXTENDS SnapshotCache, TLAPS

(* The snapshot of no commit is the empty one. *)
LEMMA ReferenceNil == Reference(0) = NewSnapshot
<1>1. Reference(0) = [ok |-> TRUE, objects |-> Reference(0).objects, vectors |-> {}]
  BY DEF Reference, NewSnapshot
<1>2. Reference(0).objects = {}
  BY DEF Reference, NewSnapshot
<1> QED BY <1>1, <1>2 DEF NewSnapshot

(* What a commit shows: what its parent shows, without what it deletes,     *)
(* and the object it adds, which no commit up to it deletes.                *)
LEMMA ReferenceStep ==
    ASSUME NEW m \in 0..Depth, m + 1 \in Commits
    PROVE  Reference(m + 1).objects = (Reference(m).objects \ Deletes[m + 1]) \cup {m + 1}
<1>1. m \in Nat /\ m + 1 <= Depth /\ Depth \in Nat
  BY DepthAssumption DEF Commits
<1>2. \A n \in 1..(m + 1) : m + 1 \notin Deletes[n]
  <2> SUFFICES ASSUME NEW n \in 1..(m + 1), m + 1 \in Deletes[n] PROVE FALSE
    OBVIOUS
  <2>1. n \in 1..Depth
    BY <1>1
  <2>2. m + 1 \in 1..(n - 1)
    BY <2>1, DepthAssumption
  <2> QED BY <1>1, <2>2
<1>3. 1..(m + 1) = (1..m) \cup {m + 1}
  BY <1>1
<1>4. UNION {Deletes[n] : n \in 1..(m + 1)}
        = (UNION {Deletes[n] : n \in 1..m}) \cup Deletes[m + 1]
  BY <1>3
<1>5. m + 1 \notin UNION {Deletes[n] : n \in 1..(m + 1)}
  BY <1>2
<1>6. /\ Reference(m + 1).objects = (1..(m + 1)) \ UNION {Deletes[n] : n \in 1..(m + 1)}
      /\ Reference(m).objects = (1..m) \ UNION {Deletes[n] : n \in 1..m}
  BY DEF Reference, NewSnapshot
<1> QED BY <1>3, <1>4, <1>5, <1>6

(* Playing the object of the next commit keeps a snapshot sound. *)
LEMMA PlaySound ==
    ASSUME NEW s, NEW m \in 0..Depth, m + 1 \in Commits, Sound(s, m),
           Play(s, Object(m + 1)).ok
    PROVE  Sound(Play(s, Object(m + 1)), m + 1)
<1> DEFINE t == Play(s, Object(m + 1))
<1>1. t = [ok |-> TRUE,
           objects |-> (s.objects \ Deletes[m + 1]) \cup {m + 1},
           vectors |-> (s.vectors \ {}) \cup {}]
  BY DEF Play, Object, NewObject, BadSnapshot
<1>2. Reference(m + 1).objects = (Reference(m).objects \ Deletes[m + 1]) \cup {m + 1}
  BY ReferenceStep
<1>3. t.ok /\ t.objects \subseteq Reference(m + 1).objects
  BY <1>1, <1>2 DEF Sound
<1>4. ASSUME engine = "object" PROVE t = Reference(m + 1)
  <2>1. s = Reference(m)
    BY <1>4 DEF Sound
  <2>2. s.vectors = {}
    BY <2>1 DEF Reference, NewSnapshot
  <2>3. t = [ok |-> TRUE, objects |-> Reference(m + 1).objects, vectors |-> {}]
    BY <1>1, <1>2, <2>1, <2>2
  <2>4. Reference(m + 1) = [ok |-> TRUE, objects |-> Reference(m + 1).objects, vectors |-> {}]
    BY DEF Reference, NewSnapshot
  <2> QED BY <2>3, <2>4
<1> QED BY <1>3, <1>4 DEF Sound

(* Soundness is about the state only through the engine, which stays. *)
LEMMA SoundStays ==
    ASSUME engine' = engine, NEW s, NEW m
    PROVE  Sound(s, m)' <=> Sound(s, m)
  BY DEF Sound, Reference

-------------------------------------------------------------------------------
(* Nothing is stored or cached. *)
LEMMA CacheInit == Init => SnapshotInv
<1> SUFFICES ASSUME Init PROVE SnapshotInv
  OBVIOUS
<1> USE DEF Init
<1>1. CacheTypes
  <2>1. engine \in {"file", "object"}
    BY DepthAssumption
  <2>2. /\ file = [m \in Commits |-> file[m]]
        /\ snap = [c \in Clients |-> snap[c]]
        /\ got = [c \in Clients |-> got[c]]
    BY Zenon
  <2>3. cache = [p \in Procs |-> [m \in Commits |-> cache[p][m]]]
    <3>1. \A p \in Procs : [m \in Commits |-> cache[p][m]] = [m \in Commits |-> NoSnapshot]
      OBVIOUS
    <3> QED BY <3>1
  <2>4. /\ leaf \in [Clients -> 0..Depth] /\ at \in [Clients -> 0..Depth]
        /\ pc \in [Clients -> {"idle", "lookup", "open", "walk", "walkFile", "play", "put",
                               "write"}]
    BY DepthAssumption DEF Nil
  <2> QED BY <2>1, <2>2, <2>3, <2>4 DEF CacheTypes
<1>2. StoredInv
  BY DEF StoredInv
<1>3. CallInv
  BY DEF CallInv
<1>4. GotInv
  BY DEF GotInv, NothingGot
<1> QED BY <1>1, <1>2, <1>3, <1>4 DEF SnapshotInv

(* The client's place in a call changes, and with it what it holds; files, *)
(* caches and what clients have been given stay.                           *)
LEMMA CacheMove ==
    ASSUME SnapshotInv, NEW c \in Clients,
           NEW label \in {"lookup", "open", "walk", "walkFile", "play", "put", "write"},
           pc' = [pc EXCEPT ![c] = label],
           leaf' \in [Clients -> 0..Depth], at' \in [Clients -> 0..Depth],
           snap' = [d \in Clients |-> snap'[d]],
           \A d \in Clients : d # c =>
               leaf'[d] = leaf[d] /\ at'[d] = at[d] /\ snap'[d] = snap[d],
           leaf'[c] # Nil,
           label \in {"walk", "walkFile", "play"} => at'[c] <= leaf'[c],
           label = "walkFile" => at'[c] # Nil,
           label \in {"lookup", "open", "walk", "walkFile"} => snap'[c] = NewSnapshot,
           label = "play" => Sound(snap'[c], at'[c]),
           label \in {"put", "write"} => Sound(snap'[c], leaf'[c]),
           label = "write" => engine = "file",
           engine' = engine
    PROVE  CallInv' /\ pc' \in [Clients -> {"idle", "lookup", "open", "walk", "walkFile",
                                            "play", "put", "write"}]
<1>1. /\ pc'[c] = label
      /\ \A d \in Clients : d # c => pc'[d] = pc[d]
      /\ pc' \in [Clients -> {"idle", "lookup", "open", "walk", "walkFile", "play", "put",
                              "write"}]
  BY DEF SnapshotInv, CacheTypes
<1>2. ASSUME NEW d \in Clients
      PROVE  /\ pc'[d] # "idle" => leaf'[d] # Nil
             /\ pc'[d] \in {"walk", "walkFile", "play"} => at'[d] <= leaf'[d]
             /\ pc'[d] = "walkFile" => at'[d] # Nil
             /\ pc'[d] \in {"idle", "lookup", "open", "walk", "walkFile"} =>
                   snap'[d] = NewSnapshot
             /\ pc'[d] = "play" => Sound(snap'[d], at'[d])
             /\ pc'[d] \in {"put", "write"} => Sound(snap'[d], leaf'[d])
             /\ pc'[d] = "write" => engine = "file"
  <2>1. CASE d = c
    BY <1>1, <2>1
  <2>2. CASE d # c
    BY <1>1, <2>2 DEF SnapshotInv, CallInv
  <2> QED BY <2>1, <2>2
<1>3. CallInv'
  BY <1>2, SoundStays DEF CallInv, Nil, NewSnapshot
<1> QED BY <1>1, <1>3

(* Files, caches and what clients have been given stay. *)
LEMMA StoredStays ==
    ASSUME SnapshotInv, UNCHANGED <<engine, file, cache>>
    PROVE  StoredInv'
  BY SoundStays DEF SnapshotInv, StoredInv, NoSnapshot, BadSnapshot

LEMMA GotStays ==
    ASSUME SnapshotInv, UNCHANGED <<engine, got>>
    PROVE  GotInv'
  BY SoundStays DEF SnapshotInv, GotInv

(* A snapshot is put in a file and in a cache, or in either: it is sound   *)
(* for the commit it is stored under.                                      *)
LEMMA StoredPut ==
    ASSUME SnapshotInv, NEW c \in Clients, NEW m \in Commits, NEW s, Sound(s, m),
           engine' = engine,
           file' = file \/ file' = [file EXCEPT ![m] = s],
           cache' = cache \/ AddToCache(c, m, s)
    PROVE  /\ StoredInv'
           /\ file' = [n \in Commits |-> file'[n]]
           /\ cache' = [p \in Procs |-> [n \in Commits |-> cache'[p][n]]]
<1> USE DEF SnapshotInv, AddToCache
<1>0. ProcOf[c] \in Procs
  BY ProcOfAssumption
<1>1. /\ file' = [n \in Commits |-> file'[n]]
      /\ \A n \in Commits : file'[n] = file[n] \/ (n = m /\ file'[n] = s)
  BY DEF CacheTypes
<1>2. \A p \in Procs : \A n \in Commits :
        cache'[p][n] = cache[p][n] \/ (n = m /\ cache'[p][n] = s)
  <2>1. CASE cache' = cache
    BY <2>1
  <2>2. CASE cache' = [cache EXCEPT ![ProcOf[c]][m] = s]
    <3>1. DOMAIN cache = Procs /\ \A p \in Procs : DOMAIN cache[p] = Commits
      BY DEF CacheTypes
    <3>2. \A p \in Procs : p # ProcOf[c] => cache'[p] = cache[p]
      BY <2>2, <3>1
    <3>3. cache'[ProcOf[c]] = [cache[ProcOf[c]] EXCEPT ![m] = s]
      BY <1>0, <2>2, <3>1
    <3> QED BY <1>0, <3>1, <3>2, <3>3
  <2> QED BY <2>1, <2>2
<1>3. cache' = [p \in Procs |-> [n \in Commits |-> cache'[p][n]]]
  <2>1. CASE cache' = cache
    BY <2>1 DEF CacheTypes
  <2>2. CASE cache' = [cache EXCEPT ![ProcOf[c]][m] = s]
    <3>1. DOMAIN cache = Procs /\ \A p \in Procs : cache[p] = [n \in Commits |-> cache[p][n]]
      BY DEF CacheTypes
    <3>2. \A p \in Procs : p # ProcOf[c] => cache'[p] = cache[p]
      BY <2>2, <3>1
    <3>3. cache'[ProcOf[c]] = [cache[ProcOf[c]] EXCEPT ![m] = s]
      BY <1>0, <2>2, <3>1
    <3>4. \A p \in Procs : cache'[p] = [n \in Commits |-> cache'[p][n]]
      BY <1>0, <3>1, <3>2, <3>3
    <3>5. cache' = [p \in Procs |-> cache'[p]]
      BY <2>2, <3>1
    <3> QED BY <3>4, <3>5
  <2> QED BY <2>1, <2>2
<1>4. StoredInv'
  BY <1>1, <1>2, SoundStays DEF StoredInv, NoSnapshot, BadSnapshot
<1> QED BY <1>1, <1>3, <1>4

(* A call returns a sound snapshot, or ends without one. *)
LEMMA CallReturns ==
    ASSUME SnapshotInv, NEW c \in Clients, engine' = engine,
           Goto(c, "idle"), Forget(c),
           \/ got' = got
           \/ \E s : /\ got' = [got EXCEPT ![c] = [leaf |-> leaf[c], snap |-> s]]
                     /\ leaf[c] \in Commits
                     /\ Sound(s, leaf[c])
    PROVE  /\ CallInv' /\ GotInv'
           /\ got' = [d \in Clients |-> got'[d]]
           /\ snap' = [d \in Clients |-> snap'[d]]
           /\ leaf' \in [Clients -> 0..Depth] /\ at' \in [Clients -> 0..Depth]
           /\ pc' \in [Clients -> {"idle", "lookup", "open", "walk", "walkFile", "play",
                                   "put", "write"}]
<1> USE DEF SnapshotInv, Goto, Forget
<1>0. /\ leaf' \in [Clients -> 0..Depth] /\ at' \in [Clients -> 0..Depth]
      /\ \A d \in Clients : d # c => leaf'[d] = leaf[d] /\ at'[d] = at[d]
  <2>1. Nil \in 0..Depth
    BY DepthAssumption DEF Nil
  <2> QED BY <2>1 DEF CacheTypes
<1>1. /\ pc'[c] = "idle" /\ snap'[c] = NewSnapshot
      /\ \A d \in Clients : d # c => pc'[d] = pc[d] /\ snap'[d] = snap[d]
      /\ snap' = [d \in Clients |-> snap'[d]]
      /\ pc' \in [Clients -> {"idle", "lookup", "open", "walk", "walkFile", "play", "put",
                              "write"}]
  BY DEF CacheTypes
<1>2. CallInv'
  BY <1>0, <1>1, SoundStays DEF CallInv, NewSnapshot, Nil
<1>3. got' = [d \in Clients |-> got'[d]]
  BY DEF CacheTypes
<1>4. \A d \in Clients : \/ got'[d] = got[d]
                         \/ got'[d].leaf \in Commits /\ Sound(got'[d].snap, got'[d].leaf)
  BY DEF CacheTypes
<1>5. GotInv'
  BY <1>4, SoundStays DEF GotInv, Nil
<1> QED BY <1>0, <1>1, <1>2, <1>3, <1>5

-------------------------------------------------------------------------------
(* What is known of a client in a call, for the steps below. *)
LEMMA CallFacts ==
    ASSUME SnapshotInv, NEW c \in Clients
    PROVE  /\ leaf[c] \in 0..Depth /\ at[c] \in 0..Depth
           /\ pc[c] # "idle" => leaf[c] \in Commits
           /\ at[c] # Nil => at[c] \in Commits
           /\ \A m \in Commits : Cached(c, m) # NoSnapshot => Sound(Cached(c, m), m)
<1>1. leaf[c] \in 0..Depth /\ at[c] \in 0..Depth
  BY DEF SnapshotInv, CacheTypes
<1>2. pc[c] # "idle" => leaf[c] # 0
  BY DEF SnapshotInv, CallInv, Nil
<1>3. ProcOf[c] \in Procs
  BY ProcOfAssumption
<1>4. \A m \in Commits : Cached(c, m) # NoSnapshot => Sound(Cached(c, m), m)
  BY <1>3 DEF SnapshotInv, StoredInv, Cached
<1> QED BY <1>1, <1>2, <1>4, DepthAssumption DEF Commits, Nil

(* The steps of a call that end it. *)
LEMMA CacheReturns ==
    ASSUME SnapshotInv, NEW c \in Clients,
           \/ LookupHit(c) \/ OpenFound(c) \/ PlayFails(c) \/ WriteFile(c) \/ PutFails(c)
    PROVE  SnapshotInv'
<1>0. /\ leaf[c] \in 0..Depth /\ at[c] \in 0..Depth
      /\ pc[c] # "idle" => leaf[c] \in Commits
      /\ \A m \in Commits : Cached(c, m) # NoSnapshot => Sound(Cached(c, m), m)
  BY CallFacts
<1>1. engine' = engine /\ Goto(c, "idle") /\ Forget(c) /\ leaf[c] \in Commits
  BY <1>0 DEF LookupHit, OpenFound, PlayFails, WriteFile, PutFails, Return
<1>2. CASE PlayFails(c)
  <2>1. UNCHANGED <<file, cache, got, engine>>
    BY <1>2 DEF PlayFails
  <2>2. StoredInv'
    BY <2>1, StoredStays
  <2> QED BY <1>1, <2>1, <2>2, CallReturns DEF SnapshotInv, CacheTypes
<1>3. CASE LookupHit(c)
  <2>1. /\ UNCHANGED <<file, cache, engine>>
        /\ got' = [got EXCEPT ![c] = [leaf |-> leaf[c], snap |-> Cached(c, leaf[c])]]
        /\ Sound(Cached(c, leaf[c]), leaf[c])
    BY <1>0, <1>1, <1>3 DEF LookupHit, Return
  <2>2. StoredInv'
    BY <2>1, StoredStays
  <2> QED BY <1>1, <2>1, <2>2, CallReturns DEF SnapshotInv, CacheTypes
<1>4. CASE OpenFound(c) \/ WriteFile(c) \/ PutFails(c)
  <2>1. PICK s : /\ Sound(s, leaf[c])
                 /\ file' = file \/ file' = [file EXCEPT ![leaf[c]] = s]
                 /\ AddToCache(c, leaf[c], s)
                 /\ got' = [got EXCEPT ![c] = [leaf |-> leaf[c], snap |-> s]]
    <3>1. CASE OpenFound(c)
      <4>1. Sound(file[leaf[c]], leaf[c])
        BY <1>1, <3>1 DEF OpenFound, SnapshotInv, StoredInv
      <4> QED BY <3>1, <4>1 DEF OpenFound, Return
    <3>2. CASE WriteFile(c) \/ PutFails(c)
      <4>1. Sound(snap[c], leaf[c])
        BY <3>2 DEF WriteFile, PutFails, SnapshotInv, CallInv
      <4> QED BY <3>2, <4>1 DEF WriteFile, PutFails, Return
    <3> QED BY <1>4, <3>1, <3>2
  <2>2. /\ StoredInv'
        /\ file' = [n \in Commits |-> file'[n]]
        /\ cache' = [p \in Procs |-> [n \in Commits |-> cache'[p][n]]]
    BY <1>1, <2>1, StoredPut
  <2> QED BY <1>1, <2>1, <2>2, CallReturns DEF SnapshotInv, CacheTypes
<1> QED BY <1>2, <1>3, <1>4

(* The steps of a call that look and walk. *)
LEMMA CacheWalks ==
    ASSUME SnapshotInv, NEW c \in Clients,
           \/ LookupMiss(c) \/ OpenMissing(c) \/ WalkCached(c) \/ WalkNotCached(c)
           \/ WalkMissing(c) \/ WalkRoot(c)
    PROVE  SnapshotInv'
<1>0. /\ leaf[c] \in 0..Depth /\ at[c] \in 0..Depth
      /\ pc[c] # "idle" => leaf[c] \in Commits
      /\ at[c] # Nil => at[c] \in Commits
      /\ \A m \in Commits : Cached(c, m) # NoSnapshot => Sound(Cached(c, m), m)
  BY CallFacts
<1>1. UNCHANGED <<file, cache, leaf, got, engine>>
  BY DEF LookupMiss, OpenMissing, WalkCached, WalkNotCached, WalkMissing, WalkRoot
<1>2. StoredInv' /\ GotInv'
  BY <1>1, StoredStays, GotStays
<1>3. pc[c] # "idle" /\ leaf[c] \in Commits /\ leaf[c] # Nil
  BY <1>0 DEF LookupMiss, OpenMissing, WalkCached, WalkNotCached, WalkMissing, WalkRoot,
              Commits, Nil
<1> USE DEF SnapshotInv
<1>4. /\ CallInv' /\ at' \in [Clients -> 0..Depth] /\ snap' = [d \in Clients |-> snap'[d]]
      /\ pc' \in [Clients -> {"idle", "lookup", "open", "walk", "walkFile", "play", "put",
                              "write"}]
  <2>1. CASE LookupMiss(c)
    <3>1. /\ pc' = [pc EXCEPT ![c] = "open"] /\ UNCHANGED <<at, snap>>
          /\ snap[c] = NewSnapshot
      BY <2>1 DEF LookupMiss, Goto, CallInv
    <3> QED BY <1>1, <1>3, <3>1, CacheMove DEF CacheTypes
  <2>2. CASE OpenMissing(c)
    <3>1. /\ pc' = [pc EXCEPT ![c] = "walk"] /\ at' = [at EXCEPT ![c] = leaf[c]]
          /\ UNCHANGED snap /\ snap[c] = NewSnapshot
      BY <2>2 DEF OpenMissing, Goto, CallInv
    <3>2. /\ at' \in [Clients -> 0..Depth] /\ at'[c] <= leaf[c]
          /\ \A d \in Clients : d # c => at'[d] = at[d]
      BY <1>0, <3>1, DepthAssumption DEF CacheTypes
    <3> QED BY <1>1, <1>3, <3>1, <3>2, CacheMove DEF CacheTypes
  <2>3. CASE WalkCached(c)
    <3>1. /\ pc' = [pc EXCEPT ![c] = "play"] /\ UNCHANGED at /\ at[c] <= leaf[c]
          /\ snap' = [snap EXCEPT ![c] = Cached(c, at[c])]
          /\ Sound(Cached(c, at[c]), at[c])
      BY <1>0, <2>3 DEF WalkCached, Goto, CallInv
    <3>2. /\ snap' = [d \in Clients |-> snap'[d]] /\ snap'[c] = Cached(c, at[c])
          /\ \A d \in Clients : d # c => snap'[d] = snap[d]
      BY <3>1 DEF CacheTypes
    <3> QED BY <1>1, <1>3, <3>1, <3>2, CacheMove DEF CacheTypes
  <2>4. CASE WalkNotCached(c)
    <3>1. /\ pc' = [pc EXCEPT ![c] = "walkFile"] /\ UNCHANGED <<at, snap>>
          /\ at[c] <= leaf[c] /\ at[c] # Nil /\ snap[c] = NewSnapshot
      BY <2>4 DEF WalkNotCached, Goto, CallInv
    <3> QED BY <1>1, <1>3, <3>1, CacheMove DEF CacheTypes
  <2>5. CASE WalkMissing(c)
    <3>1. /\ pc' = [pc EXCEPT ![c] = "walk"] /\ at' = [at EXCEPT ![c] = at[c] - 1]
          /\ at[c] <= leaf[c] /\ at[c] # Nil /\ snap[c] = NewSnapshot /\ UNCHANGED snap
      BY <2>5 DEF WalkMissing, Goto, CallInv, Object, NewObject
    <3>2. /\ at' \in [Clients -> 0..Depth] /\ at'[c] <= leaf[c]
          /\ \A d \in Clients : d # c => at'[d] = at[d]
      BY <1>0, <3>1, DepthAssumption DEF CacheTypes, Nil
    <3> QED BY <1>1, <1>3, <3>1, <3>2, CacheMove DEF CacheTypes
  <2>6. CASE WalkRoot(c)
    <3>1. /\ pc' = [pc EXCEPT ![c] = "play"] /\ UNCHANGED <<at, snap>>
          /\ at[c] = Nil /\ at[c] <= leaf[c] /\ snap[c] = NewSnapshot
      BY <2>6 DEF WalkRoot, Goto, CallInv
    <3>2. Sound(snap[c], at[c])
      BY <3>1, ReferenceNil DEF Sound, NewSnapshot, Nil
    <3> QED BY <1>1, <1>3, <3>1, <3>2, CacheMove DEF CacheTypes
  <2> QED BY <2>1, <2>2, <2>3, <2>4, <2>5, <2>6
<1> QED BY <1>1, <1>2, <1>4 DEF CacheTypes

(* A base is found in a file. *)
LEMMA CacheWalkFound ==
    ASSUME SnapshotInv, NEW c \in Clients, WalkFound(c)
    PROVE  SnapshotInv'
<1>0. leaf[c] \in 0..Depth /\ at[c] \in Commits /\ leaf[c] \in Commits /\ leaf[c] # Nil
  BY CallFacts DEF WalkFound, SnapshotInv, CallInv
<1>1. /\ pc' = [pc EXCEPT ![c] = "play"]
      /\ snap' = [snap EXCEPT ![c] = file[at[c]]]
      /\ AddToCache(c, at[c], file[at[c]])
      /\ UNCHANGED <<file, leaf, at, got, engine>>
      /\ at[c] <= leaf[c]
      /\ Sound(file[at[c]], at[c])
  BY <1>0 DEF WalkFound, Goto, SnapshotInv, CallInv, StoredInv
<1>2. /\ StoredInv'
      /\ cache' = [p \in Procs |-> [n \in Commits |-> cache'[p][n]]]
  BY <1>0, <1>1, StoredPut
<1>3. GotInv'
  BY <1>1, GotStays
<1>4. /\ snap' = [d \in Clients |-> snap'[d]] /\ snap'[c] = file[at[c]]
      /\ \A d \in Clients : d # c => snap'[d] = snap[d]
  BY <1>1 DEF SnapshotInv, CacheTypes
<1>5. /\ CallInv'
      /\ pc' \in [Clients -> {"idle", "lookup", "open", "walk", "walkFile", "play", "put",
                              "write"}]
  BY <1>0, <1>1, <1>4, CacheMove DEF SnapshotInv, CacheTypes
<1> QED BY <1>1, <1>2, <1>3, <1>4, <1>5 DEF SnapshotInv, CacheTypes

(* An object is played, or all are. *)
LEMMA CachePlays ==
    ASSUME SnapshotInv, NEW c \in Clients, PlayObject(c) \/ PlayEnds(c)
    PROVE  SnapshotInv'
<1>0. leaf[c] \in Commits /\ leaf[c] # Nil /\ at[c] \in 0..Depth /\ at[c] <= leaf[c]
  BY CallFacts DEF PlayObject, PlayEnds, SnapshotInv, CallInv
<1>1. UNCHANGED <<file, cache, leaf, got, engine>> /\ pc[c] = "play" /\ Sound(snap[c], at[c])
  BY DEF PlayObject, PlayEnds, SnapshotInv, CallInv
<1>2. StoredInv' /\ GotInv'
  BY <1>1, StoredStays, GotStays
<1>3. /\ CallInv' /\ at' \in [Clients -> 0..Depth] /\ snap' = [d \in Clients |-> snap'[d]]
      /\ pc' \in [Clients -> {"idle", "lookup", "open", "walk", "walkFile", "play", "put",
                              "write"}]
  <2>1. CASE PlayObject(c)
    <3>1. at[c] + 1 \in Commits /\ at[c] + 1 <= leaf[c]
      BY <1>0, <2>1, DepthAssumption DEF PlayObject, Played, Commits
    <3>2. /\ Play(snap[c], Object(at[c] + 1)).ok
          /\ snap' = [snap EXCEPT ![c] = Play(snap[c], Object(at[c] + 1))]
          /\ at' = [at EXCEPT ![c] = at[c] + 1]
          /\ pc' = pc
      BY <2>1 DEF PlayObject, PlayNext
    <3>3. Sound(Play(snap[c], Object(at[c] + 1)), at[c] + 1)
      BY <1>0, <1>1, <3>1, <3>2, PlaySound
    <3>4. /\ at' \in [Clients -> 0..Depth] /\ at'[c] = at[c] + 1
          /\ \A d \in Clients : d # c => at'[d] = at[d]
      <4>1. at[c] + 1 \in 0..Depth
        BY <3>1, DepthAssumption DEF Commits
      <4> QED BY <3>2, <4>1 DEF SnapshotInv, CacheTypes
    <3>5. /\ snap' = [d \in Clients |-> snap'[d]]
          /\ snap'[c] = Play(snap[c], Object(at[c] + 1))
          /\ \A d \in Clients : d # c => snap'[d] = snap[d]
      BY <3>2 DEF SnapshotInv, CacheTypes
    <3>6. pc' = [pc EXCEPT ![c] = "play"]
      BY <1>1, <3>2 DEF SnapshotInv, CacheTypes
    <3> QED BY <1>0, <1>1, <3>1, <3>3, <3>4, <3>5, <3>6, CacheMove DEF SnapshotInv, CacheTypes
  <2>2. CASE PlayEnds(c)
    <3>1. /\ pc' = [pc EXCEPT ![c] = "put"] /\ UNCHANGED <<at, snap>>
          /\ Sound(snap[c], leaf[c])
      BY <1>1, <2>2 DEF PlayEnds, Goto, Played
    <3> QED BY <1>0, <1>1, <3>1, CacheMove DEF SnapshotInv, CacheTypes
  <2> QED BY <2>1, <2>2
<1> QED BY <1>1, <1>2, <1>3 DEF SnapshotInv, CacheTypes

(* The file is created or truncated: an empty snapshot is there to read. *)
LEMMA CacheTrunc ==
    ASSUME SnapshotInv, NEW c \in Clients, TruncFile(c)
    PROVE  SnapshotInv'
<1>0. leaf[c] \in Commits /\ leaf[c] # Nil
  BY CallFacts DEF TruncFile, SnapshotInv, CallInv
<1>1. /\ pc' = [pc EXCEPT ![c] = "write"]
      /\ file' = [file EXCEPT ![leaf[c]] = NewSnapshot]
      /\ UNCHANGED <<cache, leaf, at, snap, got, engine>>
      /\ engine = "file"
      /\ Sound(snap[c], leaf[c])
  BY DEF TruncFile, Goto, SnapshotInv, CallInv
<1>2. Sound(NewSnapshot, leaf[c])
  BY <1>1 DEF Sound, NewSnapshot
<1>3. StoredInv' /\ file' = [n \in Commits |-> file'[n]]
  BY <1>0, <1>1, <1>2, StoredPut
<1>4. GotInv'
  BY <1>1, GotStays
<1>5. /\ CallInv'
      /\ pc' \in [Clients -> {"idle", "lookup", "open", "walk", "walkFile", "play", "put",
                              "write"}]
  BY <1>0, <1>1, CacheMove DEF SnapshotInv, CacheTypes
<1> QED BY <1>1, <1>3, <1>4, <1>5 DEF SnapshotInv, CacheTypes

(* A client calls Snapshot. *)
LEMMA CacheCall ==
    ASSUME SnapshotInv, NEW c \in Clients, NEW m \in Commits, Call(c, m)
    PROVE  SnapshotInv'
<1>1. /\ pc' = [pc EXCEPT ![c] = "lookup"]
      /\ leaf' = [leaf EXCEPT ![c] = m]
      /\ got' = [got EXCEPT ![c] = NothingGot]
      /\ UNCHANGED <<file, cache, at, snap, engine>>
      /\ snap[c] = NewSnapshot
      /\ m \in 0..Depth /\ m # Nil
  BY DepthAssumption DEF Call, Goto, SnapshotInv, CallInv, Commits, Nil
<1>2. StoredInv'
  BY <1>1, StoredStays
<1>3. GotInv' /\ got' = [d \in Clients |-> got'[d]]
  <2>1. \A d \in Clients : got'[d] = got[d] \/ got'[d].leaf = Nil
    BY <1>1 DEF SnapshotInv, CacheTypes, NothingGot
  <2>2. got' = [d \in Clients |-> got'[d]]
    BY <1>1 DEF SnapshotInv, CacheTypes
  <2> QED BY <1>1, <2>1, <2>2, SoundStays DEF SnapshotInv, GotInv, Nil
<1>4. /\ leaf' \in [Clients -> 0..Depth] /\ leaf'[c] = m
      /\ \A d \in Clients : d # c => leaf'[d] = leaf[d]
  BY <1>1 DEF SnapshotInv, CacheTypes
<1>5. /\ CallInv'
      /\ pc' \in [Clients -> {"idle", "lookup", "open", "walk", "walkFile", "play", "put",
                              "write"}]
  BY <1>1, <1>4, CacheMove DEF SnapshotInv, CacheTypes
<1> QED BY <1>1, <1>2, <1>3, <1>4, <1>5 DEF SnapshotInv, CacheTypes

(* An entry is evicted, or a process dies with its cache and its calls. *)
LEMMA CacheLoses ==
    ASSUME SnapshotInv, NEW p \in Procs, Crash(p) \/ \E m \in Commits : Evict(p, m)
    PROVE  SnapshotInv'
<1> USE DEF SnapshotInv
<1>1. CASE Crash(p)
  <2>1. engine' = engine /\ file' = file
    BY <1>1 DEF Crash
  <2>2. cache' = [cache EXCEPT ![p] = [m \in Commits |-> NoSnapshot]]
    BY <1>1 DEF Crash
  <2>3. \A q \in Procs : cache'[q] = IF q = p THEN [m \in Commits |-> NoSnapshot] ELSE cache[q]
    BY <2>2 DEF CacheTypes
  <2>4. \A q \in Procs : cache'[q] = [m \in Commits |-> cache'[q][m]]
    BY <2>3 DEF CacheTypes
  <2>5. cache' = [q \in Procs |-> [m \in Commits |-> cache'[q][m]]]
    <3>1. cache' = [q \in Procs |-> cache'[q]]
      BY <2>2 DEF CacheTypes
    <3> QED BY <2>4, <3>1
  <2>6. StoredInv'
    <3>1. \A q \in Procs : \A m \in Commits : cache'[q][m] \in {cache[q][m], NoSnapshot}
      BY <2>3
    <3> QED BY <2>1, <3>1, SoundStays DEF StoredInv, NoSnapshot, BadSnapshot
  <2>7. \A c \in Clients :
          \/ /\ pc'[c] = pc[c] /\ leaf'[c] = leaf[c] /\ at'[c] = at[c] /\ snap'[c] = snap[c]
             /\ got'[c] = got[c]
          \/ /\ pc'[c] = "idle" /\ leaf'[c] = Nil /\ at'[c] = Nil /\ snap'[c] = NewSnapshot
             /\ got'[c] = NothingGot
    BY <1>1 DEF Crash
  <2>8. CacheTypes'
    <3>1. /\ pc' \in [Clients -> {"idle", "lookup", "open", "walk", "walkFile", "play", "put",
                                  "write"}]
          /\ leaf' \in [Clients -> 0..Depth] /\ at' \in [Clients -> 0..Depth]
      BY <1>1, DepthAssumption DEF Crash, CacheTypes, Nil
    <3>2. /\ snap' = [c \in Clients |-> snap'[c]]
          /\ got' = [c \in Clients |-> got'[c]]
      BY <1>1 DEF Crash
    <3> QED BY <2>1, <2>5, <3>1, <3>2 DEF CacheTypes
  <2>9. CallInv'
    BY <2>1, <2>7, SoundStays DEF CallInv, NewSnapshot, Nil
  <2>10. GotInv'
    BY <2>1, <2>7, SoundStays DEF GotInv, NothingGot, Nil
  <2> QED BY <2>6, <2>8, <2>9, <2>10
<1>2. ASSUME NEW m \in Commits, Evict(p, m)
      PROVE  SnapshotInv'
  <2>1. /\ UNCHANGED <<file, pc, leaf, at, snap, got, engine>>
        /\ cache' = [cache EXCEPT ![p][m] = NoSnapshot]
    BY <1>2 DEF Evict
  <2>2. /\ DOMAIN cache = Procs
        /\ \A q \in Procs : cache[q] = [n \in Commits |-> cache[q][n]]
    BY DEF CacheTypes
  <2>3. /\ \A q \in Procs : q # p => cache'[q] = cache[q]
        /\ cache'[p] = [cache[p] EXCEPT ![m] = NoSnapshot]
        /\ cache' = [q \in Procs |-> cache'[q]]
    BY <2>1, <2>2
  <2>4. \A q \in Procs : /\ cache'[q] = [n \in Commits |-> cache'[q][n]]
                         /\ \A n \in Commits : cache'[q][n] \in {cache[q][n], NoSnapshot}
    BY <2>2, <2>3
  <2>5. cache' = [q \in Procs |-> [n \in Commits |-> cache'[q][n]]]
    BY <2>3, <2>4
  <2>6. StoredInv'
    BY <2>1, <2>4, SoundStays DEF StoredInv, NoSnapshot, BadSnapshot
  <2>7. CacheTypes'
    BY <2>1, <2>5 DEF CacheTypes
  <2>8. CallInv'
    BY <2>1, SoundStays DEF CallInv, NewSnapshot, Nil
  <2> QED BY <2>1, <2>6, <2>7, <2>8, GotStays
<1> QED BY <1>1, <1>2

(* Every step preserves the invariant. *)
LEMMA CacheNext == SnapshotInv /\ [Next]_vars => SnapshotInv'
<1> SUFFICES ASSUME SnapshotInv, [Next]_vars PROVE SnapshotInv'
  OBVIOUS
<1>1. CASE UNCHANGED vars
  <2>1. CallInv' /\ CacheTypes'
    BY <1>1, SoundStays DEF vars, SnapshotInv, CallInv, CacheTypes, NewSnapshot, Nil
  <2> QED BY <1>1, <2>1, StoredStays, GotStays DEF vars, SnapshotInv
<1>2. ASSUME NEW c \in Clients, Step(c)
      PROVE  SnapshotInv'
  BY <1>2, CacheReturns, CacheWalks, CacheWalkFound, CachePlays, CacheTrunc DEF Step
<1> QED BY <1>1, <1>2, CacheCall, CacheLoses DEF Next

LEMMA CacheInvariant == Spec => []SnapshotInv
  BY CacheInit, CacheNext, PTL DEF Spec

-------------------------------------------------------------------------------
(* On an object store Store.Snapshot returns the snapshot that the commits  *)
(* define, whichever cache, file or walk it comes from.                     *)
THEOREM SnapshotsAreExact == Spec => []ServedExact
<1>1. SnapshotInv => ServedExact
  BY DEF SnapshotInv, GotInv, Sound, ServedExact
<1> QED BY <1>1, CacheInvariant, PTL

(* On any engine a snapshot shows no object that its commit does not have,  *)
(* also while files are being replaced and after crashes.                   *)
THEOREM SnapshotsAreSound == Spec => []ServedSound
<1>1. SnapshotInv => ServedSound
  BY DEF SnapshotInv, GotInv, Sound, ServedSound
<1> QED BY <1>1, CacheInvariant, PTL
================================================================================
