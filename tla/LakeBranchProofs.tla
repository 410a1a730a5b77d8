--------------------------- MODULE LakeBranchProofs ---------------------------
(***************************************************************************)
(* Proofs about LakeBranch, for every number of clients, branches, commits *)
(* and data objects.                                                       *)
(***************************************************************************)
EXTENDS LakeBranch, TLAPS

(* Every constructor puts its commit object on top of the tip it was given *)
(* (the constructors of lake/branch.go).                                   *)
LEMMA CreateParent ==
    ASSUME NEW r, NEW p, NEW o \in Create(r, p)
    PROVE  o.parent = p
<1>1. CASE r.kind = "load"
  BY <1>1 DEF Create, LoadObject, NewObject
<1>2. CASE r.kind = "delete"
  BY <1>2 DEF Create, DeletesObject, NewObject
<1>3. CASE r.kind = "deletewhere"
  BY <1>3 DEF Create, DeleteWhereObject, NewObject
<1>4. CASE r.kind = "revert"
  BY <1>4 DEF Create, RevertObject, Revert, NewObject
<1>5. CASE r.kind = "compact"
  BY <1>5 DEF Create, CompactObject, NewCommitObject, NewObject
<1>6. CASE r.kind = "merge"
  BY <1>6 DEF Create, MergeObject, NewCommitObject, NewObject
<1>7. CASE r.kind \notin {"load", "delete", "deletewhere", "revert", "compact", "merge"}
  <2>1. o \in VectorsObject(r, p)
    BY <1>7 DEF Create
  <2> QED BY <2>1 DEF VectorsObject, NewObject
<1> QED BY <1>1, <1>2, <1>3, <1>4, <1>5, <1>6, <1>7

(* What a client that begins an operation has written and asks for. *)
LEMMA BeginFacts ==
    ASSUME LakeTypes, NEW c \in Clients, NEW b \in Live, BeginOp(c, b)
    PROVE  \E r : /\ Begin(c, r)
                  /\ r.br \in Branches
                  /\ \/ r.add = {} /\ nextObj' = nextObj
                     \/ r.add = {nextObj} /\ nextObj' = nextObj + 1
                  /\ r.kind = "revert" => r.commit \in published
                  /\ PlainKinds => r.twice = {}
<1> DEFINE Goal ==
      \E r : /\ Begin(c, r)
             /\ r.br \in Branches
             /\ \/ r.add = {} /\ nextObj' = nextObj
                \/ r.add = {nextObj} /\ nextObj' = nextObj + 1
             /\ r.kind = "revert" => r.commit \in published
             /\ PlainKinds => r.twice = {}
<1>0. b \in Branches
  BY DEF Live
<1>1. CASE BeginLoad(c, b)
  BY <1>0, <1>1 DEF BeginLoad, WriteData, Request
<1>2. ASSUME NEW ids \in SUBSET TipOf(b).objects, NEW twice \in Duplicates(ids),
             BeginDelete(c, b, ids, twice)
      PROVE  Goal
  BY <1>0, <1>2 DEF BeginDelete, NoWrite, Request, Duplicates, PlainKinds
<1>3. ASSUME NEW ids \in SUBSET TipOf(b).objects, NEW wv \in BOOLEAN,
             BeginCompact(c, b, ids, wv)
      PROVE  Goal
  BY <1>0, <1>3 DEF BeginCompact, WriteData, Request
<1>4. ASSUME NEW ids \in SUBSET TipOf(b).objects,
             NEW kind \in {"addvectors", "deletevectors"},
             NEW twice \in Duplicates(ids), BeginVectors(c, kind, b, ids, twice)
      PROVE  Goal
  BY <1>0, <1>4 DEF BeginVectors, NoWrite, Request, Duplicates, PlainKinds
<1>5. ASSUME NEW o \in 1..(nextObj - 1), BeginDeleteWhere(c, b, {o})
      PROVE  Goal
  BY <1>0, <1>5 DEF BeginDeleteWhere, NoWrite, Request
<1>6. ASSUME NEW m \in published, BeginRevert(c, b, m)
      PROVE  Goal
  BY <1>0, <1>6 DEF BeginRevert, NoWrite, Request
<1>7. ASSUME NEW child \in Branches, BeginMerge(c, child, b)
      PROVE  Goal
  BY <1>0, <1>7 DEF BeginMerge, NoWrite, Request
<1> QED BY <1>1, <1>2, <1>3, <1>4, <1>5, <1>6, <1>7 DEF BeginOp

-------------------------------------------------------------------------------
(* The empty pool. *)
LEMMA HistoryInit == Init => HistoryInv
<1> SUFFICES ASSUME Init PROVE HistoryInv
  OBVIOUS
<1>1. LakeTypes
  BY MainAssumption, LakeBoundsAssumption
     DEF Init, LakeTypes, Tips, CommitIDs, Nil, NoRequest, Request
<1>2. PublishedInv
  BY NoBranchAssumption DEF Init, PublishedInv, Live, Committed, Nil
<1>3. PendingInv
  BY DEF Init, PendingInv, Pending
<1>4. NoLostCommit
  BY DEF Init, NoLostCommit, Live
<1> QED BY <1>1, <1>2, <1>3, <1>4 DEF HistoryInv

(* A client begins an operation. *)
LEMMA HistoryBegin ==
    ASSUME HistoryInv, NEW c \in Clients, NEW b \in Live, BeginOp(c, b)
    PROVE  HistoryInv'
<1>1. PICK r : /\ Begin(c, r)
               /\ r.br \in Branches
               /\ nextObj' = nextObj \/ nextObj' = nextObj + 1
  BY BeginFacts DEF HistoryInv
<1> USE DEF HistoryInv
<1>2. /\ pc[c] = "idle"
      /\ pc' = [pc EXCEPT ![c] = "prepare"]
      /\ req' = [req EXCEPT ![c] = r]
      /\ UNCHANGED <<branch, object, nextCommit, mine, snapOf, anc, published, onBranch>>
  BY <1>1 DEF Begin, derived, history
<1>3. LakeTypes'
  BY <1>1, <1>2 DEF LakeTypes
<1>4. \A d \in Clients : Pending(d)' <=> Pending(d)
  BY <1>2 DEF Pending, LakeTypes
<1>5. PublishedInv'
  BY <1>2 DEF PublishedInv, Live, Committed
<1>6. PendingInv'
  BY <1>2, <1>4 DEF PendingInv, Committed
<1>7. NoLostCommit'
  BY <1>2 DEF NoLostCommit, Live
<1> QED BY <1>3, <1>5, <1>6, <1>7

(* Commits and branches stay as they are and the operation of client c     *)
(* ends, or goes back to the start of the loop; its own commit object may  *)
(* be removed.                                                             *)
LEMMA HistoryLeave ==
    ASSUME HistoryInv, NEW c \in Clients,
           NEW label \in {"idle", "prepare"},
           pc' = [pc EXCEPT ![c] = label],
           req' = [req EXCEPT ![c] = NoRequest] \/ req' = req,
           mine' = [mine EXCEPT ![c] = Nil],
           UNCHANGED <<branch, nextCommit, nextObj, snapOf, anc, published, onBranch>>,
           \/ object' = object
           \/ Pending(c) /\ object' = [object EXCEPT ![mine[c]] = NoObject]
    PROVE  HistoryInv'
<1> USE DEF HistoryInv
<1>1. LakeTypes'
  <2>1. NoRequest.br \in Branches
    BY MainAssumption DEF NoRequest, Request
  <2>2. /\ req' = [d \in Clients |-> req'[d]]
        /\ \A d \in Clients : req'[d].br \in Branches
    BY <2>1 DEF LakeTypes
  <2>3. object' = [m \in CommitIDs |-> object'[m]]
    BY DEF LakeTypes
  <2>4. Nil \in Tips
    BY LakeBoundsAssumption DEF Nil, Tips
  <2> QED BY <2>2, <2>3, <2>4 DEF LakeTypes
<1>2. \A d \in Clients : Pending(d)' => Pending(d) /\ d # c /\ mine'[d] = mine[d]
  BY DEF Pending, LakeTypes
<1>3. \A m \in CommitIDs : object'[m] = object[m] \/ (Pending(c) /\ m = mine[c])
  BY DEF LakeTypes
<1>4. PublishedInv'
  <2>1. \A m \in published : m \in CommitIDs
    BY DEF LakeTypes
  <2>2. Pending(c) => mine[c] \notin published
    BY DEF PendingInv
  <2>3. \A m \in published : object'[m] = object[m]
    BY <1>3, <2>1, <2>2, Zenon
  <2> QED BY <2>3 DEF PublishedInv, Live, Committed
<1>5. PendingInv'
  <2>1. \A d \in Clients : Pending(d)' => object'[mine[d]] = object[mine[d]]
    BY <1>2, <1>3 DEF PendingInv
  <2> QED BY <1>2, <2>1 DEF PendingInv, Committed
<1>6. NoLostCommit'
  BY DEF NoLostCommit, Live
<1> QED BY <1>1, <1>4, <1>5, <1>6

(* A client builds and writes a commit object. *)
LEMMA HistoryPrepare ==
    ASSUME HistoryInv, NEW c \in Clients, Prepare(c)
    PROVE  HistoryInv'
<1> USE DEF HistoryInv
<1> DEFINE p == branch[req[c].br]
<1>1. PICK o \in Create(req[c], p) :
        /\ object' = [object EXCEPT ![nextCommit] = o]
        /\ snapOf' = [snapOf EXCEPT ![nextCommit] = Play(snapOf[o.parent], o)]
        /\ anc' = [anc EXCEPT ![nextCommit] = anc[o.parent] \cup {nextCommit}]
        /\ nextObj' = nextObj \/ nextObj' = nextObj + 1
  BY DEF Prepare, WriteData, NoWrite
<1>2. /\ nextCommit <= MaxCommits
      /\ nextCommit' = nextCommit + 1
      /\ mine' = [mine EXCEPT ![c] = nextCommit]
      /\ pc' = [pc EXCEPT ![c] = "publish"]
      /\ UNCHANGED <<branch, req, published, onBranch>>
      /\ p # NoBranch
  BY DEF Prepare, history
<1>3. nextCommit \in CommitIDs /\ nextCommit \in Tips /\ nextCommit # Nil
  BY <1>2, LakeBoundsAssumption DEF CommitIDs, Tips, Nil, LakeTypes
<1>4. o.parent = p /\ p \in Committed /\ p \in Tips
  <2>1. o.parent = p
    BY CreateParent
  <2>2. req[c].br \in Live
    BY <1>2 DEF Live, LakeTypes
  <2> QED BY <1>2, <2>1, <2>2 DEF PublishedInv, LakeTypes
<1>5. nextCommit \notin Committed /\ nextCommit \in Nat
  <2>1. nextCommit \in Nat
    BY DEF LakeTypes
  <2>2. \A m \in published : m < nextCommit
    BY DEF PublishedInv
  <2> QED BY <1>3, <2>1, <2>2 DEF Committed
<1>6. LakeTypes'
  <2>1. anc[o.parent] \cup {nextCommit} \in SUBSET CommitIDs
    BY <1>3, <1>4 DEF LakeTypes
  <2>2. anc' \in [Tips -> SUBSET CommitIDs]
    BY <1>1, <2>1 DEF LakeTypes
  <2>3. /\ object' = [m \in CommitIDs |-> object'[m]]
        /\ snapOf' = [m \in Tips |-> snapOf'[m]]
    BY <1>1 DEF LakeTypes
  <2> QED BY <1>1, <1>2, <1>3, <2>2, <2>3 DEF LakeTypes
<1>7. \A m \in Committed \cup (CommitIDs \ {nextCommit}) :
        anc'[m] = anc[m] /\ (m # Nil => object'[m] = object[m])
  BY <1>1, <1>5, <1>3 DEF LakeTypes, Committed, Tips, CommitIDs, Nil
<1>8. PublishedInv'
  <2>1. \A m \in published : m < nextCommit' /\ object'[m].parent \in Committed
    <3> SUFFICES ASSUME NEW m \in published
                 PROVE  m < nextCommit' /\ object'[m].parent \in Committed
      OBVIOUS
    <3>1. m < nextCommit /\ object[m].parent \in Committed
      BY DEF PublishedInv
    <3>2. m \in CommitIDs
      BY DEF LakeTypes
    <3>3. m \in Nat /\ m # Nil
      BY <3>2 DEF CommitIDs, Nil
    <3>4. m < nextCommit'
      BY <1>2, <1>5, <3>1, <3>3
    <3>5. object'[m] = object[m]
      BY <1>7, <3>3 DEF Committed
    <3> QED BY <3>1, <3>4, <3>5
  <2> QED BY <1>2, <2>1 DEF PublishedInv, Live, Committed
<1>9. PendingInv'
  <2>1. \A d \in Clients : Pending(d)' =>
          \/ d = c /\ mine'[d] = nextCommit
          \/ d # c /\ Pending(d) /\ mine'[d] = mine[d] /\ mine[d] < nextCommit
    BY <1>2 DEF Pending, LakeTypes, PendingInv
  <2>2. ASSUME NEW d \in Clients, Pending(d)'
        PROVE  /\ mine'[d] \in CommitIDs
               /\ mine'[d] < nextCommit'
               /\ mine'[d] \notin published
               /\ object'[mine'[d]].parent \in Committed
               /\ anc'[mine'[d]] = anc'[object'[mine'[d]].parent] \cup {mine'[d]}
    <3>1. CASE d = c
      <4>1. object'[nextCommit] = o /\ anc'[nextCommit] = anc[p] \cup {nextCommit}
        BY <1>1, <1>3, <1>4 DEF LakeTypes
      <4>2. anc'[p] = anc[p]
        BY <1>4, <1>7
      <4>3. mine'[c] = nextCommit /\ nextCommit < nextCommit'
        BY <1>2 DEF LakeTypes
      <4> QED BY <3>1, <4>1, <4>2, <4>3, <1>3, <1>4, <1>5 DEF Committed
    <3>2. CASE d # c
      <4>1. Pending(d) /\ mine'[d] = mine[d] /\ mine[d] < nextCommit
        BY <2>1, <2>2, <3>2
      <4>2. mine[d] \in CommitIDs \ {nextCommit} /\ mine[d] # Nil
        <5>1. mine[d] \in CommitIDs
          BY <4>1 DEF PendingInv
        <5>2. mine[d] \in Nat /\ mine[d] # Nil
          BY <5>1 DEF CommitIDs, Nil
        <5> QED BY <1>5, <4>1, <5>1, <5>2
      <4>3. object'[mine[d]] = object[mine[d]] /\ anc'[mine[d]] = anc[mine[d]]
        BY <4>2, <1>7
      <4>4. anc'[object[mine[d]].parent] = anc[object[mine[d]].parent]
        BY <4>1, <1>7 DEF PendingInv
      <4>5. mine[d] < nextCommit'
        BY <4>1, <4>2, <1>2 DEF LakeTypes, CommitIDs
      <4> QED BY <4>1, <4>2, <4>3, <4>4, <4>5 DEF PendingInv
    <3> QED BY <3>1, <3>2
  <2>3. ASSUME NEW d \in Clients, NEW e \in Clients, Pending(d)', Pending(e)', d # e
        PROVE  mine'[d] # mine'[e]
    BY <2>1, <2>3 DEF PendingInv, CommitIDs, LakeTypes
  <2> QED BY <1>2, <2>2, <2>3 DEF PendingInv, Committed
<1>10. NoLostCommit'
  <2>1. \A b \in Live : anc'[branch[b]] = anc[branch[b]]
    BY <1>7 DEF PublishedInv
  <2> QED BY <1>2, <2>1 DEF NoLostCommit, Live
<1> QED BY <1>6, <1>8, <1>9, <1>10

(* A pointer update takes effect: it moved the pointer from the parent of  *)
(* the commit.                                                             *)
LEMMA PublishFacts ==
    ASSUME HistoryInv, NEW c \in Clients, Publish(c)
    PROVE  /\ Pending(c)
           /\ req[c].br \in Live
           /\ branch[req[c].br] = object[mine[c]].parent
           /\ branch' = [b \in Branches |-> IF b = req[c].br THEN mine[c] ELSE branch[b]]
<1>1. Pending(c) /\ object[mine[c]].parent \in Committed
  BY DEF Publish, Pending, HistoryInv, PendingInv
<1>2. object[mine[c]].parent # NoBranch
  <2>1. Committed \subseteq Nat
    BY DEF HistoryInv, LakeTypes, Committed, CommitIDs, Nil
  <2> QED BY <1>1, <2>1, NoBranchAssumption
<1>3. Store!Admissible(branch, PointerUpdate(c)) /\ branch' = Store!Apply(branch, PointerUpdate(c))
  BY DEF Publish
<1>4. branch[req[c].br] # NoBranch /\ branch[req[c].br] = object[mine[c]].parent
  BY <1>2, <1>3 DEF Store!Admissible, PointerUpdate, Store!Update
<1>5. branch' = [b \in Branches |-> IF b = req[c].br THEN mine[c] ELSE branch[b]]
  BY <1>3 DEF Store!Apply, PointerUpdate, Store!Update
<1>6. req[c].br \in Live
  BY <1>4 DEF HistoryInv, LakeTypes, Live
<1> QED BY <1>1, <1>4, <1>5, <1>6

(* The commit of a client becomes the tip of its branch. *)
LEMMA HistoryPublish ==
    ASSUME HistoryInv, NEW c \in Clients, Publish(c)
    PROVE  HistoryInv'
<1> USE DEF HistoryInv
<1> DEFINE m == mine[c]
           br == req[c].br
<1>1. /\ Pending(c)
      /\ br \in Live
      /\ branch[br] = object[m].parent
      /\ branch' = [b \in Branches |-> IF b = br THEN m ELSE branch[b]]
  BY PublishFacts
<1>2. /\ published' = published \cup {m}
      /\ onBranch' = [onBranch EXCEPT ![br] = @ \cup {m}]
      /\ pc' = [pc EXCEPT ![c] = "idle"]
      /\ req' = [req EXCEPT ![c] = NoRequest]
      /\ mine' = [mine EXCEPT ![c] = Nil]
      /\ UNCHANGED <<object, nextCommit, nextObj, snapOf, anc>>
  BY DEF Publish, Return, derived
<1>3. /\ m \in CommitIDs
      /\ m < nextCommit
      /\ object[m].parent \in Committed
      /\ anc[m] = anc[object[m].parent] \cup {m}
  BY <1>1 DEF PendingInv
<1>4. LakeTypes'
  <2>1. NoRequest.br \in Branches
    BY MainAssumption DEF NoRequest, Request
  <2>2. m \in Tips /\ Nil \in Tips
    BY <1>3, LakeBoundsAssumption DEF CommitIDs, Tips, Nil
  <2>3. branch' \in [Branches -> Tips \cup {NoBranch}]
    BY <1>1, <2>2 DEF LakeTypes
  <2>4. onBranch' \in [Branches -> SUBSET CommitIDs]
    BY <1>2, <1>3 DEF LakeTypes
  <2>5. /\ req' = [d \in Clients |-> req'[d]]
        /\ \A d \in Clients : req'[d].br \in Branches
    BY <1>2, <2>1 DEF LakeTypes
  <2> QED BY <1>2, <1>3, <2>2, <2>3, <2>4, <2>5 DEF LakeTypes
<1>5. \A d \in Clients : Pending(d)' =>
        Pending(d) /\ d # c /\ mine'[d] = mine[d] /\ mine[d] # m
  BY <1>1, <1>2 DEF Pending, LakeTypes, PendingInv
<1>6. Committed' = Committed \cup {m}
  BY <1>2 DEF Committed
<1>7. PublishedInv'
  <2>1. \A n \in published' : n < nextCommit' /\ object'[n].parent \in Committed'
    BY <1>2, <1>3, <1>6 DEF PublishedInv
  <2>2. ASSUME NEW b \in Live' PROVE branch'[b] \in Committed'
    <3>1. CASE b = br
      BY <3>1, <1>1, <1>6 DEF Live
    <3>2. CASE b # br
      <4>1. b \in Live /\ branch'[b] = branch[b]
        BY <3>2, <1>1 DEF Live
      <4> QED BY <4>1, <1>6 DEF PublishedInv
    <3> QED BY <3>1, <3>2
  <2> QED BY <2>1, <2>2 DEF PublishedInv
<1>8. PendingInv'
  <2>1. \A d \in Clients : Pending(d)' => mine'[d] \notin published'
    BY <1>2, <1>5 DEF PendingInv
  <2> QED BY <1>2, <1>5, <1>6, <2>1 DEF PendingInv
<1>9. NoLostCommit'
  <2>1. ASSUME NEW b \in Live' PROVE onBranch'[b] \subseteq anc'[branch'[b]]
    <3>0. b \in Branches
      BY DEF Live
    <3>1. CASE b = br
      <4>1. onBranch'[b] = onBranch[br] \cup {m} /\ branch'[b] = m
        BY <3>0, <3>1, <1>1, <1>2 DEF LakeTypes
      <4>2. onBranch[br] \subseteq anc[object[m].parent]
        BY <1>1 DEF NoLostCommit
      <4> QED BY <4>1, <4>2, <1>2, <1>3
    <3>2. CASE b # br
      <4>1. b \in Live /\ branch'[b] = branch[b] /\ onBranch'[b] = onBranch[b]
        BY <3>0, <3>2, <1>1, <1>2 DEF Live, LakeTypes
      <4> QED BY <4>1, <1>2 DEF NoLostCommit
    <3> QED BY <3>1, <3>2
  <2> QED BY <2>1 DEF NoLostCommit
<1> QED BY <1>4, <1>7, <1>8, <1>9

(* A branch is created at a published commit, or removed. *)
LEMMA HistoryBranches ==
    ASSUME HistoryInv, NEW b \in Branches,
           (\E m \in Tips : CreateBranch(b, m)) \/ RemoveBranch(b)
    PROVE  HistoryInv'
<1> USE DEF HistoryInv
<1>1. PICK t \in Committed \cup {NoBranch} :
        branch' = [x \in Branches |-> IF x = b THEN t ELSE branch[x]]
  <2>1. ASSUME NEW m \in Tips, CreateBranch(b, m)
        PROVE  /\ m \in Committed
               /\ branch' = [x \in Branches |-> IF x = b THEN m ELSE branch[x]]
    BY <2>1 DEF CreateBranch, Committed, Store!Apply, Store!Insert
  <2>2. CASE RemoveBranch(b)
    BY <2>2 DEF RemoveBranch, Store!Apply, Store!Delete
  <2> QED BY <2>1, <2>2
<1>2. /\ onBranch' = [onBranch EXCEPT ![b] = {}]
      /\ UNCHANGED <<object, nextCommit, nextObj, pc, req, mine, snapOf, anc, published>>
  BY DEF CreateBranch, RemoveBranch, locals, derived
<1>3. LakeTypes'
  <2>1. t \in Tips \cup {NoBranch}
    BY LakeBoundsAssumption DEF Committed, LakeTypes, CommitIDs, Tips, Nil
  <2>2. branch' \in [Branches -> Tips \cup {NoBranch}]
    BY <1>1, <2>1 DEF LakeTypes
  <2> QED BY <1>2, <2>2 DEF LakeTypes
<1>4. \A x \in Live' : \/ x = b /\ branch'[x] = t /\ t \in Committed /\ onBranch'[x] = {}
                       \/ x \in Live /\ branch'[x] = branch[x] /\ onBranch'[x] = onBranch[x]
  BY <1>1, <1>2 DEF Live, LakeTypes
<1>5. PublishedInv'
  BY <1>2, <1>4 DEF PublishedInv, Committed
<1>6. PendingInv'
  BY <1>2 DEF PendingInv, Pending, Committed
<1>7. NoLostCommit'
  BY <1>2, <1>4 DEF NoLostCommit
<1> QED BY <1>3, <1>5, <1>6, <1>7

(* Every step of the pool preserves its history. *)
LEMMA HistoryStep ==
    ASSUME HistoryInv, [Next]_vars
    PROVE  HistoryInv'
<1>1. ASSUME NEW c \in Clients, NEW b \in Live, BeginOp(c, b)
      PROVE  HistoryInv'
  BY <1>1, HistoryBegin
<1>2. ASSUME NEW c \in Clients, Prepare(c)
      PROVE  HistoryInv'
  BY <1>2, HistoryPrepare
<1>3. ASSUME NEW c \in Clients, PrepareFails(c)
      PROVE  HistoryInv'
  BY <1>3, HistoryLeave DEF PrepareFails, Return, derived, history
<1>4. ASSUME NEW c \in Clients, Publish(c)
      PROVE  HistoryInv'
  BY <1>4, HistoryPublish
<1>5. ASSUME NEW c \in Clients, Conflict(c)
      PROVE  HistoryInv'
  <2>1. /\ Pending(c)
        /\ object' = [object EXCEPT ![mine[c]] = NoObject]
        /\ mine' = [mine EXCEPT ![c] = Nil]
        /\ UNCHANGED <<branch, nextCommit, nextObj, snapOf, anc, published, onBranch>>
        /\ \/ pc' = [pc EXCEPT ![c] = "prepare"] /\ req' = req
           \/ pc' = [pc EXCEPT ![c] = "idle"] /\ req' = [req EXCEPT ![c] = NoRequest]
    BY <1>5 DEF Conflict, Return, Pending, RemoveObject, derived, history
  <2> QED BY <2>1, HistoryLeave
<1>6. ASSUME NEW c \in Clients, UpdateFails(c)
      PROVE  HistoryInv'
  BY <1>6, HistoryLeave DEF UpdateFails, Return, RemoveObject, Pending, derived, history
<1>7. ASSUME NEW c \in Clients, Crash(c)
      PROVE  HistoryInv'
  BY <1>7, HistoryLeave DEF Crash, Return, storage, derived, history
<1>8. ASSUME NEW b \in Branches, (\E m \in Tips : CreateBranch(b, m)) \/ RemoveBranch(b)
      PROVE  HistoryInv'
  BY <1>8, HistoryBranches
<1>9. ASSUME NEW leaf \in CommitIDs, NEW o \in Objs, VacuumFile(leaf, o)
      PROVE  HistoryInv'
  BY <1>9 DEF VacuumFile, HistoryInv, LakeTypes, PublishedInv, PendingInv, NoLostCommit,
     Live, Committed, Pending, locals, derived, history
<1>10. CASE UNCHANGED vars
  BY <1>10 DEF vars, HistoryInv, LakeTypes, PublishedInv, PendingInv, NoLostCommit,
     Live, Committed, Pending, storage, locals, derived, history
<1> QED BY <1>1, <1>2, <1>3, <1>4, <1>5, <1>6, <1>7, <1>8, <1>9, <1>10 DEF Next

-------------------------------------------------------------------------------
(* The patch of a single commit deletes objects its parent shows           *)
(* (Store.PatchOfCommit, lake/commits/store.go).                           *)
LEMMA PatchFacts ==
    ASSUME NEW s, NEW w, w.twice = {}, PlayOnPatch(NewPatch(s), w).ok
    PROVE  /\ PlayOnPatch(NewPatch(s), w).del \subseteq s.objects
           /\ PlayOnPatch(NewPatch(s), w).twice = {}
<1>1. BadPatch.ok = FALSE
  BY DEF BadPatch, BadSnapshot, NewPatch
<1>2. PlayableOnPatch(NewPatch(s), w)
  BY <1>1 DEF PlayOnPatch
<1>3. w.del \subseteq s.objects
  BY <1>2 DEF PlayableOnPatch, Lookup, NewPatch
<1>4. /\ PlayOnPatch(NewPatch(s), w).del = {} \cup (w.del \ {})
      /\ PlayOnPatch(NewPatch(s), w).twice = {} \cup w.twice \cup ({} \cap (w.del \ {}))
  BY <1>1, <1>2 DEF PlayOnPatch, NewPatch
<1> QED BY <1>3, <1>4

(* What a constructor of lake/branch.go returns plays on the tip it was    *)
(* given, and adds only objects that this client wrote, a rewritten        *)
(* object, or, to revert a commit, objects a published commit shows.       *)
LEMMA CreateSound ==
    ASSUME HistoryInv, SnapshotInv, NEW c \in Clients, NEW p \in Committed,
           NEW o \in Create(req[c], p)
    PROVE  /\ Playable(snapOf[p], o)
           /\ o.twice = {}
           /\ \A x \in o.add : \/ x \in req[c].add
                               \/ x = nextObj /\ req[c].kind = "deletewhere"
                               \/ /\ req[c].kind = "revert"
                                  /\ \E m \in Committed : x \in snapOf[m].objects
<1> DEFINE r == req[c]
           s == snapOf[p]
<1>1. /\ s.objects \subseteq 1..(nextObj - 1)
      /\ r.kind # "merge"
      /\ r.twice = {}
      /\ r.add \cap s.objects = {}
      /\ nextObj \in Nat
      /\ nextObj \notin s.objects
  <2>1. s.objects \subseteq 1..(nextObj - 1) /\ nextObj \in Nat
    BY DEF SnapshotInv, Readable, HistoryInv, LakeTypes
  <2> QED BY <2>1 DEF SnapshotInv, RequestInv, UnsharedInv
<1>2. CASE r.kind = "load"
  <2>1. o = NewObject(p, {}, r.add, {}, {}, {}, {})
    BY <1>2 DEF Create, LoadObject
  <2> QED BY <1>1, <2>1 DEF NewObject, Playable
<1>3. CASE r.kind = "delete"
  <2>1. o = NewObject(p, r.ids, {}, {}, {}, r.twice, {}) /\ r.ids \subseteq s.objects
    BY <1>3 DEF Create, DeletesObject
  <2> QED BY <1>1, <2>1 DEF NewObject, Playable
<1>4. CASE r.kind = "deletewhere"
  <2>1. /\ o = NewObject(p, Matching(r, p),
                         IF KeptRows(r, p) = {} THEN {} ELSE {nextObj}, {}, {}, {}, {})
        /\ Matching(r, p) \subseteq s.objects
    BY <1>4 DEF Create, DeleteWhereObject, Matching
  <2>2. o.add \subseteq {nextObj} /\ o.del \subseteq s.objects /\ o.twice = {}
    BY <2>1 DEF NewObject
  <2>3. o.delvec = {} /\ o.addvec = {} /\ o.twicevec = {}
    BY <2>1 DEF NewObject
  <2>4. Playable(s, o)
    BY <1>1, <2>2, <2>3 DEF Playable
  <2> QED BY <1>4, <2>2, <2>4
<1>5. CASE r.kind = "revert"
  <2> DEFINE n == r.commit
             base == snapOf[object[n].parent]
             q == PlayOnPatch(NewPatch(base), object[n])
  <2>1. n \in published /\ n # Nil /\ object[n].parent \in Committed
    <3>1. n \in published
      BY <1>5 DEF SnapshotInv, RequestInv
    <3>2. n \in CommitIDs
      BY <3>1 DEF HistoryInv, LakeTypes
    <3>3. n # Nil
      BY <3>2 DEF CommitIDs, Nil
    <3> QED BY <3>1, <3>3 DEF HistoryInv, PublishedInv
  <2>2. object[n].twice = {}
    BY <2>1 DEF SnapshotInv, Readable, Committed
  <2>3. PatchOfCommit(n) = q
    BY <2>1 DEF PatchOfCommit
  <2>4. q.ok /\ o = Revert(q, s, p)
    BY <1>5, <2>3 DEF Create, RevertObject
  <2> HIDE DEF q, base
  <2>5. q.del \subseteq base.objects /\ q.twice = {}
    BY <2>2, <2>4, PatchFacts DEF q
  <2>6. /\ o.del = q.objects \cap s.objects
        /\ o.add = q.del \ s.objects
        /\ o.twice = {} /\ o.twicevec = {} /\ o.delvec = {} /\ o.addvec = {}
    BY <2>4, <2>5 DEF Revert, NewObject
  <2>7. Playable(s, o)
    BY <2>6 DEF Playable
  <2> QED BY <1>5, <2>1, <2>5, <2>6, <2>7 DEF base
<1>6. CASE r.kind = "compact"
  <2>1. /\ o = NewCommitObject(CompactPatch(r, s), p)
        /\ r.addvec \cap s.vectors = {}
        /\ r.ids \subseteq s.objects
    BY <1>6 DEF Create, CompactObject
  <2>2. /\ o.del = r.ids /\ o.add = r.add /\ o.addvec = r.addvec
        /\ o.delvec = {} /\ o.twice = {} /\ o.twicevec = {}
    BY <2>1 DEF NewCommitObject, NewObject, CompactPatch, NewPatch
  <2>3. Playable(s, o)
    BY <1>1, <2>1, <2>2 DEF Playable
  <2> QED BY <2>2, <2>3
<1>7. CASE r.kind \notin {"load", "delete", "deletewhere", "revert", "compact", "merge"}
  <2>1. o \in VectorsObject(r, p)
    BY <1>7 DEF Create
  <2>2. /\ o.del = {} /\ o.add = {} /\ o.twice = {} /\ o.twicevec = {}
        /\ \/ o.delvec = {} /\ o.addvec = r.ids /\ r.ids \cap s.vectors = {}
           \/ o.delvec = r.ids /\ o.addvec = {} /\ r.ids \subseteq s.vectors
    BY <1>1, <2>1 DEF VectorsObject, NewObject
  <2>3. Playable(s, o)
    BY <2>2 DEF Playable
  <2> QED BY <2>2, <2>3
<1> QED BY <1>1, <1>2, <1>3, <1>4, <1>5, <1>6, <1>7

(* The empty pool. *)
LEMMA SnapshotInit == Init => SnapshotInv
<1> SUFFICES ASSUME Init PROVE SnapshotInv
  OBVIOUS
<1>1. NoRequest.add = {} /\ NoRequest.twice = {} /\ NoRequest.kind = "load"
  BY DEF NoRequest, Request
<1>2. Committed = {Nil} /\ Nil \in Tips /\ \A c \in Clients : ~Pending(c)
  BY LakeBoundsAssumption DEF Init, Committed, Pending, Tips, Nil
<1>3. Readable(Nil)
  BY <1>2 DEF Init, Readable, NewSnapshot
<1>4. RequestInv
  BY <1>1 DEF Init, RequestInv
<1>5. UnsharedInv
  BY <1>1, <1>2 DEF Init, UnsharedInv
<1> QED BY <1>2, <1>3, <1>4, <1>5 DEF SnapshotInv

(* A client begins an operation: what it wrote is new. *)
LEMMA SnapshotBegin ==
    ASSUME PlainKinds, HistoryInv, SnapshotInv,
           NEW c \in Clients, NEW b \in Live, BeginOp(c, b)
    PROVE  SnapshotInv'
<1>1. PICK r : /\ Begin(c, r)
               /\ \/ r.add = {} /\ nextObj' = nextObj
                  \/ r.add = {nextObj} /\ nextObj' = nextObj + 1
               /\ r.kind = "revert" => r.commit \in published
               /\ r.twice = {}
  BY BeginFacts DEF HistoryInv
<1>2. /\ r.kind \in Kinds
      /\ pc[c] = "idle"
      /\ pc' = [pc EXCEPT ![c] = "prepare"]
      /\ req' = [req EXCEPT ![c] = r]
      /\ UNCHANGED <<object, mine, snapOf, published>>
  BY <1>1 DEF Begin, derived, history
<1>3. nextObj \in Nat \ {0}
  BY DEF HistoryInv, LakeTypes
<1>4. \A x \in 1..(nextObj - 1) : x \in 1..(nextObj' - 1) /\ x \notin r.add
  BY <1>1, <1>3
<1>5. r.add \subseteq 1..(nextObj' - 1)
  BY <1>1, <1>3
<1>6. \A d \in Clients : /\ req'[d] = IF d = c THEN r ELSE req[d]
                         /\ Pending(d)' <=> Pending(d)
  BY <1>2 DEF HistoryInv, LakeTypes, Pending
<1>7. Committed' = Committed
  BY <1>2 DEF Committed
<1>8. \A m : Readable(m) => Readable(m)' /\ r.add \cap snapOf[m].objects = {}
  BY <1>2, <1>4 DEF Readable
<1>9. RequestInv'
  <2>1. r.kind # "merge"
    BY <1>2 DEF PlainKinds
  <2> QED BY <1>1, <1>2, <1>4, <1>5, <1>6, <2>1 DEF SnapshotInv, RequestInv
<1>10. UnsharedInv'
  <2>1. ASSUME NEW d \in Clients, NEW m \in Committed
        PROVE  req'[d].add \cap snapOf[m].objects = {}
    BY <1>6, <1>8 DEF SnapshotInv, UnsharedInv
  <2>2. ASSUME NEW d \in Clients, NEW e \in Clients, d # e
        PROVE  req'[d].add \cap req'[e].add = {}
    <3>1. \A x \in Clients : req[x].add \cap r.add = {}
      BY <1>4 DEF SnapshotInv, RequestInv
    <3> QED BY <1>6, <2>2, <3>1 DEF SnapshotInv, UnsharedInv
  <2>3. ASSUME NEW d \in Clients, NEW e \in Clients, d # e, Pending(e)
        PROVE  req'[d].add \cap snapOf[mine[e]].objects = {}
    BY <1>6, <1>8, <2>3 DEF SnapshotInv, UnsharedInv
  <2> QED BY <1>2, <1>6, <1>7, <2>1, <2>2, <2>3 DEF UnsharedInv
<1> QED BY <1>2, <1>6, <1>7, <1>8, <1>9, <1>10 DEF SnapshotInv

(* A client builds a commit object that plays on the tip. *)
LEMMA SnapshotPrepare ==
    ASSUME HistoryInv, SnapshotInv, NEW c \in Clients, Prepare(c)
    PROVE  SnapshotInv'
<1> DEFINE p == branch[req[c].br]
           n == nextCommit
<1>1. PICK o \in Create(req[c], p) :
        /\ object' = [object EXCEPT ![n] = o]
        /\ snapOf' = [snapOf EXCEPT ![n] = Play(snapOf[o.parent], o)]
        /\ \/ nextObj' = nextObj + 1
           \/ nextObj' = nextObj /\ ~(req[c].kind = "deletewhere" /\ o.add # {})
  BY DEF Prepare, WriteData, NoWrite
<1>2. /\ n <= MaxCommits
      /\ mine' = [mine EXCEPT ![c] = n]
      /\ pc' = [pc EXCEPT ![c] = "publish"]
      /\ UNCHANGED <<branch, req, published>>
      /\ p # NoBranch
  BY DEF Prepare, history
<1>3. n \in CommitIDs /\ n \in Tips /\ n # Nil /\ n \in Nat
  BY <1>2, LakeBoundsAssumption DEF CommitIDs, Tips, Nil, HistoryInv, LakeTypes
<1>4. o.parent = p /\ p \in Committed
  <2>1. req[c].br \in Live
    BY <1>2 DEF Live, HistoryInv, LakeTypes
  <2> QED BY <2>1, CreateParent DEF HistoryInv, PublishedInv
<1>5. /\ Playable(snapOf[p], o)
      /\ o.twice = {}
      /\ \A x \in o.add : \/ x \in req[c].add
                          \/ x = nextObj /\ req[c].kind = "deletewhere"
                          \/ \E m \in Committed : x \in snapOf[m].objects
  BY <1>4, CreateSound
<1>6. n \notin Committed /\ \A d \in Clients : Pending(d) => mine[d] # n
  <2>1. \A m \in published : m < n
    BY DEF HistoryInv, PublishedInv
  <2>2. \A d \in Clients : Pending(d) => mine[d] < n
    BY DEF HistoryInv, PendingInv
  <2> QED BY <1>3, <2>1, <2>2 DEF Committed
<1>7. nextObj \in Nat \ {0} /\ (nextObj' = nextObj \/ nextObj' = nextObj + 1)
  BY <1>1 DEF HistoryInv, LakeTypes
<1>8. /\ snapOf'[n].ok
      /\ snapOf'[n].objects = (snapOf[p].objects \ o.del) \cup o.add
      /\ object'[n] = o
  <2>1. snapOf'[n] = Play(snapOf[p], o) /\ object'[n] = o
    BY <1>1, <1>3, <1>4 DEF HistoryInv, LakeTypes
  <2>2. snapOf[p].ok
    BY <1>4 DEF SnapshotInv, Readable
  <2> QED BY <1>5, <2>1, <2>2 DEF Play
<1>9. \A m \in {n} : Readable(m)'
  <2>1. ASSUME NEW x \in snapOf'[n].objects PROVE x \in 1..(nextObj' - 1)
    <3>1. CASE x \in 1..(nextObj - 1)
      BY <3>1, <1>7
    <3>2. CASE x = nextObj /\ req[c].kind = "deletewhere" /\ x \in o.add
      BY <3>2, <1>1, <1>7
    <3>3. \A m \in Committed : snapOf[m].objects \subseteq 1..(nextObj - 1)
      BY DEF SnapshotInv, Readable
    <3>4. req[c].add \subseteq 1..(nextObj - 1)
      BY DEF SnapshotInv, RequestInv
    <3> QED BY <1>4, <1>5, <1>8, <2>1, <3>1, <3>2, <3>3, <3>4
  <2>2. snapOf'[n].objects \subseteq 1..(nextObj' - 1)
    BY <2>1
  <2> QED BY <1>5, <1>8, <2>2 DEF Readable
<1>10. \A m \in Committed \cup {mine[d] : d \in {e \in Clients : Pending(e)}} :
         /\ snapOf'[m] = snapOf[m]
         /\ Readable(m)'
  <2> SUFFICES ASSUME NEW m \in Committed \cup {mine[d] : d \in {e \in Clients : Pending(e)}}
               PROVE  snapOf'[m] = snapOf[m] /\ Readable(m)'
    OBVIOUS
  <2>1. m # n /\ m \in Tips /\ (m # Nil => m \in CommitIDs) /\ Readable(m)
    <3>1. CASE m \in Committed
      BY <3>1, <1>6, LakeBoundsAssumption
         DEF HistoryInv, LakeTypes, Committed, CommitIDs, Tips, Nil, SnapshotInv
    <3>2. CASE m \in {mine[d] : d \in {e \in Clients : Pending(e)}}
      BY <3>2, <1>6, LakeBoundsAssumption
         DEF HistoryInv, PendingInv, CommitIDs, Tips, Nil, SnapshotInv
    <3> QED BY <3>1, <3>2
  <2>2. snapOf'[m] = snapOf[m] /\ (m # Nil => object'[m] = object[m])
    BY <1>1, <2>1 DEF HistoryInv, LakeTypes
  <2>3. 1..(nextObj - 1) \subseteq 1..(nextObj' - 1)
    BY <1>7
  <2> QED BY <2>1, <2>2, <2>3 DEF Readable
<1>11. \A d \in Clients : Pending(d)' =>
         \/ d = c /\ mine'[d] = n
         \/ d # c /\ Pending(d) /\ mine'[d] = mine[d]
  BY <1>2 DEF HistoryInv, LakeTypes, Pending
<1>12. RequestInv'
  <2>1. 1..(nextObj - 1) \subseteq 1..(nextObj' - 1)
    BY <1>7
  <2> QED BY <1>2, <2>1 DEF SnapshotInv, RequestInv
<1>13. UnsharedInv'
  <2>1. ASSUME NEW d \in Clients, d # c
        PROVE  req[d].add \cap snapOf'[n].objects = {}
    <3>1. nextObj \notin req[d].add
      BY <1>7 DEF SnapshotInv, RequestInv
    <3>2. req[d].add \cap req[c].add = {} /\ \A m \in Committed : req[d].add \cap snapOf[m].objects = {}
      BY <2>1 DEF SnapshotInv, UnsharedInv
    <3> QED BY <3>1, <3>2, <1>4, <1>5, <1>8
  <2>2. \A d \in Clients : \A m \in Committed : req[d].add \cap snapOf'[m].objects = {}
    BY <1>10 DEF SnapshotInv, UnsharedInv
  <2>3. ASSUME NEW d \in Clients, NEW e \in Clients, d # e, Pending(e)'
        PROVE  req[d].add \cap snapOf'[mine'[e]].objects = {}
    BY <1>10, <1>11, <2>1, <2>3 DEF SnapshotInv, UnsharedInv
  <2>4. ASSUME NEW d \in Clients, NEW e \in Clients, d # e
        PROVE  req[d].add \cap req[e].add = {}
    BY <2>4 DEF SnapshotInv, UnsharedInv
  <2> QED BY <1>2, <2>2, <2>3, <2>4 DEF UnsharedInv, Committed
<1>14. \A m \in Committed' : Readable(m)'
  BY <1>2, <1>10 DEF Committed
<1>15. \A d \in Clients : Pending(d)' => Readable(mine[d])'
  BY <1>9, <1>10, <1>11 DEF Readable
<1> QED BY <1>12, <1>13, <1>14, <1>15 DEF SnapshotInv

(* The operation of client c ends or starts over; its commit object may be *)
(* removed.                                                                *)
LEMMA SnapshotLeave ==
    ASSUME HistoryInv, SnapshotInv, NEW c \in Clients,
           NEW label \in {"idle", "prepare"},
           pc' = [pc EXCEPT ![c] = label],
           req' = [req EXCEPT ![c] = NoRequest] \/ req' = req,
           mine' = [mine EXCEPT ![c] = Nil],
           UNCHANGED <<nextObj, snapOf, published>>,
           \/ object' = object
           \/ Pending(c) /\ object' = [object EXCEPT ![mine[c]] = NoObject]
    PROVE  SnapshotInv'
<1>1. NoRequest.add = {} /\ NoRequest.twice = {} /\ NoRequest.kind = "load"
  BY DEF NoRequest, Request
<1>2. \A d \in Clients : req'[d] = req[d] \/ req'[d] = NoRequest
  BY DEF HistoryInv, LakeTypes
<1>3. \A d \in Clients : Pending(d)' => Pending(d) /\ d # c /\ mine'[d] = mine[d]
  BY DEF Pending, HistoryInv, LakeTypes
<1>4. Committed' = Committed
  BY DEF Committed
<1>5. \A m \in Committed : m # Nil => object'[m] = object[m]
  <2>1. \A m \in Committed : m # Nil => m \in published /\ m \in CommitIDs
    BY DEF HistoryInv, LakeTypes, Committed
  <2>2. Pending(c) => mine[c] \notin published
    BY DEF HistoryInv, PendingInv
  <2>3. \A m \in CommitIDs : object'[m] = object[m] \/ (Pending(c) /\ m = mine[c])
    BY DEF HistoryInv, LakeTypes
  <2> QED BY <2>1, <2>2, <2>3, Zenon
<1>6. \A d \in Clients : Pending(d)' => object'[mine[d]] = object[mine[d]]
  <2>1. \A m \in CommitIDs : object'[m] = object[m] \/ (Pending(c) /\ m = mine[c])
    BY DEF HistoryInv, LakeTypes
  <2> QED BY <1>3, <2>1 DEF HistoryInv, PendingInv
<1>7. \A m \in Committed' : Readable(m)'
  BY <1>4, <1>5 DEF SnapshotInv, Readable
<1>8. \A d \in Clients : Pending(d)' => Readable(mine[d])'
  BY <1>3, <1>6 DEF SnapshotInv, Readable
<1>9. RequestInv'
  BY <1>1, <1>2 DEF SnapshotInv, RequestInv
<1>10. UnsharedInv'
  BY <1>1, <1>2, <1>3, <1>4 DEF SnapshotInv, UnsharedInv
<1> QED BY <1>7, <1>8, <1>9, <1>10 DEF SnapshotInv

(* The commit of a client becomes a tip: its data objects were nobody      *)
(* else's.                                                                 *)
LEMMA SnapshotPublish ==
    ASSUME HistoryInv, SnapshotInv, NEW c \in Clients, Publish(c)
    PROVE  SnapshotInv'
<1>1. /\ Pending(c)
      /\ published' = published \cup {mine[c]}
      /\ pc' = [pc EXCEPT ![c] = "idle"]
      /\ req' = [req EXCEPT ![c] = NoRequest]
      /\ mine' = [mine EXCEPT ![c] = Nil]
      /\ UNCHANGED <<object, nextObj, snapOf>>
  BY DEF Publish, Return, Pending, derived
<1>2. NoRequest.add = {} /\ NoRequest.twice = {} /\ NoRequest.kind = "load"
  BY DEF NoRequest, Request
<1>3. \A d \in Clients : req'[d] = IF d = c THEN NoRequest ELSE req[d]
  BY <1>1 DEF HistoryInv, LakeTypes
<1>4. \A d \in Clients : Pending(d)' => Pending(d) /\ d # c /\ mine'[d] = mine[d]
  BY <1>1 DEF Pending, HistoryInv, LakeTypes
<1>5. Committed' = Committed \cup {mine[c]}
  BY <1>1 DEF Committed
<1>6. \A m \in Committed' : Readable(m)'
  BY <1>1, <1>5 DEF SnapshotInv, Readable
<1>7. \A d \in Clients : Pending(d)' => Readable(mine[d])'
  BY <1>1, <1>4 DEF SnapshotInv, Readable
<1>8. RequestInv'
  BY <1>1, <1>2, <1>3 DEF SnapshotInv, RequestInv
<1>9. UnsharedInv'
  <2>1. ASSUME NEW d \in Clients
        PROVE  \A m \in Committed' : req'[d].add \cap snapOf[m].objects = {}
    BY <1>1, <1>2, <1>3, <1>5 DEF SnapshotInv, UnsharedInv
  <2>2. ASSUME NEW d \in Clients, NEW e \in Clients, d # e
        PROVE  /\ req'[d].add \cap req'[e].add = {}
               /\ Pending(e)' => req'[d].add \cap snapOf[mine'[e]].objects = {}
    BY <1>2, <1>3, <1>4, <2>2 DEF SnapshotInv, UnsharedInv
  <2> QED BY <1>1, <2>1, <2>2 DEF UnsharedInv
<1> QED BY <1>6, <1>7, <1>8, <1>9 DEF SnapshotInv

(* Every step without merges and duplicate IDs keeps every tip readable. *)
LEMMA SnapshotStep ==
    ASSUME PlainKinds, HistoryInv, SnapshotInv, [Next]_vars
    PROVE  SnapshotInv'
<1>1. ASSUME NEW c \in Clients, NEW b \in Live, BeginOp(c, b)
      PROVE  SnapshotInv'
  BY <1>1, SnapshotBegin
<1>2. ASSUME NEW c \in Clients, Prepare(c)
      PROVE  SnapshotInv'
  BY <1>2, SnapshotPrepare
<1>3. ASSUME NEW c \in Clients, PrepareFails(c)
      PROVE  SnapshotInv'
  BY <1>3, SnapshotLeave DEF PrepareFails, Return, derived, history
<1>4. ASSUME NEW c \in Clients, Publish(c)
      PROVE  SnapshotInv'
  BY <1>4, SnapshotPublish
<1>5. ASSUME NEW c \in Clients, Conflict(c)
      PROVE  SnapshotInv'
  <2>1. /\ Pending(c)
        /\ object' = [object EXCEPT ![mine[c]] = NoObject]
        /\ mine' = [mine EXCEPT ![c] = Nil]
        /\ UNCHANGED <<nextObj, snapOf, published>>
        /\ \/ pc' = [pc EXCEPT ![c] = "prepare"] /\ req' = req
           \/ pc' = [pc EXCEPT ![c] = "idle"] /\ req' = [req EXCEPT ![c] = NoRequest]
    BY <1>5 DEF Conflict, Return, Pending, RemoveObject, derived, history
  <2> QED BY <2>1, SnapshotLeave
<1>6. ASSUME NEW c \in Clients, UpdateFails(c)
      PROVE  SnapshotInv'
  BY <1>6, SnapshotLeave DEF UpdateFails, Return, RemoveObject, Pending, derived, history
<1>7. ASSUME NEW c \in Clients, Crash(c)
      PROVE  SnapshotInv'
  BY <1>7, SnapshotLeave DEF Crash, Return, storage, derived, history
<1>8. CASE UNCHANGED <<object, nextObj, pc, req, mine, snapOf, published>>
  BY <1>8 DEF SnapshotInv, Readable, RequestInv, UnsharedInv, Pending, Committed
<1>9. ASSUME NEW b \in Branches, (\E m \in Tips : CreateBranch(b, m)) \/ RemoveBranch(b)
      PROVE  SnapshotInv'
  BY <1>8, <1>9 DEF CreateBranch, RemoveBranch, locals, derived
<1>10. ASSUME NEW leaf \in CommitIDs, NEW o \in Objs, VacuumFile(leaf, o)
       PROVE  SnapshotInv'
  BY <1>8, <1>10 DEF VacuumFile, locals, derived, history
<1>11. CASE UNCHANGED vars
  BY <1>8, <1>11 DEF vars, storage, locals, derived, history
<1> QED BY <1>1, <1>2, <1>3, <1>4, <1>5, <1>6, <1>7, <1>9, <1>10, <1>11 DEF Next

-------------------------------------------------------------------------------
(* The inductive invariant of the pool holds, whichever operations, crashes *)
(* and failing pointer updates interleave (Branch.commit, lake/branch.go).  *)
THEOREM LakeInvariant == Spec => []LakeInv
<1>1. Init => LakeInv
  BY HistoryInit, SnapshotInit DEF LakeInv
<1>2. LakeInv /\ [Next]_vars => LakeInv'
  <2> SUFFICES ASSUME HistoryInv, PlainKinds => SnapshotInv, [Next]_vars
               PROVE  HistoryInv' /\ (PlainKinds => SnapshotInv')
    BY DEF LakeInv, PlainKinds
  <2>1. HistoryInv'
    BY HistoryStep
  <2>2. PlainKinds => SnapshotInv'
    BY SnapshotStep
  <2> QED BY <2>1, <2>2
<1> QED BY <1>1, <1>2, PTL DEF Spec

(* Commit objects in use are never removed, although Branch.commit removes  *)
(* the object of every pointer update that fails: every commit that was     *)
(* ever the tip of a branch keeps its whole path.                           *)
THEOREM HistoryIsKept == Spec => []HistoryKept
<1>1. LakeInv => HistoryKept
  <2> SUFFICES ASSUME HistoryInv PROVE HistoryKept
    BY DEF LakeInv
  <2>1. ASSUME NEW m \in published PROVE object[m] # NoObject
    <3>1. object[m].parent \in Committed
      BY DEF HistoryInv, PublishedInv
    <3>2. Committed \subseteq Nat
      BY DEF HistoryInv, LakeTypes, Committed, CommitIDs, Nil
    <3>3. NoObject.parent = NoBranch
      BY DEF NoObject
    <3> QED BY <3>1, <3>2, <3>3, NoBranchAssumption
  <2> QED BY <2>1 DEF HistoryKept, HistoryInv, PublishedInv, Committed
<1> QED BY <1>1, LakeInvariant, PTL

(* An acknowledged commit stays on the path of its branch: the constraint   *)
(* of branches.Update makes every pointer update an extension of the tip.   *)
THEOREM CommitsAreKept == Spec => []NoLostCommit
<1>1. LakeInv => NoLostCommit
  BY DEF LakeInv, HistoryInv
<1> QED BY <1>1, LakeInvariant, PTL

(* Without merges and duplicate IDs the tip of every branch can be turned   *)
(* into a snapshot: every commit object plays on the tip it was published   *)
(* on (loads, deletes, rewrites, compactions, reverts, vectors).            *)
THEOREM TipsAreReadable == PlainKinds /\ Spec => []TipReadable
<1> SUFFICES ASSUME PlainKinds PROVE Spec => []TipReadable
  OBVIOUS
<1>1. LakeInv => TipReadable
  BY DEF LakeInv, HistoryInv, PublishedInv, SnapshotInv, Readable, TipReadable, TipOf
<1> QED BY <1>1, LakeInvariant, PTL

-------------------------------------------------------------------------------
(* The cases of a client that begins an operation: what it asks for, and   *)
(* what it has written (the callers of Branch.commit, lake/branch.go).     *)
LEMMA BeginCases ==
    ASSUME PlainKinds, HistoryInv, SnapshotInv, TypeOK,
           NEW c \in Clients, NEW b \in Live, BeginOp(c, b)
    PROVE  \E r \in Requests :
              /\ Begin(c, r)
              /\ r.ids \subseteq 1..(nextObj - 1)
              /\ \/ /\ r.kind = "load"
                    /\ r.add = {nextObj}
                    /\ WriteData({nextObj})
                 \/ /\ r.kind = "compact"
                    /\ r.add = {nextObj}
                    /\ r.ids \subseteq TipOf(b).objects
                    /\ WriteData(UNION {content[o] : o \in r.ids})
                 \/ /\ r.kind \notin {"load", "compact"}
                    /\ r.add = {}
                    /\ NoWrite
<1> DEFINE Goal(r) ==
              /\ Begin(c, r)
              /\ r.ids \subseteq 1..(nextObj - 1)
              /\ \/ /\ r.kind = "load"
                    /\ r.add = {nextObj}
                    /\ WriteData({nextObj})
                 \/ /\ r.kind = "compact"
                    /\ r.add = {nextObj}
                    /\ r.ids \subseteq TipOf(b).objects
                    /\ WriteData(UNION {content[o] : o \in r.ids})
                 \/ /\ r.kind \notin {"load", "compact"}
                    /\ r.add = {}
                    /\ NoWrite
<1>0. /\ b \in Branches
      /\ nextObj \in 1..(MaxObjs + 1)
      /\ nextObj \in Nat
      /\ MaxObjs \in Nat
      /\ Nil \in Tips
      /\ published \subseteq Tips
  BY LakeBoundsAssumption DEF Live, TypeOK, Tips, Nil, CommitIDs
<1>a. 1..(nextObj - 1) \subseteq Objs
  BY <1>0, ObjsAssumption
<1>b. TipOf(b).objects \subseteq 1..(nextObj - 1)
  <2>1. branch[b] \in Committed
    BY DEF HistoryInv, PublishedInv
  <2> QED BY <2>1 DEF SnapshotInv, Readable, TipOf
<1>c. branch[b] \in Tips
  BY DEF TypeOK, Live
<1>d. ASSUME NEW kind \in AllKinds, NEW ids \in IDSets, NEW twice \in IDSets,
             NEW add \in IDSets, NEW addvec \in IDSets, NEW commit \in Tips
      PROVE  Request(kind, b, ids, twice, add, addvec, commit) \in Requests
  BY <1>0 DEF Request, Requests
<1>e. nextObj <= MaxObjs => {nextObj} \in IDSets
  BY <1>0, ObjsAssumption DEF IDSets
<1>f. {} \in IDSets /\ \A ids \in SUBSET TipOf(b).objects : ids \in IDSets
  BY <1>a, <1>b DEF IDSets
<1>1. CASE BeginLoad(c, b)
  <2> DEFINE r == Request("load", b, {}, {}, {nextObj}, {}, Nil)
  <2>1. Begin(c, r) /\ WriteData({nextObj}) /\ nextObj <= MaxObjs
    BY <1>1 DEF BeginLoad, WriteData
  <2>2. r \in Requests
    BY <2>1, <1>0, <1>d, <1>e, <1>f DEF AllKinds
  <2>3. r.kind = "load" /\ r.add = {nextObj} /\ r.ids = {}
    BY DEF Request
  <2>4. Goal(r)
    BY <2>1, <2>3
  <2> QED BY <2>2, <2>4
<1>2. ASSUME NEW ids \in SUBSET TipOf(b).objects, NEW twice \in Duplicates(ids),
             BeginDelete(c, b, ids, twice)
      PROVE  \E r \in Requests : Goal(r)
  <2> DEFINE r == Request("delete", b, ids, twice, {}, {}, Nil)
  <2>1. Begin(c, r) /\ NoWrite /\ twice = {}
    BY <1>2 DEF BeginDelete, Duplicates, PlainKinds
  <2>2. r \in Requests
    BY <2>1, <1>0, <1>d, <1>f DEF AllKinds
  <2>3. r.kind = "delete" /\ r.add = {} /\ r.ids = ids
    BY DEF Request
  <2>4. Goal(r)
    BY <2>1, <2>3, <1>b
  <2> QED BY <2>2, <2>4
<1>3. ASSUME NEW ids \in SUBSET TipOf(b).objects, NEW wv \in BOOLEAN,
             BeginCompact(c, b, ids, wv)
      PROVE  \E r \in Requests : Goal(r)
  <2> DEFINE av == IF wv THEN {nextObj} ELSE {}
             r == Request("compact", b, ids, {}, {nextObj}, av, Nil)
  <2>1. Begin(c, r) /\ WriteData(UNION {content[o] : o \in ids}) /\ nextObj <= MaxObjs
    BY <1>3 DEF BeginCompact, WriteData
  <2>2. r \in Requests
    BY <2>1, <1>0, <1>d, <1>e, <1>f DEF AllKinds
  <2>3. r.kind = "compact" /\ r.add = {nextObj} /\ r.ids = ids
    BY DEF Request
  <2>4. Goal(r)
    BY <2>1, <2>3, <1>b
  <2> QED BY <2>2, <2>4
<1>4. ASSUME NEW ids \in SUBSET TipOf(b).objects,
             NEW kind \in {"addvectors", "deletevectors"},
             NEW twice \in Duplicates(ids), BeginVectors(c, kind, b, ids, twice)
      PROVE  \E r \in Requests : Goal(r)
  <2> DEFINE r == Request(kind, b, ids, twice, {}, {}, Nil)
  <2>1. Begin(c, r) /\ NoWrite /\ twice = {}
    BY <1>4 DEF BeginVectors, Duplicates, PlainKinds
  <2>2. r \in Requests
    BY <2>1, <1>0, <1>d, <1>f DEF AllKinds
  <2>3. r.kind \notin {"load", "compact"} /\ r.add = {} /\ r.ids = ids
    BY DEF Request
  <2>4. Goal(r)
    BY <2>1, <2>3, <1>b
  <2> QED BY <2>2, <2>4
<1>5. ASSUME NEW o \in 1..(nextObj - 1), BeginDeleteWhere(c, b, {o})
      PROVE  \E r \in Requests : Goal(r)
  <2> DEFINE r == Request("deletewhere", b, {o}, {}, {}, {}, Nil)
  <2>1. Begin(c, r) /\ NoWrite
    BY <1>5 DEF BeginDeleteWhere
  <2>2. {o} \in IDSets
    BY <1>a DEF IDSets
  <2>3. r \in Requests
    BY <2>2, <1>0, <1>d, <1>f DEF AllKinds
  <2>4. r.kind = "deletewhere" /\ r.add = {} /\ r.ids = {o}
    BY DEF Request
  <2>5. Goal(r)
    BY <2>1, <2>4
  <2> QED BY <2>3, <2>5
<1>6. ASSUME NEW m \in published, BeginRevert(c, b, m)
      PROVE  \E r \in Requests : Goal(r)
  <2> DEFINE r == Request("revert", b, {}, {}, {}, {}, m)
  <2>1. Begin(c, r) /\ NoWrite
    BY <1>6 DEF BeginRevert
  <2>2. r \in Requests
    BY <1>0, <1>d, <1>f DEF AllKinds
  <2>3. r.kind = "revert" /\ r.add = {} /\ r.ids = {}
    BY DEF Request
  <2>4. Goal(r)
    BY <2>1, <2>3
  <2> QED BY <2>2, <2>4
<1>7. ASSUME NEW child \in Branches, BeginMerge(c, child, b)
      PROVE  FALSE
  BY <1>7 DEF BeginMerge, Begin, Request, PlainKinds
<1> QED BY <1>1, <1>2, <1>3, <1>4, <1>5, <1>6, <1>7 DEF BeginOp

(* The commit objects the constructors build are well formed. *)
LEMMA CreateTyped ==
    ASSUME HistoryInv, SnapshotInv, TypeOK, NEW c \in Clients, NEW p \in Committed,
           NEW o \in Create(req[c], p), o.add \subseteq Objs
    PROVE  o \in CommitObjects(Tips)
<1> DEFINE r == req[c]
           s == snapOf[p]
<1>1. /\ r \in Requests
      /\ p \in Tips
      /\ s \in Snapshots
      /\ r.kind # "merge"
      /\ {} \in IDSets
  <2>1. p \in Tips
    <3>1. published \subseteq CommitIDs
      BY DEF TypeOK
    <3> QED BY <3>1, LakeBoundsAssumption DEF Committed, CommitIDs, Tips, Nil
  <2> QED BY <2>1 DEF TypeOK, SnapshotInv, RequestInv, IDSets
<1>2. /\ r.ids \in IDSets /\ r.add \in IDSets /\ r.addvec \in IDSets /\ r.twice \in IDSets
      /\ s.objects \in IDSets
  BY <1>1 DEF Requests, Snapshots
<1>3. ASSUME NEW del \in IDSets, NEW add \in IDSets, NEW delvec \in IDSets,
             NEW addvec \in IDSets, NEW twice \in IDSets, NEW twicevec \in IDSets
      PROVE  NewObject(p, del, add, delvec, addvec, twice, twicevec) \in CommitObjects(Tips)
  BY <1>1 DEF NewObject, CommitObjects
<1>4. CASE r.kind = "load"
  BY <1>1, <1>2, <1>3, <1>4 DEF Create, LoadObject
<1>5. CASE r.kind = "delete"
  <2>1. o = NewObject(p, r.ids, {}, {}, {}, r.twice, {})
    BY <1>5 DEF Create, DeletesObject
  <2> QED BY <1>1, <1>2, <1>3, <2>1
<1>6. CASE r.kind = "deletewhere"
  <2> DEFINE add == IF KeptRows(r, p) = {} THEN {} ELSE {nextObj}
  <2>1. o = NewObject(p, Matching(r, p), add, {}, {}, {}, {})
    BY <1>6 DEF Create, DeleteWhereObject
  <2>2. Matching(r, p) \in IDSets
    BY <1>2 DEF Matching, IDSets
  <2>3. add \in IDSets
    BY <2>1 DEF NewObject, IDSets
  <2> HIDE DEF add
  <2> QED BY <1>1, <1>3, <2>1, <2>2, <2>3
<1>7. CASE r.kind = "revert"
  <2> DEFINE q == PatchOfCommit(r.commit)
  <2>1. q.ok /\ o = Revert(q, s, p)
    BY <1>7 DEF Create, RevertObject
  <2>2. q.objects \cap s.objects \in IDSets
    BY <1>2 DEF IDSets
  <2>3. q.del \ s.objects \in IDSets
    BY <2>1 DEF Revert, NewObject, IDSets
  <2>4. q.twice \ s.objects \in IDSets
    <3>1. /\ r.commit \in published /\ r.commit # Nil
          /\ object[r.commit].twice = {}
      <4>1. r.commit \in published
        BY <1>7 DEF SnapshotInv, RequestInv
      <4>2. r.commit # Nil
        BY <4>1 DEF TypeOK, CommitIDs, Nil
      <4> QED BY <4>1, <4>2 DEF SnapshotInv, Readable, Committed
    <3>2. q = PlayOnPatch(NewPatch(snapOf[object[r.commit].parent]), object[r.commit])
      BY <3>1 DEF PatchOfCommit
    <3> HIDE DEF q
    <3>3. q.twice = {}
      <4>1. PlayOnPatch(NewPatch(snapOf[object[r.commit].parent]), object[r.commit]).ok
        BY <2>1, <3>2, Zenon
      <4>2. PlayOnPatch(NewPatch(snapOf[object[r.commit].parent]), object[r.commit]).twice = {}
        BY <3>1, <4>1, PatchFacts, Zenon
      <4> QED BY <3>2, <4>2, Zenon
    <3> QED BY <3>3, <1>1 DEF IDSets
  <2> HIDE DEF q
  <2>5. o = NewObject(p, q.objects \cap s.objects, q.del \ s.objects, {}, {},
                      q.twice \ s.objects, {})
    BY <2>1 DEF Revert
  <2> QED BY <1>1, <1>3, <2>2, <2>3, <2>4, <2>5
<1>8. CASE r.kind = "compact"
  <2>1. o = NewCommitObject(CompactPatch(r, s), p)
    BY <1>8 DEF Create, CompactObject
  <2>2. o = NewObject(p, r.ids, r.add, {}, r.addvec, {}, {})
    BY <2>1 DEF NewCommitObject, CompactPatch, NewPatch
  <2> QED BY <1>1, <1>2, <1>3, <2>2
<1>9. CASE r.kind \notin {"load", "delete", "deletewhere", "revert", "compact", "merge"}
  <2>1. o \in VectorsObject(r, p)
    BY <1>9 DEF Create
  <2>2. \/ o = NewObject(p, {}, {}, {}, r.ids, {}, r.twice)
        \/ o = NewObject(p, {}, {}, r.ids, {}, {}, r.twice)
    BY <2>1 DEF VectorsObject
  <2>3. CASE o = NewObject(p, {}, {}, {}, r.ids, {}, r.twice)
    BY <1>1, <1>2, <1>3, <2>3
  <2>4. CASE o = NewObject(p, {}, {}, r.ids, {}, {}, r.twice)
    BY <1>1, <1>2, <1>3, <2>4
  <2> QED BY <2>2, <2>3, <2>4
<1> QED BY <1>1, <1>4, <1>5, <1>6, <1>7, <1>8, <1>9

(* Playing a well-formed commit object on a snapshot gives a snapshot. *)
LEMMA PlayTyped ==
    ASSUME NEW s \in Snapshots, NEW o \in CommitObjects(Tips)
    PROVE  Play(s, o) \in Snapshots
<1>1. /\ s.objects \in IDSets /\ s.vectors \in IDSets
      /\ o.del \in IDSets /\ o.add \in IDSets /\ o.delvec \in IDSets /\ o.addvec \in IDSets
  BY DEF Snapshots, CommitObjects
<1>2. /\ (s.objects \ o.del) \cup o.add \in IDSets
      /\ (s.vectors \ o.delvec) \cup o.addvec \in IDSets
      /\ {} \in IDSets
  BY <1>1 DEF IDSets
<1> QED BY <1>2 DEF Play, BadSnapshot, Snapshots

(* The empty pool. *)
LEMMA TypeInit == Init => TypeOK
<1> SUFFICES ASSUME Init PROVE TypeOK
  OBVIOUS
<1>1. Nil \in Tips /\ {} \in IDSets /\ Main \in Branches
  BY LakeBoundsAssumption, MainAssumption DEF Nil, Tips, IDSets
<1>2. NoRequest \in Requests
  BY <1>1 DEF NoRequest, Request, Requests, AllKinds
<1>3. NewSnapshot \in Snapshots
  BY <1>1 DEF NewSnapshot, Snapshots
<1>4. nextCommit \in 1..(MaxCommits + 1) /\ nextObj \in 1..(MaxObjs + 1)
  BY LakeBoundsAssumption DEF Init
<1>5. tries \in [Clients -> 0..(MaxTries - 1)] /\ begun \in 0..MaxOps /\ crashes \in 0..MaxCrashes
  <2>1. 0 \in 0..(MaxTries - 1) /\ 0 \in 0..MaxOps /\ 0 \in 0..MaxCrashes
    BY LakeBoundsAssumption
  <2> QED BY <2>1 DEF Init
<1>6. branch \in [Branches -> Tips \cup {NoBranch}]
  BY <1>1 DEF Init
<1>7. /\ object \in [CommitIDs -> CommitObjects(Tips) \cup {NoObject}]
      /\ snapOf \in [Tips -> Snapshots]
      /\ req \in [Clients -> Requests]
  BY <1>2, <1>3 DEF Init
<1> QED BY <1>1, <1>4, <1>5, <1>6, <1>7 DEF Init, TypeOK, IDSets

(* The writer stores a data object. *)
LEMMA WriteTyped ==
    ASSUME TypeOK, NEW rows \in IDSets, WriteData(rows)
    PROVE  /\ files' \in IDSets
           /\ content' \in [Objs -> IDSets]
           /\ nextObj' \in 1..(MaxObjs + 1)
           /\ nextObj \in Objs
<1>1. nextObj \in 1..(MaxObjs + 1) /\ MaxObjs \in Nat /\ nextObj <= MaxObjs /\ nextObj' = nextObj + 1
  BY LakeBoundsAssumption DEF TypeOK, WriteData
<1>2. nextObj \in Objs /\ nextObj' \in 1..(MaxObjs + 1)
  BY <1>1, ObjsAssumption
<1> QED BY <1>2 DEF WriteData, TypeOK, IDSets

(* A client builds a commit object. *)
LEMMA TypePrepare ==
    ASSUME HistoryInv, SnapshotInv, TypeOK, NEW c \in Clients, Prepare(c)
    PROVE  TypeOK'
<1> DEFINE p == branch[req[c].br]
           n == nextCommit
<1>1. PICK o \in Create(req[c], p) :
        /\ object' = [object EXCEPT ![n] = o]
        /\ snapOf' = [snapOf EXCEPT ![n] = Play(snapOf[o.parent], o)]
        /\ anc' = [anc EXCEPT ![n] = anc[o.parent] \cup {n}]
        /\ IF req[c].kind = "deletewhere" /\ o.add # {}
           THEN WriteData(KeptRows(req[c], o.parent))
           ELSE NoWrite
  BY DEF Prepare
<1>2. /\ n <= MaxCommits
      /\ nextCommit' = n + 1
      /\ mine' = [mine EXCEPT ![c] = n]
      /\ pc' = [pc EXCEPT ![c] = "publish"]
      /\ UNCHANGED <<branch, req, tries, begun, crashes, published, onBranch>>
      /\ p # NoBranch
  BY DEF Prepare, history, bounds
<1>3. n \in CommitIDs /\ n \in Tips /\ n + 1 \in 1..(MaxCommits + 1)
  BY <1>2, LakeBoundsAssumption DEF CommitIDs, Tips, Nil, TypeOK
<1>4. o.parent = p /\ p \in Committed /\ p \in Tips
  <2>1. req[c].br \in Live
    BY <1>2 DEF Live, HistoryInv, LakeTypes
  <2>2. p \in Committed
    BY <2>1 DEF HistoryInv, PublishedInv
  <2>3. p \in Tips
    BY <2>1, <1>2 DEF TypeOK, Live
  <2> QED BY <2>2, <2>3, CreateParent
<1>5. /\ files' \in IDSets
      /\ content' \in [Objs -> IDSets]
      /\ nextObj' \in 1..(MaxObjs + 1)
      /\ req[c].kind = "deletewhere" /\ o.add # {} => nextObj \in Objs
  <2>1. CASE req[c].kind = "deletewhere" /\ o.add # {}
    <3>1. KeptRows(req[c], p) \in IDSets
      <4>1. \A x \in Matching(req[c], p) : content[x] \subseteq Objs
        <5>1. snapOf[p].objects \subseteq Objs
          BY <1>4 DEF TypeOK, Snapshots, IDSets
        <5> QED BY <5>1 DEF Matching, TypeOK, IDSets
      <4> QED BY <4>1 DEF KeptRows, IDSets
    <3> QED BY <1>1, <1>4, <2>1, <3>1, WriteTyped
  <2>2. CASE ~(req[c].kind = "deletewhere" /\ o.add # {})
    BY <1>1, <2>2 DEF NoWrite, TypeOK
  <2> QED BY <2>1, <2>2
<1>6. o \in CommitObjects(Tips)
  <2>1. \A x \in o.add : \/ x \in req[c].add
                         \/ x = nextObj /\ req[c].kind = "deletewhere"
                         \/ \E m \in Committed : x \in snapOf[m].objects
    BY <1>4, CreateSound
  <2>2. req[c].add \subseteq Objs
    BY DEF TypeOK, Requests, IDSets
  <2>3. \A m \in Committed : snapOf[m].objects \subseteq Objs
    <3>1. Committed \subseteq Tips
      BY LakeBoundsAssumption DEF HistoryInv, LakeTypes, Committed, CommitIDs, Tips, Nil
    <3> QED BY <3>1 DEF TypeOK, Snapshots, IDSets
  <2>4. o.add \subseteq Objs
    BY <1>5, <2>1, <2>2, <2>3
  <2> QED BY <1>4, <2>4, CreateTyped
<1>7. Play(snapOf[o.parent], o) \in Snapshots
  BY <1>4, <1>6, PlayTyped DEF TypeOK
<1>8. object' \in [CommitIDs -> CommitObjects(Tips) \cup {NoObject}]
  BY <1>1, <1>6 DEF TypeOK
<1>9. snapOf' \in [Tips -> Snapshots]
  BY <1>1, <1>7 DEF TypeOK
<1>10. anc' \in [Tips -> SUBSET CommitIDs]
  BY <1>1, <1>3, <1>4 DEF TypeOK
<1> QED BY <1>2, <1>3, <1>5, <1>8, <1>9, <1>10 DEF TypeOK

(* The operation of client c ends, or starts over. *)
LEMMA TypeLeave ==
    ASSUME TypeOK, NEW c \in Clients, NEW label \in {"idle", "prepare"},
           pc' = [pc EXCEPT ![c] = label],
           req' = [req EXCEPT ![c] = NoRequest] \/ req' = req,
           mine' = [mine EXCEPT ![c] = Nil],
           tries' \in [Clients -> 0..(MaxTries - 1)],
           crashes' \in 0..MaxCrashes,
           files' \subseteq files,
           object' = object \/ object' = [object EXCEPT ![mine[c]] = NoObject],
           UNCHANGED <<content, nextCommit, nextObj, begun, snapOf, anc>>,
           branch' \in [Branches -> Tips \cup {NoBranch}],
           published' \subseteq CommitIDs,
           onBranch' \in [Branches -> SUBSET CommitIDs]
    PROVE  TypeOK'
<1>1. Nil \in Tips /\ {} \in IDSets /\ Main \in Branches
  BY LakeBoundsAssumption, MainAssumption DEF Nil, Tips, IDSets
<1>2. NoRequest \in Requests
  BY <1>1 DEF NoRequest, Request, Requests, AllKinds
<1>3. object' \in [CommitIDs -> CommitObjects(Tips) \cup {NoObject}]
  BY DEF TypeOK
<1>4. files' \in IDSets
  BY DEF TypeOK, IDSets
<1>5. /\ req' \in [Clients -> Requests]
      /\ mine' \in [Clients -> Tips]
      /\ pc' \in [Clients -> {"idle", "prepare", "publish"}]
  BY <1>1, <1>2 DEF TypeOK
<1> QED BY <1>3, <1>4, <1>5 DEF TypeOK

(* Every step keeps the types of the state. *)
LEMMA TypeStep ==
    ASSUME PlainKinds, HistoryInv, SnapshotInv, TypeOK, [Next]_vars
    PROVE  TypeOK'
<1>0. 0 \in 0..(MaxTries - 1) /\ MaxTries \in Nat /\ MaxCrashes \in Nat /\ MaxOps \in Nat
  BY LakeBoundsAssumption
<1>1. ASSUME NEW c \in Clients, NEW b \in Live, BeginOp(c, b)
      PROVE  TypeOK'
  <2>1. PICK r \in Requests :
          /\ Begin(c, r)
          /\ \/ WriteData({nextObj})
             \/ r.ids \subseteq TipOf(b).objects /\ WriteData(UNION {content[o] : o \in r.ids})
             \/ NoWrite
    BY <1>1, BeginCases
  <2>2. /\ begun < MaxOps
        /\ begun' = begun + 1
        /\ pc' = [pc EXCEPT ![c] = "prepare"]
        /\ req' = [req EXCEPT ![c] = r]
        /\ UNCHANGED <<branch, object, nextCommit, mine, tries, crashes, snapOf, anc,
                       published, onBranch>>
    BY <2>1 DEF Begin, derived, history
  <2>3. begun' \in 0..MaxOps
    BY <1>0, <2>2 DEF TypeOK
  <2>4. /\ files' \in IDSets
        /\ content' \in [Objs -> IDSets]
        /\ nextObj' \in 1..(MaxObjs + 1)
    <3>1. CASE WriteData({nextObj})
      <4>1. {nextObj} \in IDSets
        <5>1. nextObj \in 1..(MaxObjs + 1) /\ MaxObjs \in Nat /\ nextObj <= MaxObjs
          BY <3>1, LakeBoundsAssumption DEF TypeOK, WriteData
        <5> QED BY <5>1, ObjsAssumption DEF IDSets
      <4> QED BY <3>1, <4>1, WriteTyped
    <3>2. CASE r.ids \subseteq TipOf(b).objects /\ WriteData(UNION {content[o] : o \in r.ids})
      <4>1. r.ids \subseteq Objs
        BY DEF Requests, IDSets
      <4>2. UNION {content[o] : o \in r.ids} \in IDSets
        BY <4>1 DEF TypeOK, IDSets
      <4> QED BY <3>2, <4>2, WriteTyped
    <3>3. CASE NoWrite
      BY <3>3 DEF NoWrite, TypeOK
    <3> QED BY <2>1, <3>1, <3>2, <3>3
  <2>5. pc' \in [Clients -> {"idle", "prepare", "publish"}] /\ req' \in [Clients -> Requests]
    BY <2>2 DEF TypeOK
  <2> QED BY <2>2, <2>3, <2>4, <2>5 DEF TypeOK
<1>2. ASSUME NEW c \in Clients, Prepare(c)
      PROVE  TypeOK'
  BY <1>2, TypePrepare
<1>3. ASSUME NEW c \in Clients, Return(c), crashes' \in 0..MaxCrashes,
             files' \subseteq files,
             object' = object \/ object' = [object EXCEPT ![mine[c]] = NoObject],
             UNCHANGED <<content, nextCommit, nextObj, begun, snapOf, anc>>,
             branch' \in [Branches -> Tips \cup {NoBranch}],
             published' \subseteq CommitIDs,
             onBranch' \in [Branches -> SUBSET CommitIDs]
      PROVE  TypeOK'
  <2>1. /\ pc' = [pc EXCEPT ![c] = "idle"]
        /\ req' = [req EXCEPT ![c] = NoRequest]
        /\ mine' = [mine EXCEPT ![c] = Nil]
        /\ tries' = [tries EXCEPT ![c] = 0]
    BY <1>3 DEF Return
  <2>2. tries' \in [Clients -> 0..(MaxTries - 1)]
    BY <1>0, <2>1 DEF TypeOK
  <2> QED BY <1>3, <2>1, <2>2, TypeLeave
<1>4. ASSUME NEW c \in Clients, PrepareFails(c)
      PROVE  TypeOK'
  BY <1>3, <1>4 DEF PrepareFails, AbortWriter, TypeOK, derived, history, bounds
<1>5. ASSUME NEW c \in Clients, Publish(c)
      PROVE  TypeOK'
  <2>1. /\ published' = published \cup {mine[c]}
        /\ onBranch' = [onBranch EXCEPT ![req[c].br] = @ \cup {mine[c]}]
        /\ Return(c)
        /\ UNCHANGED <<object, files, content, nextCommit, nextObj, begun, crashes, snapOf, anc>>
    BY <1>5 DEF Publish, derived, bounds
  <2>2. branch' = [b \in Branches |-> IF b = req[c].br THEN mine[c] ELSE branch[b]]
    BY <1>5, PublishFacts
  <2>3. branch' \in [Branches -> Tips \cup {NoBranch}]
    BY <2>2 DEF TypeOK
  <2>4. mine[c] \in CommitIDs
    BY <1>5, PublishFacts DEF HistoryInv, PendingInv
  <2>5. published' \subseteq CommitIDs /\ onBranch' \in [Branches -> SUBSET CommitIDs]
    BY <2>1, <2>4 DEF TypeOK
  <2>6. crashes' \in 0..MaxCrashes
    BY <2>1 DEF TypeOK
  <2> QED BY <1>3, <2>1, <2>3, <2>5, <2>6
<1>6. ASSUME NEW c \in Clients, Conflict(c)
      PROVE  TypeOK'
  <2>1. /\ object' = [object EXCEPT ![mine[c]] = NoObject]
        /\ UNCHANGED <<branch, content, nextCommit, nextObj, begun, crashes, snapOf, anc,
                       published, onBranch>>
    BY <1>6 DEF Conflict, RemoveObject, bounds, derived, history
  <2>2. CASE /\ tries[c] + 1 < MaxTries
             /\ tries' = [tries EXCEPT ![c] = @ + 1]
             /\ mine' = [mine EXCEPT ![c] = Nil]
             /\ pc' = [pc EXCEPT ![c] = "prepare"]
             /\ UNCHANGED <<req, files>>
    <3>1. tries[c] + 1 \in 0..(MaxTries - 1)
      BY <1>0, <2>2 DEF TypeOK
    <3>2. tries' \in [Clients -> 0..(MaxTries - 1)]
      BY <2>2, <3>1 DEF TypeOK
    <3>3. /\ crashes' \in 0..MaxCrashes
          /\ branch' \in [Branches -> Tips \cup {NoBranch}]
          /\ published' \subseteq CommitIDs
          /\ onBranch' \in [Branches -> SUBSET CommitIDs]
      BY <2>1 DEF TypeOK
    <3> QED BY <2>1, <2>2, <3>2, <3>3, TypeLeave
  <2>3. CASE Return(c) /\ AbortWriter(c)
    BY <1>3, <2>1, <2>3 DEF AbortWriter, TypeOK
  <2> QED BY <1>6, <2>2, <2>3 DEF Conflict
<1>7. ASSUME NEW c \in Clients, UpdateFails(c)
      PROVE  TypeOK'
  BY <1>3, <1>7 DEF UpdateFails, RemoveObject, AbortWriter, TypeOK, derived, history, bounds
<1>8. ASSUME NEW c \in Clients, Crash(c)
      PROVE  TypeOK'
  <2>1. crashes' \in 0..MaxCrashes
    BY <1>0, <1>8 DEF Crash, TypeOK
  <2> QED BY <1>3, <1>8, <2>1 DEF Crash, TypeOK, storage, derived, history
<1>9. ASSUME NEW b \in Branches, (\E m \in Tips : CreateBranch(b, m)) \/ RemoveBranch(b)
      PROVE  TypeOK'
  <2>1. \E t \in Tips \cup {NoBranch} :
          branch' = [x \in Branches |-> IF x = b THEN t ELSE branch[x]]
    <3>1. ASSUME NEW m \in Tips, CreateBranch(b, m)
          PROVE  branch' = [x \in Branches |-> IF x = b THEN m ELSE branch[x]]
      BY <3>1 DEF CreateBranch, Store!Apply, Store!Insert
    <3>2. CASE RemoveBranch(b)
      BY <3>2 DEF RemoveBranch, Store!Apply, Store!Delete
    <3> QED BY <1>9, <3>1, <3>2
  <2>2. branch' \in [Branches -> Tips \cup {NoBranch}]
    BY <2>1 DEF TypeOK
  <2>3. /\ onBranch' = [onBranch EXCEPT ![b] = {}]
        /\ UNCHANGED <<object, files, content, nextCommit, nextObj, pc, req, mine, tries,
                       begun, crashes, snapOf, anc, published>>
    BY <1>9 DEF CreateBranch, RemoveBranch, locals, derived, bounds
  <2> QED BY <2>2, <2>3 DEF TypeOK
<1>10. ASSUME NEW leaf \in CommitIDs, NEW o \in Objs, VacuumFile(leaf, o)
       PROVE  TypeOK'
  BY <1>10 DEF VacuumFile, TypeOK, IDSets, locals, derived, history, bounds
<1>11. CASE UNCHANGED vars
  BY <1>11 DEF vars, TypeOK, storage, locals, derived, history, bounds
<1> QED BY <1>1, <1>2, <1>4, <1>5, <1>6, <1>7, <1>8, <1>9, <1>10, <1>11 DEF Next

-------------------------------------------------------------------------------
(* Storing an object does not disturb what the clients have written: its   *)
(* rows are not those of an unpublished load.                              *)
LEMMA WriteStays ==
    ASSUME TypeOK, SnapshotInv, RowsInv, NEW rows, WriteData(rows),
           rows \subseteq 1..nextObj,
           \A d \in Clients : req[d].kind = "load" => rows \cap req[d].add = {}
    PROVE  /\ \A o \in Objs : o # nextObj => content'[o] = content[o]
           /\ nextObj \in Objs /\ content'[nextObj] = rows
           /\ \A o \in Objs : content'[o] \subseteq 1..(nextObj' - 1)
           /\ \A d \in Clients : req'[d] = req[d] => Written(req[d])'
<1>1. /\ nextObj \in 1..(MaxObjs + 1)
      /\ MaxObjs \in Nat
      /\ nextObj <= MaxObjs
      /\ nextObj' = nextObj + 1
      /\ content' = [content EXCEPT ![nextObj] = rows]
  BY LakeBoundsAssumption DEF TypeOK, WriteData
<1>2. nextObj \in Objs /\ nextObj' - 1 = nextObj /\ nextObj \in Nat
  BY <1>1, ObjsAssumption
<1>3. /\ \A o \in Objs : o # nextObj => content'[o] = content[o]
      /\ content'[nextObj] = rows
  BY <1>1, <1>2 DEF TypeOK
<1>4. 1..(nextObj - 1) \subseteq 1..nextObj /\ nextObj \notin 1..(nextObj - 1)
  BY <1>2
<1>5. ASSUME NEW o \in Objs PROVE content'[o] \subseteq 1..(nextObj' - 1)
  BY <1>2, <1>3, <1>4 DEF RowsInv
<1>6. ASSUME NEW d \in Clients
      PROVE  /\ req[d].ids \subseteq 1..(nextObj' - 1)
             /\ req[d].kind = "load" => \A a \in req[d].add :
                  content'[a] = {a} /\ \A o \in Objs \ {a} : a \notin content'[o]
             /\ req[d].kind = "compact" => \E a \in Objs :
                  /\ req[d].add = {a}
                  /\ a \notin req[d].ids
                  /\ content'[a] = UNION {content'[o] : o \in req[d].ids}
  <2>0. /\ req[d].add \subseteq Objs /\ req[d].ids \subseteq Objs
        /\ req[d].add \subseteq 1..(nextObj - 1)
        /\ Written(req[d])
    BY DEF TypeOK, Requests, IDSets, SnapshotInv, RequestInv, RowsInv
  <2>1. req[d].ids \subseteq 1..(nextObj' - 1) /\ nextObj \notin req[d].ids
        /\ nextObj \notin req[d].add
    BY <1>2, <1>4, <2>0 DEF Written
  <2>2. ASSUME req[d].kind = "load", NEW a \in req[d].add
        PROVE  content'[a] = {a} /\ \A o \in Objs \ {a} : a \notin content'[o]
    <3>1. content[a] = {a} /\ \A o \in Objs \ {a} : a \notin content[o]
      BY <2>0, <2>2 DEF Written
    <3>2. a # nextObj /\ a \in Objs /\ a \notin rows
      BY <2>0, <2>1, <2>2
    <3> QED BY <1>3, <3>1, <3>2
  <2>3. ASSUME req[d].kind = "compact"
        PROVE  \E a \in Objs : /\ req[d].add = {a}
                               /\ a \notin req[d].ids
                               /\ content'[a] = UNION {content'[o] : o \in req[d].ids}
    <3>1. PICK a \in Objs : /\ req[d].add = {a}
                            /\ a \notin req[d].ids
                            /\ content[a] = UNION {content[o] : o \in req[d].ids}
      BY <2>0, <2>3 DEF Written
    <3>2. a # nextObj
      BY <2>1, <3>1
    <3>3. \A o \in req[d].ids : content'[o] = content[o]
      BY <1>3, <2>0, <2>1
    <3>4. UNION {content'[o] : o \in req[d].ids} = UNION {content[o] : o \in req[d].ids}
      BY <3>3
    <3> QED BY <1>3, <3>1, <3>2, <3>4
  <2> QED BY <2>1, <2>2, <2>3
<1>7. ASSUME NEW d \in Clients, req'[d] = req[d] PROVE Written(req[d])'
  BY <1>6, <1>7 DEF Written
<1> QED BY <1>2, <1>3, <1>5, <1>7

(* The rows of a set of objects. *)
LEMMA RowsOf ==
    ASSUME NEW f, NEW S, NEW R, \A k : k \in R <=> \E x \in S : k \in f[x]
    PROVE  UNION {f[x] : x \in S} = R
OBVIOUS

(* The objects of the tip once commit object o is on top of p, and the     *)
(* rewritten object that DeleteWhere stores along with it.                 *)
After(p, o) == (snapOf[p].objects \ o.del) \cup o.add

Rewrites(r, p, o) ==
    IF r.kind = "deletewhere" /\ o.add # {}
    THEN /\ content'[nextObj] = KeptRows(r, p)
         /\ \A x \in Objs : x # nextObj => content'[x] = content[x]
    ELSE content' = content

(* What a constructor returns has exactly the effect of its request on the *)
(* rows of the tip it was given, and leaves no row in two objects.         *)
LEMMA CreateRows ==
    ASSUME RowKindsOnly, HistoryInv, SnapshotInv, TypeOK, RowsInv,
           NEW c \in Clients, NEW p \in Committed, NEW o \in Create(req[c], p),
           Rewrites(req[c], p, o)
    PROVE  /\ \A x, y \in After(p, o) : x # y => content'[x] \cap content'[y] = {}
           /\ UNION {content'[x] : x \in After(p, o)} = RowsAfter(req[c], Rows(snapOf[p]))
<1> DEFINE new == After(p, o)
<1>0. /\ new = (snapOf[p].objects \ o.del) \cup o.add
      /\ IF req[c].kind = "deletewhere" /\ o.add # {}
         THEN /\ content'[nextObj] = KeptRows(req[c], p)
              /\ \A x \in Objs : x # nextObj => content'[x] = content[x]
         ELSE content' = content
  BY DEF After, Rewrites
<1> HIDE DEF new
<1> DEFINE r == req[c]
           S == snapOf[p].objects
<1>1. /\ S \subseteq 1..(nextObj - 1)
      /\ S \subseteq Objs
      /\ nextObj \notin S
      /\ r.kind \notin {"merge", "revert"}
      /\ r.add \cap S = {}
      /\ r.add \subseteq Objs
      /\ \A x, y \in S : x # y => content[x] \cap content[y] = {}
      /\ Written(r)
      /\ r \in Requests
  <2>1. S \subseteq 1..(nextObj - 1) /\ nextObj \in Nat
    BY DEF SnapshotInv, Readable, HistoryInv, LakeTypes
  <2>2. p \in Tips
    BY LakeBoundsAssumption DEF HistoryInv, LakeTypes, Committed, CommitIDs, Tips, Nil
  <2>3. S \subseteq Objs
    BY <2>2 DEF TypeOK, Snapshots, IDSets
  <2>4. nextObj \notin S
    BY <2>1
  <2>5. r \in Requests
    BY DEF TypeOK
  <2>6. r.add \subseteq Objs
    BY <2>5 DEF Requests, IDSets
  <2> QED BY <2>1, <2>3, <2>4, <2>5, <2>6
     DEF SnapshotInv, RequestInv, UnsharedInv, RowsInv, Disjoint
<1>2. CASE r.kind = "load"
  <2>1. o = NewObject(p, {}, r.add, {}, {}, {}, {}) /\ content' = content
    BY <1>0, <1>2 DEF Create, LoadObject
  <2>2. new = S \cup r.add
    BY <1>0, <2>1 DEF NewObject
  <2>3. \A a \in r.add : content[a] = {a} /\ \A x \in Objs \ {a} : a \notin content[x]
    BY <1>1, <1>2 DEF Written
  <2>4. \A x, y \in new : x # y => content[x] \cap content[y] = {}
    <3> SUFFICES ASSUME NEW x \in new, NEW y \in new, x # y
                 PROVE  content[x] \cap content[y] = {}
      OBVIOUS
    <3>1. CASE x \in S /\ y \in S
      BY <3>1, <1>1
    <3>2. CASE x \in r.add
      BY <3>2, <2>2, <2>3, <1>1
    <3>3. CASE y \in r.add
      BY <3>3, <2>2, <2>3, <1>1
    <3> QED BY <2>2, <3>1, <3>2, <3>3
  <2>5. RowsAfter(r, Rows(snapOf[p])) = Rows(snapOf[p]) \cup UNION {content[x] : x \in r.add}
    BY <1>2 DEF RowsAfter
  <2>6. UNION {content[x] : x \in new}
          = Rows(snapOf[p]) \cup UNION {content[x] : x \in r.add}
    BY <2>2, RowsOf DEF Rows
  <2> QED BY <2>1, <2>4, <2>5, <2>6 DEF new
<1>3. CASE r.kind = "delete"
  <2>1. /\ o = NewObject(p, r.ids, {}, {}, {}, r.twice, {})
        /\ r.ids \subseteq S
        /\ content' = content
    BY <1>0, <1>3 DEF Create, DeletesObject
  <2>2. new = S \ r.ids
    BY <1>0, <2>1 DEF NewObject
  <2>3. RowsAfter(r, Rows(snapOf[p])) = Rows(snapOf[p]) \ UNION {content[x] : x \in r.ids}
    BY <1>3 DEF RowsAfter
  <2>4. UNION {content[x] : x \in new}
          = Rows(snapOf[p]) \ UNION {content[x] : x \in r.ids}
    <3>1. ASSUME NEW k, NEW x \in new, k \in content[x], NEW y \in r.ids
          PROVE  k \notin content[y]
      BY <3>1, <2>1, <2>2, <1>1
    <3> QED BY <2>2, <3>1, RowsOf DEF Rows
  <2> QED BY <1>1, <2>1, <2>2, <2>3, <2>4 DEF new
<1>4. CASE r.kind = "deletewhere"
  <2> DEFINE M == Matching(r, p)
             K == KeptRows(r, p)
  <2>1. /\ o = NewObject(p, M, IF K = {} THEN {} ELSE {nextObj}, {}, {}, {}, {})
        /\ M \subseteq S
    BY <1>4 DEF Create, DeleteWhereObject, Matching
  <2>2. new = (S \ M) \cup (IF K = {} THEN {} ELSE {nextObj})
    BY <1>0, <2>1 DEF NewObject
  <2>3. /\ \A x \in S : x \in M <=> content[x] \cap r.ids # {}
        /\ \A k : k \in K <=> k \notin r.ids /\ \E x \in M : k \in content[x]
    <3>1. \A x \in S : x \in M <=> content[x] \cap r.ids # {}
      BY DEF Matching
    <3> DEFINE U == UNION {content[x] : x \in M}
    <3>2. K = U \ r.ids
      BY DEF KeptRows
    <3> HIDE DEF M, K
    <3>3. \A k : k \in U <=> \E x \in M : k \in content[x]
      OBVIOUS
    <3> HIDE DEF U
    <3>4. \A k : k \in K <=> k \notin r.ids /\ \E x \in M : k \in content[x]
      BY <3>2, <3>3
    <3> QED BY <3>1, <3>4
  <2>4. RowsAfter(r, Rows(snapOf[p])) = Rows(snapOf[p]) \ r.ids
    BY <1>4 DEF RowsAfter
  <2>5. /\ \A x \in S : content'[x] = content[x]
        /\ K # {} => content'[nextObj] = K
    <3>1. o.add = IF K = {} THEN {} ELSE {nextObj}
      BY <2>1 DEF NewObject
    <3> QED BY <1>0, <1>1, <1>4, <3>1
  <2> HIDE DEF M, K
  <2>6. \A x \in S \ M : content[x] \cap K = {}
    BY <1>1, <2>1, <2>3
  <2>7. \A x, y \in new : x # y => content'[x] \cap content'[y] = {}
    <3> SUFFICES ASSUME NEW x \in new, NEW y \in new, x # y
                 PROVE  content'[x] \cap content'[y] = {}
      OBVIOUS
    <3>1. CASE x \in S \ M /\ y \in S \ M
      BY <3>1, <1>1, <2>5
    <3>2. CASE x \in S \ M /\ y = nextObj /\ K # {}
      BY <3>2, <2>5, <2>6
    <3>3. CASE x = nextObj /\ K # {} /\ y \in S \ M
      BY <3>3, <2>5, <2>6
    <3> QED BY <2>2, <3>1, <3>2, <3>3
  <2>8. UNION {content'[x] : x \in new} = Rows(snapOf[p]) \ r.ids
    <3>1. ASSUME NEW k, NEW x \in new, k \in content'[x]
          PROVE  k \notin r.ids /\ \E y \in S : k \in content[y]
      <4>1. CASE x \in S \ M
        BY <3>1, <4>1, <2>3, <2>5
      <4>2. CASE x = nextObj /\ K # {}
        BY <3>1, <4>2, <2>1, <2>3, <2>5
      <4> QED BY <2>2, <4>1, <4>2
    <3>2. ASSUME NEW k, NEW x \in S, k \in content[x], k \notin r.ids
          PROVE  \E y \in new : k \in content'[y]
      <4>1. CASE x \in S \ M
        BY <3>2, <4>1, <2>2, <2>5
      <4>2. CASE x \in M
        <5>1. k \in K
          BY <3>2, <4>2, <2>3
        <5>2. nextObj \in new /\ content'[nextObj] = K
          BY <5>1, <2>2, <2>5
        <5> QED BY <5>1, <5>2
      <4> QED BY <3>2, <4>1, <4>2
    <3>3. \A k : k \in Rows(snapOf[p]) <=> \E x \in S : k \in content[x]
      BY DEF Rows
    <3> QED BY <3>1, <3>2, <3>3, RowsOf
  <2> QED BY <2>4, <2>7, <2>8 DEF new
<1>5. CASE r.kind = "compact"
  <2>1. /\ o = NewCommitObject(CompactPatch(r, snapOf[p]), p)
        /\ r.ids \subseteq S
        /\ content' = content
    BY <1>0, <1>5 DEF Create, CompactObject
  <2>2. o.del = r.ids /\ o.add = r.add
    BY <2>1 DEF NewCommitObject, NewObject, CompactPatch, NewPatch
  <2>3. PICK a \in Objs : /\ r.add = {a}
                          /\ content[a] = UNION {content[x] : x \in r.ids}
    BY <1>1, <1>5 DEF Written
  <2>4. new = (S \ r.ids) \cup {a}
    BY <1>0, <2>2, <2>3
  <2>5. \A x \in S \ r.ids : content[x] \cap content[a] = {}
    BY <1>1, <2>1, <2>3
  <2>6. \A x, y \in new : x # y => content[x] \cap content[y] = {}
    <3> SUFFICES ASSUME NEW x \in new, NEW y \in new, x # y
                 PROVE  content[x] \cap content[y] = {}
      OBVIOUS
    <3>1. CASE x \in S \ r.ids /\ y \in S \ r.ids
      BY <3>1, <1>1
    <3>2. CASE x \in S \ r.ids /\ y = a
      BY <3>2, <2>5
    <3>3. CASE x = a /\ y \in S \ r.ids
      BY <3>3, <2>5
    <3> QED BY <2>4, <3>1, <3>2, <3>3
  <2>7. UNION {content[x] : x \in new} = UNION {content[x] : x \in S}
    <3>1. ASSUME NEW k, NEW x \in new, k \in content[x]
          PROVE  \E y \in S : k \in content[y]
      BY <3>1, <2>1, <2>3, <2>4
    <3>2. ASSUME NEW k, NEW x \in S, k \in content[x]
          PROVE  \E y \in new : k \in content[y]
      BY <3>2, <2>3, <2>4
    <3> HIDE DEF S
    <3> QED BY <3>1, <3>2
  <2>8. RowsAfter(r, Rows(snapOf[p])) = Rows(snapOf[p])
    BY <1>5 DEF RowsAfter
  <2> QED BY <2>1, <2>6, <2>7, <2>8 DEF Rows, new
<1>6. CASE r.kind \notin {"load", "delete", "deletewhere", "revert", "compact", "merge"}
  <2>1. o \in VectorsObject(r, p) /\ content' = content
    BY <1>0, <1>6 DEF Create
  <2>2. o.del = {} /\ o.add = {}
    BY <2>1 DEF VectorsObject, NewObject
  <2>3. new = S
    BY <1>0, <2>2
  <2>4. RowsAfter(r, Rows(snapOf[p])) = Rows(snapOf[p])
    BY <1>6 DEF RowsAfter
  <2> QED BY <1>1, <2>1, <2>3, <2>4 DEF Rows, new
<1> QED BY <1>1, <1>2, <1>3, <1>4, <1>5, <1>6

(* The empty pool. *)
LEMMA RowsInit == Init => RowsInv
<1> SUFFICES ASSUME Init PROVE RowsInv
  OBVIOUS
<1>1. Committed = {Nil} /\ Nil \in Tips /\ \A c \in Clients : ~Pending(c)
  BY LakeBoundsAssumption DEF Init, Committed, Pending, Tips, Nil
<1>2. Written(NoRequest) /\ NoRequest.kind # "revert"
  BY DEF Written, NoRequest, Request
<1>3. Disjoint(snapOf[Nil])
  BY <1>1 DEF Init, NewSnapshot, Disjoint
<1> QED BY <1>1, <1>2, <1>3 DEF Init, RowsInv

(* Data objects below the next one keep their rows, and so do snapshots    *)
(* and requests that name no other.                                        *)
LEMMA OldRows ==
    ASSUME HistoryInv, SnapshotInv, TypeOK, RowsInv,
           \A o \in Objs : o # nextObj => content'[o] = content[o],
           NEW m \in Tips, Readable(m), Disjoint(snapOf[m]), snapOf'[m] = snapOf[m]
    PROVE  /\ Disjoint(snapOf[m])'
           /\ Rows(snapOf[m])' = Rows(snapOf[m])
<1>1. snapOf[m].objects \subseteq Objs /\ nextObj \notin snapOf[m].objects
  BY DEF TypeOK, Snapshots, IDSets, Readable, HistoryInv, LakeTypes
<1>2. \A o \in snapOf[m].objects : content'[o] = content[o]
  BY <1>1
<1>3. Disjoint(snapOf[m])'
  BY <1>2 DEF Disjoint
<1>4. UNION {content'[o] : o \in snapOf[m].objects} = UNION {content[o] : o \in snapOf[m].objects}
  BY <1>2, RowsOf
<1> QED BY <1>3, <1>4 DEF Rows

(* The effect of a request does not depend on later writes. *)
LEMMA OldEffect ==
    ASSUME SnapshotInv, HistoryInv, TypeOK, RowsInv, NEW d \in Clients, req'[d] = req[d],
           \A o \in Objs : o # nextObj => content'[o] = content[o],
           NEW R
    PROVE  RowsAfter(req[d], R)' = RowsAfter(req[d], R)
<1>1. /\ req[d].add \subseteq Objs /\ req[d].ids \subseteq Objs
      /\ nextObj \notin req[d].add /\ nextObj \notin req[d].ids
  <2>1. nextObj \in Nat /\ nextObj \notin 1..(nextObj - 1)
    BY DEF HistoryInv, LakeTypes
  <2>2. req[d].add \subseteq 1..(nextObj - 1) /\ req[d].ids \subseteq 1..(nextObj - 1)
    BY DEF SnapshotInv, RequestInv, RowsInv, Written
  <2>3. req[d].add \subseteq Objs /\ req[d].ids \subseteq Objs
    BY DEF TypeOK, Requests, IDSets
  <2> QED BY <2>1, <2>2, <2>3
<1>2. UNION {content'[o] : o \in req[d].add} = UNION {content[o] : o \in req[d].add}
  BY <1>1, RowsOf
<1>3. UNION {content'[o] : o \in req[d].ids} = UNION {content[o] : o \in req[d].ids}
  BY <1>1, RowsOf
<1> QED BY <1>2, <1>3 DEF RowsAfter

(* A client begins an operation. *)
LEMMA RowsBegin ==
    ASSUME RowKindsOnly, HistoryInv, SnapshotInv, TypeOK, RowsInv,
           NEW c \in Clients, NEW b \in Live, BeginOp(c, b)
    PROVE  RowsInv'
<1>1. PICK r \in Requests :
        /\ Begin(c, r)
        /\ r.ids \subseteq 1..(nextObj - 1)
        /\ \/ /\ r.kind = "load"
              /\ r.add = {nextObj}
              /\ WriteData({nextObj})
           \/ /\ r.kind = "compact"
              /\ r.add = {nextObj}
              /\ r.ids \subseteq TipOf(b).objects
              /\ WriteData(UNION {content[o] : o \in r.ids})
           \/ /\ r.kind \notin {"load", "compact"}
              /\ r.add = {}
              /\ NoWrite
  BY BeginCases DEF PlainKinds, RowKindsOnly
<1>2. /\ pc[c] = "idle"
      /\ r.kind \in Kinds
      /\ pc' = [pc EXCEPT ![c] = "prepare"]
      /\ req' = [req EXCEPT ![c] = r]
      /\ UNCHANGED <<object, mine, snapOf, published>>
  BY <1>1 DEF Begin, derived, history
<1>3. /\ nextObj \in Nat \ {0}
      /\ nextObj \notin 1..(nextObj - 1)
      /\ 1..(nextObj - 1) \subseteq 1..nextObj
      /\ (nextObj + 1) - 1 = nextObj
  BY DEF HistoryInv, LakeTypes
<1>4. \A d \in Clients : /\ req'[d] = IF d = c THEN r ELSE req[d]
                         /\ Pending(d)' <=> Pending(d)
                         /\ Pending(d) => d # c
  BY <1>2 DEF TypeOK, Pending
<1>5. r.ids \subseteq Objs
  BY DEF Requests, IDSets
<1>6. /\ \A o \in Objs : o # nextObj => content'[o] = content[o]
      /\ \A o \in Objs : content'[o] \subseteq 1..(nextObj' - 1)
      /\ \A d \in Clients : d # c => Written(req[d])'
      /\ Written(req[c])'
  <2>1. CASE r.kind = "load" /\ r.add = {nextObj} /\ WriteData({nextObj})
    <3>1. \A d \in Clients : {nextObj} \cap req[d].add = {}
      BY <1>3 DEF SnapshotInv, RequestInv
    <3>2. {nextObj} \subseteq 1..nextObj
      BY <1>3
    <3>3. /\ \A o \in Objs : o # nextObj => content'[o] = content[o]
          /\ nextObj \in Objs /\ content'[nextObj] = {nextObj}
          /\ \A o \in Objs : content'[o] \subseteq 1..(nextObj' - 1)
          /\ \A d \in Clients : req'[d] = req[d] => Written(req[d])'
      BY <2>1, <3>1, <3>2, WriteStays
    <3>4. \A o \in Objs \ {nextObj} : nextObj \notin content'[o]
      BY <1>3, <3>3 DEF RowsInv
    <3>5. r.ids \subseteq 1..(nextObj' - 1)
      BY <1>1, <1>3, <2>1 DEF WriteData
    <3>6. Written(req[c])'
      BY <1>4, <2>1, <3>3, <3>4, <3>5 DEF Written
    <3> QED BY <1>4, <3>3, <3>6
  <2>2. CASE /\ r.kind = "compact"
             /\ r.add = {nextObj}
             /\ r.ids \subseteq TipOf(b).objects
             /\ WriteData(UNION {content[o] : o \in r.ids})
    <3> DEFINE rows == UNION {content[o] : o \in r.ids}
    <3>1. ASSUME NEW d \in Clients, req[d].kind = "load"
          PROVE  rows \cap req[d].add = {}
      <4>1. branch[b] \in Committed
        BY DEF HistoryInv, PublishedInv
      <4>2. req[d].add \cap r.ids = {}
        BY <2>2, <4>1 DEF SnapshotInv, UnsharedInv, TipOf
      <4>3. \A a \in req[d].add : \A o \in Objs \ {a} : a \notin content[o]
        BY <3>1 DEF RowsInv, Written
      <4> QED BY <1>5, <4>2, <4>3
    <3>2. rows \subseteq 1..nextObj
      BY <1>3, <1>5 DEF RowsInv
    <3>3. /\ \A o \in Objs : o # nextObj => content'[o] = content[o]
          /\ nextObj \in Objs /\ content'[nextObj] = rows
          /\ \A o \in Objs : content'[o] \subseteq 1..(nextObj' - 1)
          /\ \A d \in Clients : req'[d] = req[d] => Written(req[d])'
      <4> HIDE DEF rows
      <4>1. WriteData(rows)
        BY <2>2 DEF rows
      <4> QED BY <3>1, <3>2, <4>1, WriteStays
    <3>4. nextObj \notin r.ids /\ r.ids \subseteq 1..(nextObj' - 1)
      BY <1>1, <1>3, <2>2 DEF WriteData
    <3>5. rows = UNION {content'[o] : o \in r.ids}
      BY <1>5, <3>3, <3>4, RowsOf
    <3>6. Written(req[c])'
      <4> HIDE DEF rows
      <4> QED BY <1>4, <2>2, <3>3, <3>4, <3>5 DEF Written
    <3> QED BY <1>4, <3>3, <3>6
  <2>3. CASE r.kind \notin {"load", "compact"} /\ NoWrite
    <3>1. UNCHANGED <<content, nextObj>>
      BY <2>3 DEF NoWrite
    <3>2. Written(req[c])'
      BY <1>1, <1>4, <2>3, <3>1 DEF Written
    <3> QED BY <1>4, <3>1, <3>2 DEF RowsInv, Written
  <2> QED BY <1>1, <2>1, <2>2, <2>3
<1>7. \A m \in Committed : Disjoint(snapOf[m])'
  <2>1. Committed \subseteq Tips
    BY LakeBoundsAssumption DEF HistoryInv, LakeTypes, Committed, CommitIDs, Tips, Nil
  <2> QED BY <1>2, <1>6, <2>1, OldRows DEF RowsInv, SnapshotInv
<1>8. ASSUME NEW d \in Clients, Pending(d)'
      PROVE  /\ Disjoint(snapOf[mine[d]])'
             /\ Rows(snapOf[mine[d]])' = RowsAfter(req[d], Rows(snapOf[object[mine[d]].parent]))'
  <2> DEFINE m == mine[d]
             p == object[m].parent
             R == Rows(snapOf[p])
  <2>1. Pending(d) /\ d # c /\ req'[d] = req[d] /\ m \in Tips /\ p \in Committed /\ p \in Tips
    <3>1. Pending(d) /\ d # c /\ req'[d] = req[d]
      BY <1>4, <1>8
    <3>2. m \in Tips /\ p \in Committed
      BY <3>1 DEF HistoryInv, PendingInv, LakeTypes
    <3>3. Committed \subseteq Tips
      BY LakeBoundsAssumption DEF HistoryInv, LakeTypes, Committed, CommitIDs, Tips, Nil
    <3> QED BY <3>1, <3>2, <3>3
  <2>2. /\ Readable(m) /\ Readable(p)
        /\ Disjoint(snapOf[m]) /\ Disjoint(snapOf[p])
        /\ Rows(snapOf[m]) = RowsAfter(req[d], R)
    BY <2>1 DEF SnapshotInv, RowsInv
  <2>3. /\ Disjoint(snapOf[m])' /\ Rows(snapOf[m])' = Rows(snapOf[m])
        /\ Rows(snapOf[p])' = Rows(snapOf[p])
    BY <1>2, <1>6, <2>1, <2>2, OldRows
  <2>4. RowsAfter(req[d], Rows(snapOf[p]))' = RowsAfter(req[d], Rows(snapOf[p]))
    BY <1>6, <2>1, <2>3, OldEffect
  <2> QED BY <1>2, <2>2, <2>3, <2>4
<1>9. \A d \in Clients : req'[d].kind # "revert"
  BY <1>2, <1>4 DEF RowKindsOnly, RowsInv
<1> QED BY <1>2, <1>6, <1>7, <1>8, <1>9 DEF RowsInv, Committed

(* A client builds a commit object. *)
LEMMA RowsPrepare ==
    ASSUME RowKindsOnly, HistoryInv, SnapshotInv, TypeOK, RowsInv,
           NEW c \in Clients, Prepare(c)
    PROVE  RowsInv'
<1> DEFINE p == branch[req[c].br]
           n == nextCommit
<1>1. PICK o \in Create(req[c], p) :
        /\ object' = [object EXCEPT ![n] = o]
        /\ snapOf' = [snapOf EXCEPT ![n] = Play(snapOf[o.parent], o)]
        /\ IF req[c].kind = "deletewhere" /\ o.add # {}
           THEN WriteData(KeptRows(req[c], o.parent))
           ELSE NoWrite
  BY DEF Prepare
<1>2. /\ n <= MaxCommits
      /\ mine' = [mine EXCEPT ![c] = n]
      /\ pc' = [pc EXCEPT ![c] = "publish"]
      /\ UNCHANGED <<branch, req, published>>
      /\ p # NoBranch
  BY DEF Prepare, history
<1>3. n \in CommitIDs /\ n \in Tips /\ n \in Nat /\ Committed \subseteq Tips
  <2>1. n \in CommitIDs /\ n \in Tips /\ n \in Nat
    BY <1>2, LakeBoundsAssumption DEF CommitIDs, Tips, Nil, TypeOK
  <2>2. Committed \subseteq Tips
    BY LakeBoundsAssumption DEF HistoryInv, LakeTypes, Committed, CommitIDs, Tips, Nil
  <2> QED BY <2>1, <2>2
<1>4. o.parent = p /\ p \in Committed
  <2>1. req[c].br \in Live
    BY <1>2 DEF Live, HistoryInv, LakeTypes
  <2> QED BY <2>1, CreateParent DEF HistoryInv, PublishedInv
<1>5. n \notin Committed /\ \A d \in Clients : Pending(d) => mine[d] # n
  <2>1. \A m \in published : m < n
    BY DEF HistoryInv, PublishedInv
  <2>2. \A d \in Clients : Pending(d) => mine[d] < n
    BY DEF HistoryInv, PendingInv
  <2>3. n # Nil
    BY <1>3 DEF CommitIDs, Nil
  <2> QED BY <1>3, <2>1, <2>2, <2>3 DEF Committed
<1>6. /\ snapOf'[n].objects = (snapOf[p].objects \ o.del) \cup o.add
      /\ object'[n] = o
      /\ \A m \in Tips : m # n => snapOf'[m] = snapOf[m]
      /\ \A m \in CommitIDs : m # n => object'[m] = object[m]
  <2>1. /\ snapOf'[n] = Play(snapOf[p], o) /\ object'[n] = o
        /\ \A m \in Tips : m # n => snapOf'[m] = snapOf[m]
        /\ \A m \in CommitIDs : m # n => object'[m] = object[m]
    BY <1>1, <1>3, <1>4 DEF HistoryInv, LakeTypes
  <2>2. snapOf[p].ok /\ Playable(snapOf[p], o)
    BY <1>4, CreateSound DEF SnapshotInv, Readable
  <2> QED BY <2>1, <2>2 DEF Play
<1>7. /\ \A x \in Objs : x # nextObj => content'[x] = content[x]
      /\ \A x \in Objs : content'[x] \subseteq 1..(nextObj' - 1)
      /\ \A d \in Clients : Written(req[d])'
      /\ IF req[c].kind = "deletewhere" /\ o.add # {}
         THEN /\ content'[nextObj] = KeptRows(req[c], p)
              /\ \A x \in Objs : x # nextObj => content'[x] = content[x]
         ELSE content' = content
  <2>1. CASE req[c].kind = "deletewhere" /\ o.add # {}
    <3> DEFINE M == Matching(req[c], p)
               rows == KeptRows(req[c], p)
    <3>1. M \subseteq snapOf[p].objects /\ M \subseteq Objs
      BY <1>3, <1>4 DEF Matching, TypeOK, Snapshots, IDSets
    <3>2. \A k \in rows : \E x \in M : k \in content[x]
      BY DEF KeptRows
    <3> HIDE DEF M, rows
    <3>3. ASSUME NEW d \in Clients, req[d].kind = "load"
          PROVE  rows \cap req[d].add = {}
      <4>1. req[d].add \cap snapOf[p].objects = {}
        BY <1>4 DEF SnapshotInv, UnsharedInv
      <4>2. \A a \in req[d].add : \A x \in Objs \ {a} : a \notin content[x]
        BY <3>3 DEF RowsInv, Written
      <4> QED BY <3>1, <3>2, <4>1, <4>2
    <3>4. rows \subseteq 1..nextObj
      <4>1. nextObj \in Nat
        BY DEF HistoryInv, LakeTypes
      <4>2. 1..(nextObj - 1) \subseteq 1..nextObj
        BY <4>1
      <4> QED BY <3>1, <3>2, <4>2 DEF RowsInv
    <3>5. WriteData(rows)
      BY <1>1, <1>4, <2>1 DEF rows
    <3>6. /\ \A x \in Objs : x # nextObj => content'[x] = content[x]
          /\ content'[nextObj] = rows
          /\ \A x \in Objs : content'[x] \subseteq 1..(nextObj' - 1)
          /\ \A d \in Clients : req'[d] = req[d] => Written(req[d])'
      BY <3>3, <3>4, <3>5, WriteStays
    <3> QED BY <1>2, <2>1, <3>6 DEF rows
  <2>2. CASE ~(req[c].kind = "deletewhere" /\ o.add # {})
    BY <1>1, <1>2, <2>2 DEF NoWrite, RowsInv, Written
  <2> QED BY <2>1, <2>2
<1> HIDE DEF n
<1>8. ASSUME NEW m \in Tips, m # n, Readable(m), Disjoint(snapOf[m])
      PROVE  /\ Disjoint(snapOf[m])'
             /\ Rows(snapOf[m])' = Rows(snapOf[m])
  BY <1>6, <1>7, <1>8, OldRows
<1>9. \A m \in Committed : Disjoint(snapOf[m])'
  BY <1>3, <1>5, <1>8 DEF RowsInv, SnapshotInv
<1>10. ASSUME NEW d \in Clients, Pending(d)'
       PROVE  /\ Disjoint(snapOf[mine[d]])'
              /\ Rows(snapOf[mine[d]])' = RowsAfter(req[d], Rows(snapOf[object[mine[d]].parent]))'
  <2>1. CASE d = c
    <3> DEFINE new == (snapOf[p].objects \ o.del) \cup o.add
    <3>1. mine'[c] = n /\ object'[n].parent = p /\ snapOf'[n].objects = new
      BY <1>2, <1>4, <1>6 DEF TypeOK
    <3>2. /\ \A x, y \in new : x # y => content'[x] \cap content'[y] = {}
          /\ UNION {content'[x] : x \in new} = RowsAfter(req[c], Rows(snapOf[p]))
      <4>1. Rewrites(req[c], p, o)
        BY <1>7 DEF Rewrites
      <4>2. After(p, o) = new
        BY DEF After
      <4> QED BY <4>1, <4>2, <1>4, CreateRows
    <3>3. /\ Rows(snapOf[p])' = Rows(snapOf[p])
          /\ RowsAfter(req[c], Rows(snapOf[p]))' = RowsAfter(req[c], Rows(snapOf[p]))
      <4>1. /\ Readable(p) /\ Disjoint(snapOf[p]) /\ p \in Tips /\ p # n
            /\ p' = p /\ snapOf'[p] = snapOf[p]
        BY <1>2, <1>3, <1>4, <1>5, <1>6 DEF SnapshotInv, RowsInv
      <4>2. Rows(snapOf[p])' = Rows(snapOf[p])
        <5>1. \A m \in Tips : m # n /\ Readable(m) /\ Disjoint(snapOf[m]) =>
                UNION {content'[x] : x \in snapOf'[m].objects} = Rows(snapOf[m])
          BY <1>8 DEF Rows
        <5>2. UNION {content'[x] : x \in snapOf'[p].objects} = Rows(snapOf[p])
          BY <4>1, <5>1
        <5> QED BY <4>1, <5>2 DEF Rows
      <4>3. RowsAfter(req[c], Rows(snapOf[p]))' = RowsAfter(req[c], Rows(snapOf[p]))
        BY <1>2, <1>7, <4>2, OldEffect
      <4> QED BY <4>2, <4>3
    <3>4. Disjoint(snapOf[mine[c]])'
      BY <3>1, <3>2 DEF Disjoint
    <3>5. Rows(snapOf[mine[c]])' = RowsAfter(req[c], Rows(snapOf[p]))
      BY <3>1, <3>2 DEF Rows
    <3>6. object'[mine'[c]].parent = p'
      BY <1>2, <3>1
    <3>7. RowsAfter(req[c], Rows(snapOf[object[mine[c]].parent]))' = RowsAfter(req[c], Rows(snapOf[p]))
      BY <3>3, <3>6 DEF RowsAfter, Rows
    <3> QED BY <2>1, <3>4, <3>5, <3>7
  <2>2. CASE d # c
    <3> DEFINE m == mine[d]
               q == object[m].parent
    <3>1. Pending(d) /\ mine'[d] = m /\ m \in CommitIDs /\ m \in Tips /\ m # n /\ q \in Committed
      <4>1. Pending(d) /\ mine'[d] = mine[d]
        BY <1>2, <1>10, <2>2 DEF Pending, TypeOK
      <4> QED BY <4>1, <1>5 DEF HistoryInv, PendingInv, LakeTypes
    <3>2. q \in Tips /\ q # n /\ object'[m] = object[m]
      BY <1>3, <1>5, <1>6, <3>1
    <3>3. /\ Readable(m) /\ Readable(q) /\ Disjoint(snapOf[m]) /\ Disjoint(snapOf[q])
          /\ Rows(snapOf[m]) = RowsAfter(req[d], Rows(snapOf[q]))
      BY <3>1 DEF SnapshotInv, RowsInv
    <3>4. \A k \in Tips : k # n /\ Readable(k) /\ Disjoint(snapOf[k]) =>
            /\ UNION {content'[x] : x \in snapOf'[k].objects} = Rows(snapOf[k])
            /\ \A x, y \in snapOf'[k].objects : x # y => content'[x] \cap content'[y] = {}
      BY <1>8 DEF Rows, Disjoint
    <3>5. Disjoint(snapOf[mine[d]])' /\ Rows(snapOf[mine[d]])' = Rows(snapOf[m])
      BY <3>1, <3>3, <3>4 DEF Disjoint, Rows
    <3>6. Rows(snapOf[object[mine[d]].parent])' = Rows(snapOf[q])
      BY <3>1, <3>2, <3>3, <3>4 DEF Rows
    <3>7. RowsAfter(req[d], Rows(snapOf[object[mine[d]].parent]))' = RowsAfter(req[d], Rows(snapOf[q]))
      BY <1>2, <1>7, <3>6, OldEffect
    <3> QED BY <3>3, <3>5, <3>7
  <2> QED BY <2>1, <2>2
<1> QED BY <1>2, <1>7, <1>9, <1>10 DEF RowsInv, Committed

(* The operation of client c ends, or starts over. *)
LEMMA RowsLeave ==
    ASSUME HistoryInv, TypeOK, RowsInv, NEW c \in Clients,
           NEW label \in {"idle", "prepare"},
           pc' = [pc EXCEPT ![c] = label],
           req' = [req EXCEPT ![c] = NoRequest] \/ req' = req,
           mine' = [mine EXCEPT ![c] = Nil],
           UNCHANGED <<content, nextObj, snapOf>>,
           \/ published' = published
           \/ Pending(c) /\ published' = published \cup {mine[c]},
           \/ object' = object
           \/ Pending(c) /\ object' = [object EXCEPT ![mine[c]] = NoObject]
    PROVE  RowsInv'
<1>1. \A d \in Clients : req'[d].kind # "revert" /\ Written(req[d])'
  <2>1. \A d \in Clients : req'[d] = req[d] \/ req'[d] = NoRequest
    BY DEF TypeOK
  <2>2. NoRequest.ids = {} /\ NoRequest.add = {} /\ NoRequest.kind = "load"
    BY DEF NoRequest, Request
  <2> QED BY <2>1, <2>2 DEF RowsInv, Written
<1>2. \A m \in Committed' : Disjoint(snapOf[m])'
  BY DEF RowsInv, Committed, Disjoint
<1>3. ASSUME NEW d \in Clients, Pending(d)'
      PROVE  /\ Disjoint(snapOf[mine[d]])'
             /\ Rows(snapOf[mine[d]])' = RowsAfter(req[d], Rows(snapOf[object[mine[d]].parent]))'
  <2>1. Pending(d) /\ d # c /\ mine'[d] = mine[d] /\ req'[d] = req[d]
    BY <1>3 DEF Pending, TypeOK
  <2>2. object'[mine[d]] = object[mine[d]]
    <3>1. \A m \in CommitIDs : object'[m] = object[m] \/ (Pending(c) /\ m = mine[c])
      BY DEF TypeOK
    <3> QED BY <2>1, <3>1 DEF HistoryInv, PendingInv
  <2> QED BY <2>1, <2>2 DEF RowsInv, Disjoint, Rows, RowsAfter
<1> QED BY <1>1, <1>2, <1>3 DEF RowsInv

(* Every step without merges, reverts and duplicate IDs keeps each row in  *)
(* one object.                                                             *)
LEMMA RowsStep ==
    ASSUME RowKindsOnly, HistoryInv, SnapshotInv, TypeOK, RowsInv, [Next]_vars
    PROVE  RowsInv'
<1>1. ASSUME NEW c \in Clients, NEW b \in Live, BeginOp(c, b)
      PROVE  RowsInv'
  BY <1>1, RowsBegin
<1>2. ASSUME NEW c \in Clients, Prepare(c)
      PROVE  RowsInv'
  BY <1>2, RowsPrepare
<1>3. ASSUME NEW c \in Clients, PrepareFails(c)
      PROVE  RowsInv'
  BY <1>3, RowsLeave DEF PrepareFails, Return, derived, history
<1>4. ASSUME NEW c \in Clients, Publish(c)
      PROVE  RowsInv'
  BY <1>4, RowsLeave DEF Publish, Return, Pending, derived
<1>5. ASSUME NEW c \in Clients, Conflict(c)
      PROVE  RowsInv'
  <2>1. /\ Pending(c)
        /\ object' = [object EXCEPT ![mine[c]] = NoObject]
        /\ mine' = [mine EXCEPT ![c] = Nil]
        /\ UNCHANGED <<content, nextObj, snapOf, published>>
        /\ \/ pc' = [pc EXCEPT ![c] = "prepare"] /\ req' = req
           \/ pc' = [pc EXCEPT ![c] = "idle"] /\ req' = [req EXCEPT ![c] = NoRequest]
    BY <1>5 DEF Conflict, Return, Pending, RemoveObject, derived, history
  <2> QED BY <2>1, RowsLeave
<1>6. ASSUME NEW c \in Clients, UpdateFails(c)
      PROVE  RowsInv'
  <2>1. /\ Pending(c)
        /\ object' = object \/ object' = [object EXCEPT ![mine[c]] = NoObject]
        /\ mine' = [mine EXCEPT ![c] = Nil]
        /\ UNCHANGED <<content, nextObj, snapOf, published>>
        /\ pc' = [pc EXCEPT ![c] = "idle"] /\ req' = [req EXCEPT ![c] = NoRequest]
    BY <1>6 DEF UpdateFails, Return, Pending, RemoveObject, derived, history
  <2> QED BY <2>1, RowsLeave
<1>7. ASSUME NEW c \in Clients, Crash(c)
      PROVE  RowsInv'
  <2>1. /\ mine' = [mine EXCEPT ![c] = Nil]
        /\ UNCHANGED <<object, content, nextObj, snapOf, published>>
        /\ pc' = [pc EXCEPT ![c] = "idle"] /\ req' = [req EXCEPT ![c] = NoRequest]
    BY <1>7 DEF Crash, Return, storage, derived, history
  <2> QED BY <2>1, RowsLeave
<1>8. CASE UNCHANGED <<object, content, nextObj, pc, req, mine, snapOf, published>>
  BY <1>8 DEF RowsInv, Written, Disjoint, Rows, RowsAfter, Pending, Committed
<1>9. ASSUME NEW b \in Branches, (\E m \in Tips : CreateBranch(b, m)) \/ RemoveBranch(b)
      PROVE  RowsInv'
  BY <1>8, <1>9 DEF CreateBranch, RemoveBranch, locals, derived
<1>10. ASSUME NEW leaf \in CommitIDs, NEW o \in Objs, VacuumFile(leaf, o)
       PROVE  RowsInv'
  BY <1>8, <1>10 DEF VacuumFile, locals, derived, history
<1>11. CASE UNCHANGED vars
  BY <1>8, <1>11 DEF vars, storage, locals, derived, history
<1> QED BY <1>1, <1>2, <1>3, <1>4, <1>5, <1>6, <1>7, <1>9, <1>10, <1>11 DEF Next

(* The step that moves a branch to the pending commit of client c is c's   *)
(* pointer update, from the parent of that commit.                         *)
LEMMA PublishesFromParent ==
    ASSUME HistoryInv, [Next]_vars, NEW c \in Clients, Publishes(c)
    PROVE  branch[req[c].br] = object[mine[c]].parent
<1> DEFINE br == req[c].br
<1>1. /\ Pending(c)
      /\ br \in Branches
      /\ mine[c] \in CommitIDs
      /\ mine[c] \notin Committed
      /\ mine[c] # NoBranch
      /\ branch'[br] # branch[br]
      /\ branch'[br] = mine[c]
  <2>1. Pending(c) /\ br \in Branches /\ branch'[br] # branch[br] /\ branch'[br] = mine[c]
    BY DEF Publishes, Pending, HistoryInv, LakeTypes
  <2>2. mine[c] \in CommitIDs /\ mine[c] \notin published
    BY <2>1 DEF HistoryInv, PendingInv
  <2>3. mine[c] # Nil /\ mine[c] # NoBranch
    BY <2>2, NoBranchAssumption DEF CommitIDs, Nil
  <2> QED BY <2>1, <2>2, <2>3 DEF Committed
<1>2. CASE Publish(c)
  BY <1>2, PublishFacts
<1>3. ASSUME NEW d \in Clients, Publish(d), d # c
      PROVE  FALSE
  <2>1. Pending(d) /\ branch' = [b \in Branches |-> IF b = req[d].br THEN mine[d] ELSE branch[b]]
    BY <1>3, PublishFacts
  <2>2. mine[d] # mine[c]
    BY <1>1, <1>3, <2>1 DEF HistoryInv, PendingInv
  <2> QED BY <1>1, <2>1, <2>2
<1>4. ASSUME NEW b \in Branches, NEW m \in Tips, CreateBranch(b, m)
      PROVE  FALSE
  <2>1. m \in Committed /\ branch' = [x \in Branches |-> IF x = b THEN m ELSE branch[x]]
    BY <1>4 DEF CreateBranch, Committed, Store!Apply, Store!Insert
  <2> QED BY <1>1, <2>1
<1>5. ASSUME NEW b \in Branches, RemoveBranch(b)
      PROVE  FALSE
  <2>1. branch' = [x \in Branches |-> IF x = b THEN NoBranch ELSE branch[x]]
    BY <1>5 DEF RemoveBranch, Store!Apply, Store!Delete
  <2> QED BY <1>1, <2>1
<1>6. CASE branch' = branch
  BY <1>1, <1>6
<1>7. ASSUME NEW d \in Clients, NEW b \in Live, BeginOp(d, b)
      PROVE  branch' = branch
  BY <1>7, BeginFacts DEF Begin, HistoryInv
<1>8. ASSUME NEW d \in Clients,
             \/ Prepare(d) \/ PrepareFails(d) \/ Conflict(d) \/ UpdateFails(d) \/ Crash(d)
      PROVE  branch' = branch
  BY <1>8 DEF Prepare, PrepareFails, Conflict, UpdateFails, Crash, storage
<1>9. ASSUME NEW leaf \in CommitIDs, NEW o \in Objs, VacuumFile(leaf, o)
      PROVE  branch' = branch
  BY <1>9 DEF VacuumFile
<1>10. CASE UNCHANGED vars
  BY <1>6, <1>10 DEF vars, storage
<1>11. CASE Next
  <2>1. ASSUME NEW d \in Clients,
               \/ \E b \in Live : BeginOp(d, b)
               \/ Prepare(d) \/ PrepareFails(d)
               \/ Publish(d) \/ Conflict(d) \/ UpdateFails(d)
               \/ Crash(d)
        PROVE  branch[req[c].br] = object[mine[c]].parent
    BY <2>1, <1>2, <1>3, <1>6, <1>7, <1>8
  <2> QED BY <1>4, <1>5, <1>6, <1>9, <1>11, <2>1 DEF Next
<1> QED BY <1>10, <1>11

-------------------------------------------------------------------------------
(* Types of the pool's state.  (The type of what a merge computes along a   *)
(* path is left to TLC: PatchOfPath is recursive.)                          *)
THEOREM TypesAreKept == PlainKinds /\ Spec => []TypeOK
<1> SUFFICES ASSUME PlainKinds PROVE Spec => []TypeOK
  OBVIOUS
<1>1. Init => TypeOK
  BY TypeInit
<1>2. LakeInv /\ TypeOK /\ [Next]_vars => TypeOK'
  BY TypeStep DEF LakeInv
<1> QED BY <1>1, <1>2, LakeInvariant, PTL DEF Spec

(* The invariant of the rows. *)
LEMMA RowsInvariant == RowKindsOnly /\ Spec => [](LakeInv /\ TypeOK /\ RowsInv)
<1> SUFFICES ASSUME RowKindsOnly PROVE Spec => [](LakeInv /\ TypeOK /\ RowsInv)
  OBVIOUS
<1>0. PlainKinds
  BY DEF RowKindsOnly, PlainKinds
<1>1. Init => RowsInv
  BY RowsInit
<1>2. LakeInv /\ TypeOK /\ RowsInv /\ [Next]_vars => RowsInv'
  BY <1>0, RowsStep DEF LakeInv
<1>3. Spec => []TypeOK
  BY <1>0, TypesAreKept
<1> QED BY <1>1, <1>2, <1>3, LakeInvariant, PTL DEF Spec

(* Without merges, reverts and duplicate IDs no row is in two objects of a  *)
(* tip: a compaction or a rewrite that lost a race against a deletion or    *)
(* another compaction of the same objects is refused by its constructor     *)
(* (CommitCompact and DeleteWhere of lake/branch.go look the objects up     *)
(* again on every retry).                                                   *)
THEOREM RowsAreUnique == RowKindsOnly /\ Spec => []NoDuplicateRows
<1> SUFFICES ASSUME RowKindsOnly PROVE Spec => []NoDuplicateRows
  OBVIOUS
<1>1. LakeInv /\ TypeOK /\ RowsInv => NoDuplicateRows
  BY DEF LakeInv, HistoryInv, PublishedInv, RowsInv, Disjoint, NoDuplicateRows, TipOf
<1> QED BY <1>1, RowsInvariant, PTL

(* Without merges, reverts and duplicate IDs every operation has exactly    *)
(* its own effect on the rows of the tip that is current when its pointer   *)
(* update takes effect (Branch.commit, lake/branch.go:357-410).             *)
THEOREM EffectsAreExact == RowKindsOnly /\ Spec => EffectAtTip
<1> SUFFICES ASSUME RowKindsOnly PROVE Spec => EffectAtTip
  OBVIOUS
<1> DEFINE Effect ==
      \A c \in Clients :
        Publishes(c) /\ req[c].kind \notin {"revert", "merge"} =>
            Rows(snapOf[mine[c]]) = RowsAfter(req[c], Rows(TipOf(req[c].br)))
<1>1. LakeInv /\ TypeOK /\ RowsInv /\ [Next]_vars => [Effect]_vars
  <2> SUFFICES ASSUME HistoryInv, RowsInv, [Next]_vars, NEW c \in Clients, Publishes(c)
               PROVE  Rows(snapOf[mine[c]]) = RowsAfter(req[c], Rows(TipOf(req[c].br)))
    BY DEF LakeInv
  <2>1. Pending(c)
    BY DEF Publishes, Pending
  <2>2. branch[req[c].br] = object[mine[c]].parent
    BY PublishesFromParent
  <2>3. Rows(snapOf[mine[c]]) = RowsAfter(req[c], Rows(snapOf[object[mine[c]].parent]))
    BY <2>1 DEF RowsInv
  <2> QED BY <2>2, <2>3 DEF TipOf
<1> QED BY <1>1, RowsInvariant, PTL DEF Spec, EffectAtTip

-------------------------------------------------------------------------------
(* The empty pool. *)
LEMMA DataInit == Init => DataInv
<1> SUFFICES ASSUME Init PROVE DataInv
  OBVIOUS
<1>1. /\ Committed = {Nil} /\ Nil \in Tips
      /\ \A c \in Clients : ~Pending(c)
      /\ anc[Nil] = {} /\ snapOf[Nil].objects = {}
  BY LakeBoundsAssumption DEF Init, Committed, Pending, Tips, Nil, NewSnapshot
<1>2. PathInv
  BY <1>1 DEF Init, PathInv
<1>3. OneBranchInv
  BY <1>1 DEF Init, OneBranchInv, Live, Gone
<1> QED BY <1>1, <1>2, <1>3 DEF Init, DataInv

(* A client begins an operation. *)
LEMMA DataBegin ==
    ASSUME PlainKinds, HistoryInv, SnapshotInv, TypeOK, DataInv,
           NEW c \in Clients, NEW b \in Live, BeginOp(c, b)
    PROVE  DataInv'
<1>1. PICK r \in Requests :
        /\ Begin(c, r)
        /\ \/ r.add = {nextObj} /\ files' = files \cup {nextObj}
           \/ r.add = {} /\ files' = files
  BY BeginCases DEF WriteData, NoWrite
<1>2. /\ pc[c] = "idle"
      /\ r.kind \in Kinds
      /\ pc' = [pc EXCEPT ![c] = "prepare"]
      /\ req' = [req EXCEPT ![c] = r]
      /\ UNCHANGED <<branch, object, mine, snapOf, anc, published>>
  BY <1>1 DEF Begin, derived, history
<1>3. files \subseteq files' /\ r.add \subseteq files'
  BY <1>1
<1>4. \A d \in Clients : /\ req'[d] = IF d = c THEN r ELSE req[d]
                         /\ d # c => pc'[d] = pc[d]
                         /\ Pending(d)' <=> Pending(d)
  BY <1>2 DEF TypeOK, Pending
<1>5. \A d \in Clients : pc'[d] # "idle" => req'[d].kind \in Kinds /\ req'[d].add \subseteq files'
  BY <1>2, <1>3, <1>4 DEF DataInv
<1>6. Committed' = Committed /\ Live' = Live
  BY <1>2 DEF Committed, Live
<1>7. PathInv'
  BY <1>2, <1>4 DEF DataInv, PathInv
<1>8. OneBranchInv => OneBranchInv'
  BY <1>2, <1>4, <1>6 DEF OneBranchInv, Gone
<1>9. \A m : InUse(m)' <=> InUse(m)
  BY <1>2, <1>6 DEF InUse
<1>10. \A m \in Committed' : InUse(m)' => snapOf'[m].objects \subseteq files'
  BY <1>2, <1>3, <1>6, <1>9 DEF DataInv
<1>11. \A d \in Clients : Pending(d)' /\ InUse(object[mine[d]].parent)' =>
          snapOf'[mine'[d]].objects \subseteq files'
  BY <1>2, <1>3, <1>4, <1>6 DEF DataInv, InUse
<1> QED BY <1>5, <1>7, <1>8, <1>10, <1>11 DEF DataInv

(* A client builds a commit object: what it adds is on storage, and was on *)
(* no path before.                                                         *)
LEMMA DataPrepare ==
    ASSUME DataKinds, HistoryInv, SnapshotInv, TypeOK, DataInv,
           NEW c \in Clients, Prepare(c)
    PROVE  DataInv'
<1> DEFINE p == branch[req[c].br]
           n == nextCommit
<1>1. PICK o \in Create(req[c], p) :
        /\ object' = [object EXCEPT ![n] = o]
        /\ snapOf' = [snapOf EXCEPT ![n] = Play(snapOf[o.parent], o)]
        /\ anc' = [anc EXCEPT ![n] = anc[o.parent] \cup {n}]
        /\ \/ files' = files \cup {nextObj}
           \/ files' = files /\ ~(req[c].kind = "deletewhere" /\ o.add # {})
  BY DEF Prepare, WriteData, NoWrite
<1>2. /\ n <= MaxCommits
      /\ pc[c] = "prepare"
      /\ mine' = [mine EXCEPT ![c] = n]
      /\ pc' = [pc EXCEPT ![c] = "publish"]
      /\ UNCHANGED <<branch, req, published>>
      /\ p # NoBranch
  BY DEF Prepare, history
<1>3. n \in CommitIDs /\ n \in Tips /\ n \in Nat /\ n # Nil /\ Committed \subseteq Tips
  <2>1. n \in CommitIDs /\ n \in Tips /\ n \in Nat /\ n # Nil
    BY <1>2, LakeBoundsAssumption DEF CommitIDs, Tips, Nil, TypeOK
  <2>2. Committed \subseteq Tips
    BY LakeBoundsAssumption DEF HistoryInv, LakeTypes, Committed, CommitIDs, Tips, Nil
  <2> QED BY <2>1, <2>2
<1>4. o.parent = p /\ p \in Committed /\ req[c].br \in Live
  <2>1. req[c].br \in Live
    BY <1>2 DEF Live, HistoryInv, LakeTypes
  <2> QED BY <2>1, CreateParent DEF HistoryInv, PublishedInv
<1>5. n \notin Committed /\ \A d \in Clients : Pending(d) => mine[d] # n
  <2>1. \A m \in published : m < n
    BY DEF HistoryInv, PublishedInv
  <2>2. \A d \in Clients : Pending(d) => mine[d] < n
    BY DEF HistoryInv, PendingInv
  <2> QED BY <1>3, <2>1, <2>2 DEF Committed
<1>6. /\ snapOf'[n].objects = (snapOf[p].objects \ o.del) \cup o.add
      /\ object'[n] = o
      /\ anc'[n] = anc[p] \cup {n}
      /\ \A m \in Tips : m # n => snapOf'[m] = snapOf[m] /\ anc'[m] = anc[m]
      /\ \A m \in CommitIDs : m # n => object'[m] = object[m]
  <2>1. /\ snapOf'[n] = Play(snapOf[p], o) /\ object'[n] = o
        /\ anc'[n] = anc[p] \cup {n}
        /\ \A m \in Tips : m # n => snapOf'[m] = snapOf[m] /\ anc'[m] = anc[m]
        /\ \A m \in CommitIDs : m # n => object'[m] = object[m]
    BY <1>1, <1>3, <1>4 DEF HistoryInv, LakeTypes
  <2>2. snapOf[p].ok /\ Playable(snapOf[p], o)
    BY <1>4, CreateSound DEF SnapshotInv, Readable
  <2> QED BY <2>1, <2>2 DEF Play
<1>7. \A x \in o.add : \/ x \in req[c].add
                       \/ x = nextObj /\ req[c].kind = "deletewhere"
                       \/ req[c].kind = "revert" /\ \E m \in Committed : x \in snapOf[m].objects
  BY <1>4, CreateSound
<1>8. files \subseteq files' /\ published \subseteq CommitIDs /\ Nil \in Tips
      /\ CommitIDs \subseteq Tips
  BY <1>1, LakeBoundsAssumption DEF TypeOK, CommitIDs, Tips, Nil
<1> HIDE DEF n, p
<1>9. \A d \in Clients : Pending(d)' =>
         \/ d = c /\ mine'[d] = n
         \/ d # c /\ Pending(d) /\ mine'[d] = mine[d] /\ mine[d] \in CommitIDs /\ mine[d] # n
  BY <1>2, <1>5 DEF TypeOK, Pending, HistoryInv, PendingInv
<1>10. \A m : InUse(m)' <=> InUse(m)
  BY <1>2 DEF InUse, Live
<1>11. InUse(p)
  BY <1>4 DEF InUse, p
<1>12. snapOf'[n].objects \subseteq files'
  <2>1. snapOf[p].objects \subseteq files /\ req[c].add \subseteq files
    BY <1>2, <1>4, <1>11 DEF DataInv
  <2>2. ASSUME NEW x \in o.add PROVE x \in files'
    <3>1. CASE x = nextObj /\ req[c].kind = "deletewhere"
      BY <3>1, <1>1
    <3>2. CASE req[c].kind = "revert" /\ \E m \in Committed : x \in snapOf[m].objects
      <4>1. "vacuum" \notin Kinds
        BY <3>2, <1>2 DEF DataKinds, DataInv
      <4>2. \A m : InUse(m)
        BY <4>1 DEF InUse
      <4> QED BY <1>8, <3>2, <4>2 DEF DataInv
    <3> QED BY <1>7, <1>8, <2>1, <3>1, <3>2
  <2> QED BY <1>6, <1>8, <2>1, <2>2
<1>13. \A m \in Committed' : InUse(m)' => snapOf'[m].objects \subseteq files'
  BY <1>2, <1>3, <1>5, <1>6, <1>8, <1>10 DEF DataInv, Committed
<1>14. ASSUME NEW d \in Clients, Pending(d)', InUse(object[mine[d]].parent)'
       PROVE  snapOf'[mine'[d]].objects \subseteq files'
  <2>1. CASE d = c
    BY <1>9, <1>12, <1>14, <2>1
  <2>2. CASE d # c
    <3>1. /\ Pending(d) /\ mine'[d] = mine[d]
          /\ object'[mine'[d]] = object[mine[d]]
          /\ snapOf'[mine'[d]] = snapOf[mine[d]]
      BY <1>6, <1>8, <1>9, <1>14, <2>2
    <3>2. InUse(object[mine[d]].parent)
      BY <1>2, <1>14, <3>1 DEF InUse, Live
    <3> QED BY <1>8, <3>1, <3>2 DEF DataInv
  <2> QED BY <2>1, <2>2
<1>15. anc[p] \subseteq published
  BY <1>4 DEF DataInv, PathInv, Committed
<1>16. PathInv'
  <2>1. \A m \in published : /\ object'[m] = object[m] /\ snapOf'[m] = snapOf[m]
                             /\ anc'[m] = anc[m]
    BY <1>5, <1>6, <1>8 DEF Committed
  <2>2. anc'[Nil] = {}
    BY <1>3, <1>6, <1>8 DEF DataInv, PathInv
  <2>3. ASSUME NEW d \in Clients, Pending(d)'
        PROVE  /\ object'[mine'[d]].add \subseteq snapOf'[mine'[d]].objects
               /\ anc'[mine'[d]] \subseteq published' \cup {mine'[d]}
    <3>1. CASE d = c
      BY <1>2, <1>6, <1>9, <1>15, <2>3, <3>1
    <3>2. CASE d # c
      <4>1. /\ Pending(d) /\ mine'[d] = mine[d]
            /\ object'[mine'[d]] = object[mine[d]]
            /\ snapOf'[mine'[d]] = snapOf[mine[d]]
            /\ anc'[mine'[d]] = anc[mine[d]]
        BY <1>6, <1>8, <1>9, <2>3, <3>2
      <4> QED BY <1>2, <4>1 DEF DataInv, PathInv
    <3> QED BY <3>1, <3>2
  <2> QED BY <1>2, <2>1, <2>2, <2>3 DEF DataInv, PathInv
<1>17. ASSUME "vacuum" \in Kinds PROVE OneBranchInv'
  <2>0. OneBranchInv /\ PathInv
    BY <1>17 DEF DataInv
  <2>1. \A b \in Live' : b = Main /\ published' \subseteq anc'[branch'[b]]
    <3>1. \A b \in Live : branch[b] \in Committed
      BY DEF HistoryInv, PublishedInv
    <3>2. \A m \in Committed : anc'[m] = anc[m]
      BY <1>3, <1>5, <1>6
    <3> QED BY <1>2, <2>0, <3>1, <3>2 DEF OneBranchInv, Live
  <2>2. ASSUME NEW m \in Tips, m # n, Gone(m),
               \A k \in anc[m] : k # n /\ k \in CommitIDs /\ anc[k] \subseteq CommitIDs \ {n}
        PROVE  Gone(m)'
    <3>1. anc'[m] = anc[m] /\ snapOf'[m] = snapOf[m]
      BY <1>6, <2>2
    <3>2. \A k \in anc[m] : anc'[k] = anc[k] /\ snapOf'[k] = snapOf[k]
      BY <1>6, <1>8, <2>2
    <3>3. \A k \in anc[m] : \A x \in anc[k] : object'[x] = object[x]
      BY <1>6, <2>2
    <3> QED BY <2>2, <3>1, <3>2, <3>3 DEF Gone
  <2>3. \A k \in published : anc[k] \subseteq CommitIDs \ {n} /\ k # n /\ k \in CommitIDs
    BY <1>5, <1>8, <2>0 DEF PathInv, Committed
  <2>4. \A m \in Committed : Gone(m)'
    <3> SUFFICES ASSUME NEW m \in Committed PROVE Gone(m)'
      OBVIOUS
    <3>1. anc[m] \subseteq published
      BY <2>0 DEF PathInv, Committed
    <3> QED BY <1>3, <1>5, <2>0, <2>2, <2>3, <3>1 DEF OneBranchInv
  <2>5. \A m \in anc'[n] : \A k \in anc'[m] :
          object'[k].add \cap snapOf'[n].objects \subseteq snapOf'[m].objects
    <3> SUFFICES ASSUME NEW m \in anc'[n], NEW k \in anc'[m],
                        NEW x \in object'[k].add, x \in snapOf'[n].objects
                 PROVE  x \in snapOf'[m].objects
      OBVIOUS
    <3>1. CASE m = n
      BY <3>1
    <3>2. CASE m \in anc[p]
      <4>1. /\ m \in published /\ m # n /\ anc'[m] = anc[m] /\ snapOf'[m] = snapOf[m]
            /\ k \in published /\ object'[k] = object[k]
        BY <1>6, <1>8, <1>15, <2>0, <2>3, <3>2 DEF PathInv
      <4>2. x \in snapOf[k].objects /\ k \in Committed
        BY <2>0, <4>1 DEF PathInv, Committed
      <4>3. x \notin o.add
        <5>1. x \notin req[c].add
          BY <4>2 DEF SnapshotInv, UnsharedInv
        <5>2. x # nextObj
          <6>1. nextObj \in Nat /\ nextObj \notin 1..(nextObj - 1)
            BY DEF HistoryInv, LakeTypes
          <6> QED BY <4>2, <6>1 DEF SnapshotInv, Readable
        <5>3. req[c].kind # "revert"
          BY <1>2, <1>17 DEF DataKinds, DataInv
        <5> QED BY <1>7, <5>1, <5>2, <5>3
      <4>4. x \in snapOf[p].objects
        BY <1>6, <4>3
      <4>5. Gone(p)
        BY <1>4, <2>0 DEF OneBranchInv
      <4> QED BY <3>2, <4>1, <4>4, <4>5 DEF Gone
    <3> QED BY <1>6, <3>1, <3>2
  <2>6. ASSUME NEW d \in Clients, Pending(d)' PROVE Gone(mine[d])'
    <3>1. CASE d = c
      <4>1. mine'[d] = n
        BY <1>9, <2>6, <3>1
      <4> QED BY <2>5, <4>1 DEF Gone
    <3>2. CASE d # c
      <4> DEFINE m == mine[d]
      <4>1. Pending(d) /\ mine'[d] = m /\ m \in CommitIDs /\ m # n /\ m \in Tips
        BY <1>8, <1>9, <2>6, <3>2
      <4>2. anc[m] \subseteq published \cup {m} /\ Gone(m)
        BY <2>0, <4>1 DEF PathInv, OneBranchInv
      <4>3. \A k \in anc[m] : k # n /\ k \in CommitIDs /\ anc[k] \subseteq CommitIDs \ {n}
        BY <1>8, <2>3, <4>1, <4>2, <1>5 DEF Committed
      <4>4. \A j \in anc'[m] : \A k \in anc'[j] :
              object'[k].add \cap snapOf'[m].objects \subseteq snapOf'[j].objects
        BY <2>2, <4>1, <4>2, <4>3 DEF Gone
      <4> QED BY <4>1, <4>4 DEF Gone
    <3> QED BY <3>1, <3>2
  <2> QED BY <1>2, <2>1, <2>4, <2>6 DEF OneBranchInv, Committed
<1>18. \A d \in Clients : pc'[d] # "idle" => req'[d].kind \in Kinds /\ req'[d].add \subseteq files'
  BY <1>2, <1>8 DEF DataInv, TypeOK
<1> QED BY <1>13, <1>14, <1>16, <1>17, <1>18 DEF DataInv

(* The operation of client c ends or starts over.  The abort of a          *)
(* compaction deletes an object that nobody else refers to.                *)
LEMMA DataLeave ==
    ASSUME HistoryInv, SnapshotInv, TypeOK, DataInv, NEW c \in Clients,
           NEW label \in {"idle", "prepare"},
           pc' = [pc EXCEPT ![c] = label],
           req' = [req EXCEPT ![c] = NoRequest] \/ req' = req,
           label = "prepare" => pc[c] # "idle" /\ req' = req,
           mine' = [mine EXCEPT ![c] = Nil],
           \/ files' = files
           \/ label = "idle" /\ files' = files \ req[c].add,
           UNCHANGED <<branch, snapOf, anc, published>>,
           \/ object' = object
           \/ Pending(c) /\ object' = [object EXCEPT ![mine[c]] = NoObject]
    PROVE  DataInv'
<1>1. \A d \in Clients : d # c => pc'[d] = pc[d] /\ mine'[d] = mine[d] /\ req'[d] = req[d]
  BY DEF TypeOK
<1>2. \A d \in Clients : Pending(d)' => Pending(d) /\ d # c /\ mine'[d] = mine[d]
  BY DEF Pending, TypeOK
<1>3. \A m \in CommitIDs : object'[m] = object[m] \/ (Pending(c) /\ m = mine[c])
  BY DEF TypeOK
<1>4. \A m \in published : object'[m] = object[m]
  <2>1. published \subseteq CommitIDs /\ (Pending(c) => mine[c] \notin published)
    BY DEF HistoryInv, PendingInv, LakeTypes
  <2> QED BY <1>3, <2>1
<1>5. \A d \in Clients : Pending(d)' => object'[mine[d]] = object[mine[d]]
  BY <1>2, <1>3 DEF HistoryInv, PendingInv
<1>6. Committed' = Committed /\ Live' = Live
  BY DEF Committed, Live
<1>7. ASSUME NEW x \in files, \/ \E d \in Clients : d # c /\ x \in req[d].add
                              \/ \E m \in Committed : x \in snapOf[m].objects
                              \/ \E d \in Clients : d # c /\ Pending(d) /\ x \in snapOf[mine[d]].objects
      PROVE  x \in files'
  <2>1. x \notin req[c].add
    BY <1>7 DEF SnapshotInv, UnsharedInv
  <2> QED BY <2>1
<1>8. \A d \in Clients : pc'[d] # "idle" => req'[d].kind \in Kinds /\ req'[d].add \subseteq files'
  <2> SUFFICES ASSUME NEW d \in Clients, pc'[d] # "idle"
               PROVE  req'[d].kind \in Kinds /\ req'[d].add \subseteq files'
    OBVIOUS
  <2>1. CASE d = c
    <3>1. label = "prepare" /\ files' = files
      BY <2>1 DEF TypeOK
    <3> QED BY <2>1, <3>1 DEF DataInv
  <2>2. CASE d # c
    BY <1>1, <1>7, <2>2 DEF DataInv
  <2> QED BY <2>1, <2>2
<1>9. \A m \in Committed' : InUse(m)' => snapOf'[m].objects \subseteq files'
  <2>1. \A m \in Committed : InUse(m)' => InUse(m)
    BY <1>6 DEF InUse
  <2> QED BY <1>6, <1>7, <2>1 DEF DataInv
<1>10. ASSUME NEW d \in Clients, Pending(d)', InUse(object[mine[d]].parent)'
       PROVE  snapOf'[mine'[d]].objects \subseteq files'
  <2>1. Pending(d) /\ d # c /\ mine'[d] = mine[d] /\ object'[mine'[d]] = object[mine[d]]
    BY <1>2, <1>5, <1>10
  <2>2. InUse(object[mine[d]].parent)
    BY <1>6, <1>10, <2>1 DEF InUse
  <2>3. snapOf[mine[d]].objects \subseteq files
    BY <2>1, <2>2 DEF DataInv
  <2> QED BY <1>7, <2>1, <2>3
<1>11. PathInv'
  BY <1>2, <1>4, <1>5 DEF DataInv, PathInv
<1>12. ASSUME "vacuum" \in Kinds PROVE OneBranchInv'
  <2>0. OneBranchInv /\ PathInv
    BY <1>12 DEF DataInv
  <2>1. \A b \in Live' : b = Main /\ published' \subseteq anc'[branch'[b]]
    BY <1>6, <2>0 DEF OneBranchInv
  <2>2. ASSUME NEW m \in Committed PROVE Gone(m)'
    <3>1. anc[m] \subseteq published /\ \A k \in anc[m] : anc[k] \subseteq published
      BY <2>0 DEF PathInv, Committed
    <3>2. Gone(m)
      BY <2>0 DEF OneBranchInv
    <3> QED BY <1>4, <3>1, <3>2 DEF Gone
  <2>3. ASSUME NEW d \in Clients, Pending(d)' PROVE Gone(mine[d])'
    <3>1. Pending(d) /\ mine'[d] = mine[d] /\ object'[mine[d]] = object[mine[d]]
      BY <1>2, <1>5, <2>3
    <3>2. /\ anc[mine[d]] \subseteq published \cup {mine[d]}
          /\ \A k \in anc[mine[d]] : anc[k] \subseteq published \cup {mine[d]}
      BY <2>0, <3>1 DEF PathInv
    <3>3. Gone(mine[d])
      BY <2>0, <3>1 DEF OneBranchInv
    <3>4. \A k \in anc[mine[d]] : \A x \in anc[k] : object'[x] = object[x]
      BY <1>4, <3>1, <3>2
    <3> QED BY <3>1, <3>3, <3>4 DEF Gone
  <2> QED BY <1>6, <2>1, <2>2, <2>3 DEF OneBranchInv
<1> QED BY <1>8, <1>9, <1>10, <1>11, <1>12 DEF DataInv

(* The commit of a client becomes the tip: its data is on storage since    *)
(* its parent was the tip.                                                 *)
LEMMA DataPublish ==
    ASSUME HistoryInv, SnapshotInv, TypeOK, DataInv, NEW c \in Clients, Publish(c)
    PROVE  DataInv'
<1> DEFINE m == mine[c]
           br == req[c].br
<1>1. /\ Pending(c)
      /\ br \in Live
      /\ branch[br] = object[m].parent
      /\ branch' = [b \in Branches |-> IF b = br THEN m ELSE branch[b]]
  BY PublishFacts
<1>2. /\ published' = published \cup {m}
      /\ pc' = [pc EXCEPT ![c] = "idle"]
      /\ req' = [req EXCEPT ![c] = NoRequest]
      /\ mine' = [mine EXCEPT ![c] = Nil]
      /\ UNCHANGED <<object, files, snapOf, anc>>
  BY DEF Publish, Return, derived
<1>3. /\ m \in CommitIDs
      /\ m \notin Committed
      /\ object[m].parent \in Committed
      /\ anc[m] = anc[object[m].parent] \cup {m}
  <2>1. m \in CommitIDs /\ m \notin published /\ object[m].parent \in Committed
        /\ anc[m] = anc[object[m].parent] \cup {m}
    BY <1>1 DEF HistoryInv, PendingInv
  <2>2. m # Nil
    BY <2>1 DEF CommitIDs, Nil
  <2> QED BY <2>1, <2>2 DEF Committed
<1>4. \A d \in Clients : /\ d # c => pc'[d] = pc[d] /\ req'[d] = req[d]
                         /\ Pending(d)' => Pending(d) /\ d # c /\ mine'[d] = mine[d]
                         /\ pc'[d] # "idle" => d # c
  BY <1>2 DEF Pending, TypeOK
<1>5. Committed' = Committed \cup {m}
  BY <1>2 DEF Committed
<1>6. \A b \in Live' : b \in Live /\ (\/ b = br /\ branch'[b] = m
                                      \/ b # br /\ branch'[b] = branch[b])
  BY <1>1 DEF Live
<1>7. \A k \in Committed : InUse(k)' => InUse(k)
  BY <1>3, <1>6 DEF InUse
<1>8. \A k \in Committed' : InUse(k)' => snapOf'[k].objects \subseteq files'
  <2>1. snapOf[m].objects \subseteq files
    <3>1. InUse(object[m].parent)
      BY <1>1 DEF InUse
    <3> QED BY <1>1, <3>1 DEF DataInv
  <2> QED BY <1>2, <1>5, <1>7, <2>1 DEF DataInv
<1>9. ASSUME NEW d \in Clients, Pending(d)', InUse(object[mine[d]].parent)'
      PROVE  snapOf'[mine'[d]].objects \subseteq files'
  <2>1. Pending(d) /\ mine'[d] = mine[d]
    BY <1>4, <1>9
  <2>2. object[mine[d]].parent \in Committed
    BY <2>1 DEF HistoryInv, PendingInv
  <2>3. InUse(object[mine[d]].parent)
    BY <1>2, <1>3, <1>6, <1>9, <2>1, <2>2 DEF InUse
  <2> QED BY <1>2, <2>1, <2>3 DEF DataInv
<1>10. PathInv'
  <2>1. /\ object[m].add \subseteq snapOf[m].objects
        /\ anc[m] \subseteq published \cup {m}
    BY <1>1 DEF DataInv, PathInv
  <2> QED BY <1>2, <1>4, <2>1 DEF DataInv, PathInv
<1>11. ASSUME "vacuum" \in Kinds PROVE OneBranchInv'
  <2>0. OneBranchInv
    BY <1>11 DEF DataInv
  <2>1. ASSUME NEW b \in Live' PROVE b = Main /\ published' \subseteq anc'[branch'[b]]
    <3>1. b \in Live /\ b = Main /\ br = Main
      BY <1>1, <1>6, <2>0 DEF OneBranchInv
    <3>2. published \subseteq anc[object[m].parent]
      BY <1>1, <2>0 DEF OneBranchInv
    <3> QED BY <1>2, <1>3, <1>6, <3>1, <3>2
  <2>2. Gone(m)
    BY <1>1, <2>0 DEF OneBranchInv
  <2>3. \A k \in Committed' : Gone(k)'
    BY <1>2, <1>5, <2>0, <2>2 DEF OneBranchInv, Gone
  <2>4. \A d \in Clients : Pending(d)' => Gone(mine[d])'
    BY <1>2, <1>4, <2>0 DEF OneBranchInv, Gone
  <2> QED BY <2>1, <2>3, <2>4 DEF OneBranchInv
<1>12. \A d \in Clients : pc'[d] # "idle" => req'[d].kind \in Kinds /\ req'[d].add \subseteq files'
  BY <1>2, <1>4 DEF DataInv
<1> QED BY <1>8, <1>9, <1>10, <1>11, <1>12 DEF DataInv

(* A branch is created or removed.  Branches are not created in a pool     *)
(* with Vacuum.                                                            *)
LEMMA DataBranches ==
    ASSUME DataKinds, HistoryInv, DataInv, NEW b \in Branches,
           (\E m \in Tips : CreateBranch(b, m)) \/ RemoveBranch(b)
    PROVE  DataInv'
<1>1. UNCHANGED <<object, files, pc, req, mine, snapOf, anc, published>>
  BY DEF CreateBranch, RemoveBranch, locals, derived
<1>2. "vacuum" \in Kinds => branch' = [x \in Branches |-> IF x = b THEN NoBranch ELSE branch[x]]
  BY DEF DataKinds, CreateBranch, RemoveBranch, Store!Apply, Store!Delete
<1>3. "vacuum" \in Kinds => \A x \in Live' : x \in Live /\ branch'[x] = branch[x]
  BY <1>2 DEF Live
<1>4. \A m : InUse(m)' => InUse(m)
  BY <1>3 DEF InUse
<1>5. \A c \in Clients : Pending(c)' <=> Pending(c)
  BY <1>1 DEF Pending
<1>6. \A c \in Clients : InUse(object[mine[c]].parent)' => InUse(object[mine[c]].parent)
  BY <1>1, <1>3 DEF InUse
<1>7. PathInv'
  BY <1>1, <1>5 DEF DataInv, PathInv
<1>8. OneBranchInv /\ "vacuum" \in Kinds => OneBranchInv'
  BY <1>1, <1>3, <1>5 DEF OneBranchInv, Gone, Committed
<1> QED BY <1>1, <1>4, <1>5, <1>6, <1>7, <1>8 DEF DataInv, Committed

(* Vacuum deletes what no tip and no pending commit needs: an object that  *)
(* an ancestor added and a published commit does not show is on no later   *)
(* commit.                                                                 *)
LEMMA DataVacuum ==
    ASSUME HistoryInv, SnapshotInv, DataInv, NEW leaf \in CommitIDs, NEW o \in Objs,
           VacuumFile(leaf, o)
    PROVE  DataInv'
<1>1. /\ "vacuum" \in Kinds
      /\ leaf \in published
      /\ o \in Vacuumable(leaf)
      /\ files' = files \ {o}
      /\ UNCHANGED <<branch, object, pc, req, mine, snapOf, anc, published>>
  BY DEF VacuumFile, locals, derived, history
<1>2. OneBranchInv /\ PathInv
  BY <1>1 DEF DataInv
<1>3. PICK k \in anc[leaf] : o \in object[k].add
  BY <1>1 DEF Vacuumable
<1>4. o \notin snapOf[leaf].objects
  BY <1>1 DEF Vacuumable
<1>5. k \in Committed /\ o \in snapOf[k].objects
  BY <1>1, <1>2, <1>3 DEF PathInv, Committed
<1>6. \A c \in Clients : o \notin req[c].add
  BY <1>5 DEF SnapshotInv, UnsharedInv
<1>7. ASSUME NEW m, Gone(m), leaf \in anc[m] PROVE o \notin snapOf[m].objects
  BY <1>3, <1>4, <1>7 DEF Gone
<1>8. ASSUME NEW m \in Committed, InUse(m)
      PROVE  leaf \in anc[m] /\ o \notin snapOf[m].objects
  <2>1. PICK b \in Live : branch[b] = m
    BY <1>1, <1>8 DEF InUse
  <2>2. leaf \in anc[m] /\ Gone(m)
    BY <1>1, <1>2, <2>1 DEF OneBranchInv
  <2> QED BY <1>7, <2>2
<1>9. ASSUME NEW c \in Clients, Pending(c), InUse(object[mine[c]].parent)
      PROVE  o \notin snapOf[mine[c]].objects
  <2>1. /\ object[mine[c]].parent \in Committed
        /\ anc[mine[c]] = anc[object[mine[c]].parent] \cup {mine[c]}
    BY <1>9 DEF HistoryInv, PendingInv
  <2>2. leaf \in anc[mine[c]]
    BY <1>8, <1>9, <2>1
  <2>3. Gone(mine[c])
    BY <1>2, <1>9 DEF OneBranchInv
  <2> QED BY <1>7, <2>2, <2>3
<1>10. PathInv' /\ OneBranchInv'
  BY <1>1, <1>2 DEF PathInv, OneBranchInv, Gone, Pending, Committed, Live
<1>11. \A m \in Committed' : InUse(m)' => snapOf'[m].objects \subseteq files'
  BY <1>1, <1>8 DEF DataInv, Committed, InUse, Live
<1>12. ASSUME NEW c \in Clients, Pending(c)', InUse(object[mine[c]].parent)'
       PROVE  snapOf'[mine'[c]].objects \subseteq files'
  <2>1. Pending(c) /\ InUse(object[mine[c]].parent)
    BY <1>1, <1>12 DEF Pending, InUse, Live
  <2> QED BY <1>1, <1>9, <2>1 DEF DataInv
<1>13. \A c \in Clients : pc'[c] # "idle" => req'[c].kind \in Kinds /\ req'[c].add \subseteq files'
  BY <1>1, <1>6 DEF DataInv
<1> QED BY <1>10, <1>11, <1>12, <1>13 DEF DataInv

(* Every step keeps the data of every tip on storage. *)
LEMMA DataStep ==
    ASSUME DataKinds, HistoryInv, SnapshotInv, TypeOK, DataInv, [Next]_vars
    PROVE  DataInv'
<1>0. PlainKinds
  BY DEF DataKinds
<1>1. ASSUME NEW c \in Clients, NEW b \in Live, BeginOp(c, b)
      PROVE  DataInv'
  BY <1>0, <1>1, DataBegin
<1>2. ASSUME NEW c \in Clients, Prepare(c)
      PROVE  DataInv'
  BY <1>2, DataPrepare
<1>3. ASSUME NEW c \in Clients, Return(c), files' = files \/ AbortWriter(c),
             UNCHANGED <<branch, snapOf, anc, published>>,
             \/ object' = object
             \/ Pending(c) /\ object' = [object EXCEPT ![mine[c]] = NoObject]
      PROVE  DataInv'
  <2>1. /\ pc' = [pc EXCEPT ![c] = "idle"]
        /\ req' = [req EXCEPT ![c] = NoRequest]
        /\ mine' = [mine EXCEPT ![c] = Nil]
        /\ files' = files \/ files' = files \ req[c].add
    BY <1>3 DEF Return, AbortWriter
  <2> QED BY <1>3, <2>1, DataLeave
<1>4. ASSUME NEW c \in Clients, PrepareFails(c)
      PROVE  DataInv'
  BY <1>3, <1>4 DEF PrepareFails, derived, history
<1>5. ASSUME NEW c \in Clients, Publish(c)
      PROVE  DataInv'
  BY <1>5, DataPublish
<1>6. ASSUME NEW c \in Clients, Conflict(c)
      PROVE  DataInv'
  <2>1. /\ Pending(c) /\ pc[c] # "idle"
        /\ object' = [object EXCEPT ![mine[c]] = NoObject]
        /\ UNCHANGED <<branch, snapOf, anc, published>>
        /\ \/ /\ pc' = [pc EXCEPT ![c] = "prepare"] /\ req' = req /\ files' = files
              /\ mine' = [mine EXCEPT ![c] = Nil]
           \/ Return(c) /\ AbortWriter(c)
    BY <1>6 DEF Conflict, Pending, RemoveObject, derived, history
  <2>2. CASE Return(c) /\ AbortWriter(c)
    BY <1>3, <2>1, <2>2
  <2>3. CASE /\ pc' = [pc EXCEPT ![c] = "prepare"] /\ req' = req /\ files' = files
             /\ mine' = [mine EXCEPT ![c] = Nil]
    BY <2>1, <2>3, DataLeave
  <2> QED BY <2>1, <2>2, <2>3
<1>7. ASSUME NEW c \in Clients, UpdateFails(c)
      PROVE  DataInv'
  BY <1>3, <1>7 DEF UpdateFails, RemoveObject, Pending, derived, history
<1>8. ASSUME NEW c \in Clients, Crash(c)
      PROVE  DataInv'
  BY <1>3, <1>8 DEF Crash, storage, derived, history
<1>9. ASSUME NEW b \in Branches, (\E m \in Tips : CreateBranch(b, m)) \/ RemoveBranch(b)
      PROVE  DataInv'
  BY <1>9, DataBranches
<1>10. ASSUME NEW leaf \in CommitIDs, NEW o \in Objs, VacuumFile(leaf, o)
       PROVE  DataInv'
  BY <1>10, DataVacuum
<1>11. CASE UNCHANGED vars
  BY <1>11 DEF vars, storage, locals, derived, history, DataInv, PathInv, OneBranchInv,
     Gone, InUse, Pending, Committed, Live
<1> QED BY <1>1, <1>2, <1>4, <1>5, <1>6, <1>7, <1>8, <1>9, <1>10, <1>11 DEF Next

(* Every object of every tip has its data file, although aborted            *)
(* compactions and Vacuum delete files while others commit, provided that   *)
(* a pool that is vacuumed has one branch and no reverts                    *)
(* (Store.Vacuumable, lake/commits/store.go; Pool.Vacuum, lake/pool.go).    *)
THEOREM TipDataIsPresent == DataKinds /\ Spec => []TipDataPresent
<1> SUFFICES ASSUME DataKinds PROVE Spec => []TipDataPresent
  OBVIOUS
<1>0. PlainKinds
  BY DEF DataKinds
<1>1. Init => DataInv
  BY DataInit
<1>2. LakeInv /\ TypeOK /\ DataInv /\ [Next]_vars => DataInv'
  BY <1>0, DataStep DEF LakeInv
<1>3. LakeInv /\ DataInv => TipDataPresent
  BY DEF LakeInv, HistoryInv, PublishedInv, DataInv, InUse, TipDataPresent, TipOf
<1>4. Spec => []TypeOK
  BY <1>0, TypesAreKept
<1> QED BY <1>1, <1>2, <1>3, <1>4, LakeInvariant, PTL DEF Spec
===============================================================================
