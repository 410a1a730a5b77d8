-------------------------- MODULE JournalStoreProofs --------------------------
(***************************************************************************)
(* Proofs about JournalStore, for every number of clients, processes,      *)
(* keys, values and entries.                                               *)
(***************************************************************************)
EXTENDS JournalStore, WellFoundedInduction, TLAPS

(* Replaying an entry yields a table (load, lake/journal/store.go). *)
LEMMA ApplyType ==
    ASSUME NEW t \in Table, NEW o \in WOps
    PROVE  Apply(t, o) \in Table
BY OpsAssumption DEF Apply, Table, WriteOps

(* The empty table is a table (newStore). *)
LEMMA EmptyTableType == EmptyTable \in Table
BY DEF EmptyTable, Table

(* A read operation is no update, and no update is the absent entry. *)
LEMMA OpsDistinct == ReadOp \notin WOps /\ NoEntry \notin WOps
<1>1. \A o \in WOps : o.kind \in WriteKinds
  BY OpsAssumption DEF WriteOps
<1>2. ReadOp.kind \notin WriteKinds /\ NoEntry.kind \notin WriteKinds
  BY DEF ReadOp, NoEntry, WriteKinds
<1> QED BY <1>1, <1>2

(* The end of the journal is HEAD or the entry after it. *)
LEMMA EndType ==
    ASSUME TypeOK
    PROVE  /\ End \in 0..MaxLog
           /\ head.id \in 0..MaxLog
           /\ End = head.id \/ End = head.id + 1
BY BoundsAssumption DEF TypeOK, End, Slots

(* A set of positions that is not empty has a lowest one. *)
LEMMA LowestIsLeast ==
    ASSUME NEW S, S \subseteq Nat, S # {}
    PROVE  Lowest(S) \in S /\ \A n \in S : Lowest(S) <= n
<1> DEFINE R == {ss \in Nat \X Nat : ss[1] < ss[2]}
<1>1. IsWellFoundedOn(R, Nat)
  BY NatLessThanWellFounded DEF OpToRel
<1>2. PICK n \in S : \A m \in S : ~(<<m, n>> \in R)
  <2> HIDE DEF R
  <2> QED BY <1>1, WFMin
<1>3. \A m \in S : n <= m
  <2> SUFFICES ASSUME NEW m \in S PROVE n <= m
    OBVIOUS
  <2>1. ~(<<m, n>> \in R) /\ m \in Nat /\ n \in Nat
    BY <1>2
  <2>2. ~(m < n)
    BY <2>1
  <2> QED BY <2>1, <2>2
<1> QED BY <1>3 DEF Lowest

(* The position a new read must not be older than: that of the last commit *)
(* acknowledged, or of an older load that its process has under way.       *)
LEMMA LowOfRead ==
    ASSUME TypeOK, NEW s
    PROVE  LET m == Lowest({acked} \cup Loading(s))
           IN  /\ m \in 0..MaxLog
               /\ m <= acked
               /\ \A d \in Clients : StoreOf[d] = s /\ pc[d] \in Pending => m <= rhead[d]
<1> DEFINE S == {acked} \cup Loading(s)
<1>1. S \subseteq 0..MaxLog /\ S \subseteq Nat /\ S # {} /\ acked \in S
  BY DEF TypeOK, Loading
<1>2. \A d \in Clients : StoreOf[d] = s /\ pc[d] \in Pending => rhead[d] \in S
  BY DEF Loading
<1> HIDE DEF S
<1>3. Lowest(S) \in S /\ \A n \in S : Lowest(S) <= n
  BY <1>1, LowestIsLeast
<1>4. Lowest(S) \in 0..MaxLog /\ Lowest(S) <= acked
  BY <1>1, <1>3
<1>5. \A d \in Clients : StoreOf[d] = s /\ pc[d] \in Pending => Lowest(S) <= rhead[d]
  BY <1>2, <1>3
<1> QED BY <1>4, <1>5 DEF S

-------------------------------------------------------------------------------
(* A table that is not older than m is not older than an earlier position. *)
LEMMA NotOlderWeaken ==
    ASSUME NEW t \in Table, NEW m \in Nat, NEW l \in Nat, l <= m,
           NEW e \in Nat, NEW ts, NotOlder(t, m, e, ts)
    PROVE  NotOlder(t, l, e, ts)
<1> SUFFICES ASSUME NEW k \in Keys
             PROVE  \E j \in l..e : t[k] = ts[j][k]
  BY DEF NotOlder
<1>1. PICK j \in m..e : t[k] = ts[j][k]
  BY DEF NotOlder
<1>2. j \in l..e
  OBVIOUS
<1> QED BY <1>1, <1>2

(* Later entries do not make a table older than it was. *)
LEMMA NotOlderExtend ==
    ASSUME NEW t \in Table, NEW m \in Nat, NEW e \in Nat, NEW f \in Nat, e <= f,
           NEW ts, NEW us, \A j \in 0..e : us[j] = ts[j],
           NotOlder(t, m, e, ts)
    PROVE  NotOlder(t, m, f, us)
<1> SUFFICES ASSUME NEW k \in Keys
             PROVE  \E j \in m..f : t[k] = us[j][k]
  BY DEF NotOlder
<1>1. PICK j \in m..e : t[k] = ts[j][k]
  BY DEF NotOlder
<1>2. j \in m..f /\ j \in 0..e
  OBVIOUS
<1> QED BY <1>1, <1>2

(* A table not older than the end is the table at the end. *)
LEMMA NotOlderAtEnd ==
    ASSUME NEW t \in Table, NEW e \in Nat, NEW ts, ts[e] \in Table,
           NotOlder(t, e, e, ts)
    PROVE  t = ts[e]
<1>1. ASSUME NEW k \in Keys
      PROVE  t[k] = ts[e][k]
  <2>1. PICK j \in e..e : t[k] = ts[j][k]
    BY DEF NotOlder
  <2>2. j = e
    OBVIOUS
  <2> QED BY <2>1, <2>2
<1> QED BY <1>1 DEF Table

(* Replaying entry m+1 on a table not older than m makes it not older than *)
(* m+1, although the table may already be ahead of m (load).               *)
LEMMA NotOlderReplay ==
    ASSUME NEW t \in Table, NEW m \in Nat, NEW e \in Nat, m + 1 <= e,
           NEW ts, NEW o \in WOps,
           ts[m] \in Table, ts[m+1] = Apply(ts[m], o),
           NotOlder(t, m, e, ts)
    PROVE  NotOlder(Apply(t, o), m + 1, e, ts)
<1> SUFFICES ASSUME NEW k \in Keys
             PROVE  \E j \in (m+1)..e : Apply(t, o)[k] = ts[j][k]
  BY DEF NotOlder
<1>1. CASE k = o.key \/ (o.kind = "move" /\ k = o.old)
  <2>1. Apply(t, o)[k] = Apply(ts[m], o)[k]
    BY <1>1 DEF Apply
  <2> QED BY <2>1
<1>2. CASE ~(k = o.key \/ (o.kind = "move" /\ k = o.old))
  <2>1. Apply(t, o)[k] = t[k] /\ ts[m+1][k] = ts[m][k]
    BY <1>2 DEF Apply
  <2>2. PICK j \in m..e : t[k] = ts[j][k]
    BY DEF NotOlder
  <2>3. CASE j = m
    BY <2>1, <2>2, <2>3
  <2>4. CASE j # m
    BY <2>1, <2>2, <2>4
  <2> QED BY <2>3, <2>4
<1> QED BY <1>1, <1>2
-------------------------------------------------------------------------------
(***************************************************************************)
(* The journal part of the invariant.                                      *)
(***************************************************************************)

(* A new journal is well formed (CreateStore). *)
LEMMA InitJournal == Init => JournalInv
<1> SUFFICES ASSUME Init PROVE JournalInv
  OBVIOUS
<1>0. TypeOK
  BY BoundsAssumption, EmptyTableType, OpsDistinct
  DEF Init, TypeOK, NoSnap, PCs, Nil, ReadOp
<1>1. head.id = 0 /\ End = 0
  BY BoundsAssumption DEF Init, End, Nil, Slots
<1>2. JournalDense
  BY <1>1 DEF Init, JournalDense, Slots
<1>3. WriterInv
  BY DEF Init, WriterInv, Writing
<1>4. PositionInv
  BY <1>1 DEF Init, PositionInv, NoSnap, Nil
<1>5. ChainInv
  BY <1>1, BoundsAssumption DEF Init, ChainInv
<1> QED BY <1>0, <1>2, <1>3, <1>4, <1>5 DEF JournalInv

(* Steps that leave the entries and HEAD alone. *)
Quiet == UNCHANGED <<entry, head, tables>>

(* Such a step does not change what the journal says. *)
LEMMA QuietJournal ==
    ASSUME JournalInv, Quiet
    PROVE  End' = End /\ JournalDense' /\ ChainInv'
<1>1. End' = End
  BY DEF Quiet, End
<1> QED BY <1>1 DEF JournalInv, Quiet, JournalDense, ChainInv

(* An operation that returns without touching anything shared keeps the    *)
(* journal well formed.                                                    *)
LEMMA ReturnJournal ==
    ASSUME JournalInv, NEW c \in Clients, Return(c),
           UNCHANGED <<files, caches, bounds, tables, acked>>
    PROVE  JournalInv'
<1> USE DEF JournalInv, Return, LeaveLoad, Goto, files, caches, bounds, Nil
<1>1. TypeOK'
  <2>1. pc' \in [Clients -> PCs] /\ op' \in [Clients -> WOps \cup {ReadOp}]
    BY DEF TypeOK, PCs
  <2>2. tries' \in [Clients -> 0..MaxRetries]
    BY BoundsAssumption DEF TypeOK
  <2>3. /\ at' \in [Clients -> 0..MaxLog] /\ low' \in [Clients -> 0..MaxLog]
        /\ rhead' \in [Clients -> 0..MaxLog] /\ stop' \in [Clients -> 0..MaxLog]
        /\ cursor' \in [Clients -> 0..MaxLog] /\ snapAt' \in [Clients -> 0..MaxLog]
    BY BoundsAssumption DEF TypeOK
  <2>4. table' \in [Clients -> Table]
    BY EmptyTableType DEF TypeOK
  <2> QED BY <2>1, <2>2, <2>3, <2>4 DEF TypeOK
<1>2. End' = End /\ JournalDense' /\ ChainInv'
  BY QuietJournal DEF Quiet
<1>3. WriterInv'
  BY <1>2 DEF TypeOK, WriterInv, Writing
<1>4. PositionInv'
  BY DEF TypeOK, PositionInv
<1> QED BY <1>1, <1>2, <1>3, <1>4

(* commit is called. *)
LEMMA BeginUpdateJournal ==
    ASSUME JournalInv, NEW c \in Clients, NEW o \in WOps, BeginUpdate(c, o)
    PROVE  JournalInv'
<1> USE DEF JournalInv, BeginUpdate, Goto, files, caches, locals, bounds, history, Nil
<1>1. TypeOK'
  <2>1. begun' \in 0..MaxOps
    BY BoundsAssumption DEF TypeOK
  <2>2. op' \in [Clients -> WOps \cup {ReadOp}] /\ pc' \in [Clients -> PCs]
    BY DEF TypeOK, PCs
  <2> QED BY <2>1, <2>2 DEF TypeOK
<1>2. End' = End /\ JournalDense' /\ ChainInv'
  BY QuietJournal DEF Quiet
<1>3. WriterInv'
  BY <1>2, ClientsAssumption DEF TypeOK, WriterInv, Writing
<1>4. PositionInv'
  BY ClientsAssumption DEF TypeOK, PositionInv
<1> QED BY <1>1, <1>2, <1>3, <1>4

(* All is called. *)
LEMMA BeginReadJournal ==
    ASSUME JournalInv, NEW c \in Clients, BeginRead(c)
    PROVE  JournalInv'
<1> USE DEF JournalInv, BeginRead, Goto, files, caches, locals, bounds, history, Nil
<1>1. TypeOK'
  <2>1. low' \in [Clients -> 0..MaxLog]
    BY LowOfRead DEF TypeOK
  <2>2. pc' \in [Clients -> PCs]
    BY DEF TypeOK, PCs
  <2> QED BY <2>1, <2>2 DEF TypeOK
<1>2. End' = End /\ JournalDense' /\ ChainInv'
  BY QuietJournal DEF Quiet
<1>3. WriterInv'
  BY <1>2, ClientsAssumption DEF TypeOK, WriterInv, Writing
<1>4. PositionInv'
  BY ClientsAssumption DEF TypeOK, PositionInv
<1> QED BY <1>1, <1>2, <1>3, <1>4

(* load reads HEAD. *)
LEMMA ReadHeadJournal ==
    ASSUME JournalInv, NEW c \in Clients, ReadHead(c)
    PROVE  JournalInv'
<1> USE DEF JournalInv, ReadHead, Goto, files, caches, locals, bounds, history, Nil
<1>1. TypeOK'
  BY ClientsAssumption, BoundsAssumption DEF TypeOK, PCs
<1>2. End' = End /\ JournalDense' /\ ChainInv'
  BY QuietJournal DEF Quiet
<1>3. WriterInv'
  BY <1>2, ClientsAssumption DEF TypeOK, WriterInv, Writing
<1>4. PositionInv'
  BY ClientsAssumption DEF TypeOK, PositionInv
<1> QED BY <1>1, <1>2, <1>3, <1>4

(* readID gives up. *)
LEMMA ReadHeadFailsJournal ==
    ASSUME JournalInv, NEW c \in Clients, ReadHeadFails(c)
    PROVE  JournalInv'
BY ReturnJournal DEF ReadHeadFails

(* load compares HEAD with the cached position. *)
LEMMA CompareHeadJournal ==
    ASSUME JournalInv, NEW c \in Clients, CompareHead(c)
    PROVE  JournalInv'
<1> USE DEF JournalInv, CompareHead, Goto, files, caches, locals, bounds, history, Nil
<1>1. TypeOK'
  BY ClientsAssumption, BoundsAssumption DEF TypeOK, PCs
<1>2. End' = End /\ JournalDense' /\ ChainInv'
  BY QuietJournal DEF Quiet
<1>3. WriterInv'
  BY <1>2, ClientsAssumption DEF TypeOK, WriterInv, Writing
<1>4. PositionInv'
  BY ClientsAssumption DEF TypeOK, PositionInv
<1> QED BY <1>1, <1>2, <1>3, <1>4

(* load reads snap.bsup. *)
LEMMA GetSnapshotJournal ==
    ASSUME JournalInv, NEW c \in Clients, GetSnapshot(c)
    PROVE  JournalInv'
<1> USE DEF JournalInv, GetSnapshot, Goto, files, caches, locals, bounds, history, Nil
<1>1. TypeOK'
  <2>1. snap.at \in 0..MaxLog /\ snap.table \in Table
    BY DEF TypeOK
  <2>2. (IF snap.at = 0 THEN 0 ELSE snap.at - 1) \in 0..MaxLog
    BY <2>1, BoundsAssumption
  <2>3. cursor' \in [Clients -> 0..MaxLog] /\ table' \in [Clients -> Table]
    BY <2>1, <2>2 DEF TypeOK
  <2>4. snapAt' \in [Clients -> 0..MaxLog] /\ stop' \in [Clients -> 0..MaxLog]
    BY <2>1 DEF TypeOK
  <2>5. pc' \in [Clients -> PCs]
    BY DEF TypeOK, PCs
  <2> QED BY <2>3, <2>4, <2>5 DEF TypeOK
<1>2. End' = End /\ JournalDense' /\ ChainInv'
  BY QuietJournal DEF Quiet
<1>3. WriterInv'
  BY <1>2, ClientsAssumption DEF TypeOK, WriterInv, Writing
<1>4. PositionInv'
  <2>1. ASSUME NEW d \in Clients
        PROVE  /\ rhead'[d] <= head.id /\ stop'[d] <= head.id /\ at'[d] <= head.id
               /\ pc'[d] = "reopen" => rhead'[d] = Nil
               /\ pc'[d] = "replay" => rhead'[d] <= stop'[d]
    <3>1. CASE d = c
      BY <3>1 DEF TypeOK, PositionInv
    <3>2. CASE d # c
      BY <3>2 DEF TypeOK, PositionInv
    <3> QED BY <3>1, <3>2
  <2> QED BY <2>1 DEF PositionInv
<1> QED BY <1>1, <1>2, <1>3, <1>4

(* Queue.Open reads HEAD again. *)
LEMMA ReopenAtHeadJournal ==
    ASSUME JournalInv, NEW c \in Clients, ReopenAtHead(c)
    PROVE  JournalInv'
<1> USE DEF JournalInv, ReopenAtHead, Goto, files, caches, locals, bounds, history, Nil
<1>1. TypeOK'
  BY ClientsAssumption, BoundsAssumption DEF TypeOK, PCs
<1>2. End' = End /\ JournalDense' /\ ChainInv'
  BY QuietJournal DEF Quiet
<1>3. WriterInv'
  BY <1>2, ClientsAssumption DEF TypeOK, WriterInv, Writing
<1>4. PositionInv'
  BY ClientsAssumption DEF TypeOK, PositionInv
<1> QED BY <1>1, <1>2, <1>3, <1>4

(* load replays an entry. *)
LEMMA ReplayEntryJournal ==
    ASSUME JournalInv, NEW c \in Clients, ReplayEntry(c)
    PROVE  JournalInv'
<1> DEFINE n == cursor[c] + 1
<1> USE DEF JournalInv, Goto, files, caches, locals, bounds, history, Nil
<1>a. CASE Return(c)
  BY <1>a, ReturnJournal DEF ReplayEntry
<1>b. CASE ~Return(c)
  <2>0. /\ entry[n] # NoEntry
        /\ cursor[c] < stop[c]
        /\ cursor' = [cursor EXCEPT ![c] = n]
        /\ table' = [table EXCEPT ![c] = Apply(table[c], entry[n])]
        /\ UNCHANGED <<files, caches, pc, op, tries, rhead, stop, snapAt, at, low,
                       bounds, tables, acked>>
    BY <1>b DEF ReplayEntry
  <2>1. n \in Slots /\ n \in 0..MaxLog /\ entry[n] \in WOps /\ table[c] \in Table
    <3>1. cursor[c] \in 0..MaxLog /\ stop[c] \in 0..MaxLog /\ table[c] \in Table
      BY DEF TypeOK
    <3>2. n \in Slots /\ n \in 0..MaxLog
      BY <2>0, <3>1, BoundsAssumption DEF Slots
    <3> QED BY <2>0, <3>1, <3>2 DEF TypeOK
  <2>2. TypeOK'
    <3>1. cursor' \in [Clients -> 0..MaxLog]
      BY <2>0, <2>1 DEF TypeOK
    <3>2. table' \in [Clients -> Table]
      BY <2>0, <2>1, ApplyType DEF TypeOK
    <3> QED BY <2>0, <3>1, <3>2 DEF TypeOK
  <2>3. End' = End /\ JournalDense' /\ ChainInv'
    BY <2>0, QuietJournal DEF Quiet
  <2>4. WriterInv' /\ PositionInv'
    BY <2>0, <2>3 DEF WriterInv, PositionInv
  <2> QED BY <2>2, <2>3, <2>4
<1> QED BY <1>a, <1>b

(* load publishes its table. *)
LEMMA PublishJournal ==
    ASSUME JournalInv, NEW c \in Clients, Publish(c)
    PROVE  JournalInv'
<1> USE DEF JournalInv, Publish, Goto, files, caches, locals, bounds, history, Nil
<1>1. TypeOK'
  BY ClientsAssumption, BoundsAssumption DEF TypeOK, PCs
<1>2. End' = End /\ JournalDense' /\ ChainInv'
  BY QuietJournal DEF Quiet
<1>3. WriterInv'
  BY <1>2, ClientsAssumption DEF TypeOK, WriterInv, Writing
<1>4. PositionInv'
  BY ClientsAssumption DEF TypeOK, PositionInv
<1> QED BY <1>1, <1>2, <1>3, <1>4

(* putSnapshot truncates the file. *)
LEMMA TruncSnapshotJournal ==
    ASSUME JournalInv, NEW c \in Clients, TruncSnapshot(c)
    PROVE  JournalInv'
<1> USE DEF JournalInv, TruncSnapshot, Goto, files, caches, locals, bounds, history, Nil
<1>1. TypeOK'
  <2>1. snap' \in [at : 0..MaxLog, table : Table]
    BY EmptyTableType, BoundsAssumption DEF NoSnap
  <2>2. pc' \in [Clients -> PCs]
    BY DEF TypeOK, PCs
  <2> QED BY <2>1, <2>2 DEF TypeOK
<1>2. End' = End /\ JournalDense' /\ ChainInv'
  BY QuietJournal DEF Quiet
<1>3. WriterInv'
  BY <1>2, ClientsAssumption DEF TypeOK, WriterInv, Writing
<1>4. PositionInv'
  BY BoundsAssumption DEF TypeOK, PositionInv, NoSnap
<1> QED BY <1>1, <1>2, <1>3, <1>4

(* putSnapshot writes a frame. *)
LEMMA WriteSnapshotFrameJournal ==
    ASSUME JournalInv, NEW c \in Clients, WriteSnapshotFrame(c)
    PROVE  JournalInv'
<1> USE DEF JournalInv, WriteSnapshotFrame, Goto, files, caches, locals, bounds, history, Nil
<1>1. TypeOK'
  <2>1. PICK K \in SUBSET Keys : snap' =
          [at |-> rhead[c],
           table |-> [k \in Keys |-> IF k \in K THEN table[c][k] ELSE Absent]]
    OBVIOUS
  <2>2. [k \in Keys |-> IF k \in K THEN table[c][k] ELSE Absent] \in Table
    BY DEF TypeOK, Table
  <2>3. snap' \in [at : 0..MaxLog, table : Table]
    BY <2>1, <2>2 DEF TypeOK
  <2>4. pc' \in [Clients -> PCs]
    BY DEF TypeOK, PCs
  <2> QED BY <2>3, <2>4 DEF TypeOK
<1>2. End' = End /\ JournalDense' /\ ChainInv'
  BY QuietJournal DEF Quiet
<1>3. WriterInv'
  BY <1>2, ClientsAssumption DEF TypeOK, WriterInv, Writing
<1>4. PositionInv'
  BY ClientsAssumption DEF TypeOK, PositionInv
<1> QED BY <1>1, <1>2, <1>3, <1>4

(* putSnapshot completes. *)
LEMMA WriteSnapshotJournal ==
    ASSUME JournalInv, NEW c \in Clients, WriteSnapshot(c)
    PROVE  JournalInv'
<1> USE DEF JournalInv, WriteSnapshot, Goto, files, caches, locals, bounds, history, Nil
<1>1. TypeOK'
  BY ClientsAssumption, BoundsAssumption DEF TypeOK, PCs
<1>2. End' = End /\ JournalDense' /\ ChainInv'
  BY QuietJournal DEF Quiet
<1>3. WriterInv'
  BY <1>2, ClientsAssumption DEF TypeOK, WriterInv, Writing
<1>4. PositionInv'
  BY ClientsAssumption DEF TypeOK, PositionInv
<1> QED BY <1>1, <1>2, <1>3, <1>4

(* A read returns. *)
LEMMA ReturnTableJournal ==
    ASSUME JournalInv, NEW c \in Clients, ReturnTable(c)
    PROVE  JournalInv'
BY ReturnJournal DEF ReturnTable

(* commit evaluates its condition. *)
LEMMA CheckConditionJournal ==
    ASSUME JournalInv, NEW c \in Clients, CheckCondition(c)
    PROVE  JournalInv'
<1> DEFINE s == StoreOf[c]
<1> USE DEF JournalInv, Goto, files, caches, locals, bounds, history, Nil
<1>a. CASE Return(c)
  BY <1>a, ReturnJournal DEF CheckCondition
<1>b. CASE ~Return(c)
  <2>0. /\ op[c] # ReadOp
        /\ at' = [at EXCEPT ![c] = storeAt[s]]
        /\ pc' = [pc EXCEPT ![c] = "put"]
        /\ LeaveLoad(c)
        /\ UNCHANGED <<files, caches, op, tries, low, bounds, tables, acked>>
    BY <1>b DEF CheckCondition
  <2> USE DEF LeaveLoad
  <2>1. s \in Stores /\ op[c] \in WOps /\ storeAt[s] \in 0..MaxLog
    BY <2>0, ClientsAssumption DEF TypeOK
  <2>2. TypeOK'
    <3>1. at' \in [Clients -> 0..MaxLog] /\ pc' \in [Clients -> PCs]
      BY <2>0, <2>1 DEF TypeOK, PCs
    <3>2. /\ rhead' \in [Clients -> 0..MaxLog] /\ stop' \in [Clients -> 0..MaxLog]
          /\ cursor' \in [Clients -> 0..MaxLog] /\ snapAt' \in [Clients -> 0..MaxLog]
      BY <2>0, BoundsAssumption DEF TypeOK
    <3>3. table' \in [Clients -> Table]
      BY <2>0, EmptyTableType DEF TypeOK
    <3> QED BY <2>0, <3>1, <3>2, <3>3 DEF TypeOK
  <2>3. End' = End /\ JournalDense' /\ ChainInv'
    BY <2>0, QuietJournal DEF Quiet
  <2>4. WriterInv'
    BY <2>0, <2>1, <2>3 DEF TypeOK, WriterInv, Writing
  <2>5. PositionInv'
    BY <2>0, <2>1 DEF TypeOK, PositionInv
  <2> QED BY <2>2, <2>3, <2>4, <2>5
<1> QED BY <1>a, <1>b

(* The next entry exists already. *)
LEMMA PutConflictJournal ==
    ASSUME JournalInv, NEW c \in Clients, PutConflict(c)
    PROVE  JournalInv'
<1> USE DEF JournalInv, Goto, files, caches, locals, bounds, history, Nil
<1>a. CASE Return(c)
  BY <1>a, ReturnJournal DEF PutConflict
<1>b. CASE ~Return(c)
  <2>0. /\ tries[c] + 1 < MaxRetries
        /\ tries' = [tries EXCEPT ![c] = tries[c] + 1]
        /\ at' = [at EXCEPT ![c] = Nil]
        /\ pc' = [pc EXCEPT ![c] = "readHead"]
        /\ UNCHANGED <<files, caches, op, rhead, stop, cursor, snapAt, table, low,
                       bounds, tables, acked>>
    BY <1>b DEF PutConflict
  <2>1. TypeOK'
    <3>1. tries[c] + 1 \in 0..MaxRetries
      BY <2>0, BoundsAssumption DEF TypeOK
    <3>2. tries' \in [Clients -> 0..MaxRetries]
      BY <2>0, <3>1 DEF TypeOK
    <3>3. at' \in [Clients -> 0..MaxLog] /\ pc' \in [Clients -> PCs]
      BY <2>0, BoundsAssumption DEF TypeOK, PCs
    <3> QED BY <2>0, <3>2, <3>3 DEF TypeOK
  <2>2. End' = End /\ JournalDense' /\ ChainInv'
    BY <2>0, QuietJournal DEF Quiet
  <2>3. WriterInv'
    BY <2>0, <2>2 DEF TypeOK, WriterInv, Writing
  <2>4. PositionInv'
    BY <2>0 DEF TypeOK, PositionInv
  <2> QED BY <2>1, <2>2, <2>3, <2>4
<1> QED BY <1>a, <1>b

(* commit resets the cached position and returns. *)
LEMMA ResetAtJournal ==
    ASSUME JournalInv, NEW c \in Clients, ResetAt(c)
    PROVE  JournalInv'
<1> USE DEF JournalInv, ResetAt, Return, LeaveLoad, Goto, files, bounds, Nil
<1>0. at[c] + 1 <= head.id /\ at[c] \in 0..MaxLog /\ head.id \in 0..MaxLog
  BY DEF TypeOK, WriterInv
<1>1. TypeOK'
  <2>1. pc' \in [Clients -> PCs] /\ op' \in [Clients -> WOps \cup {ReadOp}]
    BY DEF TypeOK, PCs
  <2>2. tries' \in [Clients -> 0..MaxRetries]
    BY BoundsAssumption DEF TypeOK
  <2>3. /\ at' \in [Clients -> 0..MaxLog] /\ low' \in [Clients -> 0..MaxLog]
        /\ rhead' \in [Clients -> 0..MaxLog] /\ stop' \in [Clients -> 0..MaxLog]
        /\ cursor' \in [Clients -> 0..MaxLog] /\ snapAt' \in [Clients -> 0..MaxLog]
    BY BoundsAssumption DEF TypeOK
  <2>4. table' \in [Clients -> Table]
    BY EmptyTableType DEF TypeOK
  <2>5. storeAt' \in [Stores -> 0..MaxLog]
    <3>1. storeAt' = [storeAt EXCEPT ![StoreOf[c]] = 0] /\ 0 \in 0..MaxLog
      BY BoundsAssumption
    <3> QED BY <3>1 DEF TypeOK
  <2>6. acked' \in 0..MaxLog
    BY <1>0, BoundsAssumption DEF TypeOK
  <2> QED BY <2>1, <2>2, <2>3, <2>4, <2>5, <2>6 DEF TypeOK
<1>2. End' = End /\ JournalDense' /\ ChainInv'
  BY QuietJournal DEF Quiet
<1>3. WriterInv'
  BY <1>2 DEF TypeOK, WriterInv, Writing
<1>4. PositionInv'
  BY <1>0 DEF TypeOK, PositionInv
<1> QED BY <1>1, <1>2, <1>3, <1>4

(* A process dies. *)
LEMMA CrashJournal ==
    ASSUME JournalInv, NEW s \in Stores, Crash(s)
    PROVE  JournalInv'
<1> USE DEF JournalInv, Crash, files, Nil
<1>1. TypeOK'
  <2>1. pc' \in [Clients -> PCs] /\ op' \in [Clients -> WOps \cup {ReadOp}]
    BY DEF TypeOK, PCs
  <2>2. tries' \in [Clients -> 0..MaxRetries]
    BY BoundsAssumption DEF TypeOK
  <2>3. /\ at' \in [Clients -> 0..MaxLog] /\ low' \in [Clients -> 0..MaxLog]
        /\ rhead' \in [Clients -> 0..MaxLog] /\ stop' \in [Clients -> 0..MaxLog]
        /\ cursor' \in [Clients -> 0..MaxLog] /\ snapAt' \in [Clients -> 0..MaxLog]
    BY BoundsAssumption DEF TypeOK
  <2>4. table' \in [Clients -> Table] /\ storeTable' \in [Stores -> Table]
    BY EmptyTableType DEF TypeOK
  <2>5. storeAt' \in [Stores -> 0..MaxLog] /\ crashes' \in 0..MaxCrashes
    BY BoundsAssumption DEF TypeOK
  <2> QED BY <2>1, <2>2, <2>3, <2>4, <2>5 DEF TypeOK
<1>2. End' = End /\ JournalDense' /\ ChainInv'
  BY QuietJournal DEF Quiet
<1>3. WriterInv'
  BY <1>2 DEF TypeOK, WriterInv, Writing
<1>4. PositionInv'
  BY DEF TypeOK, PositionInv
<1> QED BY <1>1, <1>2, <1>3, <1>4

(***************************************************************************)
(* The three steps that change the entries or HEAD.                        *)
(***************************************************************************)

(* A successful exclusive create extends the journal by the entry after    *)
(* HEAD, and nobody else is between its create and writeHead.              *)
LEMMA PutEntryAtEnd ==
    ASSUME JournalInv, NEW c \in Clients, PutEntry(c)
    PROVE  /\ at[c] = head.id /\ End = head.id /\ End' = head.id + 1
           /\ head.id + 1 \in Slots
           /\ \A d \in Clients : pc[d] \notin Writing
<1> USE DEF JournalInv, PutEntry
<1>0. /\ at[c] \in 0..MaxLog /\ head.id \in 0..MaxLog /\ at[c] <= head.id
      /\ End \in 0..MaxLog /\ (End = head.id \/ End = head.id + 1)
  BY EndType DEF TypeOK, PositionInv
<1>1. ~(at[c] + 1 <= End)
  BY DEF JournalDense
<1>2. at[c] = head.id /\ End = head.id
  BY <1>0, <1>1
<1>3. End' = head.id + 1
  <2>1. entry'[head.id + 1] = op[c] /\ op[c] # NoEntry
    BY <1>2, OpsDistinct DEF TypeOK, WriterInv
  <2> QED BY <1>2, <2>1 DEF End
<1>4. \A d \in Clients : pc[d] \notin Writing
  BY <1>0, <1>2 DEF WriterInv
<1> QED BY <1>2, <1>3, <1>4

(* CommitAt creates the entry. *)
LEMMA PutEntryJournal ==
    ASSUME JournalInv, NEW c \in Clients, PutEntry(c)
    PROVE  JournalInv'
<1> USE DEF JournalInv, PutEntry, Goto, caches, locals, bounds
<1>0. /\ at[c] = head.id /\ End = head.id /\ End' = head.id + 1
      /\ head.id + 1 \in Slots /\ head.id \in 0..MaxLog
      /\ \A d \in Clients : pc[d] \notin Writing
  BY PutEntryAtEnd, EndType
<1>1. op[c] \in WOps
  BY DEF WriterInv
<1>2. tables[at[c]] \in Table /\ Apply(tables[at[c]], op[c]) \in Table
  BY <1>0, <1>1, ApplyType DEF TypeOK
<1>3. TypeOK'
  <2>1. entry' \in [Slots -> WOps \cup {NoEntry}]
    BY <1>1 DEF TypeOK
  <2>2. tables' \in [0..MaxLog -> Table]
    BY <1>2 DEF TypeOK
  <2>3. pc' \in [Clients -> PCs]
    BY DEF TypeOK, PCs
  <2> QED BY <2>1, <2>2, <2>3 DEF TypeOK
<1>4. JournalDense'
  <2> SUFFICES ASSUME NEW n \in Slots
               PROVE  entry'[n] # NoEntry <=> n <= head.id + 1
    BY <1>0 DEF JournalDense
  <2>1. CASE n = head.id + 1
    BY <1>0, <1>1, <2>1, OpsDistinct DEF TypeOK
  <2>2. CASE n # head.id + 1
    <3>1. entry'[n] = entry[n]
      BY <1>0, <2>2 DEF TypeOK
    <3> QED BY <1>0, <2>2, <3>1 DEF JournalDense, Slots
  <2> QED BY <2>1, <2>2
<1>5. ChainInv'
  <2>1. tables'[0] = EmptyTable
    BY <1>0 DEF ChainInv, TypeOK
  <2>2. ASSUME NEW n \in 1..(head.id + 1)
        PROVE  tables'[n] = Apply(tables'[n-1], entry'[n])
    <3>1. n \in Slots /\ n \in 0..MaxLog /\ n - 1 \in 0..MaxLog /\ n - 1 # head.id + 1
      BY <1>0, BoundsAssumption DEF Slots
    <3>2. tables'[n-1] = tables[n-1]
      BY <1>0, <3>1 DEF TypeOK
    <3>3. CASE n = head.id + 1
      <4>1. n - 1 = head.id
        BY <1>0, <3>3
      <4> QED BY <1>0, <3>1, <3>2, <3>3, <4>1 DEF TypeOK
    <3>4. CASE n # head.id + 1
      <4>1. tables'[n] = tables[n] /\ entry'[n] = entry[n]
        BY <1>0, <3>1, <3>4 DEF TypeOK
      <4>2. n \in 1..End
        BY <1>0, <3>4
      <4> QED BY <3>2, <4>1, <4>2 DEF ChainInv
    <3> QED BY <3>3, <3>4
  <2> QED BY <1>0, <2>1, <2>2 DEF ChainInv
<1>6. WriterInv'
  BY <1>0, <1>1 DEF TypeOK, WriterInv, Writing
<1>7. PositionInv'
  BY DEF TypeOK, PositionInv
<1> QED BY <1>3, <1>4, <1>5, <1>6, <1>7

(* writeHead truncates HEAD. *)
LEMMA TruncHeadJournal ==
    ASSUME JournalInv, NEW c \in Clients, TruncHead(c)
    PROVE  JournalInv'
<1> USE DEF JournalInv, TruncHead, Goto, caches, locals, bounds, history
<1>0. head'.id = head.id /\ head' \in [valid : BOOLEAN, id : 0..MaxLog]
  BY DEF TypeOK
<1>1. TypeOK'
  <2>1. pc' \in [Clients -> PCs]
    BY DEF TypeOK, PCs
  <2> QED BY <1>0, <2>1 DEF TypeOK
<1>2. End' = End
  BY <1>0 DEF End
<1>3. JournalDense' /\ ChainInv'
  BY <1>2 DEF JournalDense, ChainInv
<1>4. WriterInv'
  BY <1>0, <1>2 DEF TypeOK, WriterInv, Writing
<1>5. PositionInv'
  BY <1>0 DEF TypeOK, PositionInv
<1> QED BY <1>1, <1>3, <1>4, <1>5

(* writeHead moves HEAD to the end of the journal. *)
LEMMA WriteHeadAtEnd ==
    ASSUME JournalInv, NEW c \in Clients, WriteHead(c)
    PROVE  /\ at[c] = head.id /\ End = head.id + 1
           /\ head'.id = head.id + 1 /\ End' = End
<1> USE DEF JournalInv, WriteHead
<1>1. at[c] = head.id /\ End = head.id + 1 /\ head'.id = head.id + 1
  BY DEF WriterInv, Writing
<1>2. End' = End
  <2>1. head.id \in 0..MaxLog /\ End \in 0..MaxLog
    BY EndType
  <2>2. ~(head'.id + 1 \in Slots /\ entry'[head'.id + 1] # NoEntry)
    BY <1>1, <2>1 DEF JournalDense
  <2>3. End' = head'.id
    BY <2>2 DEF End
  <2> QED BY <1>1, <2>3
<1> QED BY <1>1, <1>2

(* writeHead completes. *)
LEMMA WriteHeadJournal ==
    ASSUME JournalInv, NEW c \in Clients, WriteHead(c)
    PROVE  JournalInv'
<1> USE DEF JournalInv, WriteHead, Goto, caches, locals, bounds, history
<1>0. /\ at[c] = head.id /\ End = head.id + 1 /\ head'.id = head.id + 1 /\ End' = End
      /\ head.id \in 0..MaxLog /\ End \in 0..MaxLog
  BY WriteHeadAtEnd, EndType
<1>1. TypeOK'
  <2>1. head' \in [valid : BOOLEAN, id : 0..MaxLog]
    BY <1>0
  <2>2. pc' \in [Clients -> PCs]
    BY DEF TypeOK, PCs
  <2> QED BY <2>1, <2>2 DEF TypeOK
<1>2. JournalDense' /\ ChainInv'
  BY <1>0 DEF JournalDense, ChainInv
<1>3. WriterInv'
  <2>1. \A d \in Clients : pc'[d] \in Writing => d # c /\ pc[d] \in Writing
    BY DEF TypeOK, Writing
  <2>2. \A d \in Clients : pc'[d] \notin Writing
    BY <2>1 DEF WriterInv, Writing
  <2>3. ASSUME NEW d \in Clients, pc'[d] = "reset"
        PROVE  at'[d] + 1 <= head'.id
    <3>1. at[d] \in 0..MaxLog /\ at'[d] = at[d]
      BY DEF TypeOK
    <3>2. CASE d = c
      BY <1>0, <3>1, <3>2
    <3>3. CASE d # c
      <4>1. pc[d] = "reset"
        BY <2>3, <3>3 DEF TypeOK
      <4>2. at[d] + 1 <= head.id
        BY <4>1 DEF WriterInv
      <4> QED BY <1>0, <3>1, <4>2
    <3> QED BY <3>2, <3>3
  <2>4. \A d \in Clients : pc'[d] = "put" => op'[d] \in WOps
    BY DEF TypeOK, WriterInv
  <2> QED BY <2>2, <2>3, <2>4 DEF WriterInv
<1>4. PositionInv'
  <2>1. \A m \in 0..MaxLog : m <= head.id => m <= head'.id
    BY <1>0
  <2>2. snap'.at <= head'.id /\ acked' <= head'.id
    BY <2>1 DEF TypeOK, PositionInv
  <2>3. \A s \in Stores : storeAt'[s] <= head'.id
    BY <2>1 DEF TypeOK, PositionInv
  <2>4. ASSUME NEW d \in Clients
        PROVE  rhead'[d] <= head'.id /\ stop'[d] <= head'.id /\ at'[d] <= head'.id
    BY <2>1 DEF TypeOK, PositionInv
  <2>5. ASSUME NEW d \in Clients
        PROVE  /\ pc'[d] = "reopen" => rhead'[d] = Nil
               /\ pc'[d] = "replay" => rhead'[d] <= stop'[d]
    BY DEF TypeOK, PositionInv
  <2> QED BY <2>2, <2>3, <2>4, <2>5 DEF PositionInv
<1> QED BY <1>1, <1>2, <1>3, <1>4

(* Every step keeps the journal well formed. *)
LEMMA NextJournal == JournalInv /\ [Next]_vars => JournalInv'
<1> SUFFICES ASSUME JournalInv, [Next]_vars
             PROVE  JournalInv'
  OBVIOUS
<1>1. CASE UNCHANGED vars
  <2>1. End' = End
    BY <1>1 DEF vars, files, End
  <2> QED BY <1>1, <2>1 DEF JournalInv, TypeOK, JournalDense, WriterInv,
          PositionInv, ChainInv, vars, files, caches, locals, bounds, history
<1>2. ASSUME NEW c \in Clients, BeginRead(c) PROVE JournalInv'
  BY <1>2, BeginReadJournal
<1>3. ASSUME NEW c \in Clients, NEW o \in WOps, BeginUpdate(c, o) PROVE JournalInv'
  BY <1>3, BeginUpdateJournal
<1>4. ASSUME NEW s \in Stores, Crash(s) PROVE JournalInv'
  BY <1>4, CrashJournal
<1>5. ASSUME NEW c \in Clients, Step(c) PROVE JournalInv'
  BY <1>5, ReadHeadJournal, ReadHeadFailsJournal, CompareHeadJournal,
     GetSnapshotJournal, ReopenAtHeadJournal, ReplayEntryJournal, PublishJournal,
     TruncSnapshotJournal, WriteSnapshotFrameJournal, WriteSnapshotJournal,
     ReturnTableJournal, CheckConditionJournal, PutEntryJournal,
     PutConflictJournal, TruncHeadJournal, WriteHeadJournal, ResetAtJournal
  DEF Step
<1> QED BY <1>1, <1>2, <1>3, <1>4, <1>5 DEF Next
-------------------------------------------------------------------------------
(***************************************************************************)
(* The part of the invariant about tables.                                 *)
(***************************************************************************)

(* All tables are empty in a new journal. *)
LEMMA InitTables == Init => TablesInv
<1> SUFFICES ASSUME Init PROVE TablesInv
  OBVIOUS
<1>1. head.id = 0 /\ End = 0
  BY BoundsAssumption DEF Init, End, Nil, Slots
<1>2. Serializable
  BY <1>1 DEF Serializable
<1>3. CachesNotOlder
  BY <1>1, BoundsAssumption
  DEF Init, CachesNotOlder, NotOlderThan, NotOlder, NoSnap, Nil, EmptyTable
<1>4. LoadInv /\ PutInv /\ \A c \in Clients : pc[c] # "frameSnap"
  BY DEF Init, LoadInv, PutInv
<1> QED BY <1>2, <1>3, <1>4 DEF TablesInv

(* A step that leaves the journal alone keeps it serializable. *)
LEMMA QuietSerializable ==
    ASSUME JournalInv, TablesInv, Quiet
    PROVE  End' = End /\ Serializable'
<1>1. End' = End
  BY QuietJournal
<1> QED BY <1>1 DEF TablesInv, Quiet, Serializable

(* An operation that returns without touching anything shared. *)
LEMMA ReturnTables ==
    ASSUME JournalInv, TablesInv, NEW c \in Clients, Return(c),
           UNCHANGED <<files, caches, bounds, tables, acked>>
    PROVE  TablesInv'
<1> USE DEF JournalInv, TablesInv, Return, LeaveLoad, Goto, files, caches
<1>1. End' = End /\ Serializable'
  BY QuietSerializable DEF Quiet
<1>2. CachesNotOlder'
  BY <1>1 DEF CachesNotOlder, NotOlderThan
<1>3. LoadInv'
  BY <1>1 DEF TypeOK, LoadInv, NotOlderThan
<1>4. PutInv' /\ \A d \in Clients : pc'[d] # "frameSnap"
  BY <1>1 DEF TypeOK, PutInv
<1> QED BY <1>1, <1>2, <1>3, <1>4

(* commit is called. *)
LEMMA BeginUpdateTables ==
    ASSUME SnapFits, JournalInv, TablesInv, NEW c \in Clients, NEW o \in WOps, BeginUpdate(c, o)
    PROVE  TablesInv'
<1> USE DEF JournalInv, TablesInv, BeginUpdate, Goto, files, caches, locals, bounds, history
<1>1. End' = End /\ Serializable'
  BY QuietSerializable DEF Quiet
<1>2. CachesNotOlder'
  BY <1>1 DEF CachesNotOlder, NotOlderThan
<1>3. LoadInv'
  BY <1>1 DEF TypeOK, LoadInv, NotOlderThan
<1>4. PutInv' /\ \A d \in Clients : pc'[d] # "frameSnap"
  BY <1>1 DEF TypeOK, PutInv
<1> QED BY <1>1, <1>2, <1>3, <1>4

(* All is called. *)
LEMMA BeginReadTables ==
    ASSUME SnapFits, JournalInv, TablesInv, NEW c \in Clients, BeginRead(c)
    PROVE  TablesInv'
<1> USE DEF JournalInv, TablesInv, BeginRead, Goto, files, caches, locals, bounds, history
<1>1. End' = End /\ Serializable'
  BY QuietSerializable DEF Quiet
<1>2. CachesNotOlder'
  BY <1>1 DEF CachesNotOlder, NotOlderThan
<1>3. LoadInv'
  BY <1>1 DEF TypeOK, LoadInv, NotOlderThan
<1>4. PutInv' /\ \A d \in Clients : pc'[d] # "frameSnap"
  BY <1>1 DEF TypeOK, PutInv
<1> QED BY <1>1, <1>2, <1>3, <1>4

(* load reads HEAD. *)
LEMMA ReadHeadTables ==
    ASSUME SnapFits, JournalInv, TablesInv, NEW c \in Clients, ReadHead(c)
    PROVE  TablesInv'
<1> USE DEF JournalInv, TablesInv, ReadHead, Goto, files, caches, locals, bounds, history
<1>1. End' = End /\ Serializable'
  BY QuietSerializable DEF Quiet
<1>2. CachesNotOlder'
  BY <1>1 DEF CachesNotOlder, NotOlderThan
<1>3. LoadInv'
  BY <1>1 DEF TypeOK, LoadInv, NotOlderThan
<1>4. PutInv' /\ \A d \in Clients : pc'[d] # "frameSnap"
  BY <1>1 DEF TypeOK, PutInv
<1> QED BY <1>1, <1>2, <1>3, <1>4

(* load compares HEAD with the cached position. *)
LEMMA CompareHeadTables ==
    ASSUME SnapFits, JournalInv, TablesInv, NEW c \in Clients, CompareHead(c)
    PROVE  TablesInv'
<1> USE DEF JournalInv, TablesInv, CompareHead, Goto, files, caches, locals, bounds, history
<1>1. End' = End /\ Serializable'
  BY QuietSerializable DEF Quiet
<1>2. CachesNotOlder'
  BY <1>1 DEF CachesNotOlder, NotOlderThan
<1>3. LoadInv'
  BY <1>1 DEF TypeOK, LoadInv, NotOlderThan
<1>4. PutInv' /\ \A d \in Clients : pc'[d] # "frameSnap"
  BY <1>1 DEF TypeOK, PutInv
<1> QED BY <1>1, <1>2, <1>3, <1>4

(* The snapshot is not older than its entry, so not than the one before. *)
LEMMA GetSnapshotTables ==
    ASSUME SnapFits, JournalInv, TablesInv, NEW c \in Clients, GetSnapshot(c)
    PROVE  TablesInv'
<1> USE DEF JournalInv, TablesInv, GetSnapshot, Goto, files, caches, locals, bounds, history
<1>1. End' = End /\ Serializable'
  BY QuietSerializable DEF Quiet
<1>2. CachesNotOlder'
  BY <1>1 DEF CachesNotOlder, NotOlderThan
<1>3. LoadInv'
  <2>1. snap.at \in 0..MaxLog /\ snap.table \in Table /\ End \in 0..MaxLog
    BY EndType DEF TypeOK
  <2>2. NotOlder(snap.table, snap.at, End, tables)
    BY DEF CachesNotOlder, NotOlderThan
  <2>3. NotOlder(snap.table, IF snap.at = 0 THEN 0 ELSE snap.at - 1, End, tables)
    BY <2>1, <2>2, BoundsAssumption, NotOlderWeaken
  <2>4. table'[c] = snap.table /\ cursor'[c] = (IF snap.at = 0 THEN 0 ELSE snap.at - 1)
    BY DEF TypeOK, Nil
  <2>5. \A d \in Clients : d # c => /\ table'[d] = table[d] /\ cursor'[d] = cursor[d]
                                     /\ rhead'[d] = rhead[d] /\ pc'[d] = pc[d]
    BY DEF TypeOK
  <2>6. pc'[c] \in {"reopen", "replay"}
    BY DEF TypeOK
  <2> QED BY <1>1, <2>3, <2>4, <2>5, <2>6 DEF LoadInv, NotOlderThan
<1>4. PutInv' /\ \A d \in Clients : pc'[d] # "frameSnap"
  BY <1>1 DEF TypeOK, PutInv
<1> QED BY <1>1, <1>2, <1>3, <1>4

(* Queue.Open reads HEAD again. *)
LEMMA ReopenAtHeadTables ==
    ASSUME SnapFits, JournalInv, TablesInv, NEW c \in Clients, ReopenAtHead(c)
    PROVE  TablesInv'
<1> USE DEF JournalInv, TablesInv, ReopenAtHead, Goto, files, caches, locals, bounds, history
<1>1. End' = End /\ Serializable'
  BY QuietSerializable DEF Quiet
<1>2. CachesNotOlder'
  BY <1>1 DEF CachesNotOlder, NotOlderThan
<1>3. LoadInv'
  BY <1>1 DEF TypeOK, LoadInv, NotOlderThan
<1>4. PutInv' /\ \A d \in Clients : pc'[d] # "frameSnap"
  BY <1>1 DEF TypeOK, PutInv
<1> QED BY <1>1, <1>2, <1>3, <1>4

(* load replays an entry. *)
LEMMA ReplayEntryTables ==
    ASSUME SnapFits, JournalInv, TablesInv, NEW c \in Clients, ReplayEntry(c)
    PROVE  TablesInv'
<1> DEFINE n == cursor[c] + 1
<1> USE DEF JournalInv, TablesInv, Goto, files, caches, bounds
<1>a. CASE Return(c)
  BY <1>a, ReturnTables DEF ReplayEntry
<1>b. CASE ~Return(c)
  <2>0. /\ entry[n] # NoEntry
        /\ pc[c] = "replay"
        /\ cursor[c] < stop[c]
        /\ cursor' = [cursor EXCEPT ![c] = n]
        /\ table' = [table EXCEPT ![c] = Apply(table[c], entry[n])]
        /\ UNCHANGED <<files, caches, pc, op, tries, rhead, stop, snapAt, at, low,
                       bounds, tables, acked>>
    BY <1>b DEF ReplayEntry
  <2>1. End' = End /\ Serializable'
    BY <2>0, QuietSerializable DEF Quiet
  <2>2. /\ cursor[c] \in 0..MaxLog /\ stop[c] \in 0..MaxLog /\ table[c] \in Table
        /\ End \in 0..MaxLog /\ head.id \in 0..MaxLog /\ head.id <= End
        /\ stop[c] <= head.id
    <3>1. End \in 0..MaxLog /\ head.id \in 0..MaxLog /\ head.id <= End
      BY EndType, BoundsAssumption
    <3> QED BY <3>1 DEF TypeOK, PositionInv
  <2>3. n \in Slots /\ n \in 1..End /\ n <= End /\ n - 1 = cursor[c]
    BY <2>0, <2>2, BoundsAssumption DEF Slots
  <2>4. entry[n] \in WOps /\ tables[cursor[c]] \in Table
    BY <2>0, <2>2, <2>3 DEF TypeOK
  <2>5. tables[n] = Apply(tables[cursor[c]], entry[n])
    BY <2>3 DEF ChainInv
  <2>6. NotOlder(table[c], cursor[c], End, tables)
    BY <2>0 DEF LoadInv, NotOlderThan
  <2>7. NotOlder(Apply(table[c], entry[n]), n, End, tables)
    <3>1. cursor[c] \in Nat /\ End \in Nat
      BY <2>2
    <3> QED BY <2>2, <2>3, <2>4, <2>5, <2>6, <3>1, NotOlderReplay
  <2>8. LoadInv'
    <3>1. table'[c] = Apply(table[c], entry[n]) /\ cursor'[c] = n
      BY <2>0 DEF TypeOK
    <3>2. \A d \in Clients : d # c => table'[d] = table[d] /\ cursor'[d] = cursor[d]
      BY <2>0 DEF TypeOK
    <3> QED BY <2>0, <2>1, <2>7, <3>1, <3>2 DEF LoadInv, NotOlderThan
  <2>9. CachesNotOlder' /\ PutInv' /\ \A d \in Clients : pc'[d] # "frameSnap"
    BY <2>0, <2>1 DEF CachesNotOlder, NotOlderThan, PutInv
  <2> QED BY <2>1, <2>8, <2>9
<1> QED BY <1>a, <1>b

(* The table a load publishes is not older than the HEAD it read. *)
LEMMA PublishTables ==
    ASSUME SnapFits, JournalInv, TablesInv, NEW c \in Clients, Publish(c)
    PROVE  TablesInv'
<1> USE DEF JournalInv, TablesInv, Publish, Goto, files, caches, locals, bounds, history
<1>1. End' = End /\ Serializable'
  BY QuietSerializable DEF Quiet
<1>2. NotOlder(table[c], rhead[c], End, tables)
  <2>1. /\ table[c] \in Table /\ cursor[c] \in 0..MaxLog /\ rhead[c] \in 0..MaxLog
        /\ stop[c] \in 0..MaxLog /\ End \in 0..MaxLog /\ rhead[c] <= stop[c]
    BY EndType DEF TypeOK, PositionInv
  <2>2. NotOlder(table[c], cursor[c], End, tables)
    BY DEF LoadInv, NotOlderThan
  <2>3. cursor[c] \in Nat /\ rhead[c] \in Nat /\ End \in Nat /\ rhead[c] <= cursor[c]
    BY <2>1
  <2> QED BY <2>1, <2>2, <2>3, NotOlderWeaken
<1>3. CachesNotOlder'
  <2>1. ASSUME NEW s \in Stores
        PROVE  NotOlder(storeTable'[s], storeAt'[s], End, tables)
    <3>1. CASE s = StoreOf[c]
      <4>1. storeTable'[s] = table[c] /\ storeAt'[s] = rhead[c]
        BY <3>1 DEF TypeOK
      <4> QED BY <1>2, <4>1
    <3>2. CASE s # StoreOf[c]
      <4>1. storeTable'[s] = storeTable[s] /\ storeAt'[s] = storeAt[s]
        BY <3>2 DEF TypeOK
      <4> QED BY <4>1 DEF CachesNotOlder, NotOlderThan
    <3> QED BY <3>1, <3>2
  <2> QED BY <1>1, <2>1 DEF CachesNotOlder, NotOlderThan
<1>4. LoadInv'
  <2>1. \A d \in Clients : d # c => pc'[d] = pc[d]
    BY DEF TypeOK
  <2>2. pc'[c] \notin {"reopen", "replay"}
    BY DEF TypeOK
  <2> QED BY <1>1, <1>2, <2>1, <2>2 DEF LoadInv, NotOlderThan
<1>5. PutInv' /\ \A d \in Clients : pc'[d] # "frameSnap"
  BY <1>1 DEF TypeOK, PutInv
<1> QED BY <1>1, <1>3, <1>4, <1>5

(* An empty table is not older than the beginning. *)
LEMMA EmptyNotOlder ==
    ASSUME JournalInv
    PROVE  NotOlder(EmptyTable, 0, End, tables)
<1>1. 0 \in 0..End /\ tables[0] = EmptyTable
  BY EndType DEF JournalInv, ChainInv
<1> QED BY <1>1 DEF NotOlder

(* A truncated snapshot file reads as no snapshot. *)
LEMMA TruncSnapshotTables ==
    ASSUME SnapFits, JournalInv, TablesInv, NEW c \in Clients, TruncSnapshot(c)
    PROVE  TablesInv'
<1> USE DEF JournalInv, TablesInv, TruncSnapshot, Goto, files, caches, locals, bounds, history
<1>1. End' = End /\ Serializable'
  BY QuietSerializable DEF Quiet
<1>2. CachesNotOlder'
  <2>1. NotOlder(EmptyTable, 0, End, tables)
    BY EmptyNotOlder
  <2>2. snap'.at = 0 /\ snap'.table = EmptyTable
    BY DEF NoSnap, Nil
  <2> QED BY <1>1, <2>1, <2>2 DEF CachesNotOlder, NotOlderThan
<1>3. LoadInv'
  BY <1>1 DEF TypeOK, LoadInv, NotOlderThan
<1>4. PutInv' /\ \A d \in Clients : pc'[d] # "frameSnap"
  BY <1>1 DEF TypeOK, PutInv
<1> QED BY <1>1, <1>2, <1>3, <1>4

(* The table that is stored is the one that was published. *)
LEMMA WriteSnapshotTables ==
    ASSUME SnapFits, JournalInv, TablesInv, NEW c \in Clients, WriteSnapshot(c)
    PROVE  TablesInv'
<1> USE DEF JournalInv, TablesInv, WriteSnapshot, Goto, files, caches, locals, bounds, history
<1>1. End' = End /\ Serializable'
  BY QuietSerializable DEF Quiet
<1>2. CachesNotOlder'
  <2>1. NotOlder(table[c], rhead[c], End, tables)
    BY DEF LoadInv, NotOlderThan
  <2>2. snap'.at = rhead[c] /\ snap'.table = table[c]
    OBVIOUS
  <2> QED BY <1>1, <2>1, <2>2 DEF CachesNotOlder, NotOlderThan
<1>3. LoadInv'
  BY <1>1 DEF TypeOK, LoadInv, NotOlderThan
<1>4. PutInv' /\ \A d \in Clients : pc'[d] # "frameSnap"
  BY <1>1 DEF TypeOK, PutInv
<1> QED BY <1>1, <1>2, <1>3, <1>4

(* commit evaluates its condition: on the last table if it can succeed. *)
LEMMA CheckConditionTables ==
    ASSUME SnapFits, JournalInv, TablesInv, NEW c \in Clients, CheckCondition(c)
    PROVE  TablesInv'
<1> DEFINE s == StoreOf[c]
<1> USE DEF JournalInv, TablesInv, Goto, files, caches, bounds
<1>a. CASE Return(c)
  BY <1>a, ReturnTables DEF CheckCondition
<1>b. CASE ~Return(c)
  <2>0. /\ Admissible(storeTable[s], op[c])
        /\ at' = [at EXCEPT ![c] = storeAt[s]]
        /\ pc' = [pc EXCEPT ![c] = "put"]
        /\ LeaveLoad(c)
        /\ UNCHANGED <<files, caches, op, tries, low, bounds, tables, acked>>
    BY <1>b DEF CheckCondition
  <2>1. End' = End /\ Serializable'
    BY <2>0, QuietSerializable DEF Quiet
  <2>2. CachesNotOlder'
    BY <2>0, <2>1 DEF CachesNotOlder, NotOlderThan
  <2>3. LoadInv'
    BY <2>0, <2>1 DEF TypeOK, LoadInv, NotOlderThan, LeaveLoad
  <2>4. storeAt[s] = End => storeTable[s] = tables[End]
    <3> HAVE storeAt[s] = End
    <3>1. s \in Stores /\ storeTable[s] \in Table /\ End \in 0..MaxLog /\ tables[End] \in Table
      BY EndType, ClientsAssumption DEF TypeOK
    <3>2. NotOlder(storeTable[s], End, End, tables)
      BY <3>1 DEF CachesNotOlder, NotOlderThan
    <3>3. End \in Nat
      BY <3>1
    <3> QED BY <3>1, <3>2, <3>3, NotOlderAtEnd
  <2>5. PutInv'
    <3> SUFFICES ASSUME NEW d \in Clients, pc'[d] = "put", at'[d] = End
                 PROVE  Admissible(tables[End], op[d])
      BY <2>0, <2>1 DEF PutInv
    <3>1. CASE d = c
      BY <2>0, <2>4, <3>1 DEF TypeOK
    <3>2. CASE d # c
      BY <2>0, <3>2 DEF TypeOK, PutInv
    <3> QED BY <3>1, <3>2
  <2>6. \A d \in Clients : pc'[d] # "frameSnap"
    BY <2>0 DEF TypeOK
  <2> QED BY <2>1, <2>2, <2>3, <2>5, <2>6
<1> QED BY <1>a, <1>b

(* The next entry exists already. *)
LEMMA PutConflictTables ==
    ASSUME SnapFits, JournalInv, TablesInv, NEW c \in Clients, PutConflict(c)
    PROVE  TablesInv'
<1> USE DEF JournalInv, TablesInv, Goto, files, caches, bounds
<1>a. CASE Return(c)
  BY <1>a, ReturnTables DEF PutConflict
<1>b. CASE ~Return(c)
  <2>0. /\ at' = [at EXCEPT ![c] = Nil]
        /\ pc' = [pc EXCEPT ![c] = "readHead"]
        /\ UNCHANGED <<files, caches, op, rhead, stop, cursor, snapAt, table, low,
                       bounds, tables, acked>>
    BY <1>b DEF PutConflict
  <2>1. End' = End /\ Serializable'
    BY <2>0, QuietSerializable DEF Quiet
  <2>2. CachesNotOlder'
    BY <2>0, <2>1 DEF CachesNotOlder, NotOlderThan
  <2>3. LoadInv'
    BY <2>0, <2>1 DEF TypeOK, LoadInv, NotOlderThan
  <2>4. PutInv' /\ \A d \in Clients : pc'[d] # "frameSnap"
    BY <2>0, <2>1 DEF TypeOK, PutInv
  <2> QED BY <2>1, <2>2, <2>3, <2>4
<1> QED BY <1>a, <1>b

(* commit resets the cached position: Nil labels any table. *)
LEMMA ResetAtTables ==
    ASSUME SnapFits, JournalInv, TablesInv, NEW c \in Clients, ResetAt(c)
    PROVE  TablesInv'
<1> USE DEF JournalInv, TablesInv, ResetAt, Return, LeaveLoad, Goto, files, bounds
<1>1. End' = End /\ Serializable'
  BY QuietSerializable DEF Quiet
<1>2. CachesNotOlder'
  <2>1. ASSUME NEW s \in Stores
        PROVE  NotOlder(storeTable[s], storeAt'[s], End, tables)
    <3>1. NotOlder(storeTable[s], storeAt[s], End, tables)
      BY DEF CachesNotOlder, NotOlderThan
    <3>2. storeTable[s] \in Table /\ storeAt[s] \in 0..MaxLog /\ End \in 0..MaxLog
      BY EndType DEF TypeOK
    <3>3. storeAt'[s] = storeAt[s] \/ storeAt'[s] = 0
      BY DEF TypeOK, Nil
    <3>4. storeAt[s] \in Nat /\ End \in Nat /\ 0 <= storeAt[s]
      BY <3>2
    <3>5. NotOlder(storeTable[s], 0, End, tables)
      BY <3>1, <3>2, <3>4, NotOlderWeaken
    <3> QED BY <3>1, <3>3, <3>5
  <2> QED BY <1>1, <2>1 DEF CachesNotOlder, NotOlderThan
<1>3. LoadInv'
  BY <1>1 DEF TypeOK, LoadInv, NotOlderThan
<1>4. PutInv' /\ \A d \in Clients : pc'[d] # "frameSnap"
  BY <1>1 DEF TypeOK, PutInv
<1> QED BY <1>1, <1>2, <1>3, <1>4

(* A process dies; its new Store is empty. *)
LEMMA CrashTables ==
    ASSUME SnapFits, JournalInv, TablesInv, NEW s \in Stores, Crash(s)
    PROVE  TablesInv'
<1> USE DEF JournalInv, TablesInv, Crash, files
<1>1. End' = End /\ Serializable'
  BY QuietSerializable DEF Quiet
<1>2. CachesNotOlder'
  <2>1. NotOlder(EmptyTable, 0, End, tables)
    BY EmptyNotOlder
  <2>2. ASSUME NEW r \in Stores
        PROVE  NotOlder(storeTable'[r], storeAt'[r], End, tables)
    <3>1. CASE r = s
      <4>1. storeTable'[r] = EmptyTable /\ storeAt'[r] = 0
        BY <3>1 DEF TypeOK, Nil
      <4> QED BY <2>1, <4>1
    <3>2. CASE r # s
      <4>1. storeTable'[r] = storeTable[r] /\ storeAt'[r] = storeAt[r]
        BY <3>2 DEF TypeOK
      <4> QED BY <4>1 DEF CachesNotOlder, NotOlderThan
    <3> QED BY <3>1, <3>2
  <2> QED BY <1>1, <2>2 DEF CachesNotOlder, NotOlderThan
<1>3. LoadInv'
  BY <1>1 DEF TypeOK, LoadInv, NotOlderThan
<1>4. PutInv' /\ \A d \in Clients : pc'[d] # "frameSnap"
  BY <1>1 DEF TypeOK, PutInv
<1> QED BY <1>1, <1>2, <1>3, <1>4

(* A new entry meets its condition on the table before it, and makes no    *)
(* table older.                                                            *)
LEMMA PutEntryTables ==
    ASSUME SnapFits, JournalInv, TablesInv, JournalInv', NEW c \in Clients, PutEntry(c)
    PROVE  TablesInv'
<1> USE DEF JournalInv, TablesInv
<1>0. /\ at[c] = head.id /\ End = head.id /\ End' = head.id + 1
      /\ head.id + 1 \in Slots /\ head.id \in 0..MaxLog
  BY PutEntryAtEnd, EndType
<1>1. \A j \in 0..End : tables'[j] = tables[j]
  BY <1>0 DEF PutEntry, TypeOK
<1>2. End \in Nat /\ End' \in Nat /\ End <= End'
  BY <1>0
<1>3. \A t \in Table, m \in Nat :
         NotOlder(t, m, End, tables) => NotOlder(t, m, End', tables')
  BY <1>1, <1>2, NotOlderExtend
<1>4. Serializable'
  <2> SUFFICES ASSUME NEW n \in 1..(head.id + 1)
               PROVE  Admissible(tables'[n-1], entry'[n])
    BY <1>0 DEF Serializable
  <2>1. tables'[n-1] = tables[n-1]
    BY <1>0, <1>1
  <2>2. CASE n = head.id + 1
    <3>1. Admissible(tables[End], op[c])
      BY <1>0 DEF PutInv, PutEntry
    <3>2. entry'[n] = op[c] /\ n - 1 = End
      BY <1>0, <2>2 DEF PutEntry, TypeOK
    <3> QED BY <2>1, <3>1, <3>2
  <2>3. CASE n # head.id + 1
    <3>1. n \in 1..End /\ n \in Slots
      BY <1>0, <2>3, BoundsAssumption DEF Slots
    <3>2. entry'[n] = entry[n]
      BY <1>0, <2>3, <3>1 DEF PutEntry, TypeOK
    <3> QED BY <2>1, <3>1, <3>2 DEF Serializable
  <2> QED BY <2>2, <2>3
<1>5. CachesNotOlder'
  <2>1. \A s \in Stores : storeTable[s] \in Table /\ storeAt[s] \in Nat
    BY DEF TypeOK
  <2>2. snap.table \in Table /\ snap.at \in Nat
    BY DEF TypeOK
  <2> QED BY <1>3, <2>1, <2>2 DEF CachesNotOlder, NotOlderThan, PutEntry, caches
<1>6. LoadInv'
  <2>1. \A d \in Clients : table[d] \in Table /\ cursor[d] \in Nat /\ rhead[d] \in Nat
    BY DEF TypeOK
  <2>2. \A d \in Clients : pc'[d] \in {"reopen", "replay", "truncSnap", "frameSnap", "writeSnap"}
                              => pc'[d] = pc[d]
    BY DEF PutEntry, Goto, TypeOK
  <2> QED BY <1>3, <2>1, <2>2 DEF LoadInv, NotOlderThan, PutEntry, locals
<1>7. PutInv'
  <2> SUFFICES ASSUME NEW d \in Clients, pc'[d] = "put", at'[d] = End'
               PROVE  FALSE
    BY DEF PutInv
  <2>1. at[d] <= head.id /\ at[d] \in 0..MaxLog /\ at'[d] = at[d]
    BY DEF TypeOK, PositionInv, PutEntry, locals
  <2> QED BY <1>0, <2>1
<1>8. \A d \in Clients : pc'[d] # "frameSnap"
  BY DEF PutEntry, Goto, TypeOK
<1> QED BY <1>4, <1>5, <1>6, <1>7, <1>8

(* Truncating and writing HEAD changes no table. *)
LEMMA HeadTables ==
    ASSUME JournalInv, TablesInv, NEW c \in Clients,
           TruncHead(c) \/ WriteHead(c)
    PROVE  TablesInv'
<1> USE DEF JournalInv, TablesInv
<1>1. End' = End
  <2>1. CASE TruncHead(c)
    BY <2>1 DEF TruncHead, End, TypeOK
  <2>2. CASE WriteHead(c)
    BY <2>2, WriteHeadAtEnd
  <2> QED BY <2>1, <2>2
<1>2. UNCHANGED <<entry, snap, caches, locals, bounds, history>>
  BY DEF TruncHead, WriteHead
<1>3. \A d \in Clients : pc'[d] = pc[d] \/ pc'[d] \in {"writeHead", "reset"}
  BY DEF TruncHead, WriteHead, Goto, TypeOK
<1> USE <1>1, <1>2, <1>3 DEF caches, locals, bounds, history
<1>4. Serializable' /\ CachesNotOlder'
  BY DEF Serializable, CachesNotOlder, NotOlderThan
<1>5. LoadInv'
  BY DEF LoadInv, NotOlderThan
<1>6. PutInv' /\ \A d \in Clients : pc'[d] # "frameSnap"
  BY DEF PutInv
<1> QED BY <1>4, <1>5, <1>6

(* Every step keeps the tables as new as their labels. *)
LEMMA NextTables ==
    SnapFits /\ JournalInv /\ TablesInv /\ JournalInv' /\ [Next]_vars => TablesInv'
<1> SUFFICES ASSUME SnapFits, JournalInv, TablesInv, JournalInv', [Next]_vars
             PROVE  TablesInv'
  OBVIOUS
<1>1. CASE UNCHANGED vars
  <2>1. End' = End
    BY <1>1 DEF vars, files, End
  <2> QED BY <1>1, <2>1 DEF TablesInv, Serializable, CachesNotOlder, LoadInv, PutInv,
          NotOlderThan, vars, files, caches, locals, history
<1>2. ASSUME NEW c \in Clients, BeginRead(c) PROVE TablesInv'
  BY <1>2, BeginReadTables
<1>3. ASSUME NEW c \in Clients, NEW o \in WOps, BeginUpdate(c, o) PROVE TablesInv'
  BY <1>3, BeginUpdateTables
<1>4. ASSUME NEW s \in Stores, Crash(s) PROVE TablesInv'
  BY <1>4, CrashTables
<1>5. ASSUME NEW c \in Clients, Step(c) PROVE TablesInv'
  <2>1. CASE ReadHeadFails(c)
    BY <2>1, ReturnTables DEF ReadHeadFails
  <2>2. CASE ReturnTable(c)
    BY <2>2, ReturnTables DEF ReturnTable
  <2>3. CASE WriteSnapshotFrame(c)
    BY <2>3 DEF WriteSnapshotFrame, TablesInv
  <2> QED BY <1>5, <2>1, <2>2, <2>3, ReadHeadTables, CompareHeadTables,
     GetSnapshotTables, ReopenAtHeadTables, ReplayEntryTables, PublishTables,
     TruncSnapshotTables, WriteSnapshotTables, CheckConditionTables,
     PutEntryTables, PutConflictTables, HeadTables, ResetAtTables
     DEF Step
<1> QED BY <1>1, <1>2, <1>3, <1>4, <1>5 DEF Next
-------------------------------------------------------------------------------
(***************************************************************************)
(* What reads return.  ReadInv is kept by every step, given the invariant. *)
(***************************************************************************)

(* Most steps neither put a table into a Store nor raise what a read must  *)
(* see, and a load that they start reads the current HEAD.                 *)
LEMMA ReadsKept ==
    ASSUME JournalInv, JournalInv', ReadInv,
           End <= End', \A j \in 0..End : tables'[j] = tables[j],
           storeTable' = storeTable, acked <= acked',
           \A d \in Clients : low'[d] = low[d] \/ low'[d] = 0,
           \A d \in Clients : pc'[d] \in Pending =>
              (pc[d] \in Pending /\ rhead'[d] = rhead[d]) \/ rhead'[d] = head.id,
           \A d \in Clients : pc'[d] \in Loaded => pc[d] \in Loaded
    PROVE  ReadInv'
<1> USE DEF JournalInv
<1>1. /\ End \in Nat /\ End' \in Nat /\ acked \in Nat /\ acked' \in Nat /\ acked <= head.id
      /\ head.id \in Nat
  BY EndType DEF TypeOK, PositionInv, End, Slots
<1>2. \A d \in Clients : low[d] \in Nat /\ low'[d] \in Nat /\ low'[d] <= low[d]
                          /\ rhead[d] \in Nat /\ low[d] <= acked
  <2> SUFFICES ASSUME NEW d \in Clients
               PROVE  low[d] \in Nat /\ low'[d] \in Nat /\ low'[d] <= low[d]
                         /\ rhead[d] \in Nat /\ low[d] <= acked
    OBVIOUS
  <2>1. low[d] \in Nat /\ rhead[d] \in Nat /\ low[d] <= acked
    BY DEF TypeOK, ReadInv
  <2>2. low'[d] = low[d] \/ low'[d] = 0
    OBVIOUS
  <2> QED BY <2>1, <2>2
<1>3. \A d \in Clients : low'[d] <= acked'
  BY <1>1, <1>2
<1>4. ASSUME NEW d \in Clients, NEW e \in Clients, StoreOf[d] = StoreOf[e], pc'[e] \in Pending
      PROVE  low'[d] <= rhead'[e]
  <2>1. CASE pc[e] \in Pending /\ rhead'[e] = rhead[e]
    <3>1. low[d] <= rhead[e]
      BY <1>4, <2>1 DEF ReadInv
    <3> QED BY <1>2, <2>1, <3>1
  <2>2. CASE rhead'[e] = head.id
    BY <1>1, <1>2, <2>2
  <2> QED BY <1>4, <2>1, <2>2
<1>5. ASSUME NEW d \in Clients, pc'[d] \in Loaded
      PROVE  NotOlder(storeTable'[StoreOf[d]], low'[d], End', tables')
  <2>0. storeTable[StoreOf[d]] \in Table
    BY ClientsAssumption DEF TypeOK
  <2>1. NotOlder(storeTable[StoreOf[d]], low[d], End, tables)
    BY <1>5 DEF ReadInv, NotOlderThan
  <2>2. NotOlder(storeTable[StoreOf[d]], low'[d], End, tables)
    BY <1>1, <1>2, <2>0, <2>1, NotOlderWeaken
  <2> QED BY <1>1, <1>2, <2>0, <2>2, NotOlderExtend
<1> QED BY <1>3, <1>4, <1>5 DEF ReadInv, NotOlderThan

(* A new read takes the loads that its process has under way into account. *)
LEMMA BeginReadReads ==
    ASSUME JournalInv, ReadInv, NEW c \in Clients, BeginRead(c)
    PROVE  ReadInv'
<1> USE DEF JournalInv, BeginRead, Goto, files, caches, locals
<1>0. End' = End
  BY DEF End
<1> DEFINE m == Lowest({acked} \cup Loading(StoreOf[c]))
<1>1. /\ m <= acked
      /\ \A d \in Clients : StoreOf[d] = StoreOf[c] /\ pc[d] \in Pending => m <= rhead[d]
  BY LowOfRead
<1>2. low' = [low EXCEPT ![c] = m] /\ low \in [Clients -> 0..MaxLog]
  BY DEF TypeOK
<1>3. \A d \in Clients : pc'[d] = pc[d] \/ (d = c /\ pc'[d] = "readHead")
  BY DEF TypeOK
<1> HIDE DEF m
<1>4. ASSUME NEW d \in Clients PROVE low'[d] <= acked'
  BY <1>1, <1>2 DEF ReadInv
<1>5. ASSUME NEW d \in Clients, NEW e \in Clients, StoreOf[d] = StoreOf[e], pc'[e] \in Pending
      PROVE  low'[d] <= rhead'[e]
  <2>1. pc[e] \in Pending /\ rhead' = rhead
    BY <1>3, <1>5 DEF Pending
  <2> QED BY <1>1, <1>2, <1>5, <2>1 DEF ReadInv
<1>6. ASSUME NEW d \in Clients, pc'[d] \in Loaded
      PROVE  NotOlder(storeTable'[StoreOf[d]], low'[d], End', tables')
  <2>1. d # c /\ pc[d] \in Loaded
    BY <1>3, <1>6 DEF Loaded, TypeOK
  <2> QED BY <1>0, <1>2, <2>1 DEF ReadInv, NotOlderThan
<1> QED BY <1>4, <1>5, <1>6 DEF ReadInv, NotOlderThan

(* load finds its HEAD cached: the table is as new as the label says. *)
LEMMA CompareHeadReads ==
    ASSUME JournalInv, TablesInv, ReadInv, NEW c \in Clients, CompareHead(c)
    PROVE  ReadInv'
<1> USE DEF JournalInv, CompareHead, Goto, files, caches, locals, history
<1>0. End' = End /\ End \in Nat
  BY EndType DEF End
<1>1. \A d \in Clients : pc'[d] = pc[d] \/ (d = c /\ pc'[d] \in {"check", "getSnapshot"})
  BY DEF TypeOK
<1>2. ASSUME NEW d \in Clients, NEW e \in Clients, StoreOf[d] = StoreOf[e], pc'[e] \in Pending
      PROVE  low'[d] <= rhead'[e]
  <2>1. pc[e] \in Pending
    BY <1>1, <1>2 DEF Pending
  <2> QED BY <1>2, <2>1 DEF ReadInv
<1>3. ASSUME NEW d \in Clients, pc'[d] \in Loaded
      PROVE  NotOlder(storeTable[StoreOf[d]], low[d], End, tables)
  <2>1. CASE pc[d] \in Loaded
    BY <2>1 DEF ReadInv, NotOlderThan
  <2>2. CASE pc[d] \notin Loaded
    <3>1. d = c /\ rhead[c] = storeAt[StoreOf[c]] /\ StoreOf[c] \in Stores
      BY <1>1, <1>3, <2>2, ClientsAssumption DEF Loaded, TypeOK
    <3>2. low[c] <= rhead[c]
      BY DEF ReadInv, Pending
    <3>3. NotOlder(storeTable[StoreOf[c]], rhead[c], End, tables)
      BY <3>1 DEF TablesInv, CachesNotOlder, NotOlderThan
    <3>4. storeTable[StoreOf[c]] \in Table /\ rhead[c] \in Nat /\ low[c] \in Nat
      BY <3>1 DEF TypeOK
    <3> QED BY <1>0, <3>1, <3>2, <3>3, <3>4, NotOlderWeaken
  <2> QED BY <2>1, <2>2
<1> QED BY <1>0, <1>2, <1>3 DEF ReadInv, NotOlderThan

(* load puts its table into the Store: it is as new as the HEAD it read,   *)
(* which no read of the process is ahead of.                               *)
LEMMA PublishReads ==
    ASSUME JournalInv, TablesInv, ReadInv, NEW c \in Clients, Publish(c)
    PROVE  ReadInv'
<1> USE DEF JournalInv, Publish, Goto, files, locals, history
<1>0. End' = End /\ End \in Nat
  BY EndType DEF End
<1>1. \A d \in Clients : pc'[d] = pc[d] \/ (d = c /\ pc'[d] \in {"check", "truncSnap"})
  BY DEF TypeOK
<1>2. ASSUME NEW d \in Clients, NEW e \in Clients, StoreOf[d] = StoreOf[e], pc'[e] \in Pending
      PROVE  low'[d] <= rhead'[e]
  <2>1. pc[e] \in Pending
    BY <1>1, <1>2 DEF Pending
  <2> QED BY <1>2, <2>1 DEF ReadInv
<1>3. NotOlder(table[c], cursor[c], End, tables)
  BY DEF TablesInv, LoadInv, NotOlderThan
<1>4. /\ rhead[c] <= stop[c] /\ stop[c] <= cursor[c] /\ table[c] \in Table
      /\ rhead[c] \in Nat /\ stop[c] \in Nat /\ cursor[c] \in Nat
  BY DEF TypeOK, PositionInv
<1>5. ASSUME NEW d \in Clients, pc'[d] \in Loaded
      PROVE  NotOlder(storeTable'[StoreOf[d]], low[d], End, tables)
  <2>0. StoreOf[c] \in Stores /\ StoreOf[d] \in Stores
    BY ClientsAssumption
  <2>1. CASE StoreOf[d] = StoreOf[c]
    <3>1. low[d] <= rhead[c] /\ low[d] \in Nat
      BY <2>1 DEF ReadInv, Pending, TypeOK
    <3>2. low[d] <= cursor[c]
      BY <1>4, <3>1
    <3>3. NotOlder(table[c], low[d], End, tables)
      BY <1>0, <1>3, <1>4, <3>1, <3>2, NotOlderWeaken
    <3>4. storeTable'[StoreOf[d]] = table[c]
      BY <2>0, <2>1 DEF TypeOK
    <3> QED BY <3>3, <3>4
  <2>2. CASE StoreOf[d] # StoreOf[c]
    <3>1. pc[d] \in Loaded
      BY <1>1, <1>5, <2>2
    <3>2. storeTable'[StoreOf[d]] = storeTable[StoreOf[d]]
      BY <2>0, <2>2 DEF TypeOK
    <3> QED BY <3>1, <3>2 DEF ReadInv, NotOlderThan
  <2> QED BY <2>1, <2>2
<1> QED BY <1>0, <1>2, <1>5 DEF ReadInv, NotOlderThan

(* The reads of a process that dies are gone. *)
LEMMA CrashReads ==
    ASSUME JournalInv, ReadInv, NEW s \in Stores, Crash(s)
    PROVE  ReadInv'
<1> USE DEF JournalInv, Crash, files
<1>0. End' = End
  BY DEF End
<1>1. \A d \in Clients : StoreOf[d] = s => pc'[d] = "idle" /\ low'[d] = 0
  BY DEF Nil
<1>2. \A d \in Clients : StoreOf[d] # s =>
         pc'[d] = pc[d] /\ low'[d] = low[d] /\ rhead'[d] = rhead[d]
  OBVIOUS
<1>3. acked \in Nat /\ acked' = acked
  BY DEF TypeOK
<1>4. \A d \in Clients : low'[d] <= acked'
  BY <1>1, <1>2, <1>3 DEF ReadInv
<1>5. ASSUME NEW d \in Clients, NEW e \in Clients, StoreOf[d] = StoreOf[e], pc'[e] \in Pending
      PROVE  low'[d] <= rhead'[e]
  <2>1. StoreOf[e] # s
    BY <1>1, <1>5 DEF Pending
  <2> QED BY <1>2, <1>5, <2>1 DEF ReadInv
<1>6. ASSUME NEW d \in Clients, pc'[d] \in Loaded
      PROVE  NotOlder(storeTable'[StoreOf[d]], low'[d], End', tables')
  <2>1. StoreOf[d] # s /\ StoreOf[d] \in Stores
    BY <1>1, <1>6, ClientsAssumption DEF Loaded
  <2>2. storeTable'[StoreOf[d]] = storeTable[StoreOf[d]]
    BY <2>1 DEF TypeOK
  <2> QED BY <1>0, <1>2, <1>6, <2>1, <2>2 DEF ReadInv, NotOlderThan
<1> QED BY <1>4, <1>5, <1>6 DEF ReadInv, NotOlderThan

(* Every step keeps ReadInv. *)
LEMMA NextReads ==
    ASSUME JournalInv, JournalInv', TablesInv, ReadInv, [Next]_vars
    PROVE  ReadInv'
<1> USE DEF JournalInv
<1>0. End \in Nat /\ End' \in Nat /\ acked \in Nat
  <2>1. End \in 0..MaxLog /\ acked \in 0..MaxLog
    BY EndType DEF TypeOK
  <2>2. head'.id \in Nat
    BY DEF TypeOK
  <2> QED BY <2>1, <2>2 DEF End
<1>1. CASE UNCHANGED vars
  <2>1. End' = End
    BY <1>1 DEF vars, files, End
  <2> QED BY <1>0, <1>1, <2>1, ReadsKept DEF vars, files, caches, locals, history
<1>2. ASSUME NEW c \in Clients, NEW o \in WOps, BeginUpdate(c, o) PROVE ReadInv'
  <2>1. End' = End
    BY <1>2 DEF BeginUpdate, files, End
  <2>2. \A d \in Clients : pc'[d] = pc[d] \/ pc'[d] = "readHead"
    BY <1>2 DEF BeginUpdate, Goto, TypeOK
  <2> QED BY <1>0, <1>2, <2>1, <2>2, ReadsKept
      DEF BeginUpdate, files, caches, history, Pending, Loaded
<1>3. ASSUME NEW c \in Clients, Return(c), UNCHANGED <<files, storeTable, tables>>,
             acked <= acked'
      PROVE  ReadInv'
  <2>1. End' = End
    BY <1>3 DEF files, End
  <2>2. \A d \in Clients : pc'[d] = pc[d] \/ pc'[d] = "idle"
    BY <1>3 DEF Return, Goto, TypeOK
  <2>3. \A d \in Clients : pc'[d] \in Pending => pc[d] \in Pending /\ rhead'[d] = rhead[d]
    BY <1>3, <2>2 DEF Return, Goto, LeaveLoad, TypeOK, Pending
  <2>4. \A d \in Clients : low'[d] = low[d] \/ low'[d] = 0
    BY <1>3 DEF Return, TypeOK, Nil
  <2> QED BY <1>0, <1>3, <2>1, <2>2, <2>3, <2>4, ReadsKept DEF Loaded
<1>4. ASSUME NEW c \in Clients, UNCHANGED <<files, caches, history>>,
             \A d \in Clients : pc'[d] \in Pending =>
               (pc[d] \in Pending /\ rhead'[d] = rhead[d]) \/ rhead'[d] = head.id,
             \A d \in Clients : pc'[d] \in Loaded => pc[d] \in Loaded
      PROVE  ReadInv'
  <2>1. End' = End
    BY <1>4 DEF files, End
  <2> QED BY <1>0, <1>4, <2>1, ReadsKept DEF caches, history
<1>5. ASSUME NEW c \in Clients, Step(c) PROVE ReadInv'
  <2>1. CASE ReadHead(c)
    BY <1>4, <2>1 DEF ReadHead, Goto, TypeOK, Pending, Loaded
  <2>2. CASE ReadHeadFails(c) \/ ReturnTable(c)
    BY <1>0, <1>3, <2>2 DEF ReadHeadFails, ReturnTable, caches
  <2>3. CASE CompareHead(c)
    BY <2>3, CompareHeadReads
  <2>4. CASE GetSnapshot(c)
    BY <1>4, <2>4 DEF GetSnapshot, Goto, TypeOK, Pending, Loaded
  <2>5. CASE ReopenAtHead(c)
    BY <1>4, <2>5 DEF ReopenAtHead, Goto, TypeOK, Pending, Loaded
  <2>6. CASE ReplayEntry(c)
    <3>1. CASE Return(c)
      BY <1>0, <1>3, <2>6, <3>1 DEF ReplayEntry, caches
    <3>2. CASE ~Return(c)
      <4>1. UNCHANGED <<pc, rhead, low, files, caches, tables, acked>>
        BY <2>6, <3>2 DEF ReplayEntry
      <4> QED BY <1>4, <4>1 DEF history
    <3> QED BY <3>1, <3>2
  <2>7. CASE Publish(c)
    BY <2>7, PublishReads
  <2>8. CASE TruncSnapshot(c) \/ WriteSnapshotFrame(c) \/ WriteSnapshot(c)
    <3>1. End' = End
      BY <2>8 DEF TruncSnapshot, WriteSnapshotFrame, WriteSnapshot, End
    <3>2. \A d \in Clients : pc'[d] = pc[d] \/ (pc[d] \in Loaded /\ pc'[d] \in Loaded)
      BY <2>8 DEF TruncSnapshot, WriteSnapshotFrame, WriteSnapshot, Goto, TypeOK, Loaded
    <3>3. \A d \in Clients : pc'[d] \in Pending => pc[d] \in Pending
      BY <3>2 DEF Loaded, Pending
    <3>4. UNCHANGED <<caches, locals, history>>
      BY <2>8 DEF TruncSnapshot, WriteSnapshotFrame, WriteSnapshot
    <3> QED BY <1>0, <3>1, <3>2, <3>3, <3>4, ReadsKept DEF caches, locals, history
  <2>9. CASE CheckCondition(c)
    <3>1. CASE Return(c)
      BY <1>0, <1>3, <2>9, <3>1 DEF CheckCondition, caches
    <3>2. CASE ~Return(c)
      <4>1. /\ pc' = [pc EXCEPT ![c] = "put"] /\ rhead' = [rhead EXCEPT ![c] = 0]
            /\ UNCHANGED <<files, caches, tables, acked, low>>
        BY <2>9, <3>2 DEF CheckCondition, LeaveLoad, Goto, Nil
      <4>2. \A d \in Clients : pc'[d] \in Pending => pc[d] \in Pending /\ rhead'[d] = rhead[d]
        BY <4>1 DEF TypeOK, Pending
      <4>3. \A d \in Clients : pc'[d] \in Loaded => pc[d] \in Loaded
        BY <4>1 DEF TypeOK, Loaded
      <4> QED BY <1>4, <4>1, <4>2, <4>3 DEF history
    <3> QED BY <3>1, <3>2
  <2>10. CASE PutEntry(c)
    <3>0. at[c] = End /\ End' = End + 1 /\ End + 1 \in Slots
      BY <2>10, PutEntryAtEnd, EndType
    <3>1. End' = End + 1 /\ \A j \in 0..End : tables'[j] = tables[j]
      BY <1>0, <2>10, <3>0 DEF PutEntry, TypeOK
    <3>2. \A d \in Clients : pc'[d] = pc[d] \/ pc'[d] = "truncHead"
      BY <2>10 DEF PutEntry, Goto, TypeOK
    <3> QED BY <1>0, <2>10, <3>1, <3>2, ReadsKept
        DEF PutEntry, caches, locals, Pending, Loaded
  <2>11. CASE PutConflict(c)
    <3>1. CASE Return(c)
      BY <1>0, <1>3, <2>11, <3>1 DEF PutConflict, caches
    <3>2. CASE ~Return(c)
      BY <1>4, <2>11, <3>2 DEF PutConflict, Goto, TypeOK, Pending, Loaded, history
    <3> QED BY <3>1, <3>2
  <2>12. CASE TruncHead(c) \/ WriteHead(c)
    <3>1. End' = End
      <4>1. CASE TruncHead(c)
        BY <4>1 DEF TruncHead, End, TypeOK
      <4>2. CASE WriteHead(c)
        BY <4>2, WriteHeadAtEnd
      <4> QED BY <2>12, <4>1, <4>2
    <3>2. \A d \in Clients : pc'[d] = pc[d] \/ pc'[d] \in {"writeHead", "reset"}
      BY <2>12 DEF TruncHead, WriteHead, Goto, TypeOK
    <3>3. UNCHANGED <<caches, locals, history>>
      BY <2>12 DEF TruncHead, WriteHead
    <3> QED BY <1>0, <3>1, <3>2, <3>3, ReadsKept
        DEF caches, locals, history, Pending, Loaded
  <2>13. CASE ResetAt(c)
    <3>1. acked <= acked'
      BY <1>0, <2>13 DEF ResetAt, TypeOK
    <3> QED BY <1>3, <2>13, <3>1 DEF ResetAt
  <2> QED BY <1>5, <2>1, <2>2, <2>3, <2>4, <2>5, <2>6, <2>7, <2>8, <2>9, <2>10, <2>11,
             <2>12, <2>13 DEF Step
<1> QED BY <1>1, <1>2, <1>5, BeginReadReads, CrashReads DEF Next
-------------------------------------------------------------------------------
(* The invariant is inductive.  It holds for every number of processes and *)
(* goroutines, every set of updates and every pattern of crashes of        *)
(* lake/journal on an engine with exclusive creation.                      *)
THEOREM JournalInvariant == Spec => []IndInv
<1>1. Init => IndInv
  BY InitJournal, InitTables DEF IndInv
<1>2. IndInv /\ [Next]_vars => IndInv'
  <2> SUFFICES ASSUME IndInv, [Next]_vars PROVE IndInv'
    OBVIOUS
  <2>1. JournalInv'
    BY NextJournal DEF IndInv
  <2>2. SnapFits => TablesInv'
    BY <2>1, NextTables DEF IndInv
  <2> QED BY <2>1, <2>2 DEF IndInv
<1> QED BY <1>1, <1>2, PTL DEF Spec

(* Every variable of the journal store keeps its type. *)
THEOREM TypeCorrect == Spec => []TypeOK
<1>1. IndInv => TypeOK
  BY DEF IndInv, JournalInv
<1> QED BY <1>1, JournalInvariant, PTL

(* The journal never has a hole and HEAD is at most one entry behind its   *)
(* end (CommitAt), whatever crashes.                                       *)
THEOREM JournalIsDense == Spec => []JournalDense
<1>1. IndInv => JournalDense
  BY DEF IndInv, JournalInv
<1> QED BY <1>1, JournalInvariant, PTL

(* Commits of a store whose snapshots fit in one frame are serializable:   *)
(* each met its condition on the table produced by the entries before it   *)
(* (commit, commitWithConstraint).                                         *)
THEOREM JournalSerializable == SnapFits /\ Spec => []Serializable
<1> SUFFICES ASSUME SnapFits PROVE Spec => []Serializable
  OBVIOUS
<1>1. IndInv => Serializable
  BY DEF IndInv, TablesInv
<1> QED BY <1>1, JournalInvariant, PTL

(* No step overwrites an entry or moves HEAD back (CommitAt, writeHead). *)
THEOREM JournalOnlyGrows == Spec => JournalGrows
<1>1. IndInv /\ [Next]_vars =>
        [/\ head'.id >= head.id
         /\ \A n \in Slots : entry[n] # NoEntry => entry'[n] = entry[n]]_vars
  <2> SUFFICES ASSUME JournalInv, Next
               PROVE  /\ head'.id >= head.id
                      /\ \A n \in Slots : entry[n] # NoEntry => entry'[n] = entry[n]
    BY DEF IndInv
  <2>0. head.id \in Nat /\ entry \in [Slots -> WOps \cup {NoEntry}]
    BY DEF JournalInv, TypeOK
  <2>1. CASE UNCHANGED <<entry, head>>
    BY <2>0, <2>1
  <2>2. ASSUME NEW c \in Clients, PutEntry(c)
        PROVE  /\ head'.id >= head.id
               /\ \A n \in Slots : entry[n] # NoEntry => entry'[n] = entry[n]
    BY <2>0, <2>2 DEF PutEntry
  <2>3. ASSUME NEW c \in Clients, TruncHead(c)
        PROVE  /\ head'.id >= head.id
               /\ \A n \in Slots : entry[n] # NoEntry => entry'[n] = entry[n]
    BY <2>0, <2>3 DEF TruncHead, JournalInv, TypeOK
  <2>4. ASSUME NEW c \in Clients, WriteHead(c)
        PROVE  /\ head'.id >= head.id
               /\ \A n \in Slots : entry[n] # NoEntry => entry'[n] = entry[n]
    <3>1. head'.id = head.id + 1
      BY <2>4, WriteHeadAtEnd
    <3> QED BY <2>0, <2>4, <3>1 DEF WriteHead
  <2>5. \/ UNCHANGED <<entry, head>>
        \/ \E c \in Clients : PutEntry(c) \/ TruncHead(c) \/ WriteHead(c)
    <3>1. CASE \E c \in Clients : BeginRead(c)
      BY <3>1 DEF BeginRead, files
    <3>2. CASE \E c \in Clients, o \in WOps : BeginUpdate(c, o)
      BY <3>2 DEF BeginUpdate, files
    <3>3. CASE \E s \in Stores : Crash(s)
      BY <3>3 DEF Crash, files
    <3>4. CASE \E c \in Clients : Step(c)
      BY <3>4 DEF Step, files, ReadHead, ReadHeadFails, CompareHead, GetSnapshot,
         ReopenAtHead, ReplayEntry, Publish, TruncSnapshot, WriteSnapshotFrame,
         WriteSnapshot, ReturnTable, CheckCondition, PutConflict, ResetAt
    <3> QED BY <3>1, <3>2, <3>3, <3>4 DEF Next
  <2> QED BY <2>1, <2>2, <2>3, <2>4, <2>5
<1> QED BY <1>1, JournalInvariant, PTL DEF Spec, JournalGrows

(* A read that begins after a commit was acknowledged sees that commit,    *)
(* for every number of goroutines and processes: what it returns is not    *)
(* older than the commit, or than the HEAD that an older load of the same  *)
(* process had read when the read began (load, All).                       *)
THEOREM ReadsAreCurrent == SnapFits /\ Spec => ReadsSeeAcked
<1> SUFFICES ASSUME SnapFits PROVE Spec => ReadsSeeAcked
  OBVIOUS
<1>1. Init => ReadInv
  BY BoundsAssumption DEF Init, ReadInv, Nil, Pending, Loaded
<1>2. IndInv /\ IndInv' /\ ReadInv /\ [Next]_vars => ReadInv'
  BY NextReads DEF IndInv
<1>3. ReadInv => [\A c \in Clients : Reads(c) /\ crashes' = crashes =>
                    NotOlderThan(storeTable[StoreOf[c]], low[c])]_vars
  BY DEF ReadInv, Reads, Loaded
<1> QED BY <1>1, <1>2, <1>3, JournalInvariant, PTL DEF Spec, ReadsSeeAcked

(* The journal store implements the atomic key-value store of KVStore:     *)
(* each writeHead is one conditional update of the table at HEAD, and no   *)
(* other step changes that table.                                          *)
THEOREM JournalRefinesKV == SnapFits /\ Spec => ImplementsKV
<1> SUFFICES ASSUME SnapFits PROVE Spec => KV!Spec
  BY DEF ImplementsKV
<1>1. Init => KV!Init
  BY BoundsAssumption DEF Init, KV!Init, KV!EmptyTable, EmptyTable, Nil
<1>2. IndInv /\ IndInv' /\ [Next]_vars => [KV!Next]_(tables[head.id])
  <2> SUFFICES ASSUME JournalInv, TablesInv, JournalInv', [Next]_vars
               PROVE  \/ \E o \in WOps : KV!Commit(o)
                      \/ tables'[head'.id] = tables[head.id]
    BY DEF IndInv, KV!Next
  <2>1. CASE UNCHANGED <<tables, head>>
    BY <2>1
  <2>2. ASSUME NEW c \in Clients, PutEntry(c)
        PROVE  tables'[head'.id] = tables[head.id]
    <3>1. at[c] = head.id /\ head.id \in 0..MaxLog /\ head' = head
      BY <2>2, PutEntryAtEnd, EndType DEF JournalInv, PutEntry
    <3>2. at[c] + 1 # head.id
      BY <3>1
    <3>3. tables \in [0..MaxLog -> Table]
      BY DEF JournalInv, TypeOK
    <3>4. tables'[head.id] = tables[head.id]
      BY <2>2, <3>1, <3>2, <3>3 DEF PutEntry
    <3> QED BY <3>1, <3>4
  <2>3. ASSUME NEW c \in Clients, TruncHead(c)
        PROVE  tables'[head'.id] = tables[head.id]
    BY <2>3 DEF TruncHead, history, JournalInv, TypeOK
  <2>4. ASSUME NEW c \in Clients, WriteHead(c)
        PROVE  \E o \in WOps : KV!Commit(o)
    <3> DEFINE n == head.id + 1
    <3>1. head'.id = n /\ End = n /\ n \in 1..End /\ n - 1 = head.id /\ n \in Slots
      BY <2>4, WriteHeadAtEnd, EndType, BoundsAssumption DEF JournalInv, Slots
    <3>2. entry[n] # NoEntry
      BY <3>1, EndType DEF JournalInv, JournalDense
    <3>3. entry[n] \in WOps
      BY <3>1, <3>2 DEF JournalInv, TypeOK
    <3>4. Admissible(tables[head.id], entry[n])
      BY <3>1 DEF TablesInv, Serializable
    <3>5. tables[n] = Apply(tables[head.id], entry[n])
      BY <3>1 DEF JournalInv, ChainInv
    <3>6. tables' = tables
      BY <2>4 DEF WriteHead, history
    <3>7. KV!Commit(entry[n])
      BY <3>1, <3>4, <3>5, <3>6 DEF KV!Commit, KV!Admissible, KV!Apply, Admissible, Apply
    <3> QED BY <3>3, <3>7
  <2>5. \/ UNCHANGED <<tables, head>>
        \/ \E c \in Clients : PutEntry(c) \/ TruncHead(c) \/ WriteHead(c)
    <3>1. CASE UNCHANGED vars
      BY <3>1 DEF vars, files, history
    <3>2. CASE \E c \in Clients : BeginRead(c)
      BY <3>2 DEF BeginRead, files
    <3>3. CASE \E c \in Clients, o \in WOps : BeginUpdate(c, o)
      BY <3>3 DEF BeginUpdate, files, history
    <3>4. CASE \E s \in Stores : Crash(s)
      BY <3>4 DEF Crash, files
    <3>5. CASE \E c \in Clients : Step(c)
      BY <3>5 DEF Step, files, history, ReadHead, ReadHeadFails, CompareHead, GetSnapshot,
         ReopenAtHead, ReplayEntry, Publish, TruncSnapshot, WriteSnapshotFrame,
         WriteSnapshot, ReturnTable, CheckCondition, PutConflict, ResetAt
    <3> QED BY <3>1, <3>2, <3>3, <3>4, <3>5 DEF Next
  <2> QED BY <2>1, <2>2, <2>3, <2>4, <2>5
<1> QED BY <1>1, <1>2, JournalInvariant, PTL DEF Spec, KV!Spec
===============================================================================
