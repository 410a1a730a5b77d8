--------------------------- MODULE LakeServiceProofs ---------------------------
(***************************************************************************)
(* Proofs about LakeService, for every number of requests of each kind,    *)
(* and about LakePools, the pools behind it, for every number of clients,  *)
(* names and pools.                                                        *)
(***************************************************************************)
EXTENDS LakeService, LakePools, FiniteSetTheorems, TLAPS

(* The two halves of TypeOK. *)
EventTypes ==
    /\ subscriptions \subseteq Subs
    /\ writer \in Subs \cup {None}
    /\ opPC \in [Ops -> {"idle", "rlock", "blocked", "sending", "end"}]
    /\ todo \in [Ops -> Seq(Subs)]
    /\ subPC \in [Subs -> {"idle", "add", "loop", "writing", "del", "gone"}]
    /\ got \in [Subs -> SUBSET Ops]
    /\ cancelled \subseteq Subs \cup Queries
    /\ stalled \subseteq Subs \cup Queries
    /\ workload \in Workloads

QueryTypes ==
    /\ runningQueries \in [IDs -> Queries \cup {None}]
    /\ qPC \in [Queries -> {"idle", "loop", "write", "progress", "last", "error", "return",
                           "close", "end"}]
    /\ puller \in [Queries -> {"idle", "pull", "send", "end"}]
    /\ result \in [Queries -> {"none", "batch", "eos", "err", "empty"}]
    /\ produced \in [Queries -> 0..MaxBatches]
    /\ form \in [Queries -> Forms]
    /\ sent \in [Queries -> 0..MaxBatches]
    /\ buffered \in [Queries -> 0..MaxBatches]
    /\ qerr \in [Queries -> BOOLEAN]
    /\ expiring \subseteq Queries
    /\ stPC \in [StatusReqs -> {"idle", "wait", "answered", "notfound"}]
    /\ stQ \in [StatusReqs -> Queries \cup {None}]

LEMMA TypeHalves == TypeOK <=> EventTypes /\ QueryTypes
  BY DEF TypeOK, EventTypes, QueryTypes

(* The order in which a map is visited is a sequence of its elements. *)
LEMMA OrdersAreSequences ==
    ASSUME NEW S \in SUBSET Subs
    PROVE  SetToSeqs(S) \subseteq Seq(Subs)
<1>1. IsFiniteSet(S)
  BY SubsAssumption, FS_Subset
<1>2. Cardinality(S) \in Nat
  BY <1>1, FS_CardinalityType
<1> SUFFICES ASSUME NEW f \in [1..Cardinality(S) -> S] PROVE f \in Seq(Subs)
  BY DEF SetToSeqs
<1> QED BY <1>2

-------------------------------------------------------------------------------
(* The types of the event feed. *)
LEMMA EventTypesInit == Init => EventTypes
  BY DEF Init, EventTypes

(* Unlock lets the blocked readers in: they start on the changed map. *)
LEMMA EventTypesLockedUpdate ==
    ASSUME EventTypes, NEW s \in Subs, LockedUpdate(s)
    PROVE  EventTypes'
<1> USE DEF EventTypes, LockedUpdate
<1>1. subscriptions' \subseteq Subs
  OBVIOUS
<1>2. opPC' \in [Ops -> {"idle", "rlock", "blocked", "sending", "end"}]
  OBVIOUS
<1>3. todo' \in [Ops -> Seq(Subs)]
  <2>1. PICK order \in [{o \in Ops : opPC[o] = "blocked"} -> SetToSeqs(subscriptions')] :
          todo' = [o \in Ops |-> IF opPC[o] = "blocked" THEN order[o] ELSE todo[o]]
    OBVIOUS
  <2>2. SetToSeqs(subscriptions') \subseteq Seq(Subs)
    BY <1>1, OrdersAreSequences
  <2>3. \A o \in Ops : opPC[o] = "blocked" => order[o] \in Seq(Subs)
    BY <2>2
  <2> QED BY <2>1, <2>3
<1>4. subPC' \in [Subs -> {"idle", "add", "loop", "writing", "del", "gone"}]
  OBVIOUS
<1>5. writer' = None /\ UNCHANGED <<got, cancelled, stalled, workload>>
  BY DEF clientVars
<1> QED BY <1>1, <1>2, <1>3, <1>4, <1>5

(* The steps of a query and of its handler leave the event feed alone. *)
QuerySteps(q) ==
    \/ StartQuery(q) \/ PullReturns(q) \/ ReceiveResult(q) \/ Tick(q) \/ WriteBatch(q)
    \/ WriteControl(q) \/ SignalDone(q) \/ CloseWriter(q) \/ RemoveStatus(q)

LEMMA QueryStepsKeepEvents ==
    ASSUME NEW q \in Queries, QuerySteps(q)
    PROVE  UNCHANGED eventVars
  BY DEF QuerySteps, StartQuery, PullReturns, ReceiveResult, Tick, WriteBatch, WriteControl,
         SignalDone, CloseWriter, RemoveStatus

LEMMA EventTypesNext == EventTypes /\ [Next]_vars => EventTypes'
<1> SUFFICES ASSUME EventTypes, [Next]_vars PROVE EventTypes'
  OBVIOUS
<1>1. CASE UNCHANGED eventVars
  BY <1>1 DEF EventTypes, eventVars, feedVars, clientVars
<1>2. ASSUME NEW o \in Ops, RLock(o)
      PROVE  EventTypes'
  <2>1. SetToSeqs(subscriptions) \subseteq Seq(Subs)
    BY OrdersAreSequences DEF EventTypes
  <2>2. todo' \in [Ops -> Seq(Subs)]
    BY <1>2, <2>1 DEF RLock, EventTypes
  <2>3. opPC' \in [Ops -> {"idle", "rlock", "blocked", "sending", "end"}]
    BY <1>2 DEF RLock, EventTypes
  <2> QED BY <1>2, <2>2, <2>3 DEF RLock, EventTypes, clientVars
<1>3. ASSUME NEW o \in Ops, LakeOp(o) \/ RUnlock(o)
      PROVE  EventTypes'
  BY <1>3 DEF LakeOp, RUnlock, EventTypes, clientVars
<1>4. ASSUME NEW o \in Ops, Send(o)
      PROVE  EventTypes'
  <2>1. Head(todo[o]) \in Subs /\ Tail(todo[o]) \in Seq(Subs)
    BY <1>4 DEF Send, EventTypes
  <2> QED BY <1>4, <2>1 DEF Send, EventTypes, clientVars
<1>5. ASSUME NEW s \in Subs, LockedUpdate(s)
      PROVE  EventTypes'
  BY <1>5, EventTypesLockedUpdate
<1>6. ASSUME NEW s \in Subs, \/ AnnounceLock(s) \/ WriteEvent(s) \/ SeeDone(s)
                             \/ Subscribe(s)
      PROVE  EventTypes'
  BY <1>6 DEF AnnounceLock, WriteEvent, SeeDone, Subscribe, EventTypes, clientVars
<1>7. ASSUME NEW r \in Subs \cup Queries, Disconnect(r) \/ StopReading(r)
      PROVE  EventTypes'
  BY <1>7 DEF Disconnect, StopReading, EventTypes, feedVars
<1>8. ASSUME NEW q \in Queries, QuerySteps(q)
      PROVE  UNCHANGED eventVars
  BY <1>8, QueryStepsKeepEvents
<1>9. ASSUME NEW t \in StatusReqs, AnswerStatus(t) \/ \E i \in IDs : AskStatus(t, i)
      PROVE  UNCHANGED eventVars
  BY <1>9 DEF AnswerStatus, AskStatus
<1>10. CASE UNCHANGED vars
  BY <1>10, <1>1 DEF vars
<1> QED
  BY <1>1, <1>2, <1>3, <1>4, <1>5, <1>6, <1>7, <1>8, <1>9, <1>10
     DEF Next, EventStep, QueryStep, Environment, QuerySteps

-------------------------------------------------------------------------------
(* No query has begun. *)
LEMMA QueryInit == Init => QueryTypes /\ QueryInv /\ StatusInv
<1> SUFFICES ASSUME Init PROVE QueryTypes /\ QueryInv /\ StatusInv
  OBVIOUS
<1>1. QueryTypes
  BY MaxBatchesAssumption DEF Init, QueryTypes, Forms
<1>2. QueryInv
  BY DEF Init, QueryInv, InWrite
<1>3. StatusInv
  BY DEF Init, StatusInv
<1> QED BY <1>1, <1>2, <1>3

(* The parts of the invariant that are about queries. *)
QueriesInv == QueryTypes /\ QueryInv /\ StatusInv

LEMMA QueryUnchanged ==
    ASSUME QueriesInv, UNCHANGED queryVars
    PROVE  QueriesInv'
  BY DEF QueriesInv, QueryTypes, QueryInv, StatusInv, InFlight, InWrite, queryVars,
         responseVars, statusVars

(* What a step of query q does not touch of another query is as before. *)
QueryFrame(q) ==
    \A p \in Queries : p # q =>
        /\ qPC'[p] = qPC[p] /\ puller'[p] = puller[p] /\ result'[p] = result[p]
        /\ produced'[p] = produced[p] /\ form'[p] = form[p] /\ sent'[p] = sent[p]
        /\ buffered'[p] = buffered[p] /\ qerr'[p] = qerr[p]

(* QueryInv speaks of one query at a time. *)
QueryOK(q) ==
    /\ form[q].buffers \/ buffered[q] = 0
    /\ qPC[q] = "idle" => puller[q] = "idle" /\ produced[q] = 0
    /\ qPC[q] \notin {"return", "close", "end"} => ~qerr[q]
    /\ puller[q] = "send" => result[q] # "none"
    /\ sent[q] + buffered[q] + InWrite(q) <= produced[q]
    /\ qPC[q] \in {"loop", "write", "progress"} =>
          /\ puller[q] \in {"pull", "send"}
          /\ sent[q] + buffered[q] + InWrite(q) + InFlight(q) = produced[q]
    /\ qPC[q] \in {"last", "return", "close", "end"} /\ ~qerr[q] =>
          /\ puller[q] = "end" /\ result[q] \in {"eos", "empty"}
          /\ sent[q] + buffered[q] = produced[q]

LEMMA QueryInvEach == QueryInv <=> \A q \in Queries : QueryOK(q)
  BY DEF QueryInv, QueryOK

LEMMA QueryInvOfOne ==
    ASSUME QueryInv, NEW q \in Queries, QueryFrame(q), QueryOK(q)'
    PROVE  QueryInv'
<1> SUFFICES ASSUME NEW p \in Queries, p # q PROVE QueryOK(p)'
  BY DEF QueryInv, QueryOK
<1>1. QueryOK(p)
  BY QueryInvEach
<1> QED BY <1>1 DEF QueryFrame, QueryOK, InWrite, InFlight

(* A status that was answered is that of a query which is done, and stays so. *)
LEMMA StatusInvOfOne ==
    ASSUME StatusInv, NEW q \in Queries, QueryFrame(q), UNCHANGED <<stPC, stQ>>,
           qPC[q] \in {"close", "end"} => qPC'[q] \in {"close", "end"}
    PROVE  StatusInv'
  BY DEF StatusInv, QueryFrame

(* A query of handleQuery is registered and its goroutine started. *)
LEMMA QueryStart ==
    ASSUME QueriesInv, NEW q \in Queries, StartQuery(q)
    PROVE  QueriesInv'
<1> USE DEF QueriesInv, StartQuery, statusVars
<1>1. PICK f \in Forms : form' = [form EXCEPT ![q] = f]
  OBVIOUS
<1>2. QueryTypes'
  <2>1. IDOf[q] \in IDs
    BY DEF IDs
  <2> QED BY <1>1, <2>1 DEF QueryTypes
<1>3. QueryFrame(q)
  BY <1>1 DEF QueryTypes, QueryFrame
<1>4. QueryOK(q)'
  <2>1. QueryOK(q) /\ sent[q] \in Nat /\ buffered[q] \in Nat /\ qPC[q] = "idle"
    BY QueryInvEach DEF QueryTypes
  <2>2. sent[q] = 0 /\ buffered[q] = 0 /\ produced[q] = 0 /\ ~qerr[q]
    BY <2>1 DEF QueryOK, InWrite
  <2>3. /\ qPC'[q] = "loop" /\ puller'[q] = "pull"
        /\ UNCHANGED <<sent, buffered, produced, qerr>>
    BY DEF QueryTypes
  <2> QED BY <2>2, <2>3 DEF QueryOK, InWrite, InFlight
<1> QED BY <1>2, <1>3, <1>4, QueryInvOfOne, StatusInvOfOne

(* The flowgraph gives the Pull goroutine a result. *)
LEMMA QueryPullReturns ==
    ASSUME QueriesInv, NEW q \in Queries, PullReturns(q)
    PROVE  QueriesInv'
<1> USE DEF QueriesInv
<1>1. PICK r \in {"batch", "eos", "err", "empty"} :
        /\ r = "batch" => produced[q] < MaxBatches
        /\ result' = [result EXCEPT ![q] = r]
        /\ produced' = [produced EXCEPT ![q] = IF r = "batch" THEN @ + 1 ELSE @]
  BY DEF PullReturns
<1>2. /\ puller[q] = "pull"
      /\ puller' = [puller EXCEPT ![q] = "send"]
      /\ UNCHANGED <<runningQueries, qPC, form, sent, buffered, qerr, expiring, stPC, stQ>>
  BY DEF PullReturns, responseVars, statusVars
<1>3. QueryTypes'
  <2>1. produced' \in [Queries -> 0..MaxBatches]
    BY <1>1, MaxBatchesAssumption DEF QueryTypes
  <2> QED BY <1>1, <1>2, <2>1 DEF QueryTypes
<1>4. QueryFrame(q)
  BY <1>1, <1>2 DEF QueryTypes, QueryFrame
<1>5. QueryOK(q)'
  <2>1. /\ QueryOK(q)
        /\ sent[q] \in Nat /\ buffered[q] \in Nat /\ produced[q] \in Nat
    BY QueryInvEach DEF QueryTypes
  <2>2. /\ puller'[q] = "send" /\ result'[q] = r
        /\ produced'[q] = IF r = "batch" THEN produced[q] + 1 ELSE produced[q]
    BY <1>1, <1>2 DEF QueryTypes
  <2>3. /\ InFlight(q) = 0 /\ InFlight(q)' = IF r = "batch" THEN 1 ELSE 0
        /\ InWrite(q)' = InWrite(q) /\ InWrite(q) \in {0, 1}
    BY <1>2, <2>2 DEF InFlight, InWrite
  <2> QED BY <1>2, <2>1, <2>2, <2>3 DEF QueryOK
<1> QED BY <1>2, <1>3, <1>4, <1>5, QueryInvOfOne, StatusInvOfOne

(* The handler receives a result, or sees the ticker. *)
LEMMA QueryReceive ==
    ASSUME QueriesInv, NEW q \in Queries, ReceiveResult(q) \/ Tick(q)
    PROVE  QueriesInv'
<1> USE DEF QueriesInv
<1>1. /\ UNCHANGED <<runningQueries, result, produced, form, sent, buffered, qerr, expiring,
                     stPC, stQ>>
      /\ qPC[q] = "loop"
  BY DEF ReceiveResult, Tick, responseVars, statusVars
<1>2. /\ QueryOK(q) /\ result[q] \in {"none", "batch", "eos", "err", "empty"}
      /\ sent[q] \in Nat /\ buffered[q] \in Nat /\ produced[q] \in Nat
  BY QueryInvEach DEF QueryTypes
<1>3. CASE ReceiveResult(q)
  <2>1. /\ puller[q] = "send"
        /\ puller' = [puller EXCEPT ![q] = IF result[q] = "batch" THEN "pull" ELSE "end"]
        /\ qPC' = [qPC EXCEPT ![q] = After(result[q])]
        /\ After(result[q]) \in {"write", "last", "error", "return"}
    BY <1>3 DEF ReceiveResult, After
  <2>2. QueryTypes'
    BY <1>1, <2>1 DEF QueryTypes
  <2>3. QueryFrame(q)
    BY <1>1, <2>1 DEF QueryTypes, QueryFrame
  <2>4. /\ puller'[q] = IF result[q] = "batch" THEN "pull" ELSE "end"
        /\ qPC'[q] = After(result[q])
    BY <2>1 DEF QueryTypes
  <2>5. QueryOK(q)'
    <3>1. CASE result[q] = "batch"
      BY <1>1, <1>2, <2>1, <2>4, <3>1 DEF QueryOK, InWrite, InFlight, After
    <3>2. CASE result[q] = "eos"
      BY <1>1, <1>2, <2>1, <2>4, <3>2 DEF QueryOK, InWrite, InFlight, After
    <3>3. CASE result[q] = "err"
      BY <1>1, <1>2, <2>1, <2>4, <3>3 DEF QueryOK, InWrite, InFlight, After
    <3>4. CASE result[q] = "empty"
      BY <1>1, <1>2, <2>1, <2>4, <3>4 DEF QueryOK, InWrite, InFlight, After
    <3>5. result[q] # "none"
      BY <1>2, <2>1 DEF QueryOK
    <3> QED BY <1>2, <3>1, <3>2, <3>3, <3>4, <3>5
  <2> QED BY <1>1, <2>2, <2>3, <2>5, QueryInvOfOne, StatusInvOfOne
<1>4. CASE Tick(q)
  <2>1. qPC' = [qPC EXCEPT ![q] = "progress"] /\ puller' = puller
    BY <1>4 DEF Tick
  <2>2. QueryTypes' /\ QueryFrame(q)
    BY <1>1, <2>1 DEF QueryTypes, QueryFrame
  <2>3. QueryOK(q)'
    BY <1>1, <1>2, <2>1 DEF QueryOK, InWrite, InFlight, QueryTypes
  <2> QED BY <1>1, <2>2, <2>3, QueryInvOfOne, StatusInvOfOne
<1> QED BY <1>3, <1>4

(* A batch goes to the response or to the buffer, or an error is handled. *)
LEMMA QueryWriteBatch ==
    ASSUME QueriesInv, NEW q \in Queries, WriteBatch(q)
    PROVE  QueriesInv'
<1> USE DEF QueriesInv
<1>1. /\ UNCHANGED <<runningQueries, puller, result, produced, form, qerr, expiring, stPC,
                     stQ>>
      /\ qPC[q] = "write"
  BY DEF WriteBatch, statusVars
<1>2. /\ QueryOK(q) /\ sent[q] \in Nat /\ buffered[q] \in Nat
      /\ produced[q] \in 0..MaxBatches
  BY QueryInvEach DEF QueryTypes
<1>3. sent[q] + buffered[q] + 1 <= produced[q]
  BY <1>1, <1>2 DEF QueryOK, InWrite
<1>4. ASSUME NEW left \in {0, 1, buffered[q] + 1}, left > 0 => form[q].buffers,
             qPC' = [qPC EXCEPT ![q] = "loop"],
             sent' = [sent EXCEPT ![q] = @ + buffered[q] + 1 - left],
             buffered' = [buffered EXCEPT ![q] = left]
      PROVE  QueriesInv'
  <2>1. /\ left \in Nat /\ left <= buffered[q] + 1
        /\ sent[q] + buffered[q] + 1 - left \in 0..MaxBatches
        /\ left \in 0..MaxBatches
    BY <1>2, <1>3, <1>4, MaxBatchesAssumption
  <2>2. QueryTypes' /\ QueryFrame(q)
    BY <1>1, <1>4, <2>1 DEF QueryTypes, QueryFrame
  <2>3. /\ qPC'[q] = "loop" /\ buffered'[q] = left
        /\ sent'[q] = sent[q] + buffered[q] + 1 - left
    BY <1>4 DEF QueryTypes
  <2>4. sent'[q] + buffered'[q] = sent[q] + buffered[q] + 1
    BY <1>2, <2>1, <2>3
  <2>5. /\ InWrite(q) = 1 /\ InWrite(q)' = 0 /\ InFlight(q)' = InFlight(q)
        /\ InFlight(q) \in {0, 1} /\ sent'[q] \in Nat /\ buffered'[q] \in Nat
    BY <1>1, <2>1, <2>3 DEF InWrite, InFlight
  <2>6. QueryOK(q)'
    <3>1. form'[q].buffers \/ buffered'[q] = 0
      BY <1>1, <1>4, <2>1, <2>3
    <3> QED BY <1>1, <1>2, <2>3, <2>4, <2>5, <3>1 DEF QueryOK
  <2> QED BY <1>1, <2>2, <2>6, QueryInvOfOne, StatusInvOfOne
<1>5. ASSUME qPC' = [qPC EXCEPT ![q] = "error"], UNCHANGED <<sent, buffered>>
      PROVE  QueriesInv'
  <2>1. QueryTypes' /\ QueryFrame(q) /\ qPC'[q] = "error"
    BY <1>1, <1>5 DEF QueryTypes, QueryFrame
  <2>2. QueryOK(q)'
    BY <1>1, <1>2, <1>3, <1>5, <2>1 DEF QueryOK, InWrite
  <2> QED BY <1>1, <2>1, <2>2, QueryInvOfOne, StatusInvOfOne
<1> QED BY <1>4, <1>5 DEF WriteBatch

(* A flush moves batches from the buffer to the response. *)
LEMMA FlushKeeps ==
    ASSUME QueriesInv, NEW q \in Queries, Flush(q) \/ UNCHANGED <<sent, buffered>>
    PROVE  /\ sent' \in [Queries -> 0..MaxBatches]
           /\ buffered' \in [Queries -> 0..MaxBatches]
           /\ \A p \in Queries : p # q => sent'[p] = sent[p] /\ buffered'[p] = buffered[p]
           /\ sent'[q] + buffered'[q] = sent[q] + buffered[q]
           /\ buffered[q] = 0 => buffered'[q] = 0
<1> USE DEF QueriesInv
<1>1. /\ QueryOK(q) /\ sent[q] \in Nat /\ buffered[q] \in Nat
      /\ produced[q] \in 0..MaxBatches
  BY QueryInvEach DEF QueryTypes
<1>2. CASE /\ sent' = [sent EXCEPT ![q] = @ + buffered[q]]
           /\ buffered' = [buffered EXCEPT ![q] = 0]
  <2>1. sent[q] + buffered[q] \in 0..MaxBatches
    BY <1>1, MaxBatchesAssumption DEF QueryOK, InWrite
  <2> QED BY <1>1, <1>2, <2>1, MaxBatchesAssumption DEF QueryTypes
<1>3. CASE UNCHANGED <<sent, buffered>>
  BY <1>3 DEF QueryTypes
<1> QED BY <1>2, <1>3 DEF Flush

(* A control message is written or not; after an error the handler returns. *)
LEMMA QueryWriteControl ==
    ASSUME QueriesInv, NEW q \in Queries, WriteControl(q)
    PROVE  QueriesInv'
<1> USE DEF QueriesInv
<1>1. /\ UNCHANGED <<runningQueries, puller, result, produced, form, expiring, stPC, stQ>>
      /\ qPC[q] \in {"progress", "last", "error"}
      /\ Flush(q) \/ UNCHANGED <<sent, buffered>>
      /\ qerr' = [qerr EXCEPT ![q] = qPC[q] = "error"]
  BY DEF WriteControl, statusVars
<1>2. PICK fails \in BOOLEAN :
        qPC' = [qPC EXCEPT ![q] = IF @ # "error" /\ fails THEN "error"
                                  ELSE IF @ = "progress" THEN "loop" ELSE "return"]
  BY DEF WriteControl
<1>3. /\ sent' \in [Queries -> 0..MaxBatches]
      /\ buffered' \in [Queries -> 0..MaxBatches]
      /\ \A p \in Queries : p # q => sent'[p] = sent[p] /\ buffered'[p] = buffered[p]
      /\ sent'[q] + buffered'[q] = sent[q] + buffered[q]
      /\ buffered[q] = 0 => buffered'[q] = 0
  BY <1>1, FlushKeeps
<1>4. qerr' \in [Queries -> BOOLEAN]
  BY <1>1, Zenon DEF QueryTypes
<1>5. QueryTypes'
  BY <1>1, <1>2, <1>3, <1>4 DEF QueryTypes
<1>6. QueryFrame(q)
  BY <1>1, <1>2, <1>3 DEF QueryTypes, QueryFrame
<1>7. QueryOK(q)'
  <2>1. QueryOK(q)
    BY QueryInvEach
  <2>2. /\ qPC'[q] = IF qPC[q] # "error" /\ fails THEN "error"
                     ELSE IF qPC[q] = "progress" THEN "loop" ELSE "return"
        /\ qerr'[q] <=> qPC[q] = "error"
    BY <1>1, <1>2 DEF QueryTypes
  <2>3. /\ InWrite(q) = 0 /\ InWrite(q)' = 0 /\ InFlight(q)' = InFlight(q)
    BY <1>1, <2>2 DEF InWrite, InFlight
  <2>4. /\ sent[q] \in Nat /\ buffered[q] \in Nat /\ sent'[q] \in Nat
        /\ buffered'[q] \in Nat /\ produced[q] \in Nat /\ InFlight(q) \in {0, 1}
    BY <1>3 DEF QueryTypes, InFlight
  <2>5. form'[q].buffers \/ buffered'[q] = 0
    BY <1>1, <1>3, <2>1 DEF QueryOK
  <2>6. CASE qPC[q] = "progress"
    BY <1>1, <1>3, <2>1, <2>2, <2>3, <2>4, <2>5, <2>6 DEF QueryOK
  <2>7. CASE qPC[q] = "last"
    BY <1>1, <1>3, <2>1, <2>2, <2>3, <2>4, <2>5, <2>7 DEF QueryOK
  <2>8. CASE qPC[q] = "error"
    BY <1>1, <1>3, <2>1, <2>2, <2>3, <2>4, <2>5, <2>8 DEF QueryOK
  <2> QED BY <1>1, <2>6, <2>7, <2>8
<1> QED BY <1>1, <1>5, <1>6, <1>7, QueryInvOfOne, StatusInvOfOne

(* The handler goes through its deferred calls. *)
LEMMA QueryLeave ==
    ASSUME QueriesInv, NEW q \in Queries, SignalDone(q) \/ CloseWriter(q) \/ RemoveStatus(q)
    PROVE  QueriesInv'
<1> USE DEF QueriesInv
<1>1. QueryOK(q)
  BY QueryInvEach
<1>2. CASE SignalDone(q)
  <2> USE <1>2 DEF SignalDone, responseVars, statusVars
  <2>1. QueryTypes' /\ QueryFrame(q) /\ qPC[q] = "return" /\ qPC'[q] = "close"
    BY DEF QueryTypes, QueryFrame
  <2>2. QueryOK(q)'
    BY <1>1, <2>1 DEF QueryOK, InWrite, InFlight
  <2> QED BY <2>1, <2>2, QueryInvOfOne, StatusInvOfOne
<1>3. CASE CloseWriter(q)
  <2> USE <1>3 DEF CloseWriter, statusVars
  <2>1. /\ sent' \in [Queries -> 0..MaxBatches]
        /\ buffered' \in [Queries -> 0..MaxBatches]
        /\ \A p \in Queries : p # q => sent'[p] = sent[p] /\ buffered'[p] = buffered[p]
        /\ sent'[q] + buffered'[q] = sent[q] + buffered[q]
        /\ buffered[q] = 0 => buffered'[q] = 0
    BY FlushKeeps
  <2>2. QueryTypes' /\ QueryFrame(q) /\ qPC[q] = "close" /\ qPC'[q] = "end"
    BY <2>1 DEF QueryTypes, QueryFrame
  <2>3. QueryOK(q)'
    <3>1. InWrite(q) = 0 /\ InWrite(q)' = 0
      BY <2>2 DEF InWrite
    <3>2. sent[q] \in Nat /\ buffered[q] \in Nat /\ produced[q] \in Nat
      BY DEF QueryTypes
    <3> QED BY <1>1, <2>1, <2>2, <3>1, <3>2 DEF QueryOK, InFlight
  <2> QED BY <2>2, <2>3, QueryInvOfOne, StatusInvOfOne
<1>4. CASE RemoveStatus(q)
  <2> USE <1>4 DEF RemoveStatus, responseVars, statusVars
  <2>1. QueryTypes' /\ QueryFrame(q)
    BY DEF QueryTypes, QueryFrame
  <2>2. QueryOK(q)'
    BY <1>1 DEF QueryOK, InWrite, InFlight
  <2> QED BY <2>1, <2>2, QueryInvOfOne, StatusInvOfOne
<1> QED BY <1>2, <1>3, <1>4

(* A status request finds a query, or gets its answer once that is done. *)
LEMMA QueryStatus ==
    ASSUME QueriesInv, NEW t \in StatusReqs,
           AnswerStatus(t) \/ \E i \in IDs : AskStatus(t, i)
    PROVE  QueriesInv'
<1> USE DEF QueriesInv, responseVars
<1>1. CASE AnswerStatus(t)
  <2>1. QueryTypes'
    BY <1>1 DEF AnswerStatus, QueryTypes
  <2>2. QueryInv'
    BY <1>1 DEF AnswerStatus, QueryInv, InFlight, InWrite
  <2>3. StatusInv'
    BY <1>1 DEF AnswerStatus, StatusInv, QueryTypes
  <2> QED BY <2>1, <2>2, <2>3
<1>2. ASSUME NEW i \in IDs, AskStatus(t, i)
      PROVE  QueriesInv'
  <2>1. QueryTypes'
    BY <1>2 DEF AskStatus, QueryTypes
  <2>2. QueryInv'
    BY <1>2 DEF AskStatus, QueryInv, InFlight, InWrite
  <2>3. StatusInv'
    BY <1>2, NoneAssumption DEF AskStatus, StatusInv, QueryTypes
  <2> QED BY <2>1, <2>2, <2>3
<1> QED BY <1>1, <1>2

LEMMA QueryNext == QueriesInv /\ [Next]_vars => QueriesInv'
<1> SUFFICES ASSUME QueriesInv, [Next]_vars PROVE QueriesInv'
  OBVIOUS
<1>1. ASSUME NEW o \in Ops, LakeOp(o) \/ RLock(o) \/ Send(o) \/ RUnlock(o)
      PROVE  QueriesInv'
  BY <1>1, QueryUnchanged DEF LakeOp, RLock, Send, RUnlock
<1>2. ASSUME NEW s \in Subs, \/ AnnounceLock(s) \/ LockedUpdate(s) \/ WriteEvent(s)
                             \/ SeeDone(s) \/ Subscribe(s)
      PROVE  QueriesInv'
  BY <1>2, QueryUnchanged DEF AnnounceLock, LockedUpdate, WriteEvent, SeeDone, Subscribe
<1>3. ASSUME NEW r \in Subs \cup Queries, Disconnect(r) \/ StopReading(r)
      PROVE  QueriesInv'
  BY <1>3, QueryUnchanged DEF Disconnect, StopReading
<1>4. CASE UNCHANGED vars
  BY <1>4, QueryUnchanged DEF vars
<1> QED
  BY <1>1, <1>2, <1>3, <1>4, QueryStart, QueryPullReturns, QueryReceive, QueryWriteBatch,
     QueryWriteControl, QueryLeave, QueryStatus
     DEF Next, EventStep, QueryStep, Environment

LEMMA EventTypesInvariant == Spec => []EventTypes
  BY EventTypesInit, EventTypesNext, PTL DEF Spec

LEMMA QueriesInvariant == Spec => []QueriesInv
<1>1. Init => QueriesInv
  BY QueryInit DEF QueriesInv
<1> QED BY <1>1, QueryNext, PTL DEF Spec

-------------------------------------------------------------------------------
(* An answer without an error of handleQueryStatus is true as far as it     *)
(* goes: the flowgraph had ended without one, and every batch it produced   *)
(* is in the response or in the writer's buffer, which only writer.Close,   *)
(* after the answer, may empty (handlers.go:77-82).                         *)
THEOREM AnswersAreTruthful == Spec => []StatusTruthful
<1>1. EventTypes /\ QueriesInv => StatusTruthful
  <2> SUFFICES ASSUME EventTypes, QueriesInv PROVE StatusTruthful
    OBVIOUS
  <2>1. TypeOK
    BY TypeHalves DEF QueriesInv
  <2>2. ASSUME NEW t \in StatusReqs, stPC[t] = "answered", ~qerr[stQ[t]]
        PROVE  /\ puller[stQ[t]] = "end" /\ result[stQ[t]] \in {"eos", "empty"}
               /\ sent[stQ[t]] + buffered[stQ[t]] = produced[stQ[t]]
               /\ ~form[stQ[t]].buffers => sent[stQ[t]] = produced[stQ[t]]
    <3>1. stQ[t] \in Queries /\ qPC[stQ[t]] \in {"close", "end"}
      BY <2>2 DEF QueriesInv, StatusInv
    <3>2. QueryOK(stQ[t]) /\ sent[stQ[t]] \in Nat
      BY <3>1, QueryInvEach DEF QueriesInv, QueryTypes
    <3> QED BY <2>2, <3>1, <3>2 DEF QueryOK
  <2> QED BY <2>1, <2>2 DEF StatusTruthful
<1> QED BY <1>1, EventTypesInvariant, QueriesInvariant, PTL

(* publishEvent and handleEvents that wait for each other do so for ever,   *)
(* and no subscription is added or removed any more (core.go:233-237).      *)
THEOREM WedgesStall == Spec => WedgeStalls
<1>1. EventTypes /\ [Next]_vars => [Wedged => Wedged' /\ subscriptions' = subscriptions]_vars
  <2> SUFFICES ASSUME EventTypes, Next, Wedged
               PROVE  Wedged' /\ subscriptions' = subscriptions
    OBVIOUS
  <2>1. PICK o \in Ops : /\ opPC[o] = "sending" /\ todo[o] # <<>>
                         /\ subPC[Head(todo[o])] = "del"
    BY DEF Wedged
  <2>2. Head(todo[o]) \in Subs
    BY <2>1 DEF EventTypes
  <2>3. /\ opPC'[o] = "sending" /\ todo'[o] = todo[o]
        /\ subPC'[Head(todo[o])] = "del" /\ subscriptions' = subscriptions
    <3>1. CASE UNCHANGED eventVars
      BY <2>1, <3>1 DEF eventVars, feedVars
    <3>2. ASSUME NEW p \in Ops, LakeOp(p) \/ RLock(p) \/ RUnlock(p)
          PROVE  /\ opPC'[o] = "sending" /\ todo'[o] = todo[o]
                 /\ subPC'[Head(todo[o])] = "del" /\ subscriptions' = subscriptions
      <4>1. p # o
        BY <2>1, <3>2 DEF LakeOp, RLock, RUnlock
      <4> QED BY <2>1, <3>2, <4>1 DEF LakeOp, RLock, RUnlock, EventTypes
    <3>3. ASSUME NEW p \in Ops, Send(p)
          PROVE  /\ opPC'[o] = "sending" /\ todo'[o] = todo[o]
                 /\ subPC'[Head(todo[o])] = "del" /\ subscriptions' = subscriptions
      <4>1. subPC[Head(todo[p])] = "loop"
        BY <3>3 DEF Send
      <4>2. p # o /\ Head(todo[p]) # Head(todo[o])
        BY <2>1, <4>1
      <4> QED BY <2>1, <2>2, <3>3, <4>2 DEF Send, EventTypes
    <3>4. ASSUME NEW s \in Subs, LockedUpdate(s)
          PROVE  FALSE
      BY <2>1, <3>4 DEF LockedUpdate, Readers
    <3>5. ASSUME NEW s \in Subs, \/ AnnounceLock(s) \/ WriteEvent(s) \/ SeeDone(s)
                                 \/ Subscribe(s)
          PROVE  /\ opPC'[o] = "sending" /\ todo'[o] = todo[o]
                 /\ subPC'[Head(todo[o])] = "del" /\ subscriptions' = subscriptions
      BY <2>1, <2>2, <3>5 DEF AnnounceLock, WriteEvent, SeeDone, Subscribe, EventTypes
    <3>6. ASSUME NEW r \in Subs \cup Queries, Disconnect(r) \/ StopReading(r)
          PROVE  /\ opPC'[o] = "sending" /\ todo'[o] = todo[o]
                 /\ subPC'[Head(todo[o])] = "del" /\ subscriptions' = subscriptions
      BY <2>1, <3>6 DEF Disconnect, StopReading, feedVars
    <3>7. ASSUME NEW q \in Queries, QuerySteps(q)
          PROVE  UNCHANGED eventVars
      BY <3>7, QueryStepsKeepEvents
    <3>8. ASSUME NEW t \in StatusReqs, AnswerStatus(t) \/ \E i \in IDs : AskStatus(t, i)
          PROVE  UNCHANGED eventVars
      BY <3>8 DEF AnswerStatus, AskStatus
    <3> QED
      BY <3>1, <3>2, <3>3, <3>4, <3>5, <3>6, <3>7, <3>8
         DEF Next, EventStep, QueryStep, Environment, QuerySteps
  <2> QED BY <2>1, <2>3 DEF Wedged
<1> QED BY <1>1, EventTypesInvariant, PTL DEF Spec, WedgeStalls

-------------------------------------------------------------------------------
(***************************************************************************)
(* The pools of the lake.                                                  *)
(***************************************************************************)
(* The lake without pools. *)
LEMMA PoolInit == PoolsInit => PoolInv
<1> SUFFICES ASSUME PoolsInit PROVE PoolInv
  OBVIOUS
<1> USE DEF PoolsInit
<1>1. PoolTypes
  <2>1. /\ name = [c \in Clients |-> name[c]]
        /\ newName = [c \in Clients |-> newName[c]]
    BY Zenon
  <2>2. stale \in BOOLEAN
    OBVIOUS
  <2>3. /\ pools \in [Names -> PoolIDs \cup {NoPool}]
        /\ pc \in [Clients -> {"idle", "mkdir", "add", "delete", "rmdir", "move"}]
        /\ id \in [Clients -> PoolIDs \cup {0}]
        /\ \A c \in Clients : pc[c] = "idle"
    OBVIOUS
  <2> QED BY <2>1, <2>2, <2>3 DEF PoolTypes
<1>2. ListInv
  <2>1. Listed = {}
    BY DEF Listed
  <2> QED BY <2>1 DEF ListInv
<1>3. CreatingInv /\ WorkingInv
  BY DEF CreatingInv, WorkingInv, Creating, Working
<1> QED BY <1>1, <1>2, <1>3 DEF PoolInv

(* CreatePool finds the name free: the pool has a fresh ID. *)
LEMMA PoolBeginCreate ==
    ASSUME PoolInv, NEW c \in Clients, NEW n \in Names, BeginCreate(c, n)
    PROVE  PoolInv'
<1> USE DEF PoolInv
<1>1. /\ pc' = [pc EXCEPT ![c] = "mkdir"]
      /\ name' = [name EXCEPT ![c] = n]
      /\ id' = [id EXCEPT ![c] = nextID]
      /\ nextID' = nextID + 1
      /\ UNCHANGED <<pools, dirs, newName, owned, stale>>
      /\ nextID \in PoolIDs
      /\ pc[c] = "idle"
  BY PoolsAssumption DEF BeginCreate, PoolTypes, PoolIDs
<1>2. PoolTypes'
  BY <1>1 DEF PoolTypes
<1> SUFFICES ASSUME ~stale PROVE ListInv' /\ CreatingInv' /\ WorkingInv'
  BY <1>1, <1>2
<1>3. \A p \in owned : p < nextID /\ p \in Nat
  BY DEF ListInv, Listed, PoolTypes, PoolIDs
<1>4. ListInv'
  BY <1>1, <1>3 DEF ListInv, Listed, PoolTypes
<1>5. \A d \in Clients : d # c => pc'[d] = pc[d] /\ id'[d] = id[d]
  BY <1>1 DEF PoolTypes
<1>6. pc'[c] = "mkdir" /\ id'[c] = nextID
  BY <1>1 DEF PoolTypes
<1>7. \A d \in Clients : d # c /\ pc[d] # "idle" => id[d] < nextID /\ id[d] \in Nat
  BY DEF PoolTypes, CreatingInv, WorkingInv, Creating, Working, PoolIDs
<1>8. CreatingInv'
  <2>1. nextID \notin owned
    BY <1>1, <1>3 DEF PoolIDs
  <2> QED BY <1>1, <1>5, <1>6, <1>7, <2>1 DEF CreatingInv, Creating, PoolTypes
<1>9. WorkingInv'
  BY <1>1, <1>5, <1>6, <1>7 DEF WorkingInv, Working, PoolTypes
<1> QED BY <1>4, <1>8, <1>9

(* A client finds a pool by its ID, to remove or to rename it. *)
LEMMA PoolFind ==
    ASSUME PoolInv, NEW c \in Clients, NEW n \in Names, pools[n] # NoPool, pc[c] = "idle",
           NEW label \in {"delete", "move"},
           pc' = [pc EXCEPT ![c] = label],
           name' = [name EXCEPT ![c] = n],
           id' = [id EXCEPT ![c] = pools[n]],
           newName' = [m \in Clients |-> newName'[m]],
           \A d \in Clients : newName'[d] = newName[d] \/ newName'[d] \in Names,
           label = "move" => newName'[c] \in Names,
           UNCHANGED <<pools, dirs, nextID, owned, stale>>
    PROVE  PoolInv'
<1> USE DEF PoolInv
<1>1. pools[n] \in PoolIDs
  BY DEF PoolTypes
<1>2. PoolTypes'
  BY <1>1 DEF PoolTypes
<1> SUFFICES ASSUME ~stale PROVE ListInv' /\ CreatingInv' /\ WorkingInv'
  BY <1>2
<1>3. pools[n] \in owned
  BY DEF ListInv, Listed
<1>4. ListInv'
  BY DEF ListInv, Listed
<1>5. /\ \A d \in Clients : d # c => pc'[d] = pc[d] /\ id'[d] = id[d]
      /\ pc'[c] = label /\ id'[c] = pools[n]
  BY DEF PoolTypes
<1>6. CreatingInv'
  BY <1>3, <1>5 DEF CreatingInv, Creating
<1>7. WorkingInv'
  BY <1>3, <1>5 DEF WorkingInv, Working, ListInv
<1> QED BY <1>4, <1>6, <1>7

(* A client returns, or goes on from making the directory to adding the    *)
(* entry; directories are made or removed that no listed pool uses.        *)
LEMMA PoolReturn ==
    ASSUME PoolInv, NEW c \in Clients, pc[c] # "idle", Return(c),
           dirs' = dirs \/ (pc[c] \in {"add", "rmdir"} /\ dirs' = dirs \ {id[c]}),
           UNCHANGED <<pools, nextID, owned, stale>>
    PROVE  PoolInv'
<1> USE DEF PoolInv, Return
<1>1. PoolTypes'
  BY DEF PoolTypes
<1> SUFFICES ASSUME ~stale PROVE ListInv' /\ CreatingInv' /\ WorkingInv'
  BY <1>1
<1>2. /\ \A d \in Clients : d # c => pc'[d] = pc[d] /\ id'[d] = id[d]
      /\ pc'[c] = "idle"
  BY DEF PoolTypes
<1>3. pc[c] \in {"add", "rmdir"} => id[c] \notin owned
  BY DEF CreatingInv, WorkingInv, Creating
<1>4. ListInv'
  BY <1>3 DEF ListInv, Listed
<1>5. CreatingInv'
  BY <1>2 DEF CreatingInv, Creating
<1>6. WorkingInv'
  BY <1>2 DEF WorkingInv, Working
<1> QED BY <1>4, <1>5, <1>6

(* CreatePool makes the directory. *)
LEMMA PoolCreateDirectory ==
    ASSUME PoolInv, NEW c \in Clients, CreateDirectory(c)
    PROVE  PoolInv'
<1> USE DEF PoolInv, CreateDirectory
<1>1. PoolTypes'
  BY DEF PoolTypes
<1> SUFFICES ASSUME ~stale PROVE ListInv' /\ CreatingInv' /\ WorkingInv'
  BY <1>1
<1>2. /\ \A d \in Clients : d # c => pc'[d] = pc[d]
      /\ pc'[c] = "add" /\ pc[c] = "mkdir"
  BY DEF PoolTypes
<1>3. ListInv'
  BY DEF ListInv, Listed
<1>4. CreatingInv'
  BY <1>2 DEF CreatingInv, Creating
<1>5. WorkingInv'
  BY <1>2 DEF WorkingInv, Working
<1> QED BY <1>3, <1>4, <1>5

(* The entry is added: the name was free, and no other entry has the ID. *)
LEMMA PoolAddEntry ==
    ASSUME PoolInv, NEW c \in Clients, AddEntry(c)
    PROVE  PoolInv'
<1> USE DEF PoolInv
<1>1. /\ pc[c] = "add"
      /\ pools[name[c]] = NoPool
      /\ pools' = [n \in Names |-> IF n = name[c] THEN id[c] ELSE pools[n]]
      /\ owned' = owned \cup {id[c]}
      /\ Return(c)
      /\ UNCHANGED <<dirs, nextID, stale>>
  BY DEF AddEntry, Store!Admissible, Store!Insert, Store!Apply
<1>2. id[c] \in PoolIDs /\ name[c] \in Names /\ id[c] # NoPool
  BY <1>1, NoPoolAssumption DEF PoolTypes, PoolIDs
<1>3. PoolTypes'
  BY <1>1, <1>2 DEF PoolTypes, Return
<1> SUFFICES ASSUME ~stale PROVE ListInv' /\ CreatingInv' /\ WorkingInv'
  BY <1>1, <1>3
<1>4. /\ \A d \in Clients : d # c => pc'[d] = pc[d] /\ id'[d] = id[d]
      /\ pc'[c] = "idle"
  BY <1>1 DEF PoolTypes, Return
<1>5. id[c] \notin owned /\ id[c] \in dirs /\ id[c] < nextID
  BY <1>1 DEF CreatingInv, Creating
<1>6. \A d \in Clients : d # c /\ pc[d] # "idle" => id[d] # id[c]
  BY <1>1 DEF CreatingInv, Creating
<1>7. ListInv'
  <2>1. Listed' = Listed \cup {id[c]}
    BY <1>1, <1>2 DEF Listed, PoolTypes
  <2>2. \A n \in Names : pools[n] # id[c]
    BY <1>2, <1>5 DEF ListInv, Listed
  <2> QED BY <1>1, <1>2, <1>5, <2>1, <2>2 DEF ListInv, PoolTypes
<1>8. CreatingInv'
  BY <1>1, <1>4, <1>6 DEF CreatingInv, Creating
<1>9. WorkingInv'
  BY <1>1, <1>4, <1>6 DEF WorkingInv, Working
<1> QED BY <1>7, <1>8, <1>9

(* pools.Remove deletes the entry: it is this pool's, because of the       *)
(* constraint, and the pool has no other.                                  *)
LEMMA PoolDeleteEntry ==
    ASSUME PoolInv, NEW c \in Clients, DeleteEntry(c)
    PROVE  PoolInv'
<1> USE DEF PoolInv
<1>1. /\ pc[c] = "delete"
      /\ id[c] \in {NoPool, pools[name[c]]}
      /\ pools' = [n \in Names |-> IF n = name[c] THEN NoPool ELSE pools[n]]
      /\ owned' = owned \ {id[c]}
      /\ pc' = [pc EXCEPT ![c] = "rmdir"]
      /\ UNCHANGED <<dirs, nextID, name, id, newName, stale>>
  BY DEF DeleteEntry, DeleteOp, Store!Admissible, Store!Delete, Store!Apply
<1>2. id[c] \in PoolIDs /\ name[c] \in Names /\ id[c] # NoPool /\ pools[name[c]] = id[c]
  BY <1>1, NoPoolAssumption DEF PoolTypes, PoolIDs
<1>3. PoolTypes'
  BY <1>1, <1>2 DEF PoolTypes
<1> SUFFICES ASSUME ~stale PROVE ListInv' /\ CreatingInv' /\ WorkingInv'
  BY <1>1, <1>3
<1>4. /\ \A d \in Clients : d # c => pc'[d] = pc[d]
      /\ pc'[c] = "rmdir"
  BY <1>1 DEF PoolTypes
<1>5. ListInv'
  <2>1. \A n \in Names : n # name[c] => pools[n] # id[c]
    BY <1>2 DEF ListInv
  <2>2. Listed' = Listed \ {id[c]}
    BY <1>1, <1>2, <2>1 DEF Listed
  <2> QED BY <1>1, <2>2 DEF ListInv
<1>6. CreatingInv'
  BY <1>1, <1>4 DEF CreatingInv, Creating
<1>7. WorkingInv'
  BY <1>1, <1>4 DEF WorkingInv, Working
<1> QED BY <1>5, <1>6, <1>7

(* A rename moves the entry; if the name has changed hands, stale is set   *)
(* and only the types are left to show.                                    *)
LEMMA PoolMoveEntry ==
    ASSUME PoolInv, NEW c \in Clients, MoveEntry(c)
    PROVE  PoolInv'
<1> USE DEF PoolInv
<1> DEFINE o == Store!Move(name[c], newName[c], id[c])
<1>0. /\ pc[c] = "move"
      /\ Return(c)
      /\ UNCHANGED <<dirs, nextID, owned>>
  BY DEF MoveEntry
<1>1. CASE ~Store!Admissible(pools, o)
  <2>1. UNCHANGED <<pools, stale>>
    BY <1>1 DEF MoveEntry
  <2> QED BY <1>0, <2>1, PoolReturn
<1>2. CASE Store!Admissible(pools, o)
  <2>1. /\ pools' = Store!Apply(pools, o)
        /\ stale' = (stale \/ pools[name[c]] # id[c])
    BY <1>2 DEF MoveEntry
  <2>2. /\ pools[name[c]] # NoPool /\ pools[newName[c]] = NoPool
        /\ pools' = [n \in Names |-> IF n = newName[c] THEN id[c]
                                     ELSE IF n = name[c] THEN NoPool ELSE pools[n]]
    BY <1>2, <2>1 DEF Store!Admissible, Store!Move, Store!Apply
  <2>3. /\ id[c] \in PoolIDs /\ name[c] \in Names /\ newName[c] \in Names
        /\ id[c] # NoPool
    BY <1>0, NoPoolAssumption DEF PoolTypes, PoolIDs
  <2>4. PoolTypes'
    <3>1. stale' \in BOOLEAN
      BY <2>1
    <3> QED BY <1>0, <2>2, <2>3, <3>1 DEF PoolTypes, Return
  <2> SUFFICES ASSUME ~stale' PROVE ListInv' /\ CreatingInv' /\ WorkingInv'
    BY <2>4
  <2>5. ~stale /\ pools[name[c]] = id[c]
    BY <2>1
  <2>6. /\ \A d \in Clients : d # c => pc'[d] = pc[d] /\ id'[d] = id[d]
        /\ pc'[c] = "idle"
    BY <1>0 DEF PoolTypes, Return
  <2>7. ListInv'
    <3>1. \A n \in Names : pools[n] = id[c] => n = name[c]
      BY <2>3, <2>5 DEF ListInv
    <3>2. Listed' = Listed
      BY <2>2, <2>3, <2>5 DEF Listed
    <3> QED BY <1>0, <2>2, <2>3, <2>5, <3>1, <3>2 DEF ListInv
  <2>8. CreatingInv'
    BY <1>0, <2>5, <2>6 DEF CreatingInv, Creating
  <2>9. WorkingInv'
    BY <1>0, <2>5, <2>6 DEF WorkingInv, Working
  <2> QED BY <2>7, <2>8, <2>9
<1> QED BY <1>1, <1>2

(* Every step preserves the invariant. *)
LEMMA PoolNext == PoolInv /\ [PoolsNext]_poolVars => PoolInv'
<1> SUFFICES ASSUME PoolInv, [PoolsNext]_poolVars PROVE PoolInv'
  OBVIOUS
<1>1. CASE UNCHANGED poolVars
  BY <1>1 DEF poolVars, PoolInv, PoolTypes, ListInv, Listed, CreatingInv, Creating,
              WorkingInv, Working
<1>2. ASSUME NEW c \in Clients, NEW n \in Names, BeginCreate(c, n)
      PROVE  PoolInv'
  BY <1>2, PoolBeginCreate
<1>3. ASSUME NEW c \in Clients, NEW n \in Names, BeginRemove(c, n)
      PROVE  PoolInv'
  <2>1. newName' = [m \in Clients |-> newName'[m]]
    BY <1>3 DEF BeginRemove, PoolInv, PoolTypes
  <2> QED BY <1>3, <2>1, PoolFind DEF BeginRemove
<1>4. ASSUME NEW c \in Clients, NEW n \in Names, NEW m \in Names, BeginRename(c, n, m)
      PROVE  PoolInv'
  <2>1. /\ newName' = [d \in Clients |-> newName'[d]]
        /\ \A d \in Clients : newName'[d] = newName[d] \/ newName'[d] \in Names
        /\ newName'[c] \in Names
    BY <1>4 DEF BeginRename, PoolInv, PoolTypes
  <2> QED BY <1>4, <2>1, PoolFind DEF BeginRename
<1>5. ASSUME NEW c \in Clients, CreateDirectory(c)
      PROVE  PoolInv'
  BY <1>5, PoolCreateDirectory
<1>6. ASSUME NEW c \in Clients, AddEntry(c)
      PROVE  PoolInv'
  BY <1>6, PoolAddEntry
<1>7. ASSUME NEW c \in Clients, AddFails(c) \/ DeleteFails(c) \/ RemoveDirectory(c) \/ Crash(c)
      PROVE  PoolInv'
  BY <1>7, PoolReturn DEF AddFails, DeleteFails, RemoveDirectory, Crash
<1>8. ASSUME NEW c \in Clients, DeleteEntry(c)
      PROVE  PoolInv'
  BY <1>8, PoolDeleteEntry
<1>9. ASSUME NEW c \in Clients, MoveEntry(c)
      PROVE  PoolInv'
  BY <1>9, PoolMoveEntry
<1> QED
  BY <1>1, <1>2, <1>3, <1>4, <1>5, <1>6, <1>7, <1>8, <1>9 DEF PoolsNext

LEMMA PoolInvariant == PoolsSpec => []PoolInv
  BY PoolInit, PoolNext, PTL DEF PoolsSpec

-------------------------------------------------------------------------------
(* Every pool that is listed has its directory, in every lake: CreatePool   *)
(* makes the directory before the entry, RemovePool removes it after        *)
(* (root.go).                                                               *)
THEOREM ListedPoolsHaveDirectories == PoolsSpec => []ListedPoolsExist
<1>1. PoolInv => ListedPoolsExist
  BY DEF PoolInv, ListInv, ListedPoolsExist
<1> QED BY <1>1, PoolInvariant, PTL

(* A pool that was created stays listed under exactly one name, with its    *)
(* directory, until it is removed, unless a rename moved a name that had    *)
(* changed hands (pools/store.go:91).                                       *)
THEOREM CreatedPoolsAreKept == PoolsSpec => []PoolsKept
<1>1. PoolInv => PoolsKept
  <2> SUFFICES ASSUME PoolInv, ~stale
               PROVE  /\ owned \subseteq dirs
                      /\ \A p \in owned : Cardinality({n \in Names : pools[n] = p}) = 1
    BY DEF PoolsKept
  <2>1. ListInv
    BY DEF PoolInv
  <2>2. ASSUME NEW p \in owned
        PROVE  Cardinality({n \in Names : pools[n] = p}) = 1
    <3>1. PICK m \in Names : pools[m] = p /\ p # NoPool
      BY <2>1 DEF ListInv, Listed
    <3>2. {n \in Names : pools[n] = p} = {m}
      BY <2>1, <3>1 DEF ListInv
    <3> QED BY <3>2, FS_Singleton
  <2> QED BY <2>1, <2>2 DEF ListInv
<1> QED BY <1>1, PoolInvariant, PTL
================================================================================
