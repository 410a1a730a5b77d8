-------------------------- MODULE FlowgraphProofs --------------------------
(***************************************************************************)
(* Proofs about Flowgraph: for every number of routes, every set of graphs *)
(* in which a source of several platoons is read by a combine, and all     *)
(* bounds, PlatoonsAligned and NothingMissed.                              *)
(***************************************************************************)
EXTENDS Flowgraph, FiniteSetTheorems, WellFoundedInduction, TLAPS

(***************************************************************************)
(* Batches, graphs and routes.                                             *)
(***************************************************************************)

\* A batch is a pair of its platoon and its place, and neither EOS nor ERR.
LEMMA BatchFacts ==
  /\ EOS # ERR /\ EOS \notin Batches /\ ERR \notin Batches
  /\ Batches \subseteq Results /\ EOS \in Results /\ ERR \in Results
  /\ \A x \in Results : x \in Batches \/ x = EOS \/ x = ERR
  /\ \A b \in Batches :
        b[1] \in 1..MaxPlatoons + 1 /\ b[2] \in 1..MaxBatches /\ b = <<b[1], b[2]>>
  /\ \A p \in 1..MaxPlatoons + 1, i \in 1..MaxBatches :
        <<p, i>> \in Batches /\ <<p, i>>[1] = p /\ <<p, i>>[2] = i
  BY BoundsAssumption DEF EOS, ERR, Batches, Results

\* What is known of the graph being run.
LEMMA GraphFacts ==
  ASSUME PlatoonsCombined, g \in Graphs
  PROVE  /\ g.source = "platoons" => g.fanin = "combine"
         /\ g.fanin \in {"combine", "merge", "mux"}
         /\ g.source \in {"platoons", "original"}
         /\ g.heads \subseteq Routes
         /\ LastPlatoon \in 1..MaxPlatoons
         /\ g.source = "original" => LastPlatoon = 1
         /\ g.source = "platoons" => LastPlatoon = MaxPlatoons
  BY GraphsAssumption, BoundsAssumption DEF PlatoonsCombined, LastPlatoon

\* There is a route, and the routes in order are a sequence.
LEMMA RouteFacts ==
  /\ Routes # {} /\ 1 \in Routes
  /\ [i \in Routes |-> i] \in Seq(Routes) /\ [i \in Routes |-> i] # <<>>
  /\ Range([i \in Routes |-> i]) = Routes /\ IsInjective([i \in Routes |-> i])
<1>1. Routes # {} /\ 1 \in Routes /\ N \in Nat
  BY NAssumption DEF Routes
<1>2. [i \in Routes |-> i] \in Seq(Routes)
  BY <1>1 DEF Routes
<1>3. [i \in Routes |-> i] # <<>>
  BY <1>1, NAssumption DEF Routes
<1>4. Range([i \in Routes |-> i]) = Routes /\ IsInjective([i \in Routes |-> i])
  BY DEF Range, IsInjective
<1> QED
  BY <1>1, <1>2, <1>3, <1>4

\* Sets of routes are finite.
LEMMA FiniteRoutes ==
  /\ IsFiniteSet(Routes) /\ Cardinality(Routes) \in Nat
  /\ \A S \in SUBSET Routes :
        IsFiniteSet(S) /\ Cardinality(S) \in Nat /\ Cardinality(S) <= Cardinality(Routes)
<1>1. IsFiniteSet(Routes)
  <2>1. 1 \in Int /\ N \in Int
    BY NAssumption
  <2> QED
    BY <2>1, FS_Interval DEF Routes
<1>2. Cardinality(Routes) \in Nat
  BY <1>1, FS_CardinalityType
<1>3. ASSUME NEW S \in SUBSET Routes
      PROVE  IsFiniteSet(S) /\ Cardinality(S) <= Cardinality(Routes)
  BY <1>1, FS_Subset
<1>4. ASSUME NEW S \in SUBSET Routes PROVE Cardinality(S) \in Nat
  BY <1>3, FS_CardinalityType
<1> QED
  BY <1>1, <1>2, <1>3, <1>4

\* What the Router may be asked to forward to: routes, none twice.
LEMMA SelectedFacts ==
  ASSUME NEW s \in Selected
  PROVE  s \in Seq(Routes) /\ IsInjective(s)
<1>1. CASE g.select = "fork"
  BY <1>1, RouteFacts DEF Selected
<1>2. CASE g.select # "fork"
  <2>1. PICK S \in SUBSET Routes : s \in SetToSeqs(S)
    BY <1>2 DEF Selected
  <2>2. IsFiniteSet(S) /\ Cardinality(S) \in Nat
    BY <2>1, FiniteRoutes
  <2>3. s \in [1..Cardinality(S) -> S]
    BY <2>1 DEF SetToSeqs
  <2>4. s \in Seq(Routes)
    BY <2>1, <2>2, <2>3
  <2>5. IsInjective(s)
    BY <2>1, <2>3 DEF SetToSeqs, IsInjective
  <2> QED
    BY <2>4, <2>5
<1> QED
  BY <1>1, <1>2

\* The rest of a sequence of routes.
LEMMA TailFacts ==
  ASSUME NEW s \in Seq(Routes), s # <<>>
  PROVE  /\ Tail(s) \in Seq(Routes) /\ Head(s) \in Routes
         /\ Range(s) = {Head(s)} \cup Range(Tail(s))
         /\ IsInjective(s) => IsInjective(Tail(s)) /\ Head(s) \notin Range(Tail(s))
         /\ Range(s) \subseteq Routes
<1>1. /\ Tail(s) \in Seq(Routes) /\ Head(s) \in Routes /\ Head(s) = s[1]
      /\ Len(s) \in Nat \ {0} /\ DOMAIN s = 1..Len(s)
      /\ DOMAIN Tail(s) = 1..Len(s) - 1 /\ \A i \in 1..Len(s) - 1 : Tail(s)[i] = s[i + 1]
  OBVIOUS
<1>2. Range(s) = {Head(s)} \cup Range(Tail(s))
  <2>1. ASSUME NEW x \in Range(s) PROVE x = Head(s) \/ x \in Range(Tail(s))
    <3>1. PICK i \in 1..Len(s) : x = s[i]
      BY <1>1, <2>1 DEF Range
    <3>2. CASE i = 1
      BY <1>1, <3>1, <3>2
    <3>3. CASE i # 1
      <4>1. i - 1 \in 1..Len(s) - 1 /\ Tail(s)[i - 1] = x
        BY <1>1, <3>1, <3>3
      <4> QED
        BY <1>1, <4>1 DEF Range
    <3> QED
      BY <3>2, <3>3
  <2>2. ASSUME NEW x \in Range(Tail(s)) PROVE x \in Range(s)
    <3>1. PICK i \in 1..Len(s) - 1 : x = Tail(s)[i]
      BY <1>1, <2>2 DEF Range
    <3>2. i + 1 \in 1..Len(s) /\ x = s[i + 1]
      BY <1>1, <3>1
    <3> QED
      BY <1>1, <3>2 DEF Range
  <2>3. Head(s) \in Range(s)
    BY <1>1 DEF Range
  <2> QED
    BY <2>1, <2>2, <2>3
<1>3. ASSUME IsInjective(s) PROVE IsInjective(Tail(s)) /\ Head(s) \notin Range(Tail(s))
  BY <1>1, <1>3 DEF IsInjective, Range
<1>4. Range(s) \subseteq Routes
  BY <1>1 DEF Range
<1> QED
  BY <1>1, <1>2, <1>3, <1>4

\* The empty sequence has nothing in it.
LEMMA EmptyRange == Range(<<>>) = {} /\ IsInjective(<<>>)
  BY DEF Range, IsInjective

\* After the route at the head of the list is dealt with.
LEMMA AdvanceFacts ==
  ASSUME rTodo \in Seq(Routes), rTodo # <<>>, NEW S \in SUBSET Routes, RouterAdvance(S)
  PROVE  /\ rTodo' \in Seq(Routes) /\ rTodo' = Tail(rTodo) /\ blocked' \subseteq Routes
         /\ rPC' = rPC \/ (rPC' = "top" /\ rTodo' = <<>>)
         /\ rTodo' = <<>> => rPC' = "top"
         /\ rPC = "fwd" => blocked' = S
         /\ rPC = "eos" => blocked' = IF rTodo' = <<>> THEN {} ELSE S
         /\ rBatch' = rBatch
<1>1. Tail(rTodo) \in Seq(Routes)
  BY TailFacts
<1> QED
  BY <1>1 DEF RouterAdvance

\* The routes that are left after it.
LEMMA AdvanceRange ==
  ASSUME rTodo \in Seq(Routes), rTodo # <<>>, IsInjective(rTodo), NEW S \in SUBSET Routes,
         RouterAdvance(S)
  PROVE  /\ Range(rTodo') = Range(rTodo) \ {Head(rTodo)} /\ Head(rTodo) \in Range(rTodo)
         /\ rPC' = "fwd" => rPC = "fwd"
         /\ rPC' = "eos" => rPC = "eos"
<1>1. rTodo' = Tail(rTodo) /\ (rPC' = rPC \/ rPC' = "top")
  BY DEF RouterAdvance
<1>2. Range(rTodo) = {Head(rTodo)} \cup Range(Tail(rTodo)) /\ Head(rTodo) \notin Range(Tail(rTodo))
  BY TailFacts
<1> QED
  BY <1>1, <1>2

(***************************************************************************)
(* Types.                                                                  *)
(***************************************************************************)

\* start begins with the least leg.
LEMMA LeastRoute ==
  ASSUME NEW S \in SUBSET Routes, S # {}
  PROVE  (CHOOSE q \in S : \A x \in S : q <= x) \in S
<1>1. S \subseteq Nat
  BY NAssumption DEF Routes
<1>2. PICK m \in S : \A x \in S : ~ (<<x, m>> \in OpToRel(<, Nat))
  BY <1>1, WFMin, NatLessThanWellFounded, Zenon
<1>3. \A x \in S : m <= x
  <2> SUFFICES ASSUME NEW x \in S PROVE m <= x
    OBVIOUS
  <2>1. ~ (x < m)
    BY <1>1, <1>2 DEF OpToRel
  <2> QED
    BY <1>1, <2>1
<1> QED
  BY <1>3

\* Every step keeps the types.
LEMMA TypeKept ==
  ASSUME FlowInv, PlatoonsCombined, [Next]_vars
  PROVE  TypeOK'
<1> USE DEF srcVars, routerVars, legVars, histVars, fanVars, conVars
<1> USE DEF TypeOK
<1> DEFINE PCs == {"idle", "pull", "legdone", "queue", "offer", "pulldone", "wait", "end"}
<1>t. TypeOK
  BY DEF FlowInv, PlatoonsAligned
<1> USE <1>t
<1>a. /\ N \in Nat \ {0} /\ MaxPlatoons \in Nat \ {0} /\ MaxBatches \in Nat /\ MaxErrors \in Nat
      /\ Routes # {} /\ LastPlatoon \in 1..MaxPlatoons
  BY NAssumption, BoundsAssumption, RouteFacts, GraphFacts
<1>b. fPC # "idle" => cplat \in 1..LastPlatoon /\ cplat \in 1..MaxPlatoons
  BY <1>a DEF FlowInv, CallInv
<1>c. EOS \in Results /\ ERR \in Results
  BY BatchFacts
<1>1. CASE RouterDone
  <2>1. plat <= LastPlatoon
    BY <1>1, <1>a DEF RouterDone, RouterInv, FlowInv
  <2>2. plat' \in 1..MaxPlatoons + 1 /\ srcErr' \in BOOLEAN /\ errs' \in 0..MaxErrors
    <3>1. plat' \in 1..MaxPlatoons + 1
      BY <1>1, <1>a, <2>1 DEF RouterDone
    <3>2. srcErr' \in BOOLEAN
      BY <1>1 DEF RouterDone
    <3>3. errs' = errs \/ (errs' = errs + 1 /\ errs < MaxErrors)
      BY <1>1 DEF RouterDone, MayFail
    <3>4. errs' \in 0..MaxErrors
      BY <1>a, <3>3
    <3> QED
      BY <3>1, <3>2, <3>4
  <2> QED
    BY <1>1, <1>a, <2>2 DEF RouterDone
<1>2. CASE RouterBatch
  <2>1. rTodo' \in Seq(Routes) /\ Range(rTodo') \subseteq Routes
    <3>1. rTodo' \in Seq(Routes)
      BY <1>2, SelectedFacts DEF RouterBatch
    <3> QED
      BY <3>1 DEF Range
  <2>2. plat \in 1..MaxPlatoons + 1 /\ nb' \in 1..MaxBatches /\ nb' = nb + 1
    BY <1>2, <1>a DEF RouterBatch
  <2>3. rBatch' \in Batches /\ rBatch' \in Results
    BY <1>2, <2>2, BatchFacts DEF RouterBatch
  <2>4. fwd' \subseteq Routes \X Batches
    BY <1>2, <2>1, <2>3 DEF RouterBatch
  <2> QED
    BY <1>2, <2>1, <2>2, <2>3, <2>4 DEF RouterBatch
<1>3. CASE RouterEOS
  <2>1. plat' \in 1..MaxPlatoons + 1
    BY <1>3, <1>a DEF RouterEOS
  <2>2. rBatch' \in Results /\ rTodo' \in Seq(Routes)
    BY <1>3, BatchFacts, RouteFacts DEF RouterEOS
  <2>3. errs' \in 0..MaxErrors /\ nb' \in 0..MaxBatches
    <3>1. errs' = errs \/ (errs' = errs + 1 /\ errs < MaxErrors)
      BY <1>3 DEF RouterEOS, MayFail
    <3> QED
      BY <1>3, <1>a, <3>1 DEF RouterEOS
  <2>4. srcErr' \in BOOLEAN
    BY <1>3 DEF RouterEOS
  <2> QED
    BY <1>3, <2>1, <2>2, <2>3, <2>4 DEF RouterEOS
<1>4. CASE RouterSkip
  <2>1. rTodo' \in Seq(Routes) /\ blocked' \subseteq Routes /\ rBatch' \in Results
        /\ rPC' \in {"top", "fwd", "eos", "end"}
    BY <1>4, AdvanceFacts DEF RouterSkip
  <2> QED
    BY <1>4, <2>1 DEF RouterSkip
<1>5. CASE RouterCancelled
  BY <1>5 DEF RouterCancelled
<1>6. ASSUME NEW r \in Routes, RouterSend(r) PROVE TypeOK'
  <2>1. rTodo' \in Seq(Routes) /\ blocked' \subseteq Routes /\ rBatch' \in Results
        /\ rPC' \in {"top", "fwd", "eos", "end"}
    <3>1. (IF rPC = "eos" THEN blocked \cup {r} ELSE blocked) \in SUBSET Routes
      OBVIOUS
    <3> QED
      BY <1>6, <3>1, AdvanceFacts DEF RouterSend
  <2>2. errs' \in 0..MaxErrors
    BY <1>6, <1>a DEF RouterSend, MayFail
  <2>3. pRes' \in [Routes -> Results]
    BY <1>6, <1>c DEF RouterSend
  <2>4. pPC' \in [Routes -> PCs]
    BY <1>6 DEF RouterSend, Received
  <2> QED
    BY <1>6, <2>1, <2>2, <2>3, <2>4 DEF RouterSend
<1>7. ASSUME NEW r \in Routes, RouterTakesDone(r) PROVE TypeOK'
  <2>1. rTodo' \in Seq(Routes) /\ blocked' \subseteq Routes /\ rBatch' \in Results
        /\ rPC' \in {"top", "fwd", "eos", "end"}
    <3>1. blocked \cup {r} \in SUBSET Routes
      OBVIOUS
    <3> QED
      BY <1>7, <3>1, AdvanceFacts DEF RouterTakesDone
  <2>2. pPC' \in [Routes -> PCs] /\ spent' \subseteq g.heads
    BY <1>7 DEF RouterTakesDone, Received, FlowInv, LegInv, LegOK
  <2> QED
    BY <1>7, <2>1, <2>2 DEF RouterTakesDone
<1>8. ASSUME NEW r \in Routes, HeadEOS(r) PROVE TypeOK'
  <2>1. pRes' \in [Routes -> Results]
    BY <1>8, <1>c DEF HeadEOS
  <2>2. pPC' \in [Routes -> PCs]
    BY <1>8 DEF HeadEOS, Received
  <2> QED
    BY <1>8, <2>1, <2>2 DEF HeadEOS
<1>9. ASSUME NEW r \in Routes, CombineQueue(r) PROVE TypeOK'
  <2>1. queue' \in Seq(Routes) /\ Len(queue') <= N
    BY <1>9, <1>a DEF CombineQueue
  <2> QED
    BY <1>9, <2>1 DEF CombineQueue
<1>10. ASSUME NEW r \in Routes, LegCancelled(r) PROVE TypeOK'
  BY <1>10 DEF LegCancelled
<1>11. CASE CombineNext
  <2>1. queue' \in Seq(Routes) /\ Len(queue') <= N /\ cur' \in Routes
    <3>1. queue # <<>> => Tail(queue) \in Seq(Routes) /\ Head(queue) \in Routes
                            /\ Len(Tail(queue)) <= Len(queue) /\ Len(Tail(queue)) \in Nat
      OBVIOUS
    <3> QED
      <4>1. CASE queue' = queue /\ cur' = cur
        BY <4>1
      <4>2. CASE queue # <<>> /\ queue' = Tail(queue) /\ cur' = Head(queue)
        BY <1>a, <3>1, <4>2
      <4> QED
        BY <1>11, <4>1, <4>2 DEF CombineNext
  <2> QED
    BY <1>11, <2>1 DEF CombineNext
<1>12. CASE CombineRecv
  <2>1. got' \subseteq Routes \X Batches \X (1..MaxPlatoons)
    BY <1>12, <1>a, <1>b DEF CombineRecv, ReturnBatch, ReturnErr
  <2> QED
    BY <1>12, <2>1 DEF CombineRecv, ReturnBatch, ReturnErr
<1>13. CASE CombineDrain
  <2>1. queue' \in Seq(Routes) /\ Len(queue') <= N
    BY <1>13, <1>a DEF CombineDrain
  <2> QED
    BY <1>13, <2>1 DEF CombineDrain
<1>14. CASE CombineDoneAll
  <2>1. queue' \in Seq(Routes) /\ Len(queue') <= N
    BY <1>14, <1>a DEF CombineDoneAll
  <2> QED
    BY <1>14, <2>1 DEF CombineDoneAll
<1>15. ASSUME NEW r \in Routes, CombineUnwait(r) PROVE TypeOK'
  <2>1. cplat' \in 1..MaxPlatoons + 1
    BY <1>15, <1>a, <1>b DEF CombineUnwait, ReturnEOS
  <2> QED
    BY <1>15, <2>1 DEF CombineUnwait, ReturnEOS
<1>16. ASSUME NEW r \in Routes, CombineDone(r) PROVE TypeOK'
  BY <1>16 DEF CombineDone
<1>17. ASSUME NEW r \in Routes, MuxRecv(r) PROVE TypeOK'
  <2>1. got' \subseteq Routes \X Batches \X (1..MaxPlatoons)
    BY <1>17, <1>a, <1>b DEF MuxRecv, ReturnBatch, ReturnErr
  <2> QED
    BY <1>17, <2>1 DEF MuxRecv, ReturnBatch, ReturnErr
<1>18. CASE MergeStart
  <2> DEFINE q == CHOOSE x \in left : \A y \in left : x <= y
  <2>1. q \in Routes
    BY <1>18, LeastRoute DEF MergeStart
  <2>2. pPC' \in [Routes -> PCs] /\ held' \subseteq Routes /\ left' \subseteq Routes
        /\ hol' \in [Routes -> Results]
    BY <1>18, <2>1 DEF MergeStart
  <2>3. cplat' \in 1..MaxPlatoons + 1 /\ got' = got
    BY <1>18, <1>a, <1>b DEF MergeStart, ReturnErr, ReturnEOS, MergeStarted
  <2>4. cancelled' \in BOOLEAN /\ early' \in BOOLEAN /\ cPC' \in {"idle", "pull", "done", "stop"}
        /\ fPC' \in {"idle", "next", "recv", "unwait", "done", "pop", "start", "eos"}
    BY <1>18 DEF MergeStart, ReturnErr, ReturnEOS, MergeStarted
  <2> QED
    BY <1>18, <2>2, <2>3, <2>4 DEF MergeStart
<1>19. CASE MergeNext
  BY <1>19 DEF MergeNext
<1>20. CASE MergeReplenish
  <2>1. got' \subseteq Routes \X Batches \X (1..MaxPlatoons)
    <3>1. hol[cur] \in Batches
      BY <1>20 DEF MergeReplenish, FlowInv, CallInv, LegInv, LegOK
    <3> QED
      BY <1>20, <1>a, <1>b, <3>1 DEF MergeReplenish, ReturnBatch, ReturnErr
  <2> QED
    BY <1>20, <2>1 DEF MergeReplenish, ReturnBatch, ReturnErr
<1>21. CASE MergePop
  BY <1>21 DEF MergePop
<1>22. CASE MergeDone
  BY <1>22 DEF MergeDone
<1>23. CASE MuxEOS
  <2>1. cplat' \in 1..MaxPlatoons + 1
    BY <1>23, <1>a, <1>b DEF MuxEOS
  <2> QED
    BY <1>23, <2>1 DEF MuxEOS
<1>24. CASE PullCancelled
  BY <1>24 DEF PullCancelled
<1>25. CASE ConsumerPull
  BY <1>25 DEF ConsumerPull
<1>26. CASE ConsumerStop
  BY <1>26 DEF ConsumerStop
<1>27. CASE Cancel
  BY <1>27 DEF Cancel
<1>28. CASE UNCHANGED vars
  BY <1>28 DEF vars
<1> QED
  BY <1>1, <1>2, <1>3, <1>4, <1>5, <1>6, <1>7, <1>8, <1>9, <1>10, <1>11, <1>12,
     <1>13, <1>14, <1>15, <1>16, <1>17, <1>18, <1>19, <1>20, <1>21, <1>22, <1>23, <1>24,
     <1>25, <1>26, <1>27, <1>28
     DEF Next, RouterStep, LegStep, FanInStep

(***************************************************************************)
(* The calls, the Router and the legs.                                     *)
(***************************************************************************)

\* The count of tokens to come does not grow by itself.
LEMMA FewerWait ==
  ASSUME TypeOK, Waiting' \subseteq Waiting, Cardinality(Waiting) <= Cardinality(left)
  PROVE  Cardinality(Waiting') <= Cardinality(left)
<1>1. Waiting \in SUBSET Routes /\ Waiting' \in SUBSET Routes /\ left \in SUBSET Routes
  BY DEF Waiting, TypeOK
<1>2. /\ Cardinality(Waiting) \in Nat /\ Cardinality(Waiting') \in Nat /\ Cardinality(left) \in Nat
      /\ IsFiniteSet(Waiting)
  BY <1>1, FiniteRoutes
<1>3. Cardinality(Waiting') <= Cardinality(Waiting)
  BY <1>2, FS_Subset
<1> QED
  BY <1>2, <1>3

\* There are no more tokens to come than legs.
LEMMA AllWait == Cardinality(Waiting) <= Cardinality(Routes) /\ Cardinality(Waiting') <= Cardinality(Routes)
<1>1. Waiting \in SUBSET Routes /\ Waiting' \in SUBSET Routes
  BY DEF Waiting
<1> QED
  BY <1>1, FiniteRoutes

\* unwait takes one token off both counts; with one to go there is one leg.
LEMMA OneLess ==
  ASSUME NEW V \in SUBSET Routes, NEW L \in SUBSET Routes, NEW v \in V,
         Cardinality(V) <= Cardinality(L)
  PROVE  /\ Cardinality(V \ {v}) <= Cardinality(L \ {CHOOSE x \in L : TRUE})
         /\ Cardinality(L) = 1 => V = {v}
<1>1. /\ Cardinality(V) \in Nat /\ Cardinality(L) \in Nat /\ IsFiniteSet(V) /\ IsFiniteSet(L)
  BY FiniteRoutes
<1>2. IsFiniteSet(V \ {v}) /\ Cardinality(V \ {v}) = Cardinality(V) - 1
  BY <1>1, FS_RemoveElement
<1>3. L # {}
  <2>1. Cardinality(V) # 0
    BY <1>1, FS_EmptySet
  <2> QED
    BY <1>1, <2>1, FS_EmptySet
<1>4. (CHOOSE x \in L : TRUE) \in L
  BY <1>3
<1>5. Cardinality(L \ {CHOOSE x \in L : TRUE}) = Cardinality(L) - 1
  BY <1>1, <1>4, FS_RemoveElement
<1>6. ASSUME Cardinality(L) = 1 PROVE V = {v}
  <2>1. Cardinality(V \ {v}) = 0
    <3>1. Cardinality(V \ {v}) \in Nat
      BY <1>2, FS_CardinalityType
    <3> QED
      BY <1>1, <1>2, <1>6, <3>1
  <2>2. V \ {v} = {}
    BY <1>2, <2>1, FS_EmptySet
  <2> QED
    BY <2>2
<1> QED
  BY <1>1, <1>2, <1>5, <1>6

\* The last token that unwait receives is the only one to come.
LEMMA LastToken ==
  ASSUME FlowInv, NEW r \in Routes, CombineUnwait(r), Cardinality(left) = 1
  PROVE  Waiting = {r}
<1>1. fPC = "unwait" /\ pPC[r] = "wait"
  BY DEF CombineUnwait
<1>2. r \in Waiting /\ Waiting \in SUBSET Routes /\ left \in SUBSET Routes
      /\ Cardinality(Waiting) <= Cardinality(left)
  BY <1>1 DEF Waiting, WaitInv, CallInv, FlowInv, PlatoonsAligned, TypeOK
<1> QED
  BY <1>2, OneLess

\* Every step keeps CallInv.
LEMMA CallKept ==
  ASSUME FlowInv, PlatoonsCombined, [Next]_vars
  PROVE  CallInv'
<1> USE DEF srcVars, routerVars, legVars, histVars, fanVars, conVars
<1> USE DEF CallInv, LastPlatoon
<1>t. CallInv /\ TypeOK
  BY DEF FlowInv, PlatoonsAligned
<1>a. g.fanin \in {"combine", "merge", "mux"} /\ cplat \in Nat /\ MaxPlatoons \in Nat
      /\ LastPlatoon \in Nat
  BY <1>t, GraphFacts, BoundsAssumption DEF TypeOK
<1> USE <1>t, <1>a
<1>1. CASE RouterDone
  BY <1>1 DEF RouterDone
<1>2. CASE RouterBatch
  BY <1>2 DEF RouterBatch
<1>3. CASE RouterEOS
  BY <1>3 DEF RouterEOS
<1>4. CASE RouterSkip
  BY <1>4 DEF RouterSkip
<1>5. CASE RouterCancelled
  BY <1>5 DEF RouterCancelled
<1>6. ASSUME NEW r \in Routes, RouterSend(r) PROVE CallInv'
  BY <1>6 DEF RouterSend
<1>7. ASSUME NEW r \in Routes, RouterTakesDone(r) PROVE CallInv'
  BY <1>7 DEF RouterTakesDone
<1>8. ASSUME NEW r \in Routes, HeadEOS(r) PROVE CallInv'
  BY <1>8 DEF HeadEOS
<1>9. ASSUME NEW r \in Routes, CombineQueue(r) PROVE CallInv'
  BY <1>9 DEF CombineQueue
<1>10. ASSUME NEW r \in Routes, LegCancelled(r) PROVE CallInv'
  BY <1>10 DEF LegCancelled
<1>11. CASE CombineNext
  BY <1>11 DEF CombineNext
<1>12. CASE CombineRecv
  BY <1>12 DEF CombineRecv, ReturnBatch, ReturnErr
<1>13. CASE CombineDrain
  BY <1>13 DEF CombineDrain
<1>14. CASE CombineDoneAll
  BY <1>14 DEF CombineDoneAll
<1>15. ASSUME NEW r \in Routes, CombineUnwait(r) PROVE CallInv'
  BY <1>15 DEF CombineUnwait, ReturnEOS
<1>16. ASSUME NEW r \in Routes, CombineDone(r) PROVE CallInv'
  BY <1>16 DEF CombineDone
<1>17. ASSUME NEW r \in Routes, MuxRecv(r) PROVE CallInv'
  BY <1>17 DEF MuxRecv, ReturnBatch, ReturnErr
<1>18. CASE MergeStart
  BY <1>18 DEF MergeStart, MergeStarted, ReturnEOS, ReturnErr
<1>19. CASE MergeNext
  BY <1>19 DEF MergeNext
<1>20. CASE MergeReplenish
  BY <1>20 DEF MergeReplenish, ReturnBatch, ReturnErr
<1>21. CASE MergePop
  BY <1>21 DEF MergePop
<1>22. CASE MergeDone
  BY <1>22 DEF MergeDone
<1>23. CASE MuxEOS
  BY <1>23 DEF MuxEOS
<1>24. CASE PullCancelled
  BY <1>24 DEF PullCancelled
<1>25. CASE ConsumerPull
  <2>1. pPC[1] = "idle" => held = {}
    BY RouteFacts DEF FlowInv, LegInv, LegOK
  <2> QED
    BY <1>25, <2>1 DEF ConsumerPull
<1>26. CASE ConsumerStop
  BY <1>26 DEF ConsumerStop
<1>27. CASE Cancel
  BY <1>27 DEF Cancel
<1>28. CASE UNCHANGED vars
  BY <1>28 DEF vars
<1> QED
  BY <1>1, <1>2, <1>3, <1>4, <1>5, <1>6, <1>7, <1>8, <1>9, <1>10, <1>11, <1>12,
     <1>13, <1>14, <1>15, <1>16, <1>17, <1>18, <1>19, <1>20, <1>21, <1>22, <1>23, <1>24,
     <1>25, <1>26, <1>27, <1>28
     DEF Next, RouterStep, LegStep, FanInStep

\* Every step keeps RouterInv.
LEMMA RouterKept ==
  ASSUME FlowInv, PlatoonsCombined, [Next]_vars
  PROVE  RouterInv'
<1> USE DEF srcVars, routerVars, legVars, histVars, fanVars, conVars
<1> USE DEF RouterInv, LastPlatoon
<1>t. RouterInv /\ TypeOK
  BY DEF FlowInv, PlatoonsAligned
<1>a. g.fanin \in {"combine", "merge", "mux"}
  BY <1>t, GraphFacts DEF TypeOK
<1>b. /\ plat \in Nat /\ nb \in Nat /\ rTodo \in Seq(Routes) /\ blocked \subseteq Routes
      /\ \A f \in fwd : f[2] \in Batches /\ f[2][1] \in Nat
      /\ g.source \in {"platoons", "original"}
      /\ rPC \in {"top", "fwd", "eos", "end"}
      /\ MaxPlatoons \in Nat
  BY <1>t, BatchFacts, GraphFacts, BoundsAssumption DEF TypeOK
<1> USE <1>t
<1>1. CASE RouterDone
  BY <1>1, <1>b DEF RouterDone, SourceEnded
<1>2. CASE RouterBatch
  <2>1. rTodo' \in Seq(Routes) /\ IsInjective(rTodo')
    BY <1>2, SelectedFacts DEF RouterBatch
  <2>2. plat' = plat /\ nb' = nb + 1 /\ rBatch' = <<plat, nb + 1>> /\ srcErr' = srcErr /\ ~srcErr
        /\ rBatch' \in Batches /\ g' = g /\ plat <= LastPlatoon /\ rPC' = "fwd" /\ blocked' = blocked
    <3>1. plat \in 1..MaxPlatoons + 1 /\ nb + 1 \in 1..MaxBatches
      BY <1>2, <1>b, BoundsAssumption DEF RouterBatch, TypeOK
    <3> QED
      BY <1>2, <1>b, <3>1, BatchFacts DEF RouterBatch, SourceEnded
  <2>3. \A f \in fwd' : f \in fwd \/ f[2] = rBatch'
    BY <1>2 DEF RouterBatch
  <2>4. \A f \in fwd' : f[2][1] <= plat /\ f[2][1] <= LastPlatoon
    BY <1>b, <2>2, <2>3
  <2> QED
    BY <1>b, <2>1, <2>2, <2>4
<1>3. CASE RouterEOS
  <2>1. rTodo' # <<>> /\ Range(rTodo') = Routes /\ IsInjective(rTodo')
    BY <1>3, RouteFacts DEF RouterEOS
  <2>2. rPC' = "eos" /\ rBatch' = EOS /\ blocked' = blocked /\ fwd' = fwd /\ g' = g
    BY <1>3 DEF RouterEOS
  <2>3. rBatch' \notin Batches
    BY <2>2, BatchFacts
  <2>4. plat' = plat \/ plat' = plat + 1
    BY <1>3 DEF RouterEOS
  <2>5. g.source = "original" => plat' <= 2 /\ (plat' = 2 \/ srcErr')
    BY <1>3, <1>b DEF RouterEOS, SourceEnded, TypeOK
  <2> QED
    BY <1>b, <2>1, <2>2, <2>3, <2>4, <2>5
<1>4. CASE RouterSkip
  <2>1. CASE rTodo = <<>>
    BY <1>4, <2>1, <1>b, EmptyRange DEF RouterSkip
  <2>2. CASE rTodo # <<>>
    <3> DEFINE r == Head(rTodo)
    <3>0. RouterAdvance(blocked) /\ Head(rTodo) \in blocked
      BY <1>4, <2>2 DEF RouterSkip
    <3>1. /\ rTodo' \in Seq(Routes) /\ rTodo' = Tail(rTodo) /\ rBatch' = rBatch
          /\ rPC' = rPC \/ (rPC' = "top" /\ rTodo' = <<>>)
          /\ rTodo' = <<>> => rPC' = "top"
          /\ rPC = "fwd" => blocked' = blocked
          /\ rPC = "eos" => blocked' = IF rTodo' = <<>> THEN {} ELSE blocked
      <4>1. blocked \in SUBSET Routes
        BY <1>b
      <4> QED
        BY <1>4, <2>2, <3>0, <1>b, <4>1, AdvanceFacts DEF RouterSkip
    <3>2. /\ IsInjective(rTodo') /\ Range(rTodo) = {r} \cup Range(rTodo')
      BY <1>4, <1>b, <3>1, <2>2, TailFacts DEF RouterSkip
    <3>3. CASE rPC = "fwd"
      BY <1>4, <3>0, <3>1, <3>2, <3>3, <1>b, BatchFacts DEF RouterSkip
    <3>4. CASE rPC = "eos"
      BY <1>4, <3>0, <3>1, <3>2, <3>4, <1>b, BatchFacts DEF RouterSkip
    <3> QED
      BY <1>4, <3>2, <3>3, <3>4 DEF RouterSkip
  <2> QED
    BY <2>1, <2>2
<1>5. CASE RouterCancelled
  BY <1>5 DEF RouterCancelled
<1>6. ASSUME NEW r \in Routes, RouterSend(r) PROVE RouterInv'
  <2>1. /\ rTodo' \in Seq(Routes) /\ rTodo' = Tail(rTodo) /\ rBatch' = rBatch
        /\ rPC' = rPC \/ (rPC' = "top" /\ rTodo' = <<>>)
        /\ rTodo' = <<>> => rPC' = "top"
        /\ rPC = "fwd" => blocked' = (IF rPC = "eos" THEN blocked \cup {r} ELSE blocked)
        /\ rPC = "eos" => blocked' = IF rTodo' = <<>> THEN {} ELSE (IF rPC = "eos" THEN blocked \cup {r} ELSE blocked)
    <3>1. (IF rPC = "eos" THEN blocked \cup {r} ELSE blocked) \in SUBSET Routes
      BY <1>b
    <3> QED
      BY <1>6, <1>b, <3>1, AdvanceFacts DEF RouterSend
  <2>2. /\ IsInjective(rTodo') /\ Range(rTodo) = {r} \cup Range(rTodo')
    BY <1>6, <1>b, <2>1, TailFacts DEF RouterSend
  <2>3. CASE rPC = "fwd"
    BY <1>6, <2>1, <2>2, <2>3, <1>b, BatchFacts DEF RouterSend
  <2>4. CASE rPC = "eos"
    BY <1>6, <2>1, <2>2, <2>4, <1>b, BatchFacts DEF RouterSend
  <2> QED
    BY <1>6, <2>3, <2>4 DEF RouterSend
<1>7. ASSUME NEW r \in Routes, RouterTakesDone(r) PROVE RouterInv'
  <2>1. /\ rTodo' \in Seq(Routes) /\ rTodo' = Tail(rTodo) /\ rBatch' = rBatch
        /\ rPC' = rPC \/ (rPC' = "top" /\ rTodo' = <<>>)
        /\ rTodo' = <<>> => rPC' = "top"
        /\ rPC = "fwd" => blocked' = (blocked \cup {r})
        /\ rPC = "eos" => blocked' = IF rTodo' = <<>> THEN {} ELSE (blocked \cup {r})
    <3>1. (blocked \cup {r}) \in SUBSET Routes
      BY <1>b
    <3> QED
      BY <1>7, <1>b, <3>1, AdvanceFacts DEF RouterTakesDone
  <2>2. /\ IsInjective(rTodo') /\ Range(rTodo) = {r} \cup Range(rTodo')
    BY <1>7, <1>b, <2>1, TailFacts DEF RouterTakesDone
  <2>3. CASE rPC = "fwd"
    BY <1>7, <2>1, <2>2, <2>3, <1>b, BatchFacts DEF RouterTakesDone
  <2>4. CASE rPC = "eos"
    BY <1>7, <2>1, <2>2, <2>4, <1>b, BatchFacts DEF RouterTakesDone
  <2> QED
    BY <1>7, <2>3, <2>4 DEF RouterTakesDone
<1>8. ASSUME NEW r \in Routes, HeadEOS(r) PROVE RouterInv'
  BY <1>8 DEF HeadEOS
<1>9. ASSUME NEW r \in Routes, CombineQueue(r) PROVE RouterInv'
  BY <1>9 DEF CombineQueue
<1>10. ASSUME NEW r \in Routes, LegCancelled(r) PROVE RouterInv'
  BY <1>10 DEF LegCancelled
<1>11. CASE CombineNext
  BY <1>11 DEF CombineNext
<1>12. CASE CombineRecv
  BY <1>12 DEF CombineRecv, ReturnBatch, ReturnErr
<1>13. CASE CombineDrain
  BY <1>13 DEF CombineDrain
<1>14. CASE CombineDoneAll
  BY <1>14 DEF CombineDoneAll
<1>15. ASSUME NEW r \in Routes, CombineUnwait(r) PROVE RouterInv'
  BY <1>15 DEF CombineUnwait, ReturnEOS
<1>16. ASSUME NEW r \in Routes, CombineDone(r) PROVE RouterInv'
  BY <1>16 DEF CombineDone
<1>17. ASSUME NEW r \in Routes, MuxRecv(r) PROVE RouterInv'
  BY <1>17 DEF MuxRecv, ReturnBatch, ReturnErr
<1>18. CASE MergeStart
  BY <1>18 DEF MergeStart, MergeStarted, ReturnEOS, ReturnErr
<1>19. CASE MergeNext
  BY <1>19 DEF MergeNext
<1>20. CASE MergeReplenish
  BY <1>20 DEF MergeReplenish, ReturnBatch, ReturnErr
<1>21. CASE MergePop
  BY <1>21 DEF MergePop
<1>22. CASE MergeDone
  BY <1>22 DEF MergeDone
<1>23. CASE MuxEOS
  BY <1>23 DEF MuxEOS
<1>24. CASE PullCancelled
  BY <1>24 DEF PullCancelled
<1>25. CASE ConsumerPull
  BY <1>25 DEF ConsumerPull
<1>26. CASE ConsumerStop
  BY <1>26 DEF ConsumerStop
<1>27. CASE Cancel
  BY <1>27 DEF Cancel
<1>28. CASE UNCHANGED vars
  BY <1>28 DEF vars
<1> QED
  BY <1>1, <1>2, <1>3, <1>4, <1>5, <1>6, <1>7, <1>8, <1>9, <1>10, <1>11, <1>12,
     <1>13, <1>14, <1>15, <1>16, <1>17, <1>18, <1>19, <1>20, <1>21, <1>22, <1>23, <1>24,
     <1>25, <1>26, <1>27, <1>28
     DEF Next, RouterStep, LegStep, FanInStep

\* Every step keeps LegInv.
LEMMA LegKept ==
  ASSUME FlowInv, PlatoonsCombined, [Next]_vars
  PROVE  LegInv'
<1> USE DEF srcVars, routerVars, legVars, histVars, fanVars, conVars
<1> USE DEF LegInv, LegOK
<1>t. LegInv /\ TypeOK /\ CallInv
  BY DEF FlowInv, PlatoonsAligned
<1>a. g.fanin \in {"combine", "merge", "mux"}
  BY <1>t, GraphFacts DEF TypeOK
<1>b. /\ pPC \in [Routes -> {"idle", "pull", "legdone", "queue", "offer", "pulldone", "wait", "end"}]
      /\ pRes \in [Routes -> Results] /\ hol \in [Routes -> Results]
      /\ EOS \notin Batches /\ ERR \notin Batches /\ spent \subseteq g.heads
      /\ held \subseteq Routes /\ cur \in Routes /\ left \subseteq Routes
  BY <1>t, BatchFacts DEF TypeOK
<1> USE <1>t
<1>1. CASE RouterDone
  BY <1>1 DEF RouterDone
<1>2. CASE RouterBatch
  BY <1>2 DEF RouterBatch
<1>3. CASE RouterEOS
  BY <1>3 DEF RouterEOS
<1>4. CASE RouterSkip
  BY <1>4 DEF RouterSkip
<1>5. CASE RouterCancelled
  BY <1>5 DEF RouterCancelled
<1>6. ASSUME NEW r \in Routes, RouterSend(r) PROVE LegInv'
  <2>0. rPC = "fwd" => rBatch \in Batches
    BY DEF FlowInv, RouterInv
  <2>1. \A q \in Routes : pPC[q] # "idle"
    BY <1>6, <1>b DEF RouterSend
  <2>2. ASSUME NEW q \in Routes PROVE LegOK(q)'
    <3>1. CASE q = r
      BY <1>6, <1>b, <2>0, <2>1, <3>1 DEF RouterSend, Received
    <3>2. CASE q # r
      BY <1>6, <1>b, <2>0, <2>1, <3>2 DEF RouterSend, Received
    <3> QED
      BY <3>1, <3>2
  <2> QED
    BY <2>2
<1>7. ASSUME NEW r \in Routes, RouterTakesDone(r) PROVE LegInv'
  <2>1. \A q \in Routes : pPC[q] # "idle"
    BY <1>7, <1>b DEF RouterTakesDone
  <2>2. ASSUME NEW q \in Routes PROVE LegOK(q)'
    <3>1. CASE q = r
      BY <1>7, <1>b, <2>1, <3>1 DEF RouterTakesDone, Received
    <3>2. CASE q # r
      BY <1>7, <1>b, <2>1, <3>2 DEF RouterTakesDone, Received
    <3> QED
      BY <3>1, <3>2
  <2> QED
    BY <2>2
<1>8. ASSUME NEW r \in Routes, HeadEOS(r) PROVE LegInv'
  <2>1. \A q \in Routes : pPC[q] # "idle"
    BY <1>8, <1>b DEF HeadEOS
  <2>2. ASSUME NEW q \in Routes PROVE LegOK(q)'
    <3>1. CASE q = r
      BY <1>8, <1>b, <2>1, <3>1 DEF HeadEOS, Received
    <3>2. CASE q # r
      BY <1>8, <1>b, <2>1, <3>2 DEF HeadEOS, Received
    <3> QED
      BY <3>1, <3>2
  <2> QED
    BY <2>2
<1>9. ASSUME NEW r \in Routes, CombineQueue(r) PROVE LegInv'
  BY <1>9 DEF CombineQueue
<1>10. ASSUME NEW r \in Routes, LegCancelled(r) PROVE LegInv'
  BY <1>10 DEF LegCancelled
<1>11. CASE CombineNext
  BY <1>11 DEF CombineNext
<1>12. CASE CombineRecv
  <2>1. \A q \in Routes : pPC[q] # "idle"
    BY <1>12, <1>b DEF CombineRecv
  <2>2. ASSUME NEW q \in Routes PROVE LegOK(q)'
    <3>1. CASE q = cur
      BY <1>12, <1>b, <2>1, <3>1 DEF CombineRecv, ReturnBatch, ReturnErr
    <3>2. CASE q # cur
      BY <1>12, <1>b, <2>1, <3>2 DEF CombineRecv, ReturnBatch, ReturnErr, CallInv
    <3> QED
      BY <3>1, <3>2
  <2> QED
    BY <2>2
<1>13. CASE CombineDrain
  BY <1>13 DEF CombineDrain
<1>14. CASE CombineDoneAll
  BY <1>14 DEF CombineDoneAll
<1>15. ASSUME NEW r \in Routes, CombineUnwait(r) PROVE LegInv'
  <2> SUFFICES ASSUME NEW q \in Routes PROVE LegOK(q)'
    OBVIOUS
  <2>1. fPC = "unwait" /\ pPC' = [pPC EXCEPT ![r] = "pull"] /\ pPC[r] = "wait" /\ g' = g
        /\ pRes' = pRes /\ spent' = spent /\ hol' = hol /\ g.fanin = "combine"
    BY <1>15 DEF CombineUnwait, CallInv
  <2>2. \A x \in Routes : pPC[x] # "idle"
    BY <1>b, <2>1
  <2>3. pPC'[q] # "pulldone" \/ cPC' = cPC
    <3>1. CASE Cardinality(left) = 1
      BY <1>15, <1>b, <2>1, <3>1, LastToken DEF Waiting
    <3>2. CASE Cardinality(left) # 1
      BY <1>15, <3>2 DEF CombineUnwait
    <3> QED
      BY <3>1, <3>2
  <2> QED
    BY <1>b, <2>1, <2>2, <2>3
<1>16. ASSUME NEW r \in Routes, CombineDone(r) PROVE LegInv'
  BY <1>16, <1>b DEF CombineDone, CallInv
<1>17. ASSUME NEW r \in Routes, MuxRecv(r) PROVE LegInv'
  BY <1>17 DEF MuxRecv, ReturnBatch, ReturnErr
<1>18. CASE MergeStart
  <2> DEFINE x == CHOOSE p \in left : \A y \in left : p <= y
  <2>0. x \in Routes
    BY <1>18, <1>b, LeastRoute DEF MergeStart
  <2>1. \A q \in Routes : pPC[q] # "idle"
    BY <1>18, <1>b, <2>0 DEF MergeStart
  <2>2. ASSUME NEW q \in Routes PROVE LegOK(q)'
    <3>1. CASE q = x
      <4>1. /\ pPC'[x] \in {"end", "pull"} /\ hol'[x] = pRes[x] /\ spent' = spent /\ g' = g
            /\ held' = IF pRes[x] \in Batches THEN held \cup {x} ELSE held
        BY <1>18, <1>b, <2>0 DEF MergeStart
      <4>2. x \in spent => pRes[x] \in Batches
        BY <1>18, <1>b, <2>0 DEF MergeStart
      <4>3. left # {} /\ fPC \in {"start", "eos"} /\ pPC[x] = "offer"
        BY <1>18 DEF MergeStart
      <4>4. x \notin held
        BY <1>18, <4>3, <1>b, LeastRoute DEF FlowInv, CallInv
      <4> QED
        BY <1>b, <2>0, <2>1, <3>1, <4>1, <4>2, <4>3, <4>4
    <3>2. CASE q # x
      <4>1. /\ pPC'[q] = pPC[q] /\ spent' = spent /\ g' = g /\ pRes' = pRes
            /\ (q \in held') = (q \in held) /\ hol'[q] = hol[q] /\ \A p \in Routes : pPC'[p] # "idle"
        BY <1>18, <1>b, <2>0, <2>1, <3>2 DEF MergeStart
      <4>2. (fPC' = "start" => fPC = "start") /\ g.fanin = "merge"
        BY <1>18 DEF MergeStart, MergeStarted, ReturnEOS, ReturnErr, CallInv
      <4> QED
        BY <4>1, <4>2
    <3> QED
      BY <3>1, <3>2
  <2> QED
    BY <2>2
<1>19. CASE MergeNext
  BY <1>19 DEF MergeNext
<1>20. CASE MergeReplenish
  BY <1>20 DEF MergeReplenish, ReturnBatch, ReturnErr
<1>21. CASE MergePop
  BY <1>21 DEF MergePop
<1>22. CASE MergeDone
  <2> SUFFICES ASSUME NEW q \in Routes PROVE LegOK(q)'
    OBVIOUS
  <2>1. g.fanin = "merge" /\ cur \notin held /\ pPC' = [pPC EXCEPT ![cur] = "pulldone"]
        /\ pPC[cur] = "offer" /\ fPC' = "done" /\ pRes' = pRes /\ spent' = spent /\ held' = held
        /\ hol' = hol /\ g' = g /\ fwd' = fwd
    BY <1>22 DEF MergeDone, CallInv
  <2>2. \A p \in Routes : pPC[p] # "idle"
    BY <1>b, <2>1
  <2> QED
    BY <1>b, <2>1, <2>2
<1>23. CASE MuxEOS
  BY <1>23 DEF MuxEOS
<1>24. CASE PullCancelled
  BY <1>24 DEF PullCancelled
<1>25. CASE ConsumerPull
  <2> SUFFICES ASSUME NEW q \in Routes PROVE LegOK(q)'
    OBVIOUS
  <2>1. pPC'[q] = IF pPC[q] = "idle" THEN "pull" ELSE pPC[q]
    BY <1>25, <1>b DEF ConsumerPull
  <2>2. cPC' \in {"pull", "done"} /\ held' = held /\ hol' = hol /\ pRes' = pRes /\ spent' = spent
        /\ g' = g /\ cPC = "idle"
    BY <1>25 DEF ConsumerPull
  <2>3. fPC' = "start" => pPC[1] = "idle"
    BY <1>25 DEF ConsumerPull
  <2>4. fPC' = "start" => pPC[q] = "idle"
    BY <1>b, <2>3, RouteFacts
  <2>5. \A p \in Routes : pPC'[p] # "idle"
    BY <1>25, <1>b DEF ConsumerPull
  <2> QED
    BY <1>b, <2>1, <2>2, <2>4, <2>5
<1>26. CASE ConsumerStop
  BY <1>26 DEF ConsumerStop
<1>27. CASE Cancel
  BY <1>27 DEF Cancel
<1>28. CASE UNCHANGED vars
  BY <1>28 DEF vars
<1> QED
  BY <1>1, <1>2, <1>3, <1>4, <1>5, <1>6, <1>7, <1>8, <1>9, <1>10, <1>11, <1>12,
     <1>13, <1>14, <1>15, <1>16, <1>17, <1>18, <1>19, <1>20, <1>21, <1>22, <1>23, <1>24,
     <1>25, <1>26, <1>27, <1>28
     DEF Next, RouterStep, LegStep, FanInStep

\* Every step keeps WaitInv.
LEMMA WaitKept ==
  ASSUME FlowInv, PlatoonsCombined, [Next]_vars
  PROVE  WaitInv'
<1> USE DEF srcVars, routerVars, legVars, histVars, fanVars, conVars
<1> USE DEF WaitInv, Waiting
<1>t. WaitInv /\ TypeOK /\ CallInv
  BY DEF FlowInv, PlatoonsAligned
<1>a. g.fanin \in {"combine", "merge", "mux"}
  BY <1>t, GraphFacts DEF TypeOK
<1>b. /\ pPC \in [Routes -> {"idle", "pull", "legdone", "queue", "offer", "pulldone", "wait", "end"}]
      /\ held \subseteq Routes /\ cur \in Routes /\ left \subseteq Routes
  BY <1>t DEF TypeOK
<1> USE <1>t
<1>1. CASE RouterDone
  BY <1>1 DEF RouterDone
<1>2. CASE RouterBatch
  BY <1>2 DEF RouterBatch
<1>3. CASE RouterEOS
  BY <1>3 DEF RouterEOS
<1>4. CASE RouterSkip
  BY <1>4 DEF RouterSkip
<1>5. CASE RouterCancelled
  BY <1>5 DEF RouterCancelled
<1>6. ASSUME NEW r \in Routes, RouterSend(r) PROVE WaitInv'
  <2>1. left' = left /\ held' = held /\ fPC' = fPC /\ cPC' = cPC /\ g' = g
    BY <1>6 DEF RouterSend
  <2>2. Waiting' \subseteq Waiting
    BY <1>6, <1>b DEF RouterSend, Received
  <2>3. g.fanin = "combine" =>
          \A q \in Routes : pPC[q] \in {"wait", "pulldone", "end"} => pPC'[q] \in {"wait", "pulldone", "end"}
    BY <1>6, <1>b DEF RouterSend, Received
  <2>4. Cardinality(Waiting) <= Cardinality(left) => Cardinality(Waiting') <= Cardinality(left)
    BY <2>2, FewerWait
  <2> QED
    BY <1>b, <2>1, <2>3, <2>4
<1>7. ASSUME NEW r \in Routes, RouterTakesDone(r) PROVE WaitInv'
  <2>1. left' = left /\ held' = held /\ fPC' = fPC /\ cPC' = cPC /\ g' = g
    BY <1>7 DEF RouterTakesDone
  <2>2. Waiting' \subseteq Waiting
    BY <1>7, <1>b DEF RouterTakesDone, Received
  <2>3. g.fanin = "combine" =>
          \A q \in Routes : pPC[q] \in {"wait", "pulldone", "end"} => pPC'[q] \in {"wait", "pulldone", "end"}
    BY <1>7, <1>b DEF RouterTakesDone
  <2>4. Cardinality(Waiting) <= Cardinality(left) => Cardinality(Waiting') <= Cardinality(left)
    BY <2>2, FewerWait
  <2> QED
    BY <1>b, <2>1, <2>3, <2>4
<1>8. ASSUME NEW r \in Routes, HeadEOS(r) PROVE WaitInv'
  <2>1. left' = left /\ held' = held /\ fPC' = fPC /\ cPC' = cPC /\ g' = g
    BY <1>8 DEF HeadEOS
  <2>2. Waiting' \subseteq Waiting
    BY <1>8, <1>b DEF HeadEOS, Received
  <2>3. g.fanin = "combine" =>
          \A q \in Routes : pPC[q] \in {"wait", "pulldone", "end"} => pPC'[q] \in {"wait", "pulldone", "end"}
    BY <1>8, <1>b DEF HeadEOS, Received
  <2>4. Cardinality(Waiting) <= Cardinality(left) => Cardinality(Waiting') <= Cardinality(left)
    BY <2>2, FewerWait
  <2> QED
    BY <1>b, <2>1, <2>3, <2>4
<1>9. ASSUME NEW r \in Routes, CombineQueue(r) PROVE WaitInv'
  <2>1. left' = left /\ held' = held /\ fPC' = fPC /\ cPC' = cPC /\ g' = g
    BY <1>9 DEF CombineQueue
  <2>2. Waiting' \subseteq Waiting
    BY <1>9, <1>b DEF CombineQueue
  <2>3. g.fanin = "combine" =>
          \A q \in Routes : pPC[q] \in {"wait", "pulldone", "end"} => pPC'[q] \in {"wait", "pulldone", "end"}
    BY <1>9, <1>b DEF CombineQueue
  <2>4. Cardinality(Waiting) <= Cardinality(left) => Cardinality(Waiting') <= Cardinality(left)
    BY <2>2, FewerWait
  <2> QED
    BY <1>b, <2>1, <2>3, <2>4
<1>10. ASSUME NEW r \in Routes, LegCancelled(r) PROVE WaitInv'
  <2>1. left' = left /\ held' = held /\ fPC' = fPC /\ cPC' = cPC /\ g' = g
    BY <1>10 DEF LegCancelled
  <2>2. Waiting' \subseteq Waiting
    BY <1>10, <1>b DEF LegCancelled
  <2>3. g.fanin = "combine" =>
          \A q \in Routes : pPC[q] \in {"wait", "pulldone", "end"} => pPC'[q] \in {"wait", "pulldone", "end"}
    BY <1>10, <1>b DEF LegCancelled
  <2>4. Cardinality(Waiting) <= Cardinality(left) => Cardinality(Waiting') <= Cardinality(left)
    BY <2>2, FewerWait
  <2> QED
    BY <1>b, <2>1, <2>3, <2>4
<1>11. CASE CombineNext
  BY <1>11, <1>b, AllWait DEF CombineNext
<1>12. CASE CombineRecv
  <2>1. fPC = "recv" /\ cPC \in {"pull", "done"} /\ fPC' \in {"idle", "next"} /\ pPC[cur] = "offer" /\ g' = g
    BY <1>12 DEF CombineRecv, ReturnBatch, ReturnErr, CallInv
  <2>2. \A q \in Routes : q \in held' => (q \in held /\ q # cur) \/ (q = cur /\ pPC'[cur] = "wait")
    BY <1>12, <1>b, <2>1 DEF CombineRecv
  <2>3. \A q \in Routes : q # cur => pPC'[q] = pPC[q]
    BY <1>12, <1>b DEF CombineRecv
  <2>4. held' \subseteq Routes
    BY <1>12, <1>b DEF CombineRecv
  <2> QED
    BY <1>12, <1>b, <2>1, <2>2, <2>3, <2>4 DEF CombineRecv
<1>13. CASE CombineDrain
  BY <1>13 DEF CombineDrain
<1>14. CASE CombineDoneAll
  BY <1>14, <1>b, AllWait DEF CombineDoneAll
<1>15. ASSUME NEW r \in Routes, CombineUnwait(r) PROVE WaitInv'
  <2>1. fPC = "unwait" /\ pPC[r] = "wait" /\ g.fanin = "combine" /\ cPC \in {"pull", "done"} /\ g' = g
    BY <1>15 DEF CombineUnwait, CallInv
  <2>2. Cardinality(Waiting) <= Cardinality(left)
    BY <2>1
  <2>3. Waiting' = Waiting \ {r} /\ r \in Waiting
    BY <1>15, <1>b, <2>1 DEF CombineUnwait
  <2>4. CASE Cardinality(left) = 1
    BY <1>15, <2>4 DEF CombineUnwait, ReturnEOS
  <2>5. CASE Cardinality(left) # 1
    <3>1. fPC' = fPC /\ held' = held
      BY <1>15, <2>5 DEF CombineUnwait
    <3> DEFINE q == CHOOSE x \in left : TRUE
    <3>2. left' = left \ {q}
      BY <1>15 DEF CombineUnwait
    <3>3. Cardinality(Waiting') <= Cardinality(left')
      BY <1>b, <2>2, <2>3, <3>2, OneLess
    <3> QED
      BY <1>t, <2>1, <3>1, <3>3
  <2> QED
    BY <2>4, <2>5
<1>16. ASSUME NEW r \in Routes, CombineDone(r) PROVE WaitInv'
  <2>1. fPC = "done" /\ fPC' = "done" /\ g' = g /\ cPC' = cPC /\ held' = held \cup {r} /\ left' = left \ {r}
    BY <1>16 DEF CombineDone
  <2>2. pPC'[r] \in {"pulldone", "wait"} /\ \A q \in Routes : q # r => pPC'[q] = pPC[q]
    BY <1>16, <1>b DEF CombineDone
  <2> QED
    BY <1>b, <2>1, <2>2
<1>17. ASSUME NEW r \in Routes, MuxRecv(r) PROVE WaitInv'
  BY <1>17 DEF MuxRecv, ReturnBatch, ReturnErr
<1>18. CASE MergeStart
  BY <1>18, <1>a DEF MergeStart, FlowInv, CallInv
<1>19. CASE MergeNext
  BY <1>19 DEF MergeNext
<1>20. CASE MergeReplenish
  BY <1>20 DEF MergeReplenish, ReturnBatch, ReturnErr
<1>21. CASE MergePop
  BY <1>21 DEF MergePop
<1>22. CASE MergeDone
  BY <1>22 DEF MergeDone, CallInv
<1>23. CASE MuxEOS
  BY <1>23 DEF MuxEOS
<1>24. CASE PullCancelled
  BY <1>24 DEF PullCancelled
<1>25. CASE ConsumerPull
  <2>1. fPC' # "unwait" /\ g' = g /\ held' = held /\ cPC = "idle" /\ fPC # "unwait"
    BY <1>25 DEF ConsumerPull, CallInv
  <2>2. \A q \in Routes : pPC[q] # "idle" => pPC'[q] = pPC[q]
    BY <1>25, <1>b DEF ConsumerPull
  <2>3. g.fanin = "combine" => left' = Routes \ held
    BY <1>25 DEF ConsumerPull
  <2> QED
    BY <1>b, <2>1, <2>2, <2>3
<1>26. CASE ConsumerStop
  BY <1>26 DEF ConsumerStop
<1>27. CASE Cancel
  BY <1>27 DEF Cancel
<1>28. CASE UNCHANGED vars
  BY <1>28 DEF vars
<1> QED
  BY <1>1, <1>2, <1>3, <1>4, <1>5, <1>6, <1>7, <1>8, <1>9, <1>10, <1>11, <1>12,
     <1>13, <1>14, <1>15, <1>16, <1>17, <1>18, <1>19, <1>20, <1>21, <1>22, <1>23, <1>24,
     <1>25, <1>26, <1>27, <1>28
     DEF Next, RouterStep, LegStep, FanInStep

(***************************************************************************)
(* Legs and routes in step.                                                *)
(***************************************************************************)

\* The graph stays.
LEMMA GraphStays ==
  ASSUME [Next]_vars
  PROVE  g' = g
  BY DEF Next, vars, RouterStep, LegStep, FanInStep, RouterDone, RouterBatch, RouterEOS,
     RouterSkip, RouterCancelled, RouterSend, RouterTakesDone, HeadEOS, CombineQueue,
     LegCancelled, CombineNext, CombineRecv, CombineDrain, CombineDoneAll, CombineUnwait,
     CombineDone, MuxRecv, MergeStart, MergeNext, MergeReplenish, MergePop, MergeDone,
     MuxEOS, PullCancelled, ConsumerPull, ConsumerStop, Cancel

\* A route goes to its next platoon when it gets blocked, and stays in it when the
\* routes are unblocked after an EOS.
LEMMA RouteAdvance ==
  ASSUME TypeOK, RouterInv, rTodo # <<>>, rPC \in {"fwd", "eos"}, plat' = plat,
         NEW S \in SUBSET Routes, blocked \subseteq S, rPC = "eos" => Head(rTodo) \in S,
         RouterAdvance(S), NEW q \in Routes
  PROVE  /\ RouteAt(q)' = IF q \in S /\ q \notin blocked THEN RouteAt(q) + 1 ELSE RouteAt(q)
         /\ rPC # "end" /\ rPC' # "end"
<1>1. rTodo \in Seq(Routes) /\ plat \in Nat
  BY BatchFacts DEF TypeOK
<1>2. /\ rTodo' = Tail(rTodo)
      /\ rPC' = rPC \/ (rPC' = "top" /\ rTodo' = <<>>)
      /\ rTodo' = <<>> => rPC' = "top"
      /\ rPC = "fwd" => blocked' = S
      /\ rPC = "eos" => blocked' = IF rTodo' = <<>> THEN {} ELSE S
  BY <1>1, AdvanceFacts
<1>3. CASE rPC = "fwd"
  BY <1>1, <1>2, <1>3 DEF RouteAt
<1>4. CASE rPC = "eos" /\ rTodo' # <<>>
  BY <1>1, <1>2, <1>4 DEF RouteAt
<1>5. CASE rPC = "eos" /\ rTodo' = <<>>
  <2>1. Range(rTodo) = {Head(rTodo)}
    <3>1. Range(rTodo) = {Head(rTodo)} \cup Range(Tail(rTodo))
      BY <1>1, TailFacts
    <3>2. Tail(rTodo) = <<>>
      BY <1>2, <1>5
    <3> QED
      BY <3>1, <3>2, EmptyRange
  <2>2. q \in S
    BY <1>5, <2>1 DEF RouterInv
  <2> QED
    BY <1>1, <1>2, <1>5, <2>2 DEF RouteAt
<1> QED
  BY <1>3, <1>4, <1>5

\* A leg is in its next platoon when unwait has its token, and the others stay.
LEMMA UnwaitLegAt ==
  ASSUME FlowInv, NEW r \in Routes, CombineUnwait(r), NEW q \in Routes
  PROVE  LegAt(q)' = IF q = r THEN LegAt(q) + 1 ELSE LegAt(q)
<1> USE DEF srcVars, routerVars, legVars, histVars, fanVars, conVars
<1>1. fPC = "unwait" /\ pPC[r] = "wait" /\ r \in Waiting /\ cplat \in Nat
      /\ pPC \in [Routes -> {"idle", "pull", "legdone", "queue", "offer", "pulldone", "wait", "end"}]
  BY BoundsAssumption DEF CombineUnwait, Waiting, FlowInv, PlatoonsAligned, TypeOK
<1>2. CASE Cardinality(left) = 1
  <2>1. r \in Waiting /\ Waiting \in SUBSET Routes /\ left \in SUBSET Routes
        /\ Cardinality(Waiting) <= Cardinality(left)
    BY <1>1 DEF Waiting, WaitInv, CallInv, FlowInv, PlatoonsAligned, TypeOK
  <2>2. Waiting = {r}
    BY <1>2, <2>1, OneLess
  <2>3. fPC' = "idle" /\ cplat' = cplat + 1
    BY <1>2 DEF CombineUnwait, ReturnEOS
  <2> QED
    BY <1>1, <2>2, <2>3 DEF LegAt
<1>3. CASE Cardinality(left) # 1
  <2>1. fPC' = fPC /\ cplat' = cplat /\ pPC' = [pPC EXCEPT ![r] = "pull"]
    BY <1>3 DEF CombineUnwait
  <2> QED
    BY <1>1, <2>1 DEF LegAt, Waiting
<1> QED
  BY <1>2, <1>3

\* When unwait begins, every leg is still in its platoon.
LEMMA WaitLegAt ==
  ASSUME FlowInv, CombineNext \/ CombineDoneAll, NEW q \in Routes, pPC[q] # "end"
  PROVE  LegAt(q)' = LegAt(q)
<1> USE DEF srcVars, routerVars, legVars, histVars, fanVars, conVars
<1>1. /\ WaitInv /\ CallInv /\ g.fanin = "combine" /\ fPC \in {"next", "done"} /\ cplat' = cplat
      /\ pPC' = pPC
      /\ fPC' = "unwait" => q \in held
  BY DEF FlowInv, CombineNext, CombineDoneAll, WaitInv, CallInv
<1>2. fPC' = "unwait" => q \in Waiting
  BY <1>1 DEF WaitInv, CallInv, Waiting
<1> QED
  BY <1>1, <1>2 DEF LegAt, Waiting

\* Every step keeps LockstepInv: EOS and done meet once per route and platoon.
LEMMA LockstepKept ==
  ASSUME FlowInv, PlatoonsCombined, [Next]_vars
  PROVE  LockstepInv'
<1> USE DEF srcVars, routerVars, legVars, histVars, fanVars, conVars
<1> SUFFICES ASSUME g.source = "platoons", NEW q \in Routes, Active(q)' PROVE Lockstep(q)'
  BY GraphStays DEF LockstepInv
<1>t. LockstepInv /\ TypeOK /\ CallInv /\ RouterInv /\ LegInv /\ WaitInv
  BY DEF FlowInv, PlatoonsAligned
<1>b. /\ g.fanin = "combine" /\ plat \in Nat /\ cplat \in Nat /\ blocked \subseteq Routes
      /\ pPC \in [Routes -> {"idle", "pull", "legdone", "queue", "offer", "pulldone", "wait", "end"}]
      /\ pRes \in [Routes -> Results]
      /\ EOS # ERR /\ EOS \notin Batches /\ ERR \notin Batches
      /\ LegOK(q) /\ (Active(q) => Lockstep(q))
  BY <1>t, BatchFacts, GraphFacts DEF TypeOK, LegInv, LockstepInv
<1>1. CASE RouterDone
  BY <1>1, <1>b DEF RouterDone, SourceEnded, Lockstep, RouteAt, Resolved, LegAt, Waiting, Active
<1>2. CASE RouterBatch
  BY <1>2, <1>b DEF RouterBatch, Lockstep, RouteAt, Resolved, LegAt, Waiting, Active
<1>3. CASE RouterEOS
  BY <1>3, <1>b DEF RouterEOS, SourceEnded, Lockstep, RouteAt, Resolved, LegAt, Waiting, Active
<1>4. CASE RouterSkip
  <2>1. Resolved(q)' = Resolved(q) /\ LegAt(q)' = LegAt(q) /\ Active(q) /\ srcErr' = srcErr
    BY <1>4 DEF RouterSkip, Active, Resolved, LegAt, Waiting
  <2>2. RouteAt(q)' = RouteAt(q) /\ rPC # "end"
    <3>1. CASE rTodo = <<>>
      BY <1>4, <3>1, <1>t DEF RouterSkip, RouterInv, RouteAt
    <3>2. CASE rTodo # <<>>
      BY <1>4, <3>2, <1>t, <1>b, RouteAdvance DEF RouterSkip
    <3> QED
      BY <3>1, <3>2
  <2> QED
    BY <1>b, <2>1, <2>2 DEF Lockstep
<1>5. CASE RouterCancelled
  BY <1>5, <1>b DEF RouterCancelled, Lockstep, RouteAt, Resolved, LegAt, Waiting, Active
<1>6. ASSUME NEW r \in Routes, RouterSend(r) PROVE Lockstep(q)'
  <2> DEFINE S == IF rPC = "eos" THEN blocked \cup {r} ELSE blocked
  <2>1. RouteAt(q)' = (IF q \in S /\ q \notin blocked THEN RouteAt(q) + 1 ELSE RouteAt(q)) /\ rPC # "end"
    <3>1. S \in SUBSET Routes /\ blocked \subseteq S /\ RouterAdvance(S) /\ rPC \in {"fwd", "eos"}
          /\ rTodo # <<>> /\ plat' = plat /\ (rPC = "eos" => Head(rTodo) \in S)
      BY <1>6, <1>b DEF RouterSend
    <3> QED
      BY <3>1, <1>t, RouteAdvance
  <2>2. srcErr' = srcErr /\ Active(q) /\ LegAt(q)' = LegAt(q)
    <3>1. fPC' = fPC /\ cplat' = cplat /\ srcErr' = srcErr /\ cPC' = cPC /\ swallowed' = swallowed
      BY <1>6 DEF RouterSend
    <3>2. (q \in Waiting') = (q \in Waiting) /\ pPC[q] # "end"
      BY <1>6, <1>b DEF RouterSend, Waiting, Received, Active
    <3> QED
      BY <3>1, <3>2 DEF Active, LegAt
  <2>3. CASE q = r
    <3>1. Resolved(q)' = (q \in S) /\ ~Resolved(q) /\ q \notin blocked
      BY <1>6, <1>b, <1>t, <2>3 DEF RouterSend, Received, Resolved, LegOK, RouterInv
    <3> QED
      BY <1>b, <2>1, <2>2, <3>1 DEF Lockstep
  <2>4. CASE q # r
    <3>1. Resolved(q)' = Resolved(q) /\ (q \in S => q \in blocked)
      BY <1>6, <1>b, <2>4 DEF RouterSend, Resolved
    <3> QED
      BY <1>b, <2>1, <2>2, <3>1 DEF Lockstep
  <2> QED
    BY <2>3, <2>4
<1>7. ASSUME NEW r \in Routes, RouterTakesDone(r) PROVE Lockstep(q)'
  <2> DEFINE S == blocked \cup {r}
  <2>1. RouteAt(q)' = (IF q \in S /\ q \notin blocked THEN RouteAt(q) + 1 ELSE RouteAt(q)) /\ rPC # "end"
    <3>1. S \in SUBSET Routes /\ blocked \subseteq S /\ RouterAdvance(S) /\ rPC \in {"fwd", "eos"}
          /\ rTodo # <<>> /\ plat' = plat /\ (rPC = "eos" => Head(rTodo) \in S)
      BY <1>7, <1>b DEF RouterTakesDone
    <3> QED
      BY <3>1, <1>t, RouteAdvance
  <2>2. srcErr' = srcErr /\ Active(q) /\ LegAt(q)' = LegAt(q)
    <3>1. fPC' = fPC /\ cplat' = cplat /\ srcErr' = srcErr /\ cPC' = cPC /\ swallowed' = swallowed
      BY <1>7 DEF RouterTakesDone
    <3>2. (q \in Waiting') = (q \in Waiting) /\ pPC[q] # "end"
      BY <1>7, <1>b DEF RouterTakesDone, Waiting, Received, Active
    <3> QED
      BY <3>1, <3>2 DEF Active, LegAt
  <2>3. CASE q = r
    <3>1. Resolved(q)' = (q \in S) /\ ~Resolved(q) /\ q \notin blocked
      BY <1>7, <1>b, <1>t, <2>3 DEF RouterTakesDone, Received, Resolved, LegOK, RouterInv
    <3> QED
      BY <1>b, <2>1, <2>2, <3>1 DEF Lockstep
  <2>4. CASE q # r
    <3>1. Resolved(q)' = Resolved(q) /\ (q \in S => q \in blocked)
      BY <1>7, <1>b, <2>4 DEF RouterTakesDone, Resolved
    <3> QED
      BY <1>b, <2>1, <2>2, <3>1 DEF Lockstep
  <2> QED
    BY <2>3, <2>4
<1>8. ASSUME NEW r \in Routes, HeadEOS(r) PROVE Lockstep(q)'
  <2>1. CASE q = r
    BY <1>8, <1>b, <2>1 DEF HeadEOS, Received, Lockstep, RouteAt, Resolved, LegAt, Waiting, Active
  <2>2. CASE q # r
    BY <1>8, <1>b, <2>2 DEF HeadEOS, Received, Lockstep, RouteAt, Resolved, LegAt, Waiting, Active
  <2> QED
    BY <2>1, <2>2
<1>9. ASSUME NEW r \in Routes, CombineQueue(r) PROVE Lockstep(q)'
  <2>1. CASE q = r
    BY <1>9, <1>b, <2>1 DEF CombineQueue, Lockstep, RouteAt, Resolved, LegAt, Waiting, Active
  <2>2. CASE q # r
    BY <1>9, <1>b, <2>2 DEF CombineQueue, Lockstep, RouteAt, Resolved, LegAt, Waiting, Active
  <2> QED
    BY <2>1, <2>2
<1>10. ASSUME NEW r \in Routes, LegCancelled(r) PROVE Lockstep(q)'
  <2>1. CASE q = r
    BY <1>10, <1>b, <2>1 DEF LegCancelled, Lockstep, RouteAt, Resolved, LegAt, Waiting, Active
  <2>2. CASE q # r
    BY <1>10, <1>b, <2>2 DEF LegCancelled, Lockstep, RouteAt, Resolved, LegAt, Waiting, Active
  <2> QED
    BY <2>1, <2>2
<1>11. CASE CombineNext
  <2>1. Active(q) /\ LegAt(q)' = LegAt(q)
    BY <1>11, WaitLegAt DEF CombineNext, Active
  <2> QED
    BY <1>11, <1>b, <2>1 DEF CombineNext, Lockstep, RouteAt, Resolved
<1>12. CASE CombineRecv
  <2>1. /\ RouteAt(q)' = RouteAt(q) /\ srcErr' = srcErr /\ rPC' = rPC
    BY <1>12 DEF CombineRecv, RouteAt
  <2>2. LegAt(q)' = LegAt(q)
    BY <1>12 DEF CombineRecv, ReturnBatch, ReturnErr, LegAt
  <2>3. pRes[cur] # ERR /\ Active(q)
    BY <1>12, <1>t, <1>b DEF CombineRecv, ReturnBatch, ReturnErr, Active, CallInv, TypeOK
  <2>4. Resolved(q)' = Resolved(q)
    <3>1. CASE q = cur
      BY <1>12, <1>b, <2>3, <3>1 DEF CombineRecv, Resolved
    <3>2. CASE q # cur
      BY <1>12, <1>b, <3>2 DEF CombineRecv, Resolved
    <3> QED
      BY <3>1, <3>2
  <2> QED
    BY <1>b, <2>1, <2>2, <2>3, <2>4 DEF Lockstep
<1>13. CASE CombineDrain
  BY <1>13, <1>b DEF CombineDrain, Lockstep, RouteAt, Resolved, LegAt, Waiting, Active
<1>14. CASE CombineDoneAll
  <2>1. Active(q) /\ LegAt(q)' = LegAt(q)
    BY <1>14, WaitLegAt DEF CombineDoneAll, Active
  <2> QED
    BY <1>14, <1>b, <2>1 DEF CombineDoneAll, Lockstep, RouteAt, Resolved
<1>15. ASSUME NEW r \in Routes, CombineUnwait(r) PROVE Lockstep(q)'
  <2>1. /\ RouteAt(q)' = RouteAt(q) /\ srcErr' = srcErr /\ rPC' = rPC /\ spent' = spent /\ pRes' = pRes
        /\ fPC = "unwait" /\ pPC[r] = "wait" /\ cPC \in {"pull", "done"} /\ swallowed' = swallowed
    BY <1>15, <1>t DEF CombineUnwait, RouteAt, CallInv
  <2>2. Active(q)
    BY <1>15, <1>b, <2>1 DEF CombineUnwait, Active
  <2>3. LegAt(q)' = IF q = r THEN LegAt(q) + 1 ELSE LegAt(q)
    BY <1>15, UnwaitLegAt
  <2>4. CASE q = r
    <3>1. Resolved(q) /\ ~Resolved(q)'
      BY <1>15, <1>b, <2>1, <2>4 DEF CombineUnwait, Resolved, LegOK
    <3> QED
      BY <1>b, <2>1, <2>2, <2>3, <2>4, <3>1 DEF Lockstep
  <2>5. CASE q # r
    <3>1. Resolved(q)' = Resolved(q)
      BY <1>15, <1>b, <2>1, <2>5 DEF CombineUnwait, Resolved
    <3> QED
      BY <1>b, <2>1, <2>2, <2>3, <2>5, <3>1 DEF Lockstep
  <2> QED
    BY <2>4, <2>5
<1>16. ASSUME NEW r \in Routes, CombineDone(r) PROVE Lockstep(q)'
  <2>1. /\ RouteAt(q)' = RouteAt(q) /\ srcErr' = srcErr /\ rPC' = rPC /\ Active(q)
    BY <1>16, <1>b DEF CombineDone, RouteAt, Active
  <2>2. LegAt(q)' = LegAt(q)
    BY <1>16 DEF CombineDone, LegAt
  <2>3. Resolved(q)' = Resolved(q)
    <3>1. CASE q = r
      <4>1. pRes[r] \in Batches \/ pRes[r] = EOS
        BY <1>16, <1>b, <3>1, BatchFacts DEF CombineDone, Active
      <4> QED
        BY <1>16, <1>b, <3>1, <4>1 DEF CombineDone, Resolved
    <3>2. CASE q # r
      BY <1>16, <1>b, <3>2 DEF CombineDone, Resolved
    <3> QED
      BY <3>1, <3>2
  <2> QED
    BY <1>b, <2>1, <2>2, <2>3 DEF Lockstep
<1>17. ASSUME NEW r \in Routes, MuxRecv(r) PROVE Lockstep(q)'
  BY <1>17, <1>b DEF MuxRecv
<1>18. CASE MergeStart
  BY <1>18, <1>b, <1>t DEF MergeStart, CallInv
<1>19. CASE MergeNext
  BY <1>19, <1>b DEF MergeNext
<1>20. CASE MergeReplenish
  BY <1>20, <1>b DEF MergeReplenish
<1>21. CASE MergePop
  BY <1>21, <1>b DEF MergePop
<1>22. CASE MergeDone
  BY <1>22, <1>b, <1>t DEF MergeDone, CallInv
<1>23. CASE MuxEOS
  BY <1>23, <1>b DEF MuxEOS
<1>24. CASE PullCancelled
  BY <1>24, <1>b DEF PullCancelled, Lockstep, RouteAt, Resolved, LegAt, Waiting, Active
<1>25. CASE ConsumerPull
  <2>1. fPC = "idle" /\ fPC' # "unwait" /\ Active(q)
    BY <1>25, <1>b, <1>t DEF ConsumerPull, CallInv, Active
  <2>2. LegAt(q)' = LegAt(q) /\ Resolved(q)' = Resolved(q)
    BY <1>25, <1>b, <2>1 DEF ConsumerPull, LegAt, Resolved
  <2>3. RouteAt(q)' = RouteAt(q) /\ srcErr' = srcErr /\ rPC' = rPC
    BY <1>25 DEF ConsumerPull, RouteAt
  <2> QED
    BY <1>b, <2>1, <2>2, <2>3 DEF Lockstep
<1>26. CASE ConsumerStop
  BY <1>26, <1>b DEF ConsumerStop, Lockstep, RouteAt, Resolved, LegAt, Waiting, Active
<1>27. CASE Cancel
  BY <1>27, <1>b DEF Cancel, Lockstep, RouteAt, Resolved, LegAt, Waiting, Active
<1>28. CASE UNCHANGED vars
  BY <1>28, <1>b DEF vars, Lockstep, RouteAt, Resolved, LegAt, Waiting, Active
<1> QED
  BY <1>1, <1>2, <1>3, <1>4, <1>5, <1>6, <1>7, <1>8, <1>9, <1>10, <1>11, <1>12,
     <1>13, <1>14, <1>15, <1>16, <1>17, <1>18, <1>19, <1>20, <1>21, <1>22, <1>23, <1>24,
     <1>25, <1>26, <1>27, <1>28
     DEF Next, RouterStep, LegStep, FanInStep

\* Every step keeps HoldingInv: what a leg holds is of its platoon.
LEMMA HoldingKept ==
  ASSUME FlowInv, PlatoonsCombined, [Next]_vars
  PROVE  HoldingInv'
<1> USE DEF srcVars, routerVars, legVars, histVars, fanVars, conVars
<1> SUFFICES ASSUME NEW q \in Routes, NEW b \in Batches, Holding(q, b)',
                    Active(q)' \/ g.source = "original"
             PROVE  b[1] = IF g.source = "original" THEN 1 ELSE LegAt(q)'
  BY GraphStays DEF HoldingInv, InPlatoon
<1>t. HoldingInv /\ TypeOK /\ CallInv /\ RouterInv /\ LegInv /\ WaitInv /\ LockstepInv
  BY DEF FlowInv, PlatoonsAligned
<1>b. /\ g.source = "platoons" => g.fanin = "combine"
      /\ plat \in Nat /\ cplat \in Nat /\ blocked \subseteq Routes
      /\ pPC \in [Routes -> {"idle", "pull", "legdone", "queue", "offer", "pulldone", "wait", "end"}]
      /\ pRes \in [Routes -> Results] /\ hol \in [Routes -> Results] /\ cur \in Routes
      /\ EOS # ERR /\ EOS \notin Batches /\ ERR \notin Batches
      /\ LegOK(q)
      /\ (Active(q) \/ g.source = "original") /\ Holding(q, b) =>
            b[1] = IF g.source = "original" THEN 1 ELSE LegAt(q)
      /\ g.source \in {"platoons", "original"} /\ g.fanin \in {"combine", "merge", "mux"}
  BY <1>t, BatchFacts, GraphFacts DEF TypeOK, LegInv, HoldingInv, InPlatoon
<1> USE <1>t
<1>1. CASE RouterDone
  BY <1>1, <1>b DEF RouterDone, Holding, LegAt, Waiting, Active
<1>2. CASE RouterBatch
  BY <1>2, <1>b DEF RouterBatch, Holding, LegAt, Waiting, Active
<1>3. CASE RouterEOS
  BY <1>3, <1>b DEF RouterEOS, Holding, LegAt, Waiting, Active
<1>4. CASE RouterSkip
  BY <1>4, <1>b DEF RouterSkip, Holding, LegAt, Waiting, Active
<1>5. CASE RouterCancelled
  BY <1>5, <1>b DEF RouterCancelled, Holding, LegAt, Waiting, Active
<1>6. ASSUME NEW r \in Routes, RouterSend(r) PROVE b[1] = IF g.source = "original" THEN 1 ELSE LegAt(q)'
  <2>1. LegAt(q)' = LegAt(q) /\ (Active(q)' => Active(q))
    <3>1. (q \in Waiting') = (q \in Waiting) /\ (pPC'[q] # "end" => pPC[q] # "end")
      BY <1>6, <1>b DEF RouterSend, Waiting, Received
    <3> QED
      BY <1>6, <3>1 DEF RouterSend, LegAt, Active
  <2>2. CASE q = r /\ rPC = "fwd"
    <3>1. CASE Holding(q, b)
      BY <1>b, <2>1, <3>1
    <3>2. CASE ~Holding(q, b)
      <4>1. b = rBatch
        BY <1>6, <1>b, <2>2, <3>2 DEF RouterSend, Holding
      <4>2. b[1] = plat /\ plat <= LastPlatoon /\ ~srcErr
        BY <1>6, <2>2, <4>1, BatchFacts DEF RouterSend, RouterInv
      <4>3. CASE g.source = "original"
        BY <1>b, <4>2, <4>3, GraphFacts DEF TypeOK
      <4>4. CASE g.source = "platoons"
        <5>1. ~Resolved(q) /\ q \notin blocked
          BY <1>6, <1>b, <2>2 DEF RouterSend, Resolved
        <5>2. RouteAt(q) = LegAt(q)
          BY <1>b, <2>1, <2>2, <4>2, <4>4, <5>1 DEF LockstepInv, Lockstep
        <5> QED
          BY <1>b, <2>1, <2>2, <4>2, <4>4, <5>1, <5>2 DEF RouteAt
      <4> QED
        BY <1>b, <4>3, <4>4
    <3> QED
      BY <3>1, <3>2
  <2>3. CASE ~(q = r /\ rPC = "fwd")
    <3>1. Holding(q, b)
      BY <1>6, <1>b, <2>3 DEF RouterSend, Holding, RouterInv
    <3> QED
      BY <1>b, <2>1, <3>1
  <2> QED
    BY <2>2, <2>3
<1>7. ASSUME NEW r \in Routes, RouterTakesDone(r) PROVE b[1] = IF g.source = "original" THEN 1 ELSE LegAt(q)'
  BY <1>7, <1>b DEF RouterTakesDone, Received, Holding, LegAt, Waiting, Active
<1>8. ASSUME NEW r \in Routes, HeadEOS(r) PROVE b[1] = IF g.source = "original" THEN 1 ELSE LegAt(q)'
  BY <1>8, <1>b DEF HeadEOS, Received, Holding, LegAt, Waiting, Active
<1>9. ASSUME NEW r \in Routes, CombineQueue(r) PROVE b[1] = IF g.source = "original" THEN 1 ELSE LegAt(q)'
  BY <1>9, <1>b DEF CombineQueue, Holding, LegAt, Waiting, Active
<1>10. ASSUME NEW r \in Routes, LegCancelled(r) PROVE b[1] = IF g.source = "original" THEN 1 ELSE LegAt(q)'
  BY <1>10, <1>b DEF LegCancelled, Holding, LegAt, Waiting, Active
<1>11. CASE CombineNext
  <2>1. Active(q)' => Active(q) /\ LegAt(q)' = LegAt(q)
    BY <1>11, WaitLegAt DEF CombineNext, Active
  <2>2. Holding(q, b)
    BY <1>11 DEF CombineNext, Holding
  <2> QED
    BY <1>b, <2>1, <2>2
<1>12. CASE CombineRecv
  <2>1. LegAt(q)' = LegAt(q)
    BY <1>12 DEF CombineRecv, ReturnBatch, ReturnErr, LegAt
  <2>2. Active(q)' => Active(q)
    BY <1>12, <1>b DEF CombineRecv, ReturnBatch, ReturnErr, Active, CallInv
  <2>3. Holding(q, b)
    BY <1>12, <1>b DEF CombineRecv, Holding
  <2> QED
    BY <1>b, <2>1, <2>2, <2>3
<1>13. CASE CombineDrain
  BY <1>13, <1>b DEF CombineDrain, Holding, LegAt, Waiting, Active
<1>14. CASE CombineDoneAll
  <2>1. Active(q)' => Active(q) /\ LegAt(q)' = LegAt(q)
    BY <1>14, WaitLegAt DEF CombineDoneAll, Active
  <2>2. Holding(q, b)
    BY <1>14 DEF CombineDoneAll, Holding
  <2> QED
    BY <1>b, <2>1, <2>2
<1>15. ASSUME NEW r \in Routes, CombineUnwait(r) PROVE b[1] = IF g.source = "original" THEN 1 ELSE LegAt(q)'
  <2>1. q # r /\ Holding(q, b)
    BY <1>15, <1>b DEF CombineUnwait, Holding, CallInv
  <2>2. LegAt(q)' = LegAt(q)
    BY <1>15, <2>1, UnwaitLegAt
  <2>3. Active(q)' => Active(q)
    BY <1>15, <1>b, <2>1 DEF CombineUnwait, Active, CallInv
  <2> QED
    BY <1>b, <2>1, <2>2, <2>3
<1>16. ASSUME NEW r \in Routes, CombineDone(r) PROVE b[1] = IF g.source = "original" THEN 1 ELSE LegAt(q)'
  BY <1>16, <1>b DEF CombineDone, Holding, LegAt, Waiting, Active
<1>17. ASSUME NEW r \in Routes, MuxRecv(r) PROVE b[1] = IF g.source = "original" THEN 1 ELSE LegAt(q)'
  BY <1>17, <1>b DEF MuxRecv, ReturnBatch, ReturnErr, Holding, LegAt, Waiting, Active
<1>18. CASE MergeStart
  BY <1>18, <1>b DEF MergeStart, MergeStarted, ReturnEOS, ReturnErr, CallInv, Holding, LegAt, Waiting, Active
<1>19. CASE MergeNext
  BY <1>19, <1>b DEF MergeNext, Holding, LegAt, Waiting, Active
<1>20. CASE MergeReplenish
  BY <1>20, <1>b DEF MergeReplenish, ReturnBatch, ReturnErr, Holding, LegAt, Waiting, Active
<1>21. CASE MergePop
  BY <1>21, <1>b DEF MergePop, Holding, LegAt, Waiting, Active
<1>22. CASE MergeDone
  BY <1>22, <1>b DEF MergeDone, CallInv, Holding, LegAt, Waiting, Active
<1>23. CASE MuxEOS
  BY <1>23, <1>b DEF MuxEOS, Holding, LegAt, Waiting, Active
<1>24. CASE PullCancelled
  BY <1>24, <1>b DEF PullCancelled, Holding, LegAt, Waiting, Active
<1>25. CASE ConsumerPull
  <2>1. LegAt(q)' = LegAt(q)
    BY <1>25 DEF ConsumerPull, LegAt, CallInv
  <2>2. Active(q)' => Active(q)
    BY <1>25, <1>b DEF ConsumerPull, Active
  <2>3. Holding(q, b)
    BY <1>25, <1>b DEF ConsumerPull, Holding
  <2> QED
    BY <1>b, <2>1, <2>2, <2>3
<1>26. CASE ConsumerStop
  BY <1>26, <1>b DEF ConsumerStop, Holding, LegAt, Waiting, Active
<1>27. CASE Cancel
  BY <1>27, <1>b DEF Cancel, Holding, LegAt, Waiting, Active
<1>28. CASE UNCHANGED vars
  BY <1>28, <1>b DEF vars, Holding, LegAt, Waiting, Active
<1> QED
  BY <1>1, <1>2, <1>3, <1>4, <1>5, <1>6, <1>7, <1>8, <1>9, <1>10, <1>11, <1>12,
     <1>13, <1>14, <1>15, <1>16, <1>17, <1>18, <1>19, <1>20, <1>21, <1>22, <1>23, <1>24,
     <1>25, <1>26, <1>27, <1>28
     DEF Next, RouterStep, LegStep, FanInStep

\* A batch that the fan-in takes is of the consumer's platoon.
LEMMA TakenInPlatoon ==
  ASSUME FlowInv, PlatoonsCombined, NEW r \in Routes, NEW b \in Batches, Holding(r, b),
         fPC \in {"next", "recv"}, pPC[r] # "end", ~swallowed
  PROVE  b[1] = cplat /\ cplat <= LastPlatoon
<1>1. Active(r) /\ LegAt(r) = cplat /\ cplat \in Nat \ {0} /\ cplat <= LastPlatoon
  BY BoundsAssumption DEF FlowInv, CallInv, Active, LegAt, PlatoonsAligned, TypeOK
<1>2. b[1] = IF g.source = "original" THEN 1 ELSE LegAt(r)
  BY <1>1 DEF FlowInv, HoldingInv, InPlatoon
<1>3. g.source = "original" => LastPlatoon = 1
  BY DEF LastPlatoon
<1> QED
  BY <1>1, <1>2, <1>3

\* Every step keeps the consumer and the source in the same platoon.
LEMMA AlignedKept ==
  ASSUME FlowInv, PlatoonsCombined, [Next]_vars
  PROVE  (~swallowed => \A x \in got : x[2][1] = x[3])'
<1> USE DEF srcVars, routerVars, legVars, histVars, fanVars, conVars
<1> DEFINE Aligned == ~swallowed => \A x \in got : x[2][1] = x[3]
<1>t. TypeOK /\ CallInv /\ LegInv /\ Aligned
  BY DEF FlowInv, PlatoonsAligned
<1> USE <1>t
<1>1. CASE RouterDone
  BY <1>1 DEF RouterDone
<1>2. CASE RouterBatch
  BY <1>2 DEF RouterBatch
<1>3. CASE RouterEOS
  BY <1>3 DEF RouterEOS
<1>4. CASE RouterSkip
  BY <1>4 DEF RouterSkip
<1>5. CASE RouterCancelled
  BY <1>5 DEF RouterCancelled
<1>6. ASSUME NEW r \in Routes, RouterSend(r) PROVE Aligned'
  BY <1>6 DEF RouterSend
<1>7. ASSUME NEW r \in Routes, RouterTakesDone(r) PROVE Aligned'
  BY <1>7 DEF RouterTakesDone
<1>8. ASSUME NEW r \in Routes, HeadEOS(r) PROVE Aligned'
  BY <1>8 DEF HeadEOS
<1>9. ASSUME NEW r \in Routes, CombineQueue(r) PROVE Aligned'
  BY <1>9 DEF CombineQueue
<1>10. ASSUME NEW r \in Routes, LegCancelled(r) PROVE Aligned'
  BY <1>10 DEF LegCancelled
<1>11. CASE CombineNext
  BY <1>11 DEF CombineNext
<1>12. CASE CombineRecv
  <2> SUFFICES ASSUME got' # got PROVE Aligned'
    BY <1>12, <1>t DEF CombineRecv
  <2>1. pRes[cur] \in Batches /\ got' = got \cup {<<cur, pRes[cur], cplat>>}
    BY <1>12, <1>t DEF CombineRecv, ReturnBatch, ReturnErr
  <2>2. ~swallowed => pRes[cur][1] = cplat
    BY <1>12, <1>t, <2>1, TakenInPlatoon DEF CombineRecv, Holding, TypeOK
  <2> QED
    BY <1>12, <1>t, <2>1, <2>2 DEF CombineRecv
<1>13. CASE CombineDrain
  BY <1>13 DEF CombineDrain
<1>14. CASE CombineDoneAll
  BY <1>14 DEF CombineDoneAll
<1>15. ASSUME NEW r \in Routes, CombineUnwait(r) PROVE Aligned'
  BY <1>15 DEF CombineUnwait, ReturnEOS
<1>16. ASSUME NEW r \in Routes, CombineDone(r) PROVE Aligned'
  BY <1>16 DEF CombineDone
<1>17. ASSUME NEW r \in Routes, MuxRecv(r) PROVE Aligned'
  <2> SUFFICES ASSUME got' # got PROVE Aligned'
    BY <1>17, <1>t DEF MuxRecv
  <2>1. pRes[r] \in Batches /\ got' = got \cup {<<r, pRes[r], cplat>>}
    BY <1>17, <1>t DEF MuxRecv, ReturnBatch, ReturnErr
  <2>2. ~swallowed => pRes[r][1] = cplat
    BY <1>17, <1>t, <2>1, TakenInPlatoon DEF MuxRecv, Holding, TypeOK
  <2> QED
    BY <1>17, <1>t, <2>1, <2>2 DEF MuxRecv
<1>18. CASE MergeStart
  BY <1>18 DEF MergeStart, MergeStarted, ReturnEOS, ReturnErr
<1>19. CASE MergeNext
  BY <1>19 DEF MergeNext
<1>20. CASE MergeReplenish
  <2> SUFFICES ASSUME got' # got PROVE Aligned'
    BY <1>20, <1>t DEF MergeReplenish
  <2>1. hol[cur] \in Batches /\ got' = got \cup {<<cur, hol[cur], cplat>>}
    <3>1. cur \in held /\ cur \in Routes /\ LegOK(cur) /\ g.fanin = "merge"
      BY <1>20, <1>t DEF MergeReplenish, CallInv, LegInv, TypeOK
    <3>2. hol[cur] \in Batches
      BY <3>1 DEF LegOK
    <3> QED
      BY <1>20, <3>2 DEF MergeReplenish, ReturnBatch, ReturnErr
  <2>2. ~swallowed => hol[cur][1] = cplat
    BY <1>20, <1>t, <2>1, TakenInPlatoon DEF MergeReplenish, Holding, TypeOK, CallInv
  <2> QED
    BY <1>20, <1>t, <2>1, <2>2 DEF MergeReplenish
<1>21. CASE MergePop
  BY <1>21 DEF MergePop
<1>22. CASE MergeDone
  BY <1>22 DEF MergeDone
<1>23. CASE MuxEOS
  BY <1>23 DEF MuxEOS
<1>24. CASE PullCancelled
  BY <1>24 DEF PullCancelled
<1>25. CASE ConsumerPull
  BY <1>25 DEF ConsumerPull
<1>26. CASE ConsumerStop
  BY <1>26 DEF ConsumerStop
<1>27. CASE Cancel
  BY <1>27 DEF Cancel
<1>28. CASE UNCHANGED vars
  BY <1>28 DEF vars
<1> QED
  BY <1>1, <1>2, <1>3, <1>4, <1>5, <1>6, <1>7, <1>8, <1>9, <1>10, <1>11, <1>12,
     <1>13, <1>14, <1>15, <1>16, <1>17, <1>18, <1>19, <1>20, <1>21, <1>22, <1>23, <1>24,
     <1>25, <1>26, <1>27, <1>28
     DEF Next, RouterStep, LegStep, FanInStep

\* Every step keeps HeadInv.
LEMMA HeadKept ==
  ASSUME FlowInv, PlatoonsCombined, [Next]_vars
  PROVE  HeadInv'
<1> USE DEF srcVars, routerVars, legVars, histVars, fanVars, conVars
<1> SUFFICES ASSUME NEW q \in Routes PROVE HeadOK(q)'
  BY DEF HeadInv
<1>t. TypeOK /\ CallInv /\ RouterInv /\ LegInv /\ HeadInv
  BY DEF FlowInv, PlatoonsAligned
<1>b. /\ pPC \in [Routes -> {"idle", "pull", "legdone", "queue", "offer", "pulldone", "wait", "end"}]
      /\ pRes \in [Routes -> Results] /\ plat \in Nat /\ nb \in Nat /\ HeadOK(q)
      /\ pPC[q] = "legdone" => pRes[q] \in Batches /\ pRes[q][1] \in Nat /\ pRes[q][2] \in Nat \ {0}
  BY <1>t, BatchFacts DEF TypeOK, HeadInv, LegInv, LegOK
<1>1. CASE RouterDone
  <2>1. plat <= LastPlatoon /\ ~SourceEnded
    BY <1>1, <1>b, <1>t, RouteFacts DEF RouterDone, RouterInv, SourceEnded, LastPlatoon
  <2> QED
    BY <1>1, <1>b, <2>1 DEF RouterDone, HeadOK
<1>2. CASE RouterBatch
  BY <1>2, <1>b DEF RouterBatch, HeadOK
<1>3. CASE RouterEOS
  <2>1. SourceEnded /\ pPC[q] = "legdone" => pRes[q][1] = 1
    BY <1>b DEF FlowInv, HoldingInv, InPlatoon, Holding, SourceEnded
  <2> QED
    BY <1>3, <1>b, <2>1 DEF RouterEOS, HeadOK, SourceEnded
<1>4. CASE RouterSkip
  <2>1. CASE rTodo = <<>>
    BY <1>4, <1>b, <2>1 DEF RouterSkip, HeadOK, RouterAdvance
  <2>2. CASE rTodo # <<>>
    <3>1. Range(rTodo') \subseteq Range(rTodo) /\ (rPC' = "fwd" => rPC = "fwd")
      BY <1>4, <1>t, <2>2, AdvanceRange DEF RouterSkip, RouterInv, TypeOK
    <3> QED
      BY <1>4, <1>b, <3>1 DEF RouterSkip, HeadOK
  <2> QED
    BY <2>1, <2>2
<1>5. CASE RouterCancelled
  BY <1>5, <1>b DEF RouterCancelled, HeadOK
<1>6. ASSUME NEW r \in Routes, RouterSend(r) PROVE HeadOK(q)'
  <2> DEFINE S == IF rPC = "eos" THEN blocked \cup {r} ELSE blocked
  <2>1. S \in SUBSET Routes /\ RouterAdvance(S) /\ rTodo # <<>> /\ Head(rTodo) = r
        /\ rTodo \in Seq(Routes) /\ IsInjective(rTodo)
    BY <1>6, <1>t DEF RouterSend, RouterInv, TypeOK
  <2>2. Range(rTodo') \subseteq Range(rTodo) \ {r} /\ (rPC' = "fwd" => rPC = "fwd")
    BY <2>1, AdvanceRange
  <2>3. CASE q = r
    <3>1. SUFFICES ASSUME pPC'[r] = "legdone" PROVE HeadOK(q)'
      BY <2>3 DEF HeadOK
    <3>2. pRes'[r] = rBatch /\ rPC = "fwd"
      BY <1>6, <1>b, <3>1 DEF RouterSend, Received
    <3>3. rBatch = <<plat, nb>>
      BY <1>t, <2>1, <3>2 DEF RouterInv
    <3>4. pRes'[r][1] = plat /\ pRes'[r][2] = nb /\ plat' = plat /\ nb' = nb
      BY <1>6, <3>2, <3>3 DEF RouterSend
    <3> QED
      BY <1>b, <2>2, <2>3, <3>4 DEF HeadOK
  <2>4. CASE q # r
    BY <1>6, <1>b, <2>2, <2>4 DEF RouterSend, HeadOK
  <2> QED
    BY <2>3, <2>4
<1>7. ASSUME NEW r \in Routes, RouterTakesDone(r) PROVE HeadOK(q)'
  <2>1. blocked \cup {r} \in SUBSET Routes /\ RouterAdvance(blocked \cup {r}) /\ rTodo # <<>>
        /\ rTodo \in Seq(Routes) /\ IsInjective(rTodo)
    BY <1>7, <1>t DEF RouterTakesDone, RouterInv, TypeOK
  <2>2. Range(rTodo') \subseteq Range(rTodo) /\ (rPC' = "fwd" => rPC = "fwd")
    BY <2>1, AdvanceRange
  <2> QED
    BY <1>7, <1>b, <2>2 DEF RouterTakesDone, Received, HeadOK
<1>8. ASSUME NEW r \in Routes, HeadEOS(r) PROVE HeadOK(q)'
  BY <1>8, <1>b DEF HeadEOS, Received, HeadOK
<1>9. ASSUME NEW r \in Routes, CombineQueue(r) PROVE HeadOK(q)'
  BY <1>9, <1>b DEF CombineQueue, HeadOK
<1>10. ASSUME NEW r \in Routes, LegCancelled(r) PROVE HeadOK(q)'
  BY <1>10, <1>b DEF LegCancelled, HeadOK
<1>11. CASE CombineNext
  BY <1>11, <1>b DEF CombineNext, HeadOK
<1>12. CASE CombineRecv
  BY <1>12, <1>b DEF CombineRecv, HeadOK
<1>13. CASE CombineDrain
  BY <1>13, <1>b DEF CombineDrain, HeadOK
<1>14. CASE CombineDoneAll
  BY <1>14, <1>b DEF CombineDoneAll, HeadOK
<1>15. ASSUME NEW r \in Routes, CombineUnwait(r) PROVE HeadOK(q)'
  BY <1>15, <1>b DEF CombineUnwait, HeadOK
<1>16. ASSUME NEW r \in Routes, CombineDone(r) PROVE HeadOK(q)'
  BY <1>16, <1>b DEF CombineDone, HeadOK
<1>17. ASSUME NEW r \in Routes, MuxRecv(r) PROVE HeadOK(q)'
  BY <1>17, <1>b DEF MuxRecv, HeadOK
<1>18. CASE MergeStart
  BY <1>18, <1>b DEF MergeStart, HeadOK
<1>19. CASE MergeNext
  BY <1>19, <1>b DEF MergeNext, HeadOK
<1>20. CASE MergeReplenish
  BY <1>20, <1>b DEF MergeReplenish, HeadOK
<1>21. CASE MergePop
  BY <1>21, <1>b DEF MergePop, HeadOK
<1>22. CASE MergeDone
  BY <1>22, <1>b DEF MergeDone, HeadOK
<1>23. CASE MuxEOS
  BY <1>23, <1>b DEF MuxEOS, HeadOK
<1>24. CASE PullCancelled
  BY <1>24, <1>b DEF PullCancelled, HeadOK
<1>25. CASE ConsumerPull
  BY <1>25, <1>b DEF ConsumerPull, HeadOK
<1>26. CASE ConsumerStop
  BY <1>26, <1>b DEF ConsumerStop, HeadOK
<1>27. CASE Cancel
  BY <1>27, <1>b DEF Cancel, HeadOK
<1>28. CASE UNCHANGED vars
  BY <1>28, <1>b DEF vars, HeadOK
<1> QED
  BY <1>1, <1>2, <1>3, <1>4, <1>5, <1>6, <1>7, <1>8, <1>9, <1>10, <1>11, <1>12,
     <1>13, <1>14, <1>15, <1>16, <1>17, <1>18, <1>19, <1>20, <1>21, <1>22, <1>23, <1>24,
     <1>25, <1>26, <1>27, <1>28
     DEF Next, RouterStep, LegStep, FanInStep

(***************************************************************************)
(* Batches accounted for.                                                  *)
(***************************************************************************)

\* A route that is given no more of a platoon is never given more of it.
LEMMA RouteStaysEnded ==
  ASSUME FlowInv, PlatoonsCombined, NEW q \in Routes, NEW p \in 1..LastPlatoon, [Next]_vars
  PROVE  /\ (srcErr \/ plat > p) => (srcErr \/ plat > p)'
         /\ (plat = p /\ rPC # "eos" /\ q \in blocked) =>
               \/ (srcErr \/ plat > p)'
               \/ (plat = p /\ rPC # "eos" /\ q \in blocked)' /\ nb' >= nb
<1> USE DEF srcVars, routerVars, legVars, histVars, fanVars, conVars
<1> DEFINE Over == srcErr \/ plat > p
           Shut == plat = p /\ rPC # "eos" /\ q \in blocked
           Goal == (Over => Over') /\ (Shut => Over' \/ (Shut' /\ nb' >= nb))
<1> SUFFICES Goal
  OBVIOUS
<1>b. /\ RouterInv /\ plat \in Nat /\ nb \in Nat /\ p \in Nat /\ p <= LastPlatoon
      /\ g.source = "original" => LastPlatoon = 1
      /\ blocked \subseteq Routes
  BY GraphFacts, BoundsAssumption DEF FlowInv, PlatoonsAligned, TypeOK
<1>1. CASE RouterDone
  <2>1. plat <= LastPlatoon /\ ~SourceEnded
    BY <1>1, <1>b, RouteFacts DEF RouterDone, RouterInv, SourceEnded, LastPlatoon
  <2> QED
    BY <1>1, <1>b, <2>1 DEF RouterDone
<1>2. CASE RouterBatch
  BY <1>2, <1>b DEF RouterBatch
<1>3. CASE RouterEOS
  BY <1>3, <1>b DEF RouterEOS, SourceEnded
<1>4. CASE RouterSkip
  BY <1>4, <1>b DEF RouterSkip, RouterAdvance
<1>5. CASE RouterCancelled
  BY <1>5, <1>b DEF RouterCancelled
<1>6. ASSUME NEW r \in Routes, RouterSend(r) PROVE Goal
  BY <1>6, <1>b DEF RouterSend, RouterAdvance
<1>7. ASSUME NEW r \in Routes, RouterTakesDone(r) PROVE Goal
  BY <1>7, <1>b DEF RouterTakesDone, RouterAdvance
<1>8. ASSUME NEW r \in Routes, HeadEOS(r) PROVE Goal
  BY <1>8, <1>b DEF HeadEOS
<1>9. ASSUME NEW r \in Routes, CombineQueue(r) PROVE Goal
  BY <1>9, <1>b DEF CombineQueue
<1>10. ASSUME NEW r \in Routes, LegCancelled(r) PROVE Goal
  BY <1>10, <1>b DEF LegCancelled
<1>11. CASE CombineNext
  BY <1>11, <1>b DEF CombineNext
<1>12. CASE CombineRecv
  BY <1>12, <1>b DEF CombineRecv
<1>13. CASE CombineDrain
  BY <1>13, <1>b DEF CombineDrain
<1>14. CASE CombineDoneAll
  BY <1>14, <1>b DEF CombineDoneAll
<1>15. ASSUME NEW r \in Routes, CombineUnwait(r) PROVE Goal
  BY <1>15, <1>b DEF CombineUnwait
<1>16. ASSUME NEW r \in Routes, CombineDone(r) PROVE Goal
  BY <1>16, <1>b DEF CombineDone
<1>17. ASSUME NEW r \in Routes, MuxRecv(r) PROVE Goal
  BY <1>17, <1>b DEF MuxRecv
<1>18. CASE MergeStart
  BY <1>18, <1>b DEF MergeStart
<1>19. CASE MergeNext
  BY <1>19, <1>b DEF MergeNext
<1>20. CASE MergeReplenish
  BY <1>20, <1>b DEF MergeReplenish
<1>21. CASE MergePop
  BY <1>21, <1>b DEF MergePop
<1>22. CASE MergeDone
  BY <1>22, <1>b DEF MergeDone
<1>23. CASE MuxEOS
  BY <1>23, <1>b DEF MuxEOS
<1>24. CASE PullCancelled
  BY <1>24, <1>b DEF PullCancelled
<1>25. CASE ConsumerPull
  BY <1>25, <1>b DEF ConsumerPull
<1>26. CASE ConsumerStop
  BY <1>26, <1>b DEF ConsumerStop
<1>27. CASE Cancel
  BY <1>27, <1>b DEF Cancel
<1>28. CASE UNCHANGED vars
  BY <1>28, <1>b DEF vars
<1> QED
  BY <1>1, <1>2, <1>3, <1>4, <1>5, <1>6, <1>7, <1>8, <1>9, <1>10, <1>11, <1>12,
     <1>13, <1>14, <1>15, <1>16, <1>17, <1>18, <1>19, <1>20, <1>21, <1>22, <1>23, <1>24,
     <1>25, <1>26, <1>27, <1>28
     DEF Next, RouterStep, LegStep, FanInStep

\* So what the leg is given no more of stays so while it keeps what it has.
LEMMA NoMoreStays ==
  ASSUME FlowInv, PlatoonsCombined, [Next]_vars, NEW q \in Routes, NEW p \in 1..LastPlatoon,
         \A c \in Batches : c[1] = p /\ Has(q, c) => Has(q, c)', NoMore(q, p)
  PROVE  NoMore(q, p)'
<1>1. g' = g /\ p \in 1..MaxPlatoons + 1 /\ nb \in Nat /\ nb' \in Nat
  BY GraphStays, GraphFacts, TypeKept, BoundsAssumption DEF FlowInv, PlatoonsAligned, TypeOK
<1>2. CASE srcErr \/ plat > p
  BY <1>2, RouteStaysEnded DEF NoMore, NoMoreBut
<1>3. CASE ~(srcErr \/ plat > p)
  <2>1. plat = p /\ rPC # "eos" /\ q \in blocked
    BY <1>3 DEF NoMore, NoMoreBut
  <2>2. PICK j \in 1..MaxBatches : j <= nb /\ Has(q, <<p, j>>) /\ q \in g.heads
    BY <1>3 DEF NoMore, NoMoreBut
  <2>3. Has(q, <<p, j>>)'
    BY <1>1, <2>2, BatchFacts
  <2>4. (srcErr \/ plat > p)' \/ ((plat = p /\ rPC # "eos" /\ q \in blocked)' /\ nb' >= nb)
    BY <2>1, RouteStaysEnded
  <2> QED
    BY <1>1, <2>2, <2>3, <2>4, BoundsAssumption DEF NoMore, NoMoreBut
<1> QED
  BY <1>2, <1>3

\* A step after which a leg has what it had and that takes nothing from what it is still
\* to be given keeps it accounted for.
LEMMA AccountStep ==
  ASSUME FlowInv, PlatoonsCombined, [Next]_vars, NEW q \in Routes, Watched(q),
         LegAt(q) \in Nat \ {0}, LegAt(q)' \in Nat, LegAt(q)' >= LegAt(q),
         \A p \in Nat : p >= LegAt(q)' /\ Excused(p) => Excused(p)',
         \A c \in Batches : (c[1] >= LegAt(q)' /\ ~Excused(c[1])') =>
             /\ <<q, c>> \in fwd' => <<q, c>> \in fwd \/ Accounted(q, c)'
             /\ Has(q, c) => Has(q, c)'
             /\ Offering(q, c) => Accounted(q, c)',
         Ended(q)' => \/ Ended(q) /\ LegAt(q)' = LegAt(q)
                      \/ NoMore(q, LegAt(q))' \/ LegAt(q)' > LastPlatoon \/ Excused(LegAt(q))'
  PROVE  AccountOK(q)'
<1>1. AccountOK(q) /\ g' = g /\ LastPlatoon' = LastPlatoon /\ LastPlatoon \in Nat
  BY GraphStays, GraphFacts DEF FlowInv, AccountInv, LastPlatoon, PlatoonsAligned, TypeOK
<1>2. ASSUME NEW b \in Batches, <<q, b>> \in fwd', b[1] >= LegAt(q)', ~Excused(b[1])'
      PROVE  Accounted(q, b)'
  <2>1. b[1] \in Nat /\ b[1] \in 1..MaxPlatoons + 1 /\ b[2] \in 1..MaxBatches
    BY BatchFacts, BoundsAssumption
  <2>0. CASE <<q, b>> \notin fwd
    BY <1>2, <2>0
  <2>2. CASE <<q, b>> \in fwd /\ ~Accounted(q, b)
    BY <1>1, <1>2, <2>1, <2>2 DEF AccountOK
  <2>3. CASE Has(q, b)
    BY <1>2, <2>3 DEF Accounted
  <2>4. CASE Offering(q, b)
    BY <1>2, <2>4
  <2>5. ASSUME q \in g.heads, NEW j \in 1..MaxBatches, j < b[2], Has(q, <<b[1], j>>)
        PROVE  Accounted(q, b)'
    <3>1. <<b[1], j>> \in Batches /\ <<b[1], j>>[1] = b[1]
      BY <2>1, <2>5, BatchFacts
    <3>2. Has(q, <<b[1], j>>)'
      BY <1>2, <2>5, <3>1
    <3> QED
      BY <1>1, <2>5, <3>2 DEF Accounted
  <2> QED
    BY <2>0, <2>2, <2>3, <2>4, <2>5 DEF Accounted
<1>3. ASSUME Ended(q)', LegAt(q)' <= LastPlatoon', ~Excused(LegAt(q))'
      PROVE  NoMore(q, LegAt(q))'
  <2>1. CASE NoMore(q, LegAt(q))'
    BY <2>1
  <2>2. CASE Ended(q) /\ LegAt(q)' = LegAt(q)
    <3>1. ~Excused(LegAt(q))
      BY <1>3, <2>2
    <3>2. NoMore(q, LegAt(q))
      BY <1>1, <1>3, <2>2, <3>1 DEF AccountOK
    <3>3. LegAt(q) \in 1..LastPlatoon
      BY <1>1, <1>3, <2>2
    <3>4. PICK x \in 1..LastPlatoon : x = LegAt(q)
      BY <3>3
    <3>5. \A c \in Batches : c[1] = x /\ Has(q, c) => Has(q, c)'
      BY <1>1, <1>3, <2>2, <3>4 DEF Excused
    <3>6. NoMore(q, x)
      BY <3>2, <3>4 DEF NoMore, NoMoreBut
    <3>7. NoMore(q, x)'
      BY <3>5, <3>6, NoMoreStays
    <3> QED
      BY <2>2, <3>4, <3>7 DEF NoMore, NoMoreBut
  <2> QED
    BY <1>1, <1>3, <2>1, <2>2
<1> QED
  BY <1>2, <1>3 DEF AccountOK

\* What the Router is still to offer to another leg than the first it still offers.
LEMMA OfferingStays ==
  ASSUME TypeOK, RouterInv, rTodo # <<>>, rPC \in {"fwd", "eos"}, NEW S \in SUBSET Routes,
         RouterAdvance(S), NEW q \in Routes, q # Head(rTodo) \/ q \in blocked,
         S \subseteq blocked \cup {Head(rTodo)}, NEW c \in Batches, Offering(q, c)
  PROVE  Offering(q, c)'
<1>1. rTodo \in Seq(Routes) /\ IsInjective(rTodo) /\ EOS \notin Batches
  BY BatchFacts DEF TypeOK, RouterInv
<1>2. rBatch = c /\ q \in Range(rTodo) /\ q \notin blocked
  BY DEF Offering
<1>3. rPC = "fwd"
  BY <1>1, <1>2 DEF RouterInv
<1>4. rBatch' = rBatch /\ blocked' = S /\ Range(rTodo') = Range(rTodo) \ {Head(rTodo)}
  BY <1>1, <1>3, AdvanceFacts, AdvanceRange
<1> QED
  BY <1>2, <1>4 DEF Offering

\* A leg that was not the first to be offered the batch gets no new blocked route.
LEMMA OtherEnds ==
  ASSUME TypeOK, RouterInv, rTodo # <<>>, rPC \in {"fwd", "eos"}, NEW S \in SUBSET Routes,
         RouterAdvance(S), NEW q \in Routes, q \in S => q \in blocked, plat' = plat,
         LegAt(q)' = LegAt(q), Resolved(q)' => Resolved(q), Ended(q)'
  PROVE  Ended(q)
<1>1. rTodo \in Seq(Routes)
  BY DEF TypeOK
<1>2. CASE rPC = "fwd"
  <2>1. blocked' = S
    BY <1>1, <1>2, AdvanceFacts
  <2> QED
    BY <1>2, <2>1 DEF Ended
<1>3. CASE rPC = "eos"
  <2>1. rPC' = "eos" \/ blocked' = {}
    BY <1>1, <1>3, AdvanceFacts
  <2> QED
    BY <1>3, <2>1 DEF Ended
<1> QED
  BY <1>2, <1>3

\* A leg whose platoon has not ended and its route are in the same one, unless the Router
\* is at the end of it.
LEMMA RouteOfLeg ==
  ASSUME FlowInv, PlatoonsCombined, NEW q \in Routes, Active(q), ~Resolved(q), q \notin blocked,
         rTodo # <<>>, rPC \in {"fwd", "eos"}, LegAt(q) \in Nat \ {0}, LegAt(q) <= LastPlatoon
  PROVE  /\ rPC = "fwd" => plat = LegAt(q) /\ ~srcErr
         /\ rPC = "eos" => srcErr \/ plat > LegAt(q)
<1>1. /\ RouterInv /\ plat \in Nat \ {0} /\ g.source \in {"platoons", "original"}
      /\ g.source = "original" => LastPlatoon = 1
  BY GraphFacts, BoundsAssumption DEF FlowInv, PlatoonsAligned, TypeOK
<1>2. rPC = "fwd" => ~srcErr /\ plat <= LastPlatoon
  BY <1>1 DEF RouterInv
<1>3. CASE g.source = "original"
  BY <1>1, <1>2, <1>3 DEF RouterInv
<1>4. CASE g.source = "platoons"
  <2>1. ~srcErr => RouteAt(q) = LegAt(q)
    BY <1>4 DEF FlowInv, LockstepInv, Lockstep
  <2> QED
    BY <1>1, <1>2, <2>1 DEF RouteAt
<1> QED
  BY <1>1, <1>3, <1>4

\* A blocked route that is not ahead of its leg is in the leg's platoon.
LEMMA BlockedWithLeg ==
  ASSUME FlowInv, PlatoonsCombined, NEW q \in Routes, Active(q), q \in blocked, rPC = "top",
         ~srcErr, LegAt(q) \in Nat \ {0}, LegAt(q) <= plat
  PROVE  plat = LegAt(q) /\ plat <= LastPlatoon
<1>1. /\ RouterInv /\ plat \in Nat \ {0} /\ g.source \in {"platoons", "original"}
      /\ g.source = "original" => LastPlatoon = 1
  BY GraphFacts, BoundsAssumption DEF FlowInv, PlatoonsAligned, TypeOK
<1>2. plat <= LastPlatoon
  BY <1>1 DEF RouterInv
<1>3. CASE g.source = "original"
  BY <1>1, <1>2, <1>3
<1>4. CASE g.source = "platoons"
  <2>1. RouteAt(q) = IF Resolved(q) THEN LegAt(q) + 1 ELSE LegAt(q)
    BY <1>4 DEF FlowInv, LockstepInv, Lockstep
  <2> QED
    BY <1>1, <1>2, <2>1 DEF RouteAt
<1> QED
  BY <1>1, <1>3, <1>4

\* Every step keeps AccountInv: nothing that was forwarded is dropped.
LEMMA AccountKept ==
  ASSUME FlowInv, PlatoonsCombined, [Next]_vars
  PROVE  AccountInv'
<1> USE DEF srcVars, routerVars, legVars, histVars, fanVars, conVars
<1> SUFFICES ASSUME NEW q \in Routes, Watched(q)' PROVE AccountOK(q)'
  BY DEF AccountInv
<1> DEFINE Same == LegAt(q)' = LegAt(q) /\ fwd' = fwd
           Still == \A p \in Nat : p >= LegAt(q) /\ Excused(p) => Excused(p)'
           Keeps == \A c \in Batches : Has(q, c) => Has(q, c)'
           Offers == \A c \in Batches : (Offering(q, c) /\ c[1] >= LegAt(q)) =>
                                            Accounted(q, c)' \/ Excused(c[1])'
           Ends == Ended(q)' => \/ Ended(q) \/ NoMore(q, LegAt(q))'
                                \/ LegAt(q) > LastPlatoon \/ Excused(LegAt(q))'
<1>t. TypeOK /\ CallInv /\ RouterInv /\ LegInv /\ WaitInv
  BY DEF FlowInv, PlatoonsAligned
<1>b. /\ g.source = "platoons" => g.fanin = "combine"
      /\ g.source = "original" => LastPlatoon = 1
      /\ g.source \in {"platoons", "original"} /\ g.fanin \in {"combine", "merge", "mux"}
      /\ plat \in Nat /\ cplat \in Nat \ {0} /\ nb \in Nat /\ LastPlatoon \in Nat \ {0}
      /\ blocked \subseteq Routes
      /\ pPC \in [Routes -> {"idle", "pull", "legdone", "queue", "offer", "pulldone", "wait", "end"}]
      /\ pRes \in [Routes -> Results] /\ hol \in [Routes -> Results] /\ cur \in Routes
      /\ EOS # ERR /\ EOS \notin Batches /\ ERR \notin Batches
      /\ LegOK(q)
  BY <1>t, BatchFacts, GraphFacts, BoundsAssumption DEF TypeOK, LegInv
<1>c. LegAt(q) \in Nat \ {0}
  BY <1>b DEF LegAt
<1>v. ASSUME LegAt(q)' > LastPlatoon, LegAt(q)' \in Nat, fwd' = fwd PROVE AccountOK(q)'
  <2>1. LastPlatoon' = LastPlatoon
    BY GraphStays DEF LastPlatoon
  <2>2. \A b \in Batches : <<q, b>> \in fwd => b[1] <= LastPlatoon /\ b[1] \in Nat
    BY <1>t, BatchFacts DEF RouterInv
  <2> QED
    BY <1>b, <1>v, <2>1, <2>2 DEF AccountOK
<1>s. ASSUME Watched(q), Same, Still, Keeps, Offers, Ends PROVE AccountOK(q)'
  BY <1>c, <1>s, AccountStep
<1>1. CASE RouterDone
  <2>1. Watched(q) /\ Same /\ Still
    BY <1>1, <1>b DEF RouterDone, Watched, Active, Past, Broken, LegAt, Waiting, Excused
  <2>2. Keeps
    BY <1>1, <1>b DEF RouterDone, Has, Got, Holding
  <2>3. Offers
    BY <1>1, <1>b DEF RouterDone, Accounted, Offering
  <2>4. Ends
    BY <1>1, <1>b, <2>1 DEF RouterDone, Ended, Resolved
  <2> QED
    BY <1>s, <2>1, <2>2, <2>3, <2>4
<1>2. CASE RouterBatch
  <2>1. Watched(q) /\ LegAt(q)' = LegAt(q) /\ Still
    BY <1>2, <1>b DEF RouterBatch, Watched, Active, Past, Broken, LegAt, Waiting, Excused
  <2>2. Keeps
    BY <1>2, <1>b DEF RouterBatch, Has, Got, Holding
  <2>3. Offers
    BY <1>2, <1>t, EmptyRange DEF RouterBatch, RouterInv, Offering
  <2>4. Ends
    BY <1>2, <1>b, <2>1 DEF RouterBatch, Ended, Resolved
  <2>5. ASSUME NEW c \in Batches, <<q, c>> \in fwd', <<q, c>> \notin fwd, c[1] >= LegAt(q),
               ~Excused(c[1])'
        PROVE  Accounted(q, c)'
    <3>1. c = rBatch' /\ q \in Range(rTodo') /\ blocked' = blocked /\ g' = g /\ rPC = "top" /\ ~srcErr
          /\ plat' = plat
      BY <1>2, <2>5 DEF RouterBatch
    <3>2. c[1] = plat /\ c[2] = nb + 1
      BY <1>2, <3>1 DEF RouterBatch
    <3>3. CASE q \notin blocked
      BY <3>1, <3>3 DEF Accounted, Offering
    <3>4. CASE q \in blocked
      <4>1. plat = LegAt(q) /\ plat <= LastPlatoon
        BY <1>c, <2>1, <2>5, <3>1, <3>2, <3>4, BlockedWithLeg DEF Watched
      <4>2. Ended(q)
        BY <3>1, <3>4, <4>1 DEF Ended
      <4>3. ~Excused(plat)
        BY <1>2, <2>5, <3>2 DEF Excused, RouterBatch
      <4>4. NoMore(q, plat)
        BY <2>1, <4>1, <4>2, <4>3 DEF FlowInv, AccountInv, AccountOK
      <4>5. PICK j \in 1..MaxBatches : j <= nb /\ Has(q, <<plat, j>>) /\ q \in g.heads
        BY <1>b, <3>1, <4>4 DEF NoMore, NoMoreBut
      <4>6. <<plat, j>> \in Batches
        BY <4>5, <1>t, BatchFacts DEF TypeOK
      <4>7. Has(q, <<plat, j>>)'
        BY <2>2, <3>1, <4>5, <4>6
      <4>8. j < c[2] /\ Has(q, <<c[1], j>>)'
        BY <1>b, <3>1, <3>2, <4>5, <4>7, BoundsAssumption
      <4> QED
        BY <3>1, <4>5, <4>8 DEF Accounted
    <3> QED
      BY <3>3, <3>4
  <2>6. \A c \in Batches : (c[1] >= LegAt(q)' /\ ~Excused(c[1])') =>
             /\ <<q, c>> \in fwd' => <<q, c>> \in fwd \/ Accounted(q, c)'
             /\ Has(q, c) => Has(q, c)'
             /\ Offering(q, c) => Accounted(q, c)'
    BY <2>1, <2>2, <2>3, <2>5
  <2> QED
    BY <1>c, <2>1, <2>4, <2>6, AccountStep
<1>3. CASE RouterEOS
  <2>1. Watched(q) /\ Same /\ Still
    BY <1>3, <1>b DEF RouterEOS, Watched, Active, Past, Broken, LegAt, Waiting, Excused
  <2>2. Keeps
    BY <1>3, <1>b DEF RouterEOS, Has, Got, Holding
  <2>3. Offers
    BY <1>3, <1>t, EmptyRange DEF RouterEOS, RouterInv, Offering
  <2>4. Ends
    BY <1>3, <1>b, <2>1 DEF RouterEOS, Ended, Resolved
  <2> QED
    BY <1>s, <2>1, <2>2, <2>3, <2>4
<1>4. CASE RouterSkip
  <2>1. Watched(q) /\ Same /\ Still
    BY <1>4, <1>b DEF RouterSkip, Watched, Active, Past, Broken, LegAt, Waiting, Excused
  <2>2. Keeps
    BY <1>4, <1>b DEF RouterSkip, Has, Got, Holding
  <2>3. Offers
    <3>1. CASE rTodo = <<>>
      BY <3>1, EmptyRange DEF Offering
    <3>2. CASE rTodo # <<>>
      BY <1>4, <3>2, <1>t, <1>b, OfferingStays DEF RouterSkip, Accounted
    <3> QED
      BY <3>1, <3>2
  <2>4. Ends
    <3>1. plat' = plat /\ (Resolved(q)' => Resolved(q))
      BY <1>4 DEF RouterSkip, Resolved
    <3>2. CASE rTodo = <<>>
      BY <1>4, <3>1, <3>2, <1>t, <2>1 DEF RouterSkip, RouterInv, Ended
    <3>3. CASE rTodo # <<>>
      BY <1>4, <3>1, <3>3, <1>t, <1>b, <2>1, OtherEnds DEF RouterSkip
    <3> QED
      BY <3>2, <3>3
  <2> QED
    BY <1>s, <2>1, <2>2, <2>3, <2>4
<1>5. CASE RouterCancelled
  <2>1. Watched(q) /\ Same /\ Still
    BY <1>5, <1>b DEF RouterCancelled, Watched, Active, Past, Broken, LegAt, Waiting, Excused
  <2>2. Keeps
    BY <1>5, <1>b DEF RouterCancelled, Has, Got, Holding
  <2>3. Offers
    BY <1>5, <1>b DEF RouterCancelled, Accounted, Offering
  <2>4. Ends
    BY <1>5, <1>b, <2>1 DEF RouterCancelled, Ended, Resolved
  <2> QED
    BY <1>s, <2>1, <2>2, <2>3, <2>4
<1>6. ASSUME NEW r \in Routes, RouterSend(r) PROVE AccountOK(q)'
  <2> DEFINE S == IF rPC = "eos" THEN blocked \cup {r} ELSE blocked
  <2>0. S \in SUBSET Routes /\ RouterAdvance(S) /\ rTodo # <<>> /\ rPC \in {"fwd", "eos"}
        /\ S \subseteq blocked \cup {Head(rTodo)} /\ Head(rTodo) = r /\ r \notin blocked
        /\ plat' = plat /\ srcErr' = srcErr /\ nb' = nb /\ g' = g /\ LastPlatoon' = LastPlatoon
    BY <1>6, <1>b DEF RouterSend, LastPlatoon
  <2>x. /\ fPC' = fPC /\ cPC' = cPC /\ cplat' = cplat /\ swallowed' = swallowed /\ held' = held
        /\ left' = left /\ hol' = hol /\ got' = got /\ fwd' = fwd
    BY <1>6 DEF RouterSend
  <2>a. CASE q # r
    <3>0. pPC'[q] = pPC[q] /\ pRes'[q] = pRes[q] /\ (q \in spent') = (q \in spent)
      BY <1>6, <1>b, <2>a DEF RouterSend
    <3>1. Watched(q) /\ Same /\ Still
      BY <2>x, <2>0, <3>0 DEF Watched, Active, Past, Broken, LegAt, Waiting, Excused
    <3>2. Keeps
      BY <2>x, <2>0, <3>0 DEF Has, Got, Holding
    <3>3. Offers
      BY <2>0, <2>a, <1>t, OfferingStays DEF Accounted
    <3>4. Ends
      <4>1. Resolved(q)' => Resolved(q)
        BY <3>0 DEF Resolved
      <4> QED
        BY <2>0, <2>a, <3>1, <4>1, <1>t, OtherEnds
    <3> QED
      BY <1>s, <3>1, <3>2, <3>3, <3>4
  <2>b. CASE q = r
    <3>0. /\ pPC[q] = "pull" /\ q \notin spent /\ spent' = spent
          /\ pPC'[q] \in {"legdone", "queue", "offer"}
      BY <1>6, <1>b, <2>b DEF RouterSend, Received
    <3>x. pRes'[q] = rBatch
      BY <1>6, <1>b, <2>b DEF RouterSend, Received, Watched, Broken
    <3>1. Watched(q) /\ Same /\ Still
      BY <2>x, <2>0, <3>0 DEF Watched, Active, Past, Broken, LegAt, Waiting, Excused
    <3>2. Keeps
      BY <2>x, <2>0, <3>0 DEF Has, Got, Holding
    <3>3. Offers
      BY <3>0, <3>x DEF Offering, Accounted, Has, Holding
    <3>4. Ends
      <4>1. CASE rPC = "fwd"
        <5>1. rBatch \in Batches /\ blocked' = S /\ S = blocked
          BY <2>0, <4>1, <1>t, AdvanceFacts DEF RouterInv, TypeOK
        <5> QED
          BY <1>b, <2>0, <2>b, <3>0, <3>x, <5>1 DEF Ended, Resolved
      <4>2. CASE rPC = "eos"
        <5>1. LegAt(q) <= LastPlatoon => srcErr \/ plat > LegAt(q)
          BY <1>c, <2>0, <2>b, <3>0, <3>1, <4>2, RouteOfLeg DEF Resolved, Watched
        <5> QED
          BY <1>b, <1>c, <2>0, <3>1, <5>1 DEF NoMore, NoMoreBut
      <4> QED
        BY <2>0, <4>1, <4>2
    <3> QED
      BY <1>s, <3>1, <3>2, <3>3, <3>4
  <2> QED
    BY <2>a, <2>b
<1>7. ASSUME NEW r \in Routes, RouterTakesDone(r) PROVE AccountOK(q)'
  <2> DEFINE S == blocked \cup {r}
  <2>0. S \in SUBSET Routes /\ RouterAdvance(S) /\ rTodo # <<>> /\ rPC \in {"fwd", "eos"}
        /\ S \subseteq blocked \cup {Head(rTodo)} /\ Head(rTodo) = r /\ r \notin blocked
        /\ plat' = plat /\ srcErr' = srcErr /\ nb' = nb /\ g' = g /\ LastPlatoon' = LastPlatoon
    BY <1>7, <1>b DEF RouterTakesDone, LastPlatoon
  <2>x. /\ fPC' = fPC /\ cPC' = cPC /\ cplat' = cplat /\ swallowed' = swallowed /\ held' = held
        /\ left' = left /\ hol' = hol /\ got' = got /\ fwd' = fwd
    BY <1>7 DEF RouterTakesDone
  <2>a. CASE q # r
    <3>0. pPC'[q] = pPC[q] /\ pRes'[q] = pRes[q] /\ (q \in spent') = (q \in spent)
      BY <1>7, <1>b, <2>a DEF RouterTakesDone
    <3>1. Watched(q) /\ Same /\ Still
      BY <2>x, <2>0, <3>0 DEF Watched, Active, Past, Broken, LegAt, Waiting, Excused
    <3>2. Keeps
      BY <2>x, <2>0, <3>0 DEF Has, Got, Holding
    <3>3. Offers
      BY <2>0, <2>a, <1>t, OfferingStays DEF Accounted
    <3>4. Ends
      <4>1. Resolved(q)' => Resolved(q)
        BY <3>0 DEF Resolved
      <4> QED
        BY <2>0, <2>a, <3>1, <4>1, <1>t, OtherEnds
    <3> QED
      BY <1>s, <3>1, <3>2, <3>3, <3>4
  <2>b. CASE q = r /\ pPC[r] = "legdone"
    <3>0. /\ pRes'[q] = pRes[q] /\ pPC'[q] \in {"queue", "offer"} /\ q \in g.heads \ spent
          /\ pRes[q] \in Batches
      BY <1>7, <1>b, <2>b DEF RouterTakesDone, Received, LegOK
    <3>1. Watched(q) /\ Same /\ Still
      BY <1>b, <2>b, <2>x, <2>0, <3>0 DEF Watched, Active, Past, Broken, LegAt, Waiting, Excused
    <3>2. Keeps
      BY <2>b, <2>x, <2>0, <3>0 DEF Has, Got, Holding
    <3>3. LegAt(q) <= LastPlatoon => /\ rPC = "fwd" => plat = LegAt(q) /\ ~srcErr
                                     /\ rPC = "eos" => srcErr \/ plat > LegAt(q)
      BY <1>b, <1>c, <2>0, <2>b, <3>0, <3>1, RouteOfLeg DEF Resolved, Watched
    <3>4. ASSUME rPC = "fwd", plat = LegAt(q)
          PROVE  \E j \in 1..MaxBatches : j < nb /\ Has(q, <<plat, j>>)'
      <4>1. pRes[q][1] = LegAt(q)
        <5>1. Holding(q, pRes[q]) /\ Active(q)
          BY <2>b, <3>1 DEF Holding, Watched
        <5>2. pRes[q][1] = IF g.source = "original" THEN 1 ELSE LegAt(q)
          BY <3>0, <5>1 DEF FlowInv, HoldingInv, InPlatoon
        <5>3. g.source = "original" => plat <= 1
          BY <1>b, <1>t, <2>0, <3>4 DEF RouterInv
        <5> QED
          BY <1>c, <3>4, <5>2, <5>3
      <4>2. r \in Range(rTodo) /\ ~srcErr
        BY <1>t, <2>0, <3>4, AdvanceRange DEF RouterInv, TypeOK
      <4>3. pRes[q][2] < nb
        BY <2>b, <3>4, <4>1, <4>2 DEF FlowInv, HeadInv, HeadOK
      <4>4. pRes[q] = <<plat, pRes[q][2]>> /\ pRes[q][2] \in 1..MaxBatches
        BY <3>0, <3>4, <4>1, BatchFacts
      <4>5. Has(q, <<plat, pRes[q][2]>>)'
        BY <2>0, <2>b, <3>0, <4>4 DEF Has, Holding
      <4> QED
        BY <3>0, <4>3, <4>4, <4>5
    <3>5. Offers
      <4> SUFFICES ASSUME NEW c \in Batches, Offering(q, c), c[1] >= LegAt(q) PROVE Accounted(q, c)'
        OBVIOUS
      <4>1. c = <<plat, nb>> /\ rPC = "fwd" /\ plat <= LastPlatoon
        BY <1>b, <1>t, <2>0 DEF Offering, RouterInv
      <4>2. c[1] = plat /\ c[2] = nb
        BY <4>1
      <4>3. plat = LegAt(q)
        BY <1>b, <1>c, <3>3, <4>1, <4>2
      <4>4. PICK j \in 1..MaxBatches : j < nb /\ Has(q, <<plat, j>>)'
        BY <3>4, <4>1, <4>3
      <4>5. Has(q, <<c[1], j>>)' /\ j < c[2]
        BY <2>0, <4>2, <4>4
      <4> QED
        BY <2>0, <3>0, <4>4, <4>5 DEF Accounted
    <3>6. Ends
      <4> SUFFICES ASSUME LegAt(q) <= LastPlatoon PROVE NoMore(q, LegAt(q))'
        BY <1>b, <1>c
      <4>1. CASE rPC = "eos"
        BY <2>0, <3>1, <3>3, <4>1 DEF NoMore, NoMoreBut
      <4>2. CASE rPC = "fwd"
        <5>1. plat = LegAt(q) /\ blocked' = S /\ rPC' # "eos"
          BY <1>t, <2>0, <3>3, <4>2, AdvanceFacts DEF TypeOK
        <5>2. PICK j \in 1..MaxBatches : j < nb /\ Has(q, <<plat, j>>)'
          BY <3>4, <4>2, <5>1
        <5> QED
          BY <1>b, <2>0, <2>b, <3>0, <3>1, <5>1, <5>2, BoundsAssumption DEF NoMore, NoMoreBut
      <4> QED
        BY <2>0, <4>1, <4>2
    <3> QED
      BY <1>s, <3>1, <3>2, <3>5, <3>6
  <2>c. CASE q = r /\ pPC[r] # "legdone"
    <3>0. /\ pPC[q] = "pulldone" /\ spent' = spent /\ q \notin spent /\ pRes' = pRes
          /\ pPC'[q] = IF g.fanin = "combine" THEN "wait" ELSE "pull"
      BY <1>7, <1>b, <2>c DEF RouterTakesDone
    <3>1. g.fanin = "combine"
      BY <1>b, <2>x, <2>0, <3>0 DEF LegOK, Watched, Past
    <3>2. Watched(q) /\ Same /\ Still
      BY <2>x, <2>0, <3>0, <3>1 DEF Watched, Active, Past, Broken, LegAt, Waiting, Excused
    <3>3. Keeps
      BY <2>x, <2>0, <3>0 DEF Has, Got, Holding
    <3>4. LegAt(q) = cplat /\ cPC = "done" /\ cplat <= LastPlatoon
      BY <1>b, <1>t, <3>0, <3>1, <3>2 DEF LegAt, Waiting, LegOK, Watched, Active, CallInv
    <3>5. Offers
      <4> SUFFICES ASSUME NEW c \in Batches, Offering(q, c) PROVE Excused(c[1])'
        OBVIOUS
      <4>1. c = <<plat, nb>> /\ rPC = "fwd"
        BY <1>b, <1>t, <2>0 DEF Offering, RouterInv
      <4>2. plat = LegAt(q)
        BY <1>b, <1>c, <2>0, <2>c, <3>0, <3>2, <3>4, <4>1, RouteOfLeg DEF Resolved, Watched, LegOK
      <4> QED
        BY <2>x, <3>4, <4>1, <4>2 DEF Excused
    <3>6. Ends
      BY <2>x, <3>2, <3>4 DEF Excused
    <3> QED
      BY <1>s, <3>2, <3>3, <3>5, <3>6
  <2> QED
    BY <2>a, <2>b, <2>c
<1>8. ASSUME NEW r \in Routes, HeadEOS(r) PROVE AccountOK(q)'
  <2>0. q = r => pPC[q] \in {"pull", "pulldone"} /\ q \in spent
    BY <1>8 DEF HeadEOS
  <2>x. pPC[q] = "pulldone" /\ q = r => g.fanin = "combine"
    BY <1>8, <1>b, <2>0 DEF HeadEOS, LegOK, Watched, Past
  <2>1. Watched(q) /\ Same /\ Still
    BY <1>8, <1>b, <2>0, <2>x DEF HeadEOS, Received, Watched, Active, Past, Broken, LegAt, Waiting, Excused
  <2>2. Keeps
    BY <1>8, <1>b DEF HeadEOS, Received, Has, Got, Holding
  <2>3. Offers
    BY <1>8, <1>b DEF HeadEOS, Accounted, Offering
  <2>4. Ends
    BY <1>8, <1>b, <2>0, <2>1 DEF HeadEOS, Ended, Resolved
  <2> QED
    BY <1>s, <2>1, <2>2, <2>3, <2>4
<1>9. ASSUME NEW r \in Routes, CombineQueue(r) PROVE AccountOK(q)'
  <2>1. Watched(q) /\ Same /\ Still
    BY <1>9, <1>b DEF CombineQueue, Watched, Active, Past, Broken, LegAt, Waiting, Excused
  <2>2. Keeps
    BY <1>9, <1>b DEF CombineQueue, Has, Got, Holding
  <2>3. Offers
    BY <1>9, <1>b DEF CombineQueue, Accounted, Offering
  <2>4. Ends
    BY <1>9, <1>b, <2>1 DEF CombineQueue, Ended, Resolved
  <2> QED
    BY <1>s, <2>1, <2>2, <2>3, <2>4
<1>10. ASSUME NEW r \in Routes, LegCancelled(r) PROVE AccountOK(q)'
  <2>0. q # r
    BY <1>10, <1>b DEF LegCancelled, Watched, Active
  <2>1. Watched(q) /\ Same /\ Still
    BY <1>10, <1>b, <2>0 DEF LegCancelled, Watched, Active, Past, Broken, LegAt, Waiting, Excused
  <2>2. Keeps
    BY <1>10, <1>b, <2>0 DEF LegCancelled, Has, Got, Holding
  <2>3. Offers
    BY <1>10, <1>b, <2>0 DEF LegCancelled, Accounted, Offering
  <2>4. Ends
    BY <1>10, <1>b, <2>0, <2>1 DEF LegCancelled, Ended, Resolved
  <2> QED
    BY <1>s, <2>1, <2>2, <2>3, <2>4
<1>11. CASE CombineNext
  <2>0. LegAt(q)' = LegAt(q)
    BY <1>11, WaitLegAt DEF CombineNext, Watched, Active
  <2>1. Watched(q) /\ Same /\ Still
    BY <1>11, <1>b, <2>0 DEF CombineNext, Watched, Active, Past, Broken, Excused
  <2>2. Keeps
    BY <1>11, <1>b DEF CombineNext, Has, Got, Holding
  <2>3. Offers
    BY <1>11, <1>b DEF CombineNext, Accounted, Offering
  <2>4. Ends
    BY <1>11, <1>b, <2>1 DEF CombineNext, Ended, Resolved
  <2> QED
    BY <1>s, <2>1, <2>2, <2>3, <2>4
<1>12. CASE CombineRecv
  <2>0. /\ cPC = "pull" /\ g' = g /\ hol' = hol /\ pPC[cur] = "offer" /\ fPC \in {"next", "recv"}
        /\ fPC' \in {"next", "idle"} /\ spent' = spent /\ pRes' = pRes /\ fwd' = fwd
        /\ cplat' = cplat /\ swallowed' = swallowed /\ g.fanin # "merge"
        /\ \A x \in Routes : x # cur => pPC'[x] = pPC[x]
    BY <1>12, <1>b, <1>t DEF CombineRecv, ReturnBatch, ReturnErr, CallInv
  <2>x. /\ cur = q => pRes[cur] # ERR /\ ~Broken(q) /\ pPC[q] = "offer" /\ pPC'[q] \in {"pull", "wait"}
        /\ cPC' # "done" /\ got \subseteq got'
        /\ pRes[cur] \in Batches => got' = got \cup {<<cur, pRes[cur], cplat>>}
    BY <1>12, <1>b, <1>t, <2>0 DEF CombineRecv, ReturnBatch, ReturnErr, CallInv, Broken, Watched, Active
  <2>1. Watched(q) /\ Same /\ Still
    BY <1>b, <2>0, <2>x DEF Watched, Active, Past, Broken, LegAt, Waiting, Excused
  <2>2. Keeps
    <3> SUFFICES ASSUME NEW c \in Batches, Holding(q, c), ~Holding(q, c)' PROVE Got(q, c)'
      BY <2>x DEF Has, Got
    <3>1. cur = q /\ pRes[q] = c
      BY <2>0 DEF Holding
    <3>2. c[1] = cplat
      BY <2>0, <2>1, TakenInPlatoon DEF Watched, Active
    <3> QED
      BY <2>x, <3>1, <3>2 DEF Got
  <2>3. Offers
    BY <1>12, <1>b DEF CombineRecv, Accounted, Offering
  <2>4. Ends
    BY <1>12, <1>b, <2>0, <2>1, <2>x DEF CombineRecv, Ended, Resolved, LegOK
  <2> QED
    BY <1>s, <2>1, <2>2, <2>3, <2>4
<1>13. CASE CombineDrain
  <2>1. Watched(q) /\ Same /\ Still
    BY <1>13, <1>b DEF CombineDrain, Watched, Active, Past, Broken, LegAt, Waiting, Excused
  <2>2. Keeps
    BY <1>13, <1>b DEF CombineDrain, Has, Got, Holding
  <2>3. Offers
    BY <1>13, <1>b DEF CombineDrain, Accounted, Offering
  <2>4. Ends
    BY <1>13, <1>b, <2>1 DEF CombineDrain, Ended, Resolved
  <2> QED
    BY <1>s, <2>1, <2>2, <2>3, <2>4
<1>14. CASE CombineDoneAll
  <2>0. LegAt(q)' = LegAt(q)
    BY <1>14, WaitLegAt DEF CombineDoneAll, Watched, Active
  <2>1. Watched(q) /\ Same /\ Still
    BY <1>14, <1>b, <2>0 DEF CombineDoneAll, Watched, Active, Past, Broken, Excused
  <2>2. Keeps
    BY <1>14, <1>b DEF CombineDoneAll, Has, Got, Holding
  <2>3. Offers
    BY <1>14, <1>b DEF CombineDoneAll, Accounted, Offering
  <2>4. Ends
    BY <1>14, <1>b, <2>1 DEF CombineDoneAll, Ended, Resolved
  <2> QED
    BY <1>s, <2>1, <2>2, <2>3, <2>4
<1>15. ASSUME NEW r \in Routes, CombineUnwait(r) PROVE AccountOK(q)'
  <2>0. /\ fPC = "unwait" /\ pPC[r] = "wait" /\ g.fanin = "combine" /\ g' = g /\ got' = got /\ fwd' = fwd
        /\ pPC' = [pPC EXCEPT ![r] = "pull"] /\ pRes' = pRes /\ spent' = spent /\ hol' = hol
        /\ swallowed' = swallowed /\ cPC \in {"pull", "done"} /\ blocked' = blocked /\ rTodo' = rTodo
        /\ rBatch' = rBatch /\ rPC' = rPC /\ plat' = plat /\ srcErr' = srcErr
    BY <1>15, <1>t DEF CombineUnwait, CallInv, ReturnEOS
  <2>x. Watched(q) /\ LegAt(q)' = IF q = r THEN LegAt(q) + 1 ELSE LegAt(q)
    <3>1. Watched(q)
      BY <1>b, <2>0 DEF Watched, Active, Past, Broken
    <3> QED
      BY <1>15, <3>1, UnwaitLegAt
  <2>2. Keeps
    BY <1>b, <2>0 DEF Has, Got, Holding
  <2>3. \A c \in Batches : Offering(q, c) => Accounted(q, c)'
    BY <2>0 DEF Accounted, Offering
  <2>y. \A p \in Nat : p >= LegAt(q)' /\ Excused(p) => Excused(p)'
    <3>1. CASE Cardinality(left) # 1
      BY <1>15, <3>1 DEF CombineUnwait, Excused
    <3>2. CASE Cardinality(left) = 1
      <4>1. Waiting = {r}
        BY <1>15, <3>2, LastToken
      <4>2. LegAt(q)' = cplat + 1
        BY <1>b, <2>0, <2>x, <4>1 DEF LegAt
      <4> QED
        BY <1>b, <4>2 DEF Excused
    <3> QED
      BY <3>1, <3>2
  <2>z. Ended(q)' => (Ended(q) /\ LegAt(q)' = LegAt(q)) \/ NoMore(q, LegAt(q))' \/ LegAt(q)' > LastPlatoon
    <3>1. CASE q # r
      BY <1>b, <2>0, <2>x, <3>1 DEF Ended, Resolved
    <3>2. CASE q = r
      <4>1. ~Resolved(q)' /\ Resolved(q)
        BY <1>b, <2>0, <3>2 DEF Resolved, LegOK
      <4>2. CASE g.source = "original"
        BY <1>b, <1>c, <2>x, <3>2, <4>2
      <4>3. CASE g.source = "platoons" /\ srcErr
        BY <2>0, <4>3 DEF NoMore, NoMoreBut
      <4>4. CASE g.source = "platoons" /\ ~srcErr
        <5>1. rPC # "end" => RouteAt(q) = LegAt(q) + 1
          BY <2>x, <4>1, <4>4 DEF FlowInv, LockstepInv, Lockstep, Watched
        <5> QED
          BY <1>b, <1>c, <2>0, <2>x, <3>2, <4>1, <5>1 DEF Ended, RouteAt
      <4> QED
        BY <1>b, <4>2, <4>3, <4>4
    <3> QED
      BY <3>1, <3>2
  <2>6. LegAt(q)' \in Nat /\ LegAt(q)' >= LegAt(q)
    BY <1>c, <2>x
  <2>7. \A c \in Batches : (c[1] >= LegAt(q)' /\ ~Excused(c[1])') =>
             /\ <<q, c>> \in fwd' => <<q, c>> \in fwd \/ Accounted(q, c)'
             /\ Has(q, c) => Has(q, c)'
             /\ Offering(q, c) => Accounted(q, c)'
    BY <2>0, <2>2, <2>3
  <2> QED
    BY <1>c, <2>x, <2>y, <2>z, <2>6, <2>7, AccountStep
<1>16. ASSUME NEW r \in Routes, CombineDone(r) PROVE AccountOK(q)'
  <2>0. /\ g.fanin = "combine" /\ fPC = "done" /\ cPC = "done" /\ fPC' = fPC /\ cPC' = cPC /\ cplat' = cplat
        /\ cplat <= LastPlatoon /\ g' = g /\ got' = got /\ fwd' = fwd /\ pRes' = pRes /\ spent' = spent
        /\ (swallowed => swallowed') /\ \A x \in Routes : x # r => pPC'[x] = pPC[x]
        /\ (~swallowed' => pRes[r] # ERR) /\ pPC[r] = "offer"
    BY <1>16, <1>b, <1>t DEF CombineDone, CallInv
  <2>1. Watched(q) /\ Same /\ Still /\ LegAt(q) = cplat
    BY <1>b, <2>0 DEF Watched, Active, Past, Broken, LegAt, Excused
  <2>3. Offers
    BY <1>16, <1>b DEF CombineDone, Accounted, Offering
  <2>4. Ends
    BY <2>0, <2>1 DEF Excused
  <2>5. ASSUME NEW c \in Batches, c[1] >= LegAt(q)', ~Excused(c[1])', Has(q, c) PROVE Has(q, c)'
    <3>1. CASE Got(q, c)
      BY <2>0, <3>1 DEF Has, Got
    <3>2. CASE Holding(q, c)
      <4>1. c[1] = IF g.source = "original" THEN 1 ELSE LegAt(q)
        BY <2>1, <3>2 DEF FlowInv, HoldingInv, InPlatoon, Watched
      <4>2. c[1] = cplat
        BY <1>b, <2>0, <2>1, <2>5, <4>1
      <4> QED
        BY <2>0, <2>5, <4>2 DEF Excused
    <3> QED
      BY <2>5, <3>1, <3>2 DEF Has
  <2>6. \A c \in Batches : (c[1] >= LegAt(q)' /\ ~Excused(c[1])') =>
             /\ <<q, c>> \in fwd' => <<q, c>> \in fwd \/ Accounted(q, c)'
             /\ Has(q, c) => Has(q, c)'
             /\ Offering(q, c) => Accounted(q, c)'
    BY <2>0, <2>1, <2>3, <2>5
  <2> QED
    BY <1>c, <2>1, <2>4, <2>6, AccountStep
<1>17. ASSUME NEW r \in Routes, MuxRecv(r) PROVE AccountOK(q)'
  <2>0. /\ cPC = "pull" /\ g' = g /\ hol' = hol /\ pPC[r] = "offer" /\ fPC \in {"next", "recv"}
        /\ fPC' \in {"next", "idle"} /\ spent' = spent /\ pRes' = pRes /\ fwd' = fwd
        /\ cplat' = cplat /\ swallowed' = swallowed /\ g.fanin # "merge"
        /\ \A x \in Routes : x # r => pPC'[x] = pPC[x]
    BY <1>17, <1>b, <1>t DEF MuxRecv, ReturnBatch, ReturnErr, CallInv
  <2>x. /\ r = q => pRes[r] # ERR /\ ~Broken(q) /\ pPC[q] = "offer" /\ pPC'[q] \in {"pull", "wait"}
        /\ cPC' # "done" /\ got \subseteq got'
        /\ pRes[r] \in Batches => got' = got \cup {<<r, pRes[r], cplat>>}
    BY <1>17, <1>b, <1>t, <2>0 DEF MuxRecv, ReturnBatch, ReturnErr, CallInv, Broken, Watched, Active
  <2>1. Watched(q) /\ Same /\ Still
    BY <1>b, <2>0, <2>x DEF Watched, Active, Past, Broken, LegAt, Waiting, Excused
  <2>2. Keeps
    <3> SUFFICES ASSUME NEW c \in Batches, Holding(q, c), ~Holding(q, c)' PROVE Got(q, c)'
      BY <2>x DEF Has, Got
    <3>1. r = q /\ pRes[q] = c
      BY <2>0 DEF Holding
    <3>2. c[1] = cplat
      BY <2>0, <2>1, TakenInPlatoon DEF Watched, Active
    <3> QED
      BY <2>x, <3>1, <3>2 DEF Got
  <2>3. Offers
    BY <1>17, <1>b DEF MuxRecv, Accounted, Offering
  <2>4. Ends
    BY <1>17, <1>b, <2>0, <2>1, <2>x DEF MuxRecv, Ended, Resolved, LegOK
  <2> QED
    BY <1>s, <2>1, <2>2, <2>3, <2>4
<1>18. CASE MergeStart
  <2> DEFINE x == CHOOSE y \in left : \A z \in left : y <= z
  <2>0. /\ x \in left /\ x \in Routes /\ pPC[x] = "offer" /\ g.fanin = "merge" /\ g.source = "original"
        /\ x \notin held /\ fPC \in {"start", "eos"}
    <3>1. x \in left /\ left \subseteq Routes
      BY <1>18, <1>t, LeastRoute DEF MergeStart, TypeOK
    <3> QED
      BY <1>18, <1>b, <1>t, <3>1 DEF MergeStart, CallInv
  <2>x. /\ pPC' = [pPC EXCEPT ![x] = IF pRes[x] = ERR THEN "end" ELSE "pull"]
        /\ held' = IF pRes[x] \in Batches THEN held \cup {x} ELSE held
        /\ hol' = [hol EXCEPT ![x] = pRes[x]] /\ left' = left \ {x}
        /\ g' = g /\ got' = got /\ fwd' = fwd /\ pRes' = pRes /\ spent' = spent /\ swallowed' = swallowed
        /\ UNCHANGED <<plat, nb, srcErr, rPC, rBatch, rTodo, blocked>>
    BY <1>18 DEF MergeStart, MergeStarted, ReturnErr, ReturnEOS
  <2>y. /\ cPC \in {"pull", "done"} /\ cPC' # "stop" /\ pRes[x] # ERR
        /\ \/ fPC' = "idle" /\ cplat' = cplat + 1
           \/ fPC' \in {"next", "done"} /\ fPC = "start" /\ left = {x} /\ cplat' = cplat /\ cPC' = cPC
           \/ fPC' = fPC /\ cplat' = cplat /\ cPC' = cPC
    BY <1>18, <1>t DEF MergeStart, MergeStarted, ReturnErr, ReturnEOS, CallInv, Watched, Active
  <2>a. CASE cplat' = cplat + 1
    <3>1. LegAt(q)' > LastPlatoon /\ LegAt(q)' \in Nat
      BY <1>b, <2>0, <2>y, <2>a DEF LegAt
    <3> QED
      BY <1>v, <2>x, <3>1
  <2>z. cplat' # cplat + 1 => LegAt(q)' = LegAt(q) /\ LegAt(q) = cplat /\ cPC' = cPC /\ cplat' = cplat
    BY <1>b, <2>0, <2>y DEF LegAt
  <2>3. Offers
    BY <2>x DEF Accounted, Offering
  <2>b. CASE cplat' # cplat + 1 /\ q # x
    <3>1. Watched(q) /\ Same /\ Still
      BY <1>b, <2>0, <2>x, <2>y, <2>z, <2>b DEF Watched, Active, Past, Broken, Excused
    <3>2. Keeps
      BY <1>b, <2>x, <2>b DEF Has, Got, Holding
    <3>4. Ends
      BY <1>b, <2>x, <2>b, <3>1 DEF Ended, Resolved
    <3> QED
      BY <1>s, <2>3, <3>1, <3>2, <3>4
  <2>c. CASE cplat' # cplat + 1 /\ q = x /\ fPC = "start"
    <3>1. Watched(q) /\ Same /\ Still
      BY <1>b, <2>0, <2>x, <2>y, <2>z, <2>c DEF Watched, Active, Past, Broken, Excused
    <3>2. pRes[q] \in Batches /\ pRes[q] # EOS
      BY <1>b, <2>0, <2>x, <2>y, <2>c DEF Watched, Past
    <3>3. Keeps
      BY <1>b, <2>0, <2>x, <2>c, <3>2 DEF Has, Got, Holding
    <3>4. Ends
      BY <1>b, <2>x, <2>c, <3>1, <3>2 DEF Ended, Resolved
    <3> QED
      BY <1>s, <2>3, <3>1, <3>3, <3>4
  <2>d. CASE cplat' # cplat + 1 /\ q = x /\ fPC = "eos"
    <3>1. cplat = 1 /\ LegAt(q)' = 1 /\ LastPlatoon = 1 /\ LastPlatoon' = 1
      BY <1>b, <1>t, <2>0, <2>x, <2>y, <2>z, <2>d DEF CallInv, LastPlatoon
    <3>2. \A c \in Batches : <<q, c>> \in fwd /\ c[1] >= 1 => c[1] = 1
      BY <1>t, <3>1, BatchFacts DEF RouterInv
    <3>3. CASE cPC = "done"
      BY <2>x, <2>z, <2>d, <3>1, <3>2, <3>3 DEF AccountOK, Excused
    <3>4. CASE cPC = "pull"
      <4>1. Finished(q, cplat)
        BY <2>d, <2>x, <3>1, <3>4 DEF FlowInv, FinishedInv, AtEnd, Watched, Active
      <4>2. Finished(q, 1)
        BY <3>1, <4>1
      <4>3. ASSUME NEW c \in Batches, <<q, c>> \in fwd, c[1] = 1 PROVE Accounted(q, c)'
        <5>1. Through(q, c)
          BY <4>2, <4>3 DEF Finished
        <5> QED
          BY <2>x, <5>1 DEF Through, Got, Accounted, Has
      <4>4. NoMore(q, 1)'
        BY <2>x, <4>2 DEF Finished, NoMore, NoMoreBut, Got, Has
      <4> QED
        BY <2>x, <3>1, <3>2, <4>3, <4>4 DEF AccountOK
    <3> QED
      BY <2>y, <3>3, <3>4
  <2> QED
    BY <2>0, <2>a, <2>b, <2>c, <2>d
<1>19. CASE MergeNext
  <2>1. Watched(q) /\ Same /\ Still
    BY <1>19, <1>b DEF MergeNext, Watched, Active, Past, Broken, LegAt, Waiting, Excused
  <2>2. Keeps
    BY <1>19, <1>b DEF MergeNext, Has, Got, Holding
  <2>3. Offers
    BY <1>19, <1>b DEF MergeNext, Accounted, Offering
  <2>4. Ends
    BY <1>19, <1>b, <2>1 DEF MergeNext, Ended, Resolved
  <2> QED
    BY <1>s, <2>1, <2>2, <2>3, <2>4
<1>20. CASE MergeReplenish
  <2>0. /\ cPC = "pull" /\ g' = g /\ pPC[cur] = "offer" /\ fPC = "recv" /\ fPC' = "idle" /\ spent' = spent
        /\ pRes' = pRes /\ fwd' = fwd /\ cplat' = cplat /\ swallowed' = swallowed /\ cur \in held
        /\ g.fanin = "merge" /\ \A y \in Routes : y # cur => pPC'[y] = pPC[y] /\ hol'[y] = hol[y]
        /\ \A y \in Routes : y # cur => (y \in held') = (y \in held)
    BY <1>20, <1>b, <1>t DEF MergeReplenish, ReturnBatch, ReturnErr, CallInv
  <2>x. /\ got' = got \cup {<<cur, hol[cur], cplat>>} /\ cPC' = "idle" /\ pRes[cur] # ERR
        /\ pPC'[cur] = "pull" /\ hol'[cur] = pRes[cur]
        /\ held' = IF pRes[cur] \in Batches THEN held ELSE held \ {cur}
    BY <1>20, <1>b DEF MergeReplenish, ReturnBatch, ReturnErr, Watched, Active
  <2>y. q = cur => pRes[q] \in Batches /\ pRes[q] # EOS
    BY <1>b, <2>0, <2>x DEF Watched, Past
  <2>1. Watched(q) /\ Same /\ Still
    BY <1>b, <2>0, <2>x, <2>y DEF Watched, Active, Past, Broken, LegAt, Waiting, Excused
  <2>2. Keeps
    <3> SUFFICES ASSUME NEW c \in Batches, Holding(q, c), ~Holding(q, c)' PROVE Got(q, c)'
      BY <2>x DEF Has, Got
    <3>1. cur = q /\ hol[q] = c
      BY <1>b, <2>0, <2>x, <2>y DEF Holding
    <3>2. c[1] = cplat
      BY <2>0, <2>1, TakenInPlatoon DEF Watched, Active
    <3> QED
      BY <2>x, <3>1, <3>2 DEF Got
  <2>3. Offers
    BY <1>20, <1>b DEF MergeReplenish, Accounted, Offering
  <2>4. Ends
    BY <1>20, <1>b, <2>0, <2>1, <2>x, <2>y DEF MergeReplenish, Ended, Resolved
  <2> QED
    BY <1>s, <2>1, <2>2, <2>3, <2>4
<1>21. CASE MergePop
  <2>0. q \in held' /\ q \in held
    BY <1>21, <1>b, <1>t DEF MergePop, LegOK, Watched, Past
  <2>1. Watched(q) /\ Same /\ Still
    BY <1>21, <1>b, <2>0 DEF MergePop, Watched, Active, Past, Broken, LegAt, Waiting, Excused
  <2>2. Keeps
    BY <1>21, <1>b, <2>0 DEF MergePop, Has, Got, Holding
  <2>3. Offers
    BY <1>21, <1>b, <2>0 DEF MergePop, Accounted, Offering
  <2>4. Ends
    BY <1>21, <1>b, <2>0, <2>1 DEF MergePop, Ended, Resolved
  <2> QED
    BY <1>s, <2>1, <2>2, <2>3, <2>4
<1>22. CASE MergeDone
  <2>0. q # cur
    BY <1>22, <1>b, <1>t DEF MergeDone, CallInv, Watched, Past
  <2>1. Watched(q) /\ Same /\ Still
    BY <1>22, <1>b, <2>0 DEF MergeDone, Watched, Active, Past, Broken, LegAt, Waiting, Excused
  <2>2. Keeps
    BY <1>22, <1>b, <2>0 DEF MergeDone, Has, Got, Holding
  <2>3. Offers
    BY <1>22, <1>b, <2>0 DEF MergeDone, Accounted, Offering
  <2>4. Ends
    BY <1>22, <1>b, <2>0, <2>1 DEF MergeDone, Ended, Resolved
  <2> QED
    BY <1>s, <2>1, <2>2, <2>3, <2>4
<1>23. CASE MuxEOS
  <2>1. LegAt(q)' = cplat + 1 /\ fwd' = fwd /\ LastPlatoon = 1
    BY <1>23, <1>b DEF MuxEOS, LegAt
  <2> QED
    BY <1>b, <1>v, <2>1
<1>24. CASE PullCancelled
  <2>1. Watched(q) /\ Same /\ Still
    BY <1>24, <1>b DEF PullCancelled, Watched, Active, Past, Broken, LegAt, Waiting, Excused
  <2>2. Keeps
    BY <1>24, <1>b DEF PullCancelled, Has, Got, Holding
  <2>3. Offers
    BY <1>24, <1>b DEF PullCancelled, Accounted, Offering
  <2>4. Ends
    BY <1>24, <1>b, <2>1 DEF PullCancelled, Ended, Resolved
  <2> QED
    BY <1>s, <2>1, <2>2, <2>3, <2>4
<1>25. CASE ConsumerPull
  <2>0. /\ cPC = "idle" /\ fPC = "idle" /\ fPC' # "unwait" /\ cplat' = cplat /\ got' = got /\ fwd' = fwd
        /\ pPC'[q] = (IF pPC[q] = "idle" THEN "pull" ELSE pPC[q]) /\ g' = g
        /\ UNCHANGED <<pRes, spent, hol, held, swallowed, plat, nb, srcErr, rPC, rBatch, rTodo, blocked>>
    BY <1>25, <1>b, <1>t DEF ConsumerPull, CallInv
  <2>x. Past(q) => Past(q)'
    <3>1. fPC' = "start" => pPC[1] = "idle"
      BY <1>25 DEF ConsumerPull
    <3>2. fPC' = "start" => pPC[q] = "idle"
      BY <1>t, <3>1, RouteFacts DEF LegInv, LegOK
    <3> QED
      BY <2>0, <3>2 DEF Past
  <2>1. Watched(q) /\ Same /\ Still
    BY <2>0, <2>x DEF Watched, Active, Broken, LegAt, Excused
  <2>2. Keeps
    BY <2>0 DEF Has, Got, Holding
  <2>3. Offers
    BY <2>0 DEF Accounted, Offering
  <2>4. Ends
    BY <2>0, <2>1 DEF Ended, Resolved
  <2> QED
    BY <1>s, <2>1, <2>2, <2>3, <2>4
<1>26. CASE ConsumerStop
  <2>1. Watched(q) /\ Same /\ Still
    BY <1>26, <1>b DEF ConsumerStop, Watched, Active, Past, Broken, LegAt, Waiting, Excused
  <2>2. Keeps
    BY <1>26, <1>b DEF ConsumerStop, Has, Got, Holding
  <2>3. Offers
    BY <1>26, <1>b DEF ConsumerStop, Accounted, Offering
  <2>4. Ends
    BY <1>26, <1>b, <2>1 DEF ConsumerStop, Ended, Resolved
  <2> QED
    BY <1>s, <2>1, <2>2, <2>3, <2>4
<1>27. CASE Cancel
  <2>1. Watched(q) /\ Same /\ Still
    BY <1>27, <1>b DEF Cancel, Watched, Active, Past, Broken, LegAt, Waiting, Excused
  <2>2. Keeps
    BY <1>27, <1>b DEF Cancel, Has, Got, Holding
  <2>3. Offers
    BY <1>27, <1>b DEF Cancel, Accounted, Offering
  <2>4. Ends
    BY <1>27, <1>b, <2>1 DEF Cancel, Ended, Resolved
  <2> QED
    BY <1>s, <2>1, <2>2, <2>3, <2>4
<1>28. CASE UNCHANGED vars
  <2>1. Watched(q) /\ Same /\ Still
    BY <1>28, <1>b DEF vars, Watched, Active, Past, Broken, LegAt, Waiting, Excused
  <2>2. Keeps
    BY <1>28, <1>b DEF vars, Has, Got, Holding
  <2>3. Offers
    BY <1>28, <1>b DEF vars, Accounted, Offering
  <2>4. Ends
    BY <1>28, <1>b, <2>1 DEF vars, Ended, Resolved
  <2> QED
    BY <1>s, <2>1, <2>2, <2>3, <2>4
<1> QED
  BY <1>1, <1>2, <1>3, <1>4, <1>5, <1>6, <1>7, <1>8, <1>9, <1>10, <1>11, <1>12,
     <1>13, <1>14, <1>15, <1>16, <1>17, <1>18, <1>19, <1>20, <1>21, <1>22, <1>23, <1>24,
     <1>25, <1>26, <1>27, <1>28
     DEF Next, RouterStep, LegStep, FanInStep

(***************************************************************************)
(* Platoons that the consumer has all of.                                  *)
(***************************************************************************)

\* Nothing is taken back from the consumer, and only the Router forwards.
LEMMA HistoryGrows ==
  ASSUME [Next]_vars
  PROVE  got \subseteq got' /\ (swallowed => swallowed') /\ (fwd' = fwd \/ RouterBatch)
<1> USE DEF srcVars, routerVars, legVars, histVars, fanVars, conVars
<1>1. ASSUME RouterStep PROVE got' = got /\ swallowed' = swallowed /\ (fwd' = fwd \/ RouterBatch)
  BY <1>1 DEF RouterStep, RouterDone, RouterBatch, RouterEOS, RouterSkip, RouterCancelled,
     RouterSend, RouterTakesDone
<1>2. ASSUME NEW r \in Routes, LegStep(r) PROVE got' = got /\ swallowed' = swallowed /\ fwd' = fwd
  BY <1>2 DEF LegStep, HeadEOS, CombineQueue, LegCancelled
<1>3. ASSUME FanInStep PROVE got \subseteq got' /\ (swallowed => swallowed') /\ fwd' = fwd
  <2>1. ASSUME NEW r \in Routes, CombineUnwait(r) \/ CombineDone(r) \/ MuxRecv(r)
        PROVE  got \subseteq got' /\ (swallowed => swallowed') /\ fwd' = fwd
    <3>1. CASE CombineUnwait(r)
      BY <3>1 DEF CombineUnwait, ReturnEOS
    <3>2. CASE CombineDone(r)
      <4>1. got' = got /\ fwd' = fwd
        BY <3>2 DEF CombineDone
      <4>2. swallowed' = (swallowed \/ pRes[r] = ERR)
        BY <3>2, Zenon DEF CombineDone
      <4>3. swallowed => swallowed'
        BY <4>2, Zenon
      <4> QED
        BY <4>1, <4>3
    <3>3. CASE MuxRecv(r)
      BY <3>3 DEF MuxRecv, ReturnBatch, ReturnErr
    <3> QED
      BY <2>1, <3>1, <3>2, <3>3
  <2>2. CASE CombineNext \/ CombineRecv \/ CombineDrain \/ CombineDoneAll
    BY <2>2 DEF CombineNext, CombineRecv, CombineDrain, CombineDoneAll, ReturnBatch, ReturnErr
  <2>3. CASE MergeStart \/ MergeNext \/ MergeReplenish \/ MergePop \/ MergeDone
    BY <2>3 DEF MergeStart, MergeStarted, MergeNext, MergeReplenish, MergePop, MergeDone,
       ReturnBatch, ReturnEOS, ReturnErr
  <2>4. CASE MuxEOS \/ PullCancelled
    BY <2>4 DEF MuxEOS, PullCancelled
  <2> QED
    BY <1>3, <2>1, <2>2, <2>3, <2>4 DEF FanInStep
<1>4. ASSUME ConsumerPull \/ ConsumerStop \/ Cancel \/ UNCHANGED vars
      PROVE  got' = got /\ swallowed' = swallowed /\ fwd' = fwd
  BY <1>4 DEF ConsumerPull, ConsumerStop, Cancel, vars
<1> QED
  BY <1>1, <1>2, <1>3, <1>4 DEF Next

\* What the consumer has all of it goes on having all of.
LEMMA FinishedStays ==
  ASSUME FlowInv, PlatoonsCombined, [Next]_vars, NEW q \in Routes, NEW p \in 1..LastPlatoon,
         Finished(q, p)
  PROVE  Finished(q, p)'
<1>1. /\ g' = g /\ p \in 1..MaxPlatoons + 1 /\ nb \in Nat /\ nb' \in Nat /\ plat \in Nat /\ p \in Nat
      /\ got \subseteq got'
  <2>1. TypeOK /\ TypeOK'
    BY TypeKept DEF FlowInv, PlatoonsAligned
  <2>2. LastPlatoon \in 1..MaxPlatoons
    BY <2>1, GraphFacts DEF TypeOK
  <2> QED
    BY <2>1, <2>2, GraphStays, HistoryGrows, BoundsAssumption DEF TypeOK
<1>2. ASSUME NEW b \in Batches, <<q, b>> \in fwd', b[1] = p PROVE Through(q, b)'
  <2>1. CASE <<q, b>> \in fwd
    <3>1. Through(q, b)
      BY <1>2, <2>1 DEF Finished
    <3> QED
      BY <1>1, <3>1 DEF Through, Got
  <2>2. CASE <<q, b>> \notin fwd
    <3>1. RouterBatch
      BY <1>2, <2>2, HistoryGrows
    <3>2. b = <<plat, nb + 1>> /\ ~srcErr
      BY <1>2, <2>2, <3>1 DEF RouterBatch
    <3>3. b[2] = nb + 1 /\ plat = p
      BY <1>2, <3>2
    <3>n. NoMoreBut(q, p, q \in g.heads /\ \E j \in 1..MaxBatches : j <= nb /\ Got(q, <<p, j>>))
      BY DEF Finished
    <3>4. PICK j \in 1..MaxBatches : j <= nb /\ Got(q, <<p, j>>) /\ q \in g.heads
      <4>1. ~(srcErr \/ plat > p)
        BY <1>1, <3>2, <3>3
      <4> QED
        BY <3>n, <4>1 DEF NoMoreBut
    <3>5. Got(q, <<b[1], j>>)' /\ j < b[2]
      BY <1>1, <1>2, <3>3, <3>4, BoundsAssumption DEF Got
    <3> QED
      BY <1>1, <3>4, <3>5 DEF Through
  <2> QED
    BY <2>1, <2>2
<1>3. CASE srcErr \/ plat > p
  BY <1>2, <1>3, RouteStaysEnded DEF Finished, NoMoreBut
<1>4. CASE ~(srcErr \/ plat > p)
  <2>1. plat = p /\ rPC # "eos" /\ q \in blocked
    BY <1>4 DEF Finished, NoMoreBut
  <2>2. PICK j \in 1..MaxBatches : j <= nb /\ Got(q, <<p, j>>) /\ q \in g.heads
    BY <1>4 DEF Finished, NoMoreBut
  <2>3. Got(q, <<p, j>>)'
    BY <1>1, <2>2 DEF Got
  <2>4. (srcErr \/ plat > p)' \/ ((plat = p /\ rPC # "eos" /\ q \in blocked)' /\ nb' >= nb)
    BY <2>1, RouteStaysEnded
  <2> QED
    BY <1>1, <1>2, <2>2, <2>3, <2>4, BoundsAssumption DEF Finished, NoMoreBut
<1> QED
  BY <1>3, <1>4

\* A leg whose platoon the Router has ended is finished once all it has is returned.
LEMMA FinishedNow ==
  ASSUME FlowInv, PlatoonsCombined, NEW r \in Routes, Watched(r), Resolved(r), LegAt(r) = cplat,
         cplat <= LastPlatoon, cPC = "pull", NEW p \in Nat, p = cplat,
         \A c \in Batches : Has(r, c) => Got(r, c)',
         UNCHANGED <<g, plat, nb, srcErr, rPC, rBatch, rTodo, blocked, fwd>>
  PROVE  Finished(r, p)'
<1>1. AccountOK(r) /\ RouterInv /\ EOS \notin Batches /\ plat \in Nat /\ p \in 1..MaxPlatoons + 1
  BY BatchFacts, BoundsAssumption DEF FlowInv, AccountInv, PlatoonsAligned, TypeOK
<1>2. NoMore(r, p)
  BY <1>1 DEF AccountOK, Ended, Excused
<1>3. ASSUME NEW b \in Batches, <<r, b>> \in fwd, b[1] = p PROVE Through(r, b)'
  <2>1. Accounted(r, b)
    BY <1>1, <1>3 DEF AccountOK, Excused
  <2>2. ~Offering(r, b)
    <3> SUFFICES ASSUME Offering(r, b) PROVE FALSE
      OBVIOUS
    <3>1. rTodo # <<>> /\ rBatch = b /\ r \notin blocked
      BY EmptyRange DEF Offering
    <3>2. b = <<plat, nb>> /\ ~srcErr
      BY <1>1, <3>1 DEF RouterInv
    <3>3. plat = p
      BY <1>3, <3>2
    <3> QED
      BY <1>1, <1>2, <3>1, <3>2, <3>3 DEF NoMore, NoMoreBut
  <2>3. CASE Has(r, b)
    BY <2>3 DEF Through
  <2>4. ASSUME r \in g.heads, NEW j \in 1..MaxBatches, j < b[2], Has(r, <<b[1], j>>)
        PROVE  Through(r, b)'
    <3>1. <<b[1], j>> \in Batches
      BY <1>1, <1>3, BatchFacts
    <3>2. Got(r, <<b[1], j>>)'
      BY <2>4, <3>1
    <3> QED
      BY <2>4, <3>2 DEF Through
  <2> QED
    BY <2>1, <2>2, <2>3, <2>4 DEF Accounted
<1>4. CASE srcErr \/ plat > p
  BY <1>3, <1>4 DEF Finished, NoMoreBut
<1>5. CASE ~(srcErr \/ plat > p)
  <2>1. plat = p /\ rPC # "eos" /\ r \in blocked
    BY <1>2, <1>5 DEF NoMore, NoMoreBut
  <2>2. PICK j \in 1..MaxBatches : j <= nb /\ Has(r, <<p, j>>) /\ r \in g.heads
    BY <1>2, <1>5 DEF NoMore, NoMoreBut
  <2>3. Got(r, <<p, j>>)'
    BY <1>1, <2>2, BatchFacts
  <2> QED
    BY <1>3, <2>1, <2>2, <2>3 DEF Finished, NoMoreBut
<1> QED
  BY <1>4, <1>5

\* Every step keeps FinishedInv: what is over for the fan-in is finished.
LEMMA FinishedKept ==
  ASSUME FlowInv, PlatoonsCombined, [Next]_vars
  PROVE  FinishedInv'
<1> USE DEF srcVars, routerVars, legVars, histVars, fanVars, conVars
<1> DEFINE Here(q) == (cPC \in {"idle", "pull"} /\ cplat <= LastPlatoon /\ AtEnd(q)) => Finished(q, cplat)
           Before(q) == (cplat > 1 /\ ~early) => Finished(q, cplat - 1)
<1> SUFFICES ASSUME ~swallowed', NEW q \in Routes PROVE Here(q)' /\ Before(q)'
  BY DEF FinishedInv
<1>t. TypeOK /\ CallInv /\ RouterInv /\ LegInv /\ WaitInv
  BY DEF FlowInv, PlatoonsAligned
<1>b. /\ g.source = "platoons" => g.fanin = "combine"
      /\ g.source = "original" => LastPlatoon = 1
      /\ g.source \in {"platoons", "original"} /\ g.fanin \in {"combine", "merge", "mux"}
      /\ cplat \in Nat \ {0} /\ cplat <= LastPlatoon + 1 /\ LastPlatoon \in Nat \ {0}
      /\ pPC \in [Routes -> {"idle", "pull", "legdone", "queue", "offer", "pulldone", "wait", "end"}]
      /\ pRes \in [Routes -> Results] /\ hol \in [Routes -> Results] /\ cur \in Routes
      /\ EOS # ERR /\ EOS \notin Batches /\ ERR \notin Batches
      /\ LegOK(q) /\ LastPlatoon' = LastPlatoon
  BY <1>t, BatchFacts, GraphFacts, GraphStays, BoundsAssumption DEF TypeOK, LegInv, CallInv, LastPlatoon
<1>c. ~swallowed /\ \A x \in Routes : Here(x) /\ Before(x)
  BY HistoryGrows DEF FlowInv, FinishedInv
<1>d. \A x \in Routes, p \in 1..LastPlatoon : Finished(x, p) => Finished(x, p)'
  BY FinishedStays
<1> DEFINE Stays == /\ cplat' = cplat /\ early' = early
                    /\ (cPC' \in {"idle", "pull"} /\ AtEnd(q)' /\ cplat <= LastPlatoon) =>
                          (cPC \in {"idle", "pull"} /\ AtEnd(q)) \/ Finished(q, cplat)'
<1>e. ASSUME cplat' = cplat, early' = early PROVE Before(q)'
  <2> SUFFICES ASSUME cplat > 1, ~early PROVE Finished(q, cplat - 1)'
    BY <1>e
  <2>1. PICK p \in 1..LastPlatoon : p = cplat - 1
    BY <1>b
  <2>2. Finished(q, p)'
    BY <1>c, <1>d, <2>1
  <2> QED
    BY <1>e, <2>1, <2>2
<1>f. ASSUME cplat' = cplat, cplat <= LastPlatoon, Finished(q, cplat) PROVE Finished(q, cplat)'
  <2>1. PICK p \in 1..LastPlatoon : p = cplat
    BY <1>b, <1>f
  <2>2. Finished(q, p)'
    BY <1>d, <1>f, <2>1
  <2> QED
    BY <1>f, <2>1, <2>2
<1>s. ASSUME Stays PROVE Here(q)' /\ Before(q)'
  <2>1. Before(q)'
    BY <1>e, <1>s
  <2>2. Here(q)'
    BY <1>b, <1>c, <1>f, <1>s
  <2> QED
    BY <2>1, <2>2
<1>g. ASSUME cplat' = cplat + 1, cPC \in {"pull", "done"}, early' = (cPC = "done"), ~AtEnd(q)' \/ cplat' > LastPlatoon,
             cPC = "pull" => AtEnd(q)
      PROVE  Here(q)' /\ Before(q)'
  <2>1. Here(q)'
    BY <1>b, <1>g
  <2>2. Before(q)'
    <3> SUFFICES ASSUME ~early' PROVE Finished(q, cplat - 1)'
      OBVIOUS
    <3>1. cPC = "pull" /\ cplat <= LastPlatoon /\ Finished(q, cplat)
      BY <1>c, <1>g, <1>t DEF CallInv
    <3>2. PICK p \in 1..LastPlatoon : p = cplat
      BY <1>b, <3>1
    <3>3. Finished(q, p)' /\ p = cplat' - 1
      BY <1>b, <1>d, <1>g, <3>1, <3>2
    <3> QED
      BY <3>3
  <2> QED
    BY <2>1, <2>2
<1>1. CASE RouterDone
  <2>1. Stays
    BY <1>1, <1>b DEF RouterDone, AtEnd, Past
  <2> QED
    BY <1>s, <2>1
<1>2. CASE RouterBatch
  <2>1. Stays
    BY <1>2, <1>b DEF RouterBatch, AtEnd, Past
  <2> QED
    BY <1>s, <2>1
<1>3. CASE RouterEOS
  <2>1. Stays
    BY <1>3, <1>b DEF RouterEOS, AtEnd, Past
  <2> QED
    BY <1>s, <2>1
<1>4. CASE RouterSkip
  <2>1. Stays
    BY <1>4, <1>b DEF RouterSkip, AtEnd, Past
  <2> QED
    BY <1>s, <2>1
<1>5. CASE RouterCancelled
  <2>1. Stays
    BY <1>5, <1>b DEF RouterCancelled, AtEnd, Past
  <2> QED
    BY <1>s, <2>1
<1>6. ASSUME NEW r \in Routes, RouterSend(r) PROVE Here(q)' /\ Before(q)'
  <2>1. Stays
    BY <1>6, <1>b DEF RouterSend, AtEnd, Past
  <2> QED
    BY <1>s, <2>1
<1>7. ASSUME NEW r \in Routes, RouterTakesDone(r) PROVE Here(q)' /\ Before(q)'
  <2>1. Stays
    BY <1>7, <1>b DEF RouterTakesDone, AtEnd, Past
  <2> QED
    BY <1>s, <2>1
<1>8. ASSUME NEW r \in Routes, HeadEOS(r) PROVE Here(q)' /\ Before(q)'
  <2>1. Stays
    BY <1>8, <1>b DEF HeadEOS, AtEnd, Past
  <2> QED
    BY <1>s, <2>1
<1>9. ASSUME NEW r \in Routes, CombineQueue(r) PROVE Here(q)' /\ Before(q)'
  <2>1. Stays
    BY <1>9, <1>b DEF CombineQueue, AtEnd, Past
  <2> QED
    BY <1>s, <2>1
<1>10. ASSUME NEW r \in Routes, LegCancelled(r) PROVE Here(q)' /\ Before(q)'
  <2>1. Stays
    BY <1>10, <1>b DEF LegCancelled, AtEnd, Past
  <2> QED
    BY <1>s, <2>1
<1>11. CASE CombineNext
  <2>1. Stays
    BY <1>11, <1>b DEF CombineNext, AtEnd, Past
  <2> QED
    BY <1>s, <2>1
<1>12. CASE CombineRecv
  <2>0. /\ cPC = "pull" /\ fPC \in {"next", "recv"} /\ pPC[cur] = "offer" /\ fPC' \in {"next", "idle"}
        /\ cplat' = cplat /\ early' = early /\ g' = g /\ g.fanin # "merge" /\ cplat <= LastPlatoon
        /\ UNCHANGED <<plat, nb, srcErr, rPC, rBatch, rTodo, blocked, fwd>>
    BY <1>12, <1>t DEF CombineRecv, ReturnBatch, ReturnErr, CallInv
  <2>x. q \in held' /\ q \notin held => q = cur /\ pRes[cur] = EOS /\ got' = got
    BY <1>12, <1>b DEF CombineRecv
  <2>1. CASE q \in held' /\ q \notin held
    <3>1. Watched(q) /\ Resolved(q) /\ LegAt(q) = cplat
      BY <1>b, <1>c, <2>0, <2>1, <2>x DEF Watched, Active, Past, Broken, Resolved, LegAt
    <3>2. \A c \in Batches : Has(q, c) => Got(q, c)'
      BY <1>b, <2>0, <2>1, <2>x DEF Has, Holding, Got
    <3>3. PICK p \in Nat : p = cplat
      BY <1>b
    <3>4. Finished(q, p)'
      BY <2>0, <3>1, <3>2, <3>3, FinishedNow
    <3>5. Finished(q, cplat)'
      BY <2>0, <3>3, <3>4
    <3> QED
      BY <1>s, <2>0, <3>5
  <2>2. CASE ~(q \in held' /\ q \notin held)
    <3>1. Stays
      BY <2>0, <2>2 DEF AtEnd, Past
    <3> QED
      BY <1>s, <3>1
  <2> QED
    BY <2>1, <2>2
<1>13. CASE CombineDrain
  <2>1. Stays
    BY <1>13, <1>b DEF CombineDrain, AtEnd, Past
  <2> QED
    BY <1>s, <2>1
<1>14. CASE CombineDoneAll
  <2>1. Stays
    BY <1>14, <1>b DEF CombineDoneAll, AtEnd, Past
  <2> QED
    BY <1>s, <2>1
<1>15. ASSUME NEW r \in Routes, CombineUnwait(r) PROVE Here(q)' /\ Before(q)'
  <2>0. fPC = "unwait" /\ g.fanin = "combine" /\ cPC \in {"pull", "done"} /\ held = Routes
    BY <1>15, <1>t DEF CombineUnwait, CallInv, WaitInv
  <2>1. CASE Cardinality(left) # 1
    <3>1. Stays
      BY <1>15, <2>0, <2>1 DEF CombineUnwait, AtEnd, Past
    <3> QED
      BY <1>s, <3>1
  <2>2. CASE Cardinality(left) = 1
    <3>1. cplat' = cplat + 1 /\ early' = (cPC = "done") /\ held' = {} /\ fPC' = "idle" /\ g' = g
      BY <1>15, <2>2 DEF CombineUnwait, ReturnEOS
    <3>2. ~AtEnd(q)' /\ AtEnd(q)
      BY <2>0, <3>1 DEF AtEnd, Past
    <3> QED
      BY <1>g, <2>0, <3>1, <3>2
  <2> QED
    BY <2>1, <2>2
<1>16. ASSUME NEW r \in Routes, CombineDone(r) PROVE Here(q)' /\ Before(q)'
  <2>1. Stays
    BY <1>16, <1>t DEF CombineDone, CallInv
  <2> QED
    BY <1>s, <2>1
<1>17. ASSUME NEW r \in Routes, MuxRecv(r) PROVE Here(q)' /\ Before(q)'
  <2>0. /\ cPC = "pull" /\ fPC \in {"next", "recv"} /\ pPC[r] = "offer" /\ fPC' \in {"next", "idle"}
        /\ cplat' = cplat /\ early' = early /\ g' = g /\ g.fanin # "merge" /\ cplat <= LastPlatoon
        /\ UNCHANGED <<plat, nb, srcErr, rPC, rBatch, rTodo, blocked, fwd>>
    BY <1>17, <1>t DEF MuxRecv, ReturnBatch, ReturnErr, CallInv
  <2>x. q \in held' /\ q \notin held => q = r /\ pRes[r] = EOS /\ got' = got
    BY <1>17, <1>b DEF MuxRecv
  <2>1. CASE q \in held' /\ q \notin held
    <3>1. Watched(q) /\ Resolved(q) /\ LegAt(q) = cplat
      BY <1>b, <1>c, <2>0, <2>1, <2>x DEF Watched, Active, Past, Broken, Resolved, LegAt
    <3>2. \A c \in Batches : Has(q, c) => Got(q, c)'
      BY <1>b, <2>0, <2>1, <2>x DEF Has, Holding, Got
    <3>3. PICK p \in Nat : p = cplat
      BY <1>b
    <3>4. Finished(q, p)'
      BY <2>0, <3>1, <3>2, <3>3, FinishedNow
    <3>5. Finished(q, cplat)'
      BY <2>0, <3>3, <3>4
    <3> QED
      BY <1>s, <2>0, <3>5
  <2>2. CASE ~(q \in held' /\ q \notin held)
    <3>1. Stays
      BY <2>0, <2>2 DEF AtEnd, Past
    <3> QED
      BY <1>s, <3>1
  <2> QED
    BY <2>1, <2>2
<1>18. CASE MergeStart
  <2> DEFINE x == CHOOSE y \in left : \A z \in left : y <= z
  <2>0. /\ x \in left /\ x \in Routes /\ pPC[x] = "offer" /\ g.fanin = "merge" /\ LastPlatoon = 1
        /\ x \notin held /\ fPC \in {"start", "eos"}
    <3>1. x \in left /\ left \subseteq Routes
      BY <1>18, <1>t, LeastRoute DEF MergeStart, TypeOK
    <3> QED
      BY <1>18, <1>b, <1>t, <3>1 DEF MergeStart, CallInv
  <2>x. /\ pPC' = [pPC EXCEPT ![x] = IF pRes[x] = ERR THEN "end" ELSE "pull"]
        /\ held' = IF pRes[x] \in Batches THEN held \cup {x} ELSE held
        /\ left' = left \ {x} /\ g' = g /\ got' = got
        /\ UNCHANGED <<plat, nb, srcErr, rPC, rBatch, rTodo, blocked, fwd>>
    BY <1>18 DEF MergeStart, MergeStarted, ReturnErr, ReturnEOS
  <2>y. /\ cPC \in {"pull", "done"} /\ cplat <= LastPlatoon
        /\ \/ cPC' = "stop" /\ cplat' = cplat /\ early' = early
           \/ fPC' = "idle" /\ cplat' = cplat + 1 /\ early' = (cPC = "done") /\ fPC = "eos"
           \/ /\ fPC' \in {"next", "done"} /\ fPC = "start" /\ left = {x} /\ cplat' = cplat
              /\ cPC' = cPC /\ early' = early /\ pRes[x] # ERR
           \/ fPC' = fPC /\ cplat' = cplat /\ cPC' = cPC /\ early' = early /\ pRes[x] # ERR
    BY <1>18, <1>t DEF MergeStart, MergeStarted, ReturnErr, ReturnEOS, CallInv
  <2>1. CASE cPC' = "stop" /\ cplat' = cplat
    BY <1>s, <1>b, <2>y, <2>1
  <2>2. CASE cplat' = cplat + 1
    <3>1. fPC = "eos" /\ early' = (cPC = "done") /\ AtEnd(q)
      BY <1>b, <2>y, <2>2 DEF AtEnd
    <3> QED
      BY <1>b, <1>g, <2>0, <2>2, <2>y, <3>1
  <2>3. CASE cplat' = cplat /\ cPC' = cPC /\ early' = early /\ q = x /\ fPC = "start" /\ pRes[x] = EOS /\ cPC = "pull"
    <3>1. Watched(q) /\ Resolved(q) /\ LegAt(q) = cplat
      BY <1>b, <1>c, <2>0, <2>3 DEF Watched, Active, Past, Broken, Resolved, LegAt
    <3>2. \A c \in Batches : Has(q, c) => Got(q, c)'
      BY <1>b, <2>0, <2>x, <2>3 DEF Has, Holding, Got
    <3>3. PICK p \in Nat : p = cplat
      BY <1>b
    <3>4. Finished(q, p)'
      BY <2>x, <2>y, <2>3, <3>1, <3>2, <3>3, FinishedNow
    <3>5. Finished(q, cplat)'
      BY <2>3, <3>3, <3>4
    <3> QED
      BY <1>s, <2>3, <3>5
  <2>4. CASE /\ cplat' = cplat /\ cPC' = cPC /\ early' = early /\ pRes[x] # ERR
             /\ ~(q = x /\ fPC = "start" /\ pRes[x] = EOS /\ cPC = "pull")
             /\ \/ fPC' \in {"next", "done"} /\ fPC = "start" /\ left = {x}
                \/ fPC' = fPC
    <3>1. (cPC = "pull" /\ AtEnd(q)') => AtEnd(q)
      <4>1. CASE fPC = "eos"
        BY <4>1 DEF AtEnd
      <4>2. CASE fPC = "start" /\ q = x /\ cPC = "pull"
        <5>1. pRes[x] \in Batches
          BY <1>b, <2>0, <2>4, <4>2, BatchFacts
        <5> QED
          BY <2>0, <2>x, <2>4, <4>2, <5>1 DEF AtEnd, Past
      <4>3. CASE fPC = "start" /\ q # x
        BY <1>b, <2>0, <2>x, <2>4, <4>3 DEF AtEnd, Past
      <4> QED
        BY <2>0, <4>1, <4>2, <4>3
    <3>2. Stays
      BY <2>y, <2>4, <3>1
    <3> QED
      BY <1>s, <3>2
  <2> QED
    BY <1>b, <2>y, <2>1, <2>2, <2>3, <2>4
<1>19. CASE MergeNext
  <2>1. fPC' = "eos" => Past(q)
    BY <1>19, <1>b DEF MergeNext, Past, LegOK
  <2>2. Stays
    BY <1>19, <1>t, <2>1 DEF MergeNext, AtEnd, Past, CallInv
  <2> QED
    BY <1>s, <2>2
<1>20. CASE MergeReplenish
  <2>0. /\ cPC = "pull" /\ g' = g /\ pPC[cur] = "offer" /\ fPC = "recv" /\ fPC' = "idle" /\ early' = early
        /\ cplat' = cplat /\ cur \in held /\ g.fanin = "merge" /\ cplat <= LastPlatoon
        /\ \A y \in Routes : y # cur => pPC'[y] = pPC[y] /\ (y \in held') = (y \in held)
        /\ UNCHANGED <<plat, nb, srcErr, rPC, rBatch, rTodo, blocked, fwd>>
    BY <1>20, <1>b, <1>t DEF MergeReplenish, ReturnBatch, ReturnErr, CallInv
  <2>x. /\ held' = IF pRes[cur] \in Batches THEN held ELSE held \ {cur}
        /\ cPC' # "stop" => got' = got \cup {<<cur, hol[cur], cplat>>} /\ pRes[cur] # ERR
    BY <1>20 DEF MergeReplenish, ReturnBatch, ReturnErr
  <2>1. CASE q = cur /\ pRes[cur] = EOS /\ cPC' # "stop"
    <3>1. Watched(q) /\ Resolved(q) /\ LegAt(q) = cplat
      BY <1>b, <1>c, <2>0, <2>1 DEF Watched, Active, Past, Broken, Resolved, LegAt
    <3>2. \A c \in Batches : Has(q, c) => Got(q, c)'
      <4> SUFFICES ASSUME NEW c \in Batches, Holding(q, c) PROVE Got(q, c)'
        BY <2>x, <2>1 DEF Has, Got
      <4>1. hol[q] = c
        BY <1>b, <2>1 DEF Holding
      <4>2. c[1] = cplat
        BY <1>c, <2>0, <2>1, TakenInPlatoon
      <4> QED
        BY <2>x, <2>1, <4>1, <4>2 DEF Got
    <3>3. PICK p \in Nat : p = cplat
      BY <1>b
    <3>4. Finished(q, p)'
      BY <2>0, <3>1, <3>2, <3>3, FinishedNow
    <3>5. Finished(q, cplat)'
      BY <2>0, <3>3, <3>4
    <3> QED
      BY <1>s, <2>0, <3>5
  <2>2. CASE ~(q = cur /\ pRes[cur] = EOS /\ cPC' # "stop")
    <3>1. cPC' # "stop" /\ AtEnd(q)' => AtEnd(q)
      <4>1. CASE q # cur
        BY <2>0, <4>1 DEF AtEnd, Past
      <4>2. CASE q = cur /\ cPC' # "stop"
        <5>1. pRes[cur] \in Batches
          BY <1>b, <2>x, <2>2, <4>2, BatchFacts
        <5> QED
          BY <2>0, <2>x, <4>2, <5>1 DEF AtEnd, Past
      <4> QED
        BY <4>1, <4>2
    <3>2. Stays
      BY <2>0, <3>1
    <3> QED
      BY <1>s, <3>2
  <2> QED
    BY <2>1, <2>2
<1>21. CASE MergePop
  <2>1. Stays
    BY <1>21, <1>t DEF MergePop, CallInv
  <2> QED
    BY <1>s, <2>1
<1>22. CASE MergeDone
  <2>1. Stays
    BY <1>22, <1>b DEF MergeDone, AtEnd, Past
  <2> QED
    BY <1>s, <2>1
<1>23. CASE MuxEOS
  <2>1. /\ cplat' = cplat + 1 /\ ~early' /\ cPC = "pull" /\ LastPlatoon = 1 /\ AtEnd(q) /\ early' = FALSE
    BY <1>23, <1>b, <1>t DEF MuxEOS, AtEnd, CallInv
  <2>2. early' = (cPC = "done")
    <3>1. (cPC = "done") = FALSE
      BY <2>1
    <3> QED
      BY <2>1, <3>1, Zenon
  <2>3. cPC \in {"pull", "done"} /\ cplat' > LastPlatoon
    BY <1>b, <2>1
  <2> QED
    BY <1>g, <2>1, <2>2, <2>3
<1>24. CASE PullCancelled
  <2>1. Stays
    BY <1>24, <1>b DEF PullCancelled, AtEnd, Past
  <2> QED
    BY <1>s, <2>1
<1>25. CASE ConsumerPull
  <2>0. /\ cPC = "idle" /\ fPC = "idle" /\ fPC' # "eos" /\ cplat' = cplat /\ early' = early
        /\ pPC'[q] = (IF pPC[q] = "idle" THEN "pull" ELSE pPC[q]) /\ g' = g /\ held' = held
    BY <1>25, <1>b, <1>t DEF ConsumerPull, CallInv
  <2>x. Past(q)' => Past(q)
    <3>1. (g.fanin = "merge" /\ pPC[q] = "idle") => fPC' = "start" /\ left' = Routes
      <4>1. pPC[q] = "idle" => pPC[1] = "idle"
        BY <1>b, RouteFacts DEF LegOK
      <4> QED
        BY <1>25, <4>1 DEF ConsumerPull
    <3> QED
      BY <2>0, <3>1 DEF Past
  <2>1. Stays
    BY <2>0, <2>x DEF AtEnd
  <2> QED
    BY <1>s, <2>1
<1>26. CASE ConsumerStop
  <2>1. Stays
    BY <1>26, <1>b DEF ConsumerStop, AtEnd, Past
  <2> QED
    BY <1>s, <2>1
<1>27. CASE Cancel
  <2>1. Stays
    BY <1>27, <1>b DEF Cancel, AtEnd, Past
  <2> QED
    BY <1>s, <2>1
<1>28. CASE UNCHANGED vars
  <2>1. Stays
    BY <1>28, <1>b DEF vars, AtEnd, Past
  <2> QED
    BY <1>s, <2>1
<1> QED
  BY <1>1, <1>2, <1>3, <1>4, <1>5, <1>6, <1>7, <1>8, <1>9, <1>10, <1>11, <1>12,
     <1>13, <1>14, <1>15, <1>16, <1>17, <1>18, <1>19, <1>20, <1>21, <1>22, <1>23, <1>24,
     <1>25, <1>26, <1>27, <1>28
     DEF Next, RouterStep, LegStep, FanInStep

(***************************************************************************)
(* The theorems.                                                           *)
(***************************************************************************)

\* FlowInv holds at the start, where nothing has been read or pulled.
LEMMA FlowInvInit ==
  ASSUME Init, PlatoonsCombined
  PROVE  FlowInv
<1> USE DEF Init
<1>1. /\ MaxPlatoons \in Nat \ {0} /\ MaxBatches \in Nat /\ MaxErrors \in Nat /\ N \in Nat \ {0}
      /\ EOS \in Results /\ EOS \notin Batches /\ EOS # ERR /\ 1 \in Routes /\ LastPlatoon \in 1..MaxPlatoons
      /\ g.source \in {"platoons", "original"}
  BY BoundsAssumption, NAssumption, BatchFacts, RouteFacts, GraphFacts
<1>2. PlatoonsAligned
  <2>1. rTodo \in Seq(Routes) /\ queue \in Seq(Routes) /\ Len(queue) <= N
    BY <1>1
  <2>2. plat \in 1..MaxPlatoons + 1 /\ nb \in 0..MaxBatches /\ errs \in 0..MaxErrors
        /\ cplat \in 1..MaxPlatoons + 1
    BY <1>1
  <2>3. TypeOK
    BY <1>1, <2>1, <2>2 DEF TypeOK
  <2> QED
    BY <2>3 DEF PlatoonsAligned
<1>3. CallInv
  BY <1>1 DEF CallInv
<1>4. RouterInv
  BY <1>1, EmptyRange DEF RouterInv
<1>5. LegInv /\ WaitInv /\ HeadInv
  BY <1>1 DEF LegInv, LegOK, WaitInv, HeadInv, HeadOK
<1>6. LockstepInv
  BY <1>1 DEF LockstepInv, Lockstep, RouteAt, LegAt, Resolved
<1>7. HoldingInv
  BY <1>1 DEF HoldingInv, InPlatoon, Holding
<1>8. AccountInv
  BY <1>1 DEF AccountInv, AccountOK, Ended, Resolved
<1>9. FinishedInv
  BY <1>1 DEF FinishedInv, AtEnd, Past
<1> QED
  BY <1>2, <1>3, <1>4, <1>5, <1>6, <1>7, <1>8, <1>9 DEF FlowInv

\* Every step keeps FlowInv.
LEMMA FlowInvKept ==
  ASSUME FlowInv, PlatoonsCombined, [Next]_vars
  PROVE  FlowInv'
<1>1. PlatoonsAligned'
  BY TypeKept, AlignedKept DEF PlatoonsAligned
<1> QED
  BY <1>1, CallKept, RouterKept, LegKept, WaitKept, LockstepKept, HoldingKept, HeadKept,
     AccountKept, FinishedKept DEF FlowInv

\* FlowInv is an invariant when a source of several platoons is read by a combine.
THEOREM FlowInvHolds == PlatoonsCombined /\ Spec => []FlowInv
<1>1. PlatoonsCombined /\ Init => FlowInv
  BY FlowInvInit
<1>2. PlatoonsCombined /\ FlowInv /\ [Next]_vars => FlowInv'
  BY FlowInvKept
<1>3. PlatoonsCombined => PlatoonsCombined'
  BY DEF PlatoonsCombined
<1> QED
  BY <1>1, <1>2, <1>3, PTL DEF Spec

\* The claim at Router.sendEOS, that EOS and done meet once per route and platoon: what
\* the consumer receives in its k-th platoon is of the k-th platoon of the source, for
\* any number of routes, heads, platoons, batches and failures, fork or switch.
THEOREM PlatoonsAreAligned == PlatoonsCombined /\ Spec => []PlatoonsAligned
<1>1. FlowInv => PlatoonsAligned
  BY DEF FlowInv
<1> QED
  BY <1>1, FlowInvHolds, PTL

\* When combine, merge or mux returns EOS by itself, each batch that the Router forwarded
\* to a leg in that platoon has reached the consumer, or the one that a head wants has.
THEOREM NothingIsMissed == PlatoonsCombined /\ Spec => []NothingMissed
<1>1. ASSUME FlowInv PROVE NothingMissed
  <2> SUFFICES ASSUME cplat > 1, ~early, ~swallowed, NEW f \in fwd, f[2][1] = cplat - 1
               PROVE  \/ <<f[1], f[2], cplat - 1>> \in got
                      \/ f[1] \in g.heads /\ \E i \in 1..MaxBatches :
                            i < f[2][2] /\ <<f[1], <<f[2][1], i>>, cplat - 1>> \in got
    BY DEF NothingMissed
  <2>1. f[1] \in Routes /\ f[2] \in Batches /\ f = <<f[1], f[2]>>
    BY <1>1 DEF FlowInv, PlatoonsAligned, TypeOK
  <2>2. Finished(f[1], cplat - 1)
    BY <1>1, <2>1 DEF FlowInv, FinishedInv
  <2>3. Through(f[1], f[2])
    BY <2>1, <2>2 DEF Finished
  <2> QED
    BY <2>1, <2>3 DEF Through, Got
<1> QED
  BY <1>1, FlowInvHolds, PTL
=============================================================================
