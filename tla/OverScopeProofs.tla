--------------------------- MODULE OverScopeProofs ---------------------------
(***************************************************************************)
(* Theorems about OverScope.  BaseInv says where the caller, the subgraph  *)
(* and the Scope can stand relative to each other and how far the source   *)
(* is ahead of the caller.  It is inductive by itself; the order of the    *)
(* batches (OrderInv), what becomes of an error (ErrorInv) and of each     *)
(* outer value (ConserveInv) are shown with its help.                      *)
(***************************************************************************)
EXTENDS OverScope, TLAPS

BaseInv == TypeOK /\ SubInv /\ DoneInv /\ SyncInv

LEMMA Distinct == EOS \notin Batches /\ ERR \notin Batches /\ EOS # ERR
  BY DEF EOS, ERR, Batches

LEMMA BatchParts ==
  ASSUME NEW b \in Batches
  PROVE  /\ b[1] \in 1..MaxPlatoons /\ b[2] \in 1..MaxVals /\ b[3] \in 1..2
         /\ b = <<b[1], b[2], b[3]>>
  BY DEF Batches

LEMMA IsBatch ==
  ASSUME NEW i \in 1..MaxPlatoons, NEW j \in 1..MaxVals, NEW k \in 1..2
  PROVE  <<i, j, k>> \in Batches
  BY DEF Batches

\* The three outcomes of a Return.
LEMMA Returns ==
  /\ Return(EOS) =>
        /\ ePC' = "idle" /\ got' = got /\ UNCHANGED <<isDone, quits>>
        /\ cplat' = IF cplat <= MaxPlatoons THEN cplat + 1 ELSE cplat
  /\ Return(ERR) => ePC' = "stop" /\ UNCHANGED <<isDone, quits, cplat, got>>
  /\ \A r \in Batches : Return(r) =>
        /\ ePC' = "idle" /\ UNCHANGED <<isDone, quits, cplat>>
        /\ got' = Append(got, <<r, cplat>>)
  BY Distinct DEF Return

\* The caller gets EOS; nothing is kept.
EndsPlatoon ==
    /\ platoon' = <<>> /\ ePC' = "idle" /\ UNCHANGED <<isDone, quits, got>>
    /\ cplat' = IF cplat <= MaxPlatoons THEN cplat + 1 ELSE cplat

\* The caller gets the first batch that was gathered.
Delivers ==
    /\ platoon # <<>> /\ platoon' = Tail(platoon)
    /\ got' = Append(got, <<Head(platoon), cplat>>)
    /\ ePC' = "idle" /\ UNCHANGED <<isDone, quits, cplat>>

\* The Exit fails.
Stops == platoon' = <<>> /\ ePC' = "stop" /\ UNCHANGED <<isDone, quits, cplat, got>>

\* The Exit adds r to what it has gathered.
Adds(r) ==
    /\ platoon' = Append(platoon, r) /\ ePC' = "sub"
    /\ UNCHANGED <<isDone, cplat, got, quits>>

\* The Exit has got EOS before any batch.
Polls == platoon = <<>> /\ ePC' = "poll" /\ UNCHANGED <<isDone, platoon, cplat, got, quits>>

LEMMA GatherEOS ==
  ASSUME TypeOK, Gather(EOS)
  PROVE  Polls \/ (platoon # <<>> /\ isDone /\ EndsPlatoon) \/ (~isDone /\ Delivers)
<1>1. CASE platoon = <<>>
  BY <1>1, Distinct DEF Gather, Polls
<1>2. CASE platoon # <<>>
  <2>1. Finish(platoon)
    BY <1>2, Distinct DEF Gather
  <2>2. CASE isDone
    BY <1>2, <2>1, <2>2, Returns DEF Finish, EndsPlatoon
  <2>3. CASE ~isDone
    <3>1. Head(platoon) \in Batches
      BY <1>2 DEF TypeOK
    <3>2. Return(Head(platoon)) /\ platoon' = Tail(platoon)
      BY <1>2, <2>1, <2>3 DEF Finish
    <3>3. QED BY <1>2, <2>3, <3>1, <3>2, Returns DEF Delivers
  <2>4. QED BY <2>2, <2>3
<1>3. QED BY <1>1, <1>2

LEMMA GatherERR ==
  ASSUME Gather(ERR)
  PROVE  Stops
BY Distinct, Returns DEF Gather, Stops

LEMMA GatherBatch ==
  ASSUME NEW r \in Batches, Gather(r)
  PROVE  Adds(r)
BY Distinct DEF Gather, Adds

-----------------------------------------------------------------------------
\* The outcomes of the rendezvous and of the calls, one per case of the code.

\* The subgraph returns what it kept.
SubGivesKept ==
    /\ ePC = "sub" /\ kept # EOS /\ kept' = EOS /\ Adds(kept)
    /\ UNCHANGED <<g, srcVars, scopeVars, cancelled, spent, cut>>

\* A head ends its platoon.
SubGivesEOS ==
    /\ ePC = "sub" /\ kept = EOS /\ spent /\ spent' = FALSE /\ Delivers
    /\ UNCHANGED <<g, srcVars, scopeVars, cancelled, kept, cut>>

\* The subgraph asks the Scope.
SubAsks ==
    /\ ePC = "sub" /\ kept = EOS /\ ~spent /\ ePC' = "pull"
    /\ sPC' = IF sPC = "off" THEN "top" ELSE sPC
    /\ UNCHANGED <<g, srcVars, sRes, token, subVars, cancelled, isDone, platoon, cplat, got,
                   quits>>

LEMMA SubPullCases ==
  ASSUME BaseInv, SubPull
  PROVE  SubGivesKept \/ SubGivesEOS \/ SubAsks
<1>1. CASE kept # EOS
  <2>1. kept \in Batches
    BY <1>1 DEF BaseInv, TypeOK
  <2>2. Gather(kept) /\ kept' = EOS /\ UNCHANGED <<spent, sPC>>
    BY <1>1 DEF SubPull
  <2>3. QED BY <1>1, <2>1, <2>2, GatherBatch DEF SubPull, SubGivesKept, scopeVars
<1>2. CASE kept = EOS /\ spent
  <2>1. Gather(EOS) /\ spent' = FALSE /\ UNCHANGED <<kept, sPC>> /\ ePC = "sub"
    BY <1>2 DEF SubPull
  <2>2. platoon # <<>> /\ ~isDone
    BY <1>2, <2>1 DEF BaseInv, SubInv
  <2>3. Delivers
    BY <2>1, <2>2, GatherEOS DEF BaseInv, Polls
  <2>4. QED BY <1>2, <2>1, <2>3 DEF SubPull, SubGivesEOS, scopeVars
<1>3. CASE kept = EOS /\ ~spent
  BY <1>3 DEF SubPull, SubAsks, subVars
<1>4. QED BY <1>1, <1>2, <1>3

\* SendBatch: the Scope goes on to the EOS after the batch.
Sends == /\ sPC = "batch" /\ ePC = "pull" /\ sPC' = "eos" /\ sRes' = EOS
         /\ UNCHANGED <<g, srcVars, token, cancelled>>

BatchPasses == Sends /\ Adds(sRes) /\ UNCHANGED subVars

BatchIsCut == /\ Sends /\ g.sub = "filter" /\ cut' = cut \cup {sRes}
              /\ UNCHANGED <<callVars, kept, spent>>

BatchDoubles == /\ Sends /\ g.sub = "twice" /\ Adds(sRes) /\ kept' = Second(sRes)
                /\ UNCHANGED <<spent, cut>>

HeadTakes == /\ Sends /\ g.sub = "head" /\ kept' = sRes /\ ePC' = "subdone"
             /\ UNCHANGED <<isDone, platoon, cplat, got, quits, spent, cut>>

LEMMA ScopeBatch ==
  ASSUME BaseInv, sPC = "batch"
  PROVE  sRes \in Batches /\ sRes = <<plat, nv, 1>>
<1>1. sRes = <<plat, nv, 1>> /\ ~SourceEnded /\ nv > 0
  BY DEF BaseInv, SyncInv
<1>2. plat \in 1..MaxPlatoons /\ nv \in 1..MaxVals
  BY <1>1, BoundsAssumption DEF BaseInv, TypeOK, SourceEnded, Last
<1>3. <<plat, nv, 1>> \in Batches
  BY <1>2 DEF Batches
<1>4. QED BY <1>1, <1>3

LEMMA SendBatchCases ==
  ASSUME BaseInv, SendBatch
  PROVE  (BatchPasses /\ g.sub \in {"pass", "filter"}) \/ BatchIsCut \/ BatchDoubles \/ HeadTakes
<1>1. sRes \in Batches
  BY ScopeBatch DEF SendBatch
<1>2. Sends
  BY DEF SendBatch, Sends
<1>3. SubReceives(sRes)
  BY DEF SendBatch
<1>4. QED
  BY <1>1, <1>2, <1>3, GatherBatch
  DEF SubReceives, BatchPasses, BatchIsCut, BatchDoubles, HeadTakes

\* SendEOS and SubDoneAcked: the Scope pulls again.
Ends == /\ sPC = "eos" /\ sPC' = "top" /\ sRes' = EOS
        /\ UNCHANGED <<g, srcVars, token, cancelled>>

EOSArrives == Ends /\ sRes = EOS /\ ePC = "pull" /\ UNCHANGED subVars

ErrorArrives == Ends /\ sRes = ERR /\ ePC = "pull" /\ Stops /\ UNCHANGED subVars

LEMMA SendEOSCases ==
  ASSUME BaseInv, SendEOS
  PROVE  \/ EOSArrives /\ Polls
         \/ EOSArrives /\ platoon # <<>> /\ isDone /\ EndsPlatoon
         \/ EOSArrives /\ ~isDone /\ Delivers
         \/ ErrorArrives
<1>1. sRes \in {EOS, ERR}
  BY DEF SendEOS, BaseInv, SyncInv
<1>2. Gather(sRes) /\ UNCHANGED subVars
  BY <1>1, Distinct DEF SendEOS, SubReceives
<1>3. Ends /\ ePC = "pull"
  BY DEF SendEOS, Ends
<1>4. CASE sRes = EOS
  BY <1>2, <1>3, <1>4, GatherEOS DEF BaseInv, EOSArrives
<1>5. CASE sRes = ERR
  BY <1>2, <1>3, <1>5, GatherERR DEF ErrorArrives
<1>6. QED BY <1>1, <1>4, <1>5

HeadAcked == /\ Ends /\ sRes = EOS /\ ePC = "subeos"
             /\ kept \in Batches /\ Adds(kept) /\ kept' = EOS /\ spent' = TRUE /\ cut' = cut

LEMMA SubDoneAckedCases ==
  ASSUME BaseInv, SubDoneAcked
  PROVE  HeadAcked
<1>1. kept # EOS /\ ~spent /\ ~isDone /\ platoon = <<>> /\ ePC = "subeos" /\ sPC = "eos"
  BY DEF SubDoneAcked, BaseInv, SubInv
<1>2. Inner
  BY <1>1 DEF Inner
<1>3. sRes = EOS
  BY <1>1, <1>2 DEF BaseInv, SubInv
<1>4. kept \in Batches
  BY <1>1 DEF BaseInv, TypeOK
<1>5. QED BY <1>1, <1>3, <1>4, GatherBatch, Distinct DEF SubDoneAcked, HeadAcked, Ends

PollEnds == /\ ePC = "poll" /\ token /\ token' = FALSE /\ EndsPlatoon
            /\ UNCHANGED <<g, srcVars, sPC, sRes, subVars, cancelled>>

PollAgain == /\ ePC = "poll" /\ ~token /\ ePC' = "sub"
             /\ UNCHANGED <<g, srcVars, scopeVars, subVars, cancelled, isDone, platoon, cplat,
                            got, quits>>

LEMMA PollCases ==
  ASSUME Poll
  PROVE  PollEnds \/ PollAgain
BY Returns DEF Poll, Finish, PollEnds, PollAgain, EndsPlatoon, scopeVars

PullStarts == /\ ePC = "idle" /\ platoon = <<>> /\ ePC' = "sub" /\ isDone' = FALSE
              /\ UNCHANGED <<g, srcVars, scopeVars, subVars, cancelled, platoon, cplat, got, quits>>

PullDelivers == /\ ePC = "idle" /\ Delivers
                /\ UNCHANGED <<g, srcVars, scopeVars, subVars, cancelled>>

LEMMA ExitPullCases ==
  ASSUME TypeOK, ExitPull
  PROVE  PullStarts \/ PullDelivers
<1>1. CASE platoon = <<>>
  BY <1>1 DEF ExitPull, PullStarts
<1>2. CASE platoon # <<>>
  <2>1. Head(platoon) \in Batches
    BY <1>2 DEF TypeOK
  <2>2. QED BY <1>2, <2>1, Returns DEF ExitPull, PullDelivers, Delivers
<1>3. QED BY <1>1, <1>2

-----------------------------------------------------------------------------
\* Sequences.

LEMMA TailIn ==
  ASSUME NEW S, NEW s \in Seq(S), s # <<>>
  PROVE  /\ Tail(s) \in Seq(S) /\ Len(Tail(s)) = Len(s) - 1
         /\ Head(s) = s[1] /\ Head(s) \in S /\ Len(s) \in Nat \ {0}
         /\ \A i \in 1..(Len(s) - 1) : Tail(s)[i] = s[i + 1]
  OBVIOUS

LEMMA AppendIn ==
  ASSUME NEW S, NEW s \in Seq(S), NEW e \in S
  PROVE  /\ Append(s, e) \in Seq(S) /\ Len(Append(s, e)) = Len(s) + 1
         /\ Append(s, e) # <<>>
         /\ \A i \in 1..Len(s) : Append(s, e)[i] = s[i]
         /\ Append(s, e)[Len(s) + 1] = e
  OBVIOUS

-----------------------------------------------------------------------------
\* BaseInv.

LEMMA BaseInit == Init => BaseInv
<1> SUFFICES ASSUME Init PROVE BaseInv
  OBVIOUS
<1> USE BoundsAssumption DEF Init
<1>1. platoon \in Seq(Batches) /\ Len(platoon) <= 2
      /\ got \in Seq(Batches \X (1..MaxPlatoons + 1))
  OBVIOUS
<1>2. 1 \in 1..MaxPlatoons + 1 /\ 0 \in 0..MaxVals
  OBVIOUS
<1>3. TypeOK
  BY <1>1, <1>2 DEF TypeOK, Results
<1>4. SubInv /\ DoneInv
  BY DEF SubInv, DoneInv, Inner
<1>5. SyncInv
  BY DEF SyncInv, Ahead, SourceEnded, Last
<1>6. QED BY <1>3, <1>4, <1>5 DEF BaseInv

\* Deliveries and gathered batches keep the types.
LEMMA DeliversTyped ==
  ASSUME TypeOK, Delivers
  PROVE  /\ platoon' \in Seq(Batches) /\ Len(platoon') <= 1
         /\ got' \in Seq(Batches \X (1..MaxPlatoons + 1))
<1>1. /\ platoon' \in Seq(Batches) /\ Len(platoon') = Len(platoon) - 1
      /\ Head(platoon) \in Batches /\ Len(platoon) \in Nat
  BY TailIn DEF Delivers, TypeOK
<1>2. <<Head(platoon), cplat>> \in Batches \X (1..MaxPlatoons + 1)
  BY <1>1 DEF TypeOK
<1>3. got' \in Seq(Batches \X (1..MaxPlatoons + 1))
  BY <1>2, AppendIn DEF Delivers, TypeOK
<1>4. QED BY <1>1, <1>3 DEF TypeOK

LEMMA AddsTyped ==
  ASSUME TypeOK, NEW r \in Batches, Adds(r), Len(platoon) <= 1
  PROVE  /\ platoon' \in Seq(Batches) /\ Len(platoon') = Len(platoon) + 1
         /\ Len(platoon') <= 2 /\ platoon' # <<>>
  BY AppendIn DEF Adds, TypeOK

\* No step but those of Gather and Finish changes this history variable.
LEMMA StaleTyped ==
  ASSUME TypeOK, [Next]_vars
  PROVE  stale' \in BOOLEAN
<1>1. \A r : Gather(r) => stale' \in BOOLEAN
  BY DEF Gather, TypeOK
<1>2. \A r : SubReceives(r) => stale' \in BOOLEAN
  BY <1>1 DEF SubReceives, callVars, TypeOK
<1>3. SubPull \/ SubDoneAcked \/ SendBatch \/ SendEOS => stale' \in BOOLEAN
  BY <1>1, <1>2 DEF SubPull, SubDoneAcked, SendBatch, SendEOS, TypeOK
<1>4. ~(SubPull \/ SubDoneAcked \/ SendBatch \/ SendEOS) => stale' = stale
  BY DEF Next, ScopeRun, Call, OverPull, SendToken, ScopeCancelled, Poll, ExitDone, SubDone,
         CallCancelled, ExitPull, ExitPullDone, Cancel, callVars, vars
<1>5. QED BY <1>3, <1>4 DEF TypeOK

LEMMA BaseScope ==
  ASSUME BaseInv, stale' \in BOOLEAN, NoNestedDones, ScopeRun
  PROVE  BaseInv'
<1> USE BoundsAssumption DEF BaseInv, srcVars, subVars, callVars
<1>0. nv \in Nat /\ plat \in Nat /\ cplat \in Nat /\ MaxVals \in Nat /\ MaxPlatoons \in Nat
  BY DEF TypeOK
<1>1. CASE OverPull
  <2>0. /\ plat' \in 1..MaxPlatoons + 1 /\ nv' \in 0..MaxVals
        /\ sRes' \in Results /\ read' \subseteq Batches
    <3>1. ~SourceEnded => plat \in 1..MaxPlatoons
      BY DEF TypeOK, SourceEnded, Last
    <3>2. ~SourceEnded /\ nv < MaxVals => <<plat, nv + 1, 1>> \in Batches
      BY <3>1, <1>0 DEF Batches
    <3>3. Advance => plat' \in 1..MaxPlatoons + 1 /\ nv' \in 0..MaxVals
      BY <3>1, <1>0 DEF Advance, TypeOK
    <3>4. nv < MaxVals => nv + 1 \in 0..MaxVals
      BY <1>0
    <3>5. QED BY <1>1, <3>2, <3>3, <3>4 DEF OverPull, TypeOK, Results
  <2>1. TypeOK'
    <3>1. /\ UNCHANGED <<g, dropped, token, kept, spent, cut, ePC, isDone, platoon, cplat, got,
                         quits, cancelled>>
          /\ sPC' \in {"batch", "token"} /\ failed' \in BOOLEAN
      BY <1>1 DEF OverPull, TypeOK
    <3>2. QED BY <2>0, <3>1 DEF TypeOK
  <2>2. SubInv' /\ DoneInv'
    BY <1>1, <1>0 DEF OverPull, Advance, SourceEnded, Last, SubInv, DoneInv, Inner
  <2>3. SyncInv'
    BY <1>1, <1>0 DEF OverPull, Advance, SourceEnded, Last, SyncInv, Ahead
  <2>4. QED BY <2>1, <2>2, <2>3
<1>2. CASE SendToken
  BY <1>2, <1>0 DEF SendToken, SourceEnded, Last, TypeOK, SubInv, DoneInv, SyncInv, Inner, Ahead
<1>3. CASE ScopeCancelled
  BY <1>3, <1>0 DEF ScopeCancelled, SourceEnded, Last, TypeOK, SubInv, DoneInv, SyncInv, Inner, Ahead
<1>4. QED BY <1>1, <1>2, <1>3 DEF ScopeRun

LEMMA BaseSubPull ==
  ASSUME BaseInv, stale' \in BOOLEAN, SubPull
  PROVE  BaseInv'
<1> USE BoundsAssumption DEF BaseInv, srcVars, subVars, scopeVars
<1>0. nv \in Nat /\ plat \in Nat /\ cplat \in Nat /\ MaxVals \in Nat /\ MaxPlatoons \in Nat
  BY DEF TypeOK
<1>1. CASE SubGivesKept
  <2>1. kept \in Batches /\ ~isDone /\ Len(platoon) <= 1 /\ ~spent
    BY <1>1 DEF SubGivesKept, TypeOK, SubInv
  <2>2. platoon' \in Seq(Batches) /\ Len(platoon') <= 2 /\ platoon' # <<>>
    BY <1>1, <2>1, AddsTyped DEF SubGivesKept
  <2>3. TypeOK'
    BY <1>1, <2>2 DEF SubGivesKept, Adds, TypeOK
  <2>4. Inner
    BY <1>1, <2>1 DEF SubGivesKept, Inner
  <2>5. SubInv' /\ DoneInv' /\ SyncInv'
    BY <1>1, <2>1, <2>2, <2>4, <1>0 DEF SubGivesKept, Adds, SubInv, DoneInv, SyncInv, Inner, Ahead, SourceEnded, Last
  <2>6. QED BY <2>3, <2>5
<1>2. CASE SubGivesEOS
  <2>0. platoon' \in Seq(Batches) /\ Len(platoon') <= 2
        /\ got' \in Seq(Batches \X (1..MaxPlatoons + 1))
    <3>1. platoon' \in Seq(Batches) /\ Len(platoon') <= 1
          /\ got' \in Seq(Batches \X (1..MaxPlatoons + 1))
      BY <1>2, DeliversTyped DEF SubGivesEOS
    <3>2. QED BY <3>1
  <2>1. TypeOK'
    BY <1>2, <2>0 DEF SubGivesEOS, Delivers, TypeOK
  <2>2. SubInv' /\ DoneInv' /\ SyncInv'
    BY <1>2, <1>0 DEF SubGivesEOS, Delivers, SubInv, DoneInv, SyncInv, Inner, Ahead, SourceEnded, Last
  <2>3. QED BY <2>1, <2>2
<1>3. CASE SubAsks
  <2>1. TypeOK'
    BY <1>3 DEF SubAsks, TypeOK
  <2>2. SubInv'
    BY <1>3 DEF SubAsks, SubInv, Inner
  <2>3. DoneInv'
    BY <1>3 DEF SubAsks, DoneInv, SourceEnded, Last
  <2>4. SyncInv'
    BY <1>3, <1>0 DEF SubAsks, SyncInv, Ahead, SourceEnded, Last
  <2>5. QED BY <2>1, <2>2, <2>3, <2>4
<1>4. QED BY <1>1, <1>2, <1>3, SubPullCases

\* The batch that a Scope sends is from the caller's platoon, and nothing is
\* between the Scope and the caller at that moment.
LEMMA AtSend ==
  ASSUME BaseInv, NoNestedDones, sPC = "batch", ePC = "pull"
  PROVE  ~isDone /\ platoon = <<>> /\ ~token /\ kept = EOS /\ ~spent /\ plat = cplat
<1> USE BoundsAssumption DEF BaseInv
<1>0. nv \in Nat /\ plat \in Nat /\ cplat \in Nat /\ MaxVals \in Nat /\ MaxPlatoons \in Nat
  BY DEF TypeOK
<1>1. ~SourceEnded /\ plat = cplat + Ahead
  BY DEF SyncInv
<1>2. ~isDone /\ kept = EOS /\ ~spent
  BY <1>1 DEF DoneInv, SubInv
<1>3. platoon = <<>>
  BY <1>2 DEF SubInv, Inner
<1>4. ~token
  <2> SUFFICES ASSUME token PROVE FALSE
    OBVIOUS
  <2>1. g.dones
    BY DEF SyncInv
  <2>2. g.source = "original"
    BY <2>1, GraphsAssumption DEF TypeOK, NoNestedDones
  <2>3. plat <= 1
    BY <1>0, <1>1, <2>2 DEF SourceEnded, Last
  <2>4. Ahead = 1 /\ cplat >= 1
    BY DEF Ahead, TypeOK
  <2>5. QED BY <1>0, <1>1, <2>3, <2>4
<1>5. plat = cplat
  BY <1>0, <1>1, <1>4 DEF Ahead
<1>6. QED BY <1>2, <1>3, <1>4, <1>5

LEMMA BaseSendBatch ==
  ASSUME BaseInv, stale' \in BOOLEAN, NoNestedDones, SendBatch
  PROVE  BaseInv'
<1> USE BoundsAssumption DEF BaseInv, srcVars, subVars, Sends
<1>0. nv \in Nat /\ plat \in Nat /\ cplat \in Nat /\ MaxVals \in Nat /\ MaxPlatoons \in Nat
  BY DEF TypeOK
<1>1. sRes \in Batches /\ sPC = "batch" /\ ePC = "pull"
  BY ScopeBatch DEF SendBatch
<1>2. ~isDone /\ platoon = <<>> /\ ~token /\ kept = EOS /\ ~spent
  BY <1>1, AtSend
<1>3. plat = cplat
  BY <1>1, AtSend
<1>4. EOS # sRes /\ Second(sRes) \in Batches /\ EOS # Second(sRes) /\ EOS \in Results
  <2>1. Second(sRes) = <<sRes[1], sRes[2], 2>>
    BY DEF Second
  <2>2. QED BY <1>1, <2>1, Distinct DEF Batches, Results
<1>5. ASSUME Adds(sRes)
      PROVE  platoon' \in Seq(Batches) /\ Len(platoon') = 1 /\ platoon' # <<>>
  BY <1>1, <1>2, <1>5, AddsTyped
<1>6. CASE BatchPasses
  <2>1. TypeOK'
    BY <1>6, <1>5, <1>4 DEF BatchPasses, Adds, TypeOK
  <2>2. SubInv' /\ DoneInv' /\ SyncInv'
    BY <1>6, <1>5, <1>2, <1>3, <1>0 DEF BatchPasses, Adds, SubInv, DoneInv, SyncInv, Inner, Ahead, SourceEnded, Last
  <2>3. QED BY <2>1, <2>2
<1>7. CASE BatchIsCut
  BY <1>7, <1>1, <1>2, <1>3, <1>4, <1>0 DEF BatchIsCut, callVars, TypeOK, SubInv, DoneInv, SyncInv, Inner, Ahead, SourceEnded, Last
<1>8. CASE BatchDoubles
  <2>1. TypeOK'
    BY <1>8, <1>5, <1>4 DEF BatchDoubles, Adds, TypeOK
  <2>2. SubInv' /\ DoneInv' /\ SyncInv'
    BY <1>8, <1>5, <1>2, <1>3, <1>4, <1>0 DEF BatchDoubles, Adds, SubInv, DoneInv, SyncInv, Inner, Ahead, SourceEnded, Last
  <2>3. QED BY <2>1, <2>2
<1>9. CASE HeadTakes
  BY <1>9, <1>1, <1>2, <1>3, <1>4, <1>0 DEF HeadTakes, TypeOK, SubInv, DoneInv, SyncInv, Inner, Ahead, SourceEnded, Last
<1>10. QED BY <1>6, <1>7, <1>8, <1>9, SendBatchCases

LEMMA BaseSendEOS ==
  ASSUME BaseInv, stale' \in BOOLEAN, NoNestedDones, SendEOS
  PROVE  BaseInv'
<1> USE BoundsAssumption DEF BaseInv, srcVars, subVars, EOSArrives, Ends
<1>0. nv \in Nat /\ plat \in Nat /\ cplat \in Nat /\ MaxVals \in Nat /\ MaxPlatoons \in Nat
  BY DEF TypeOK
<1>1. EOS \in Results
  BY DEF Results
<1>2. CASE EOSArrives /\ Polls
  BY <1>2, <1>1, <1>0 DEF Polls, TypeOK, SubInv, DoneInv, SyncInv, Inner, Ahead, SourceEnded, Last
<1>3. CASE EOSArrives /\ platoon # <<>> /\ isDone /\ EndsPlatoon
  <2>1. TypeOK'
    BY <1>3, <1>1, <1>0 DEF EndsPlatoon, TypeOK
  <2>2. SubInv' /\ DoneInv' /\ SyncInv'
    BY <1>3, <1>0 DEF EndsPlatoon, SubInv, DoneInv, SyncInv, Inner, Ahead, SourceEnded, Last
  <2>3. QED BY <2>1, <2>2
<1>4. CASE EOSArrives /\ ~isDone /\ Delivers
  <2>1. TypeOK'
    BY <1>4, <1>1, DeliversTyped DEF Delivers, TypeOK
  <2>2. ~token
    BY <1>4 DEF Delivers, SubInv, Inner
  <2>3. SubInv' /\ DoneInv' /\ SyncInv'
    BY <1>4, <2>2, <1>0 DEF Delivers, SubInv, DoneInv, SyncInv, Inner, Ahead, SourceEnded, Last
  <2>4. QED BY <2>1, <2>3
<1>5. CASE ErrorArrives
  BY <1>5, <1>1, <1>0 DEF ErrorArrives, Stops, TypeOK, SubInv, DoneInv, SyncInv, Inner, Ahead, SourceEnded, Last
<1>6. QED BY <1>2, <1>3, <1>4, <1>5, SendEOSCases

\* The done that the Exit sends ends the one platoon of its source.
LEMMA ExitDoneEnds ==
  ASSUME BaseInv, NoNestedDones, ExitDone
  PROVE  SourceEnded'
<1> USE DEF BaseInv
<1>1. isDone
  BY DEF ExitDone, DoneInv
<1>2. g.source = "original" /\ g' = g
  BY <1>1, GraphsAssumption DEF ExitDone, TypeOK, DoneInv, NoNestedDones
<1>3. plat \in Nat
  BY BoundsAssumption DEF TypeOK
<1>4. QED BY <1>2, <1>3 DEF ExitDone, Advance, SourceEnded, Last, TypeOK

LEMMA BaseDones ==
  ASSUME BaseInv, stale' \in BOOLEAN, NoNestedDones, ExitDone \/ SubDone \/ SubDoneAcked
  PROVE  BaseInv'
<1> USE BoundsAssumption DEF BaseInv, srcVars, subVars
<1>0. nv \in Nat /\ plat \in Nat /\ cplat \in Nat /\ MaxVals \in Nat /\ MaxPlatoons \in Nat
  BY DEF TypeOK
<1>1. EOS \in Results
  BY DEF Results
<1>2. CASE ExitDone
  <2>0. /\ plat' \in 1..MaxPlatoons + 1 /\ nv' \in 0..MaxVals
        /\ dropped' \subseteq 1..MaxPlatoons /\ sRes' \in Results
    <3>1. ~SourceEnded => plat \in 1..MaxPlatoons
      BY DEF TypeOK, SourceEnded, Last
    <3>2. ERR \in Results
      BY DEF Results
    <3>3. QED BY <1>2, <3>1, <3>2, <1>0, <1>1 DEF ExitDone, Advance, TypeOK
  <2>1. TypeOK'
    BY <1>2, <2>0 DEF ExitDone, TypeOK
  <2>2. SourceEnded'
    BY <1>2, ExitDoneEnds
  <2>3. SubInv' /\ DoneInv' /\ SyncInv'
    BY <1>2, <2>2, <1>0 DEF ExitDone, Advance, SubInv, DoneInv, SyncInv, Inner, Ahead, SourceEnded, Last
  <2>4. QED BY <2>1, <2>3
<1>3. CASE SubDone
  BY <1>3, <1>1, <1>0 DEF SubDone, TypeOK, SubInv, DoneInv, SyncInv, Inner, Ahead, SourceEnded, Last
<1>4. CASE SubDoneAcked
  <2>1. HeadAcked
    BY <1>4, SubDoneAckedCases
  <2>2. platoon = <<>> /\ ~isDone /\ ~token
    BY <2>1, Distinct DEF HeadAcked, Ends, SubInv, Inner
  <2>3. platoon' \in Seq(Batches) /\ Len(platoon') <= 2 /\ platoon' # <<>>
    BY <2>1, <2>2, AddsTyped DEF HeadAcked
  <2>4. TypeOK'
    BY <2>1, <2>3, <1>1 DEF HeadAcked, Ends, Adds, TypeOK
  <2>5. SubInv' /\ DoneInv' /\ SyncInv'
    BY <2>1, <2>2, <2>3, <1>0 DEF HeadAcked, Ends, Adds, SubInv, DoneInv, SyncInv, Inner, Ahead, SourceEnded, Last
  <2>6. QED BY <2>4, <2>5
<1>5. QED BY <1>2, <1>3, <1>4

LEMMA BaseCalls ==
  ASSUME BaseInv, stale' \in BOOLEAN, NoNestedDones, Poll \/ ExitPull \/ ExitPullDone \/ Cancel \/ CallCancelled
  PROVE  BaseInv'
<1> USE BoundsAssumption DEF BaseInv, srcVars, subVars, scopeVars
<1>0. nv \in Nat /\ plat \in Nat /\ cplat \in Nat /\ MaxVals \in Nat /\ MaxPlatoons \in Nat
  BY DEF TypeOK
<1>1. CASE PollEnds
  <2>0. platoon' \in Seq(Batches) /\ Len(platoon') <= 2 /\ cplat' \in 1..MaxPlatoons + 1
    <3>1. cplat' \in 1..MaxPlatoons + 1
      BY <1>1 DEF PollEnds, EndsPlatoon, TypeOK
    <3>2. platoon' = <<>>
      BY <1>1 DEF PollEnds, EndsPlatoon
    <3>3. QED BY <3>1, <3>2
  <2>1. TypeOK'
    BY <1>1, <2>0 DEF PollEnds, EndsPlatoon, TypeOK
  <2>2. SubInv' /\ DoneInv' /\ SyncInv'
    BY <1>1, <1>0 DEF PollEnds, EndsPlatoon, SubInv, DoneInv, SyncInv, Inner, Ahead, SourceEnded, Last, TypeOK
  <2>3. QED BY <2>1, <2>2
<1>2. CASE PollAgain
  BY <1>2, <1>0 DEF PollAgain, TypeOK, SubInv, DoneInv, SyncInv, Inner, Ahead, SourceEnded, Last
<1>3. CASE PullStarts
  <2>1. TypeOK'
    BY <1>3 DEF PullStarts, TypeOK
  <2>2. SubInv' /\ DoneInv'
    BY <1>3 DEF PullStarts, SubInv, DoneInv, Inner, SourceEnded, Last
  <2>3. SyncInv'
    BY <1>3, <1>0 DEF PullStarts, SyncInv, Ahead, SourceEnded, Last
  <2>4. QED BY <2>1, <2>2, <2>3
<1>4. CASE PullDelivers
  <2>1. TypeOK'
    BY <1>4, DeliversTyped DEF PullDelivers, Delivers, TypeOK
  <2>2. SubInv' /\ DoneInv' /\ SyncInv'
    BY <1>4, <1>0 DEF PullDelivers, Delivers, SubInv, DoneInv, SyncInv, Inner, Ahead, SourceEnded, Last
  <2>3. QED BY <2>1, <2>2
<1>5. CASE ExitPullDone
  BY <1>5, <1>0 DEF ExitPullDone, TypeOK, SubInv, DoneInv, SyncInv, Inner, Ahead, SourceEnded, Last
<1>6. CASE Cancel
  BY <1>6, <1>0 DEF Cancel, callVars, TypeOK, SubInv, DoneInv, SyncInv, Inner, Ahead, SourceEnded, Last
<1>7. CASE CallCancelled
  <2>1. platoon' \in Seq(Batches) /\ Len(platoon') <= 2
    BY <1>7 DEF CallCancelled, TypeOK
  <2>2. TypeOK'
    BY <1>7, <2>1 DEF CallCancelled, TypeOK
  <2>3. SubInv' /\ DoneInv' /\ SyncInv'
    BY <1>7, <1>0 DEF CallCancelled, SubInv, DoneInv, SyncInv, Inner, Ahead, SourceEnded, Last
  <2>4. QED BY <2>2, <2>3
<1>8. QED BY <1>1, <1>2, <1>3, <1>4, <1>5, <1>6, <1>7, PollCases, ExitPullCases

LEMMA BaseStutter ==
  ASSUME BaseInv, UNCHANGED vars
  PROVE  BaseInv'
  BY DEF vars, srcVars, scopeVars, subVars, callVars, BaseInv, TypeOK, SubInv, DoneInv, SyncInv,
         Inner, Ahead, SourceEnded, Last

LEMMA BaseStep ==
  ASSUME BaseInv, NoNestedDones, [Next]_vars
  PROVE  BaseInv'
<1>1. stale' \in BOOLEAN
  BY StaleTyped DEF BaseInv
<1>2. QED
  BY <1>1, BaseScope, BaseSubPull, BaseSendBatch, BaseSendEOS, BaseDones, BaseCalls, BaseStutter
  DEF Next, Call

-----------------------------------------------------------------------------
\* OrderInv.

\* The Scope does not take back what it has passed.
BehindNext(b) ==
    \/ b[1] < plat'
    \/ b[1] = plat' /\ b[2] < nv'
    \/ b[1] = plat' /\ b[2] = nv' /\ sPC' # "batch"

Forward == \A b \in Batches : Behind(b) => BehindNext(b)

LEMMA Elements ==
  ASSUME TypeOK
  PROVE  /\ \A i \in DOMAIN got : got[i] \in Batches \X (1..MaxPlatoons + 1) /\ got[i][1] \in Batches
         /\ \A i \in DOMAIN platoon : platoon[i] \in Batches
         /\ kept # EOS => kept \in Batches
         /\ DOMAIN got = 1..Len(got) /\ Len(got) \in Nat
         /\ DOMAIN platoon = 1..Len(platoon) /\ Len(platoon) \in Nat
  BY DEF TypeOK

\* What is downstream of the Scope stays behind it.
LEMMA StaysBehind ==
  ASSUME TypeOK, OrderInv, Forward
  PROVE  /\ \A i \in DOMAIN got : BehindNext(got[i][1])
         /\ \A i \in DOMAIN platoon : BehindNext(platoon[i])
         /\ kept # EOS => BehindNext(kept)
  BY Elements DEF OrderInv, Forward

LEMMA OrderStays ==
  ASSUME TypeOK, OrderInv, UNCHANGED <<got, platoon, kept, cplat>>,
         ePC = "stop" => ePC' = "stop", Forward
  PROVE  OrderInv'
  BY StaysBehind DEF OrderInv, Behind, BehindNext

LEMMA OrderCleared ==
  ASSUME TypeOK, OrderInv, UNCHANGED <<got, kept>>, platoon' = <<>>,
         kept = EOS \/ cplat' = cplat,
         ePC = "stop" => ePC' = "stop", Forward
  PROVE  OrderInv'
<1>1. DOMAIN platoon' = {}
  OBVIOUS
<1>2. QED BY <1>1, StaysBehind DEF OrderInv, Behind, BehindNext

LEMMA OrderDelivers ==
  ASSUME TypeOK, OrderInv, Delivers, kept' = kept, ePC # "stop", Forward
  PROVE  OrderInv'
<1> DEFINE n == Len(got)
           m == Len(platoon)
<1>1. /\ DOMAIN got = 1..n /\ n \in Nat /\ DOMAIN platoon = 1..m /\ m \in Nat /\ m # 0
      /\ \A i \in 1..m : platoon[i] \in Batches
      /\ 1 \in 1..m
  BY Elements DEF Delivers, TypeOK
<1>2. /\ DOMAIN got' = 1..(n + 1)
      /\ got'[n + 1] = <<platoon[1], cplat>>
      /\ \A i \in 1..n : got'[i] = got[i]
  <2>1. got' = Append(got, <<platoon[1], cplat>>)
    BY TailIn DEF Delivers, TypeOK
  <2>2. got \in Seq(Batches \X (1..MaxPlatoons + 1))
        /\ <<platoon[1], cplat>> \in Batches \X (1..MaxPlatoons + 1)
    BY <1>1 DEF TypeOK
  <2>3. QED BY <2>1, <2>2, AppendIn
<1>3. DOMAIN platoon' = 1..(m - 1) /\ \A i \in 1..(m - 1) : platoon'[i] = platoon[i + 1]
  BY TailIn DEF Delivers, TypeOK
<1>4. /\ \A i \in 1..n : BehindNext(got[i][1])
      /\ \A i \in 1..m : BehindNext(platoon[i])
      /\ kept # EOS => BehindNext(kept)
  BY <1>1, StaysBehind
<1>5. /\ \A i \in 1..n : got[i][1][1] = got[i][2]
      /\ \A i, j \in 1..n : i < j => Before(got[i][1], got[j][1])
      /\ \A i \in 1..m : platoon[i][1] = cplat /\ \A j \in 1..n : Before(got[j][1], platoon[i])
      /\ \A i, j \in 1..m : i < j => Before(platoon[i], platoon[j])
      /\ kept # EOS => /\ kept[1] = cplat
                       /\ \A j \in 1..n : Before(got[j][1], kept)
                       /\ \A j \in 1..m : Before(platoon[j], kept)
  BY <1>1 DEF OrderInv
<1>6. UNCHANGED <<cplat, kept>>
  BY DEF Delivers
<1> HIDE DEF n, m
<1>7. \A i \in 1..(n + 1) : (i \in 1..n /\ got'[i] = got[i])
                            \/ (i = n + 1 /\ got'[i][1] = platoon[1] /\ got'[i][2] = cplat)
  BY <1>1, <1>2
<1>8. \A i \in 1..(m - 1) : i + 1 \in 1..m /\ 1 < i + 1 /\ platoon'[i] = platoon[i + 1]
  BY <1>1, <1>3
<1>9. \A i \in DOMAIN got' : got'[i][1][1] = got'[i][2] /\ BehindNext(got'[i][1])
  <2> SUFFICES ASSUME NEW i \in 1..(n + 1)
               PROVE  got'[i][1][1] = got'[i][2] /\ BehindNext(got'[i][1])
    BY <1>2
  <2>1. CASE i \in 1..n /\ got'[i] = got[i]
    BY <1>4, <1>5, <2>1
  <2>2. CASE got'[i][1] = platoon[1] /\ got'[i][2] = cplat
    BY <1>1, <1>4, <1>5, <2>2
  <2>3. QED BY <1>7, <2>1, <2>2
<1>10. \A i, j \in DOMAIN got' : i < j => Before(got'[i][1], got'[j][1])
  <2> SUFFICES ASSUME NEW i \in 1..(n + 1), NEW j \in 1..(n + 1), i < j
               PROVE  Before(got'[i][1], got'[j][1])
    BY <1>2
  <2>1. i \in 1..n
    BY <1>1
  <2>2. QED BY <1>1, <1>2, <1>5, <1>7, <2>1, Zenon
<1>11. \A i \in DOMAIN platoon' :
          /\ BehindNext(platoon'[i]) /\ platoon'[i][1] = cplat
          /\ \A j \in DOMAIN got' : Before(got'[j][1], platoon'[i])
  <2> SUFFICES ASSUME NEW i \in 1..(m - 1)
               PROVE  /\ BehindNext(platoon[i + 1]) /\ platoon[i + 1][1] = cplat
                      /\ \A j \in 1..(n + 1) : Before(got'[j][1], platoon[i + 1])
    BY <1>2, <1>3
  <2>1. i + 1 \in 1..m /\ 1 < i + 1
    BY <1>8
  <2>2. QED BY <1>1, <1>4, <1>5, <1>7, <2>1, Zenon
<1>12. \A i, j \in DOMAIN platoon' : i < j => Before(platoon'[i], platoon'[j])
  <2> SUFFICES ASSUME NEW i \in 1..(m - 1), NEW j \in 1..(m - 1), i < j
               PROVE  Before(platoon[i + 1], platoon[j + 1])
    BY <1>3
  <2>1. i + 1 \in 1..m /\ j + 1 \in 1..m /\ i + 1 < j + 1
    BY <1>1
  <2>2. QED BY <1>5, <2>1, Zenon
<1>13. kept # EOS =>
          /\ BehindNext(kept) /\ kept[1] = cplat
          /\ \A j \in DOMAIN got' : Before(got'[j][1], kept)
          /\ \A j \in DOMAIN platoon' : Before(platoon'[j], kept)
  BY <1>1, <1>2, <1>3, <1>4, <1>5, <1>7, <1>8, Zenon
<1>14. QED
  BY <1>6, <1>9, <1>10, <1>11, <1>12, <1>13 DEF OrderInv, Behind, BehindNext

\* r, which comes after everything downstream of the Scope, is gathered; what the
\* subgraph then keeps comes after r.
LEMMA OrderAdds ==
  ASSUME TypeOK, OrderInv, NEW r \in Batches, Adds(r), ePC # "stop", Forward,
         r[1] = cplat, BehindNext(r),
         \A i \in DOMAIN got : Before(got[i][1], r),
         \A i \in DOMAIN platoon : Before(platoon[i], r),
         \/ kept' = EOS
         \/ /\ platoon = <<>> /\ kept'[1] = cplat /\ BehindNext(kept') /\ Before(r, kept')
            /\ \A i \in DOMAIN got : Before(got[i][1], kept')
  PROVE  OrderInv'
<1> DEFINE m == Len(platoon)
<1>1. DOMAIN platoon = 1..m /\ m \in Nat
  BY Elements
<1>2. /\ DOMAIN platoon' = 1..(m + 1) /\ platoon'[m + 1] = r
      /\ \A i \in 1..m : platoon'[i] = platoon[i]
  BY AppendIn DEF Adds, TypeOK
<1>3. UNCHANGED <<got, cplat>>
  BY DEF Adds
<1>4. platoon = <<>> => m = 0
  OBVIOUS
<1> HIDE DEF m
<1>5. \A i \in 1..(m + 1) : (i \in 1..m /\ platoon'[i] = platoon[i]) \/ (i = m + 1 /\ platoon'[i] = r)
  BY <1>1, <1>2
<1>6. \A i \in DOMAIN got : got[i][1][1] = got[i][2] /\ BehindNext(got[i][1])
  BY StaysBehind DEF OrderInv
<1>7. \A i \in DOMAIN platoon' :
          /\ BehindNext(platoon'[i]) /\ platoon'[i][1] = cplat
          /\ \A j \in DOMAIN got : Before(got[j][1], platoon'[i])
  BY <1>1, <1>2, <1>5, StaysBehind, Zenon DEF OrderInv
<1>8. \A i, j \in DOMAIN platoon' : i < j => Before(platoon'[i], platoon'[j])
  <2> SUFFICES ASSUME NEW i \in 1..(m + 1), NEW j \in 1..(m + 1), i < j
               PROVE  Before(platoon'[i], platoon'[j])
    BY <1>2
  <2>1. i \in 1..m
    BY <1>1
  <2>2. QED BY <1>1, <1>2, <1>5, <2>1, Zenon DEF OrderInv
<1>9. kept' # EOS =>
          /\ BehindNext(kept') /\ kept'[1] = cplat
          /\ \A j \in DOMAIN got : Before(got[j][1], kept')
          /\ \A j \in DOMAIN platoon' : Before(platoon'[j], kept')
  <2> SUFFICES ASSUME kept' # EOS, NEW j \in DOMAIN platoon'
               PROVE  Before(platoon'[j], kept')
    OBVIOUS
  <2>1. platoon = <<>>
    OBVIOUS
  <2>2. j = m + 1
    BY <1>2, <1>4, <2>1
  <2>3. QED BY <1>2, <2>2
<1>10. QED
  BY <1>3, <1>6, <1>7, <1>8, <1>9 DEF OrderInv, Behind, BehindNext

\* The source stays where it is, and the Scope gets no batch.
LEMMA ForwardStays ==
  ASSUME UNCHANGED <<plat, nv>>, sPC' = "batch" => sPC = "batch"
  PROVE  Forward
  BY DEF Forward, Behind, BehindNext

LEMMA ForwardAdvance ==
  ASSUME BaseInv, Advance, sPC' # "batch"
  PROVE  Forward
<1> SUFFICES ASSUME NEW b \in Batches, Behind(b)
             PROVE  BehindNext(b)
  BY DEF Forward
<1>1. b[1] \in Nat /\ b[2] \in Nat
  BY BatchParts, BoundsAssumption
<1>2. plat \in Nat /\ nv \in Nat /\ MaxPlatoons \in Nat /\ MaxVals \in Nat
  BY BoundsAssumption DEF BaseInv, TypeOK
<1>3. CASE SourceEnded
  BY <1>3 DEF BaseInv, SyncInv, Advance, Behind, BehindNext
<1>4. CASE ~SourceEnded
  BY <1>1, <1>2, <1>4 DEF Advance, Behind, BehindNext
<1>5. QED BY <1>3, <1>4

\* The source and the Scope only go forward.
LEMMA StepsForward ==
  ASSUME BaseInv, [Next]_vars
  PROVE  Forward
<1>1. CASE OverPull
  <2>1. CASE Advance /\ sPC' = "token"
    BY <2>1, ForwardAdvance
  <2>2. CASE plat' = plat /\ nv' = nv + 1
    <3>1. plat \in Nat /\ nv \in Nat /\ \A b \in Batches : b[1] \in Nat /\ b[2] \in Nat
      BY BatchParts, BoundsAssumption DEF BaseInv, TypeOK
    <3>2. QED BY <2>2, <3>1 DEF Forward, Behind, BehindNext
  <2>3. QED BY <1>1, <2>1, <2>2 DEF OverPull
<1>2. CASE ExitDone
  BY <1>2, ForwardAdvance DEF ExitDone
<1>3. CASE ~OverPull /\ ~ExitDone
  <2>1. UNCHANGED <<plat, nv>> /\ (sPC' = "batch" => sPC = "batch")
    BY <1>3 DEF Next, ScopeRun, Call, SendToken, ScopeCancelled, SubPull, Poll, SendBatch, SendEOS,
                SubDone, SubDoneAcked, CallCancelled, ExitPull, ExitPullDone, Cancel, srcVars,
                scopeVars, vars
  <2>2. QED BY <2>1, ForwardStays
<1>4. QED BY <1>1, <1>2, <1>3

LEMMA OrderInit == Init => OrderInv
  BY DEF Init, OrderInv

LEMMA OrderScope ==
  ASSUME BaseInv, OrderInv, ScopeRun
  PROVE  OrderInv'
<1>1. UNCHANGED <<got, platoon, kept, cplat, ePC>>
  BY DEF ScopeRun, OverPull, SendToken, ScopeCancelled, subVars, callVars
<1>2. Forward
  BY StepsForward DEF Next
<1>3. QED BY <1>1, <1>2, OrderStays DEF BaseInv

LEMMA OrderSubPull ==
  ASSUME BaseInv, OrderInv, SubPull
  PROVE  OrderInv'
<1>1. UNCHANGED <<plat, nv>> /\ (sPC' = "batch" => sPC = "batch") /\ ePC = "sub"
  BY DEF SubPull, srcVars
<1>2. Forward
  BY <1>1, ForwardStays
<1>3. CASE SubGivesKept
  <2>1. kept \in Batches /\ kept # EOS /\ Adds(kept) /\ kept' = EOS
    BY <1>3, Elements DEF SubGivesKept, BaseInv
  <2>2. /\ kept[1] = cplat /\ BehindNext(kept)
        /\ \A i \in DOMAIN got : Before(got[i][1], kept)
        /\ \A i \in DOMAIN platoon : Before(platoon[i], kept)
    BY <1>1, <1>2, <2>1, StaysBehind DEF OrderInv, BaseInv
  <2>3. QED BY <1>1, <1>2, <2>1, <2>2, OrderAdds DEF BaseInv
<1>4. CASE SubGivesEOS
  BY <1>1, <1>2, <1>4, OrderDelivers DEF SubGivesEOS, BaseInv
<1>5. CASE SubAsks
  BY <1>1, <1>2, <1>5, OrderStays DEF SubAsks, BaseInv, subVars
<1>6. QED BY <1>3, <1>4, <1>5, SubPullCases

LEMMA OrderSendBatch ==
  ASSUME BaseInv, NoNestedDones, OrderInv, SendBatch
  PROVE  OrderInv'
<1>1. sPC = "batch" /\ ePC = "pull" /\ sPC' = "eos" /\ UNCHANGED <<plat, nv>>
  BY DEF SendBatch, srcVars
<1>2. platoon = <<>> /\ kept = EOS /\ plat = cplat /\ DOMAIN platoon = {}
  BY <1>1, AtSend
<1>3. sRes \in Batches /\ sRes = <<plat, nv, 1>> /\ Second(sRes) = <<plat, nv, 2>>
  BY <1>1, ScopeBatch DEF Second
<1>4. Forward
  BY <1>1, ForwardStays
<1>5. \A b \in Batches : Behind(b) => Before(b, sRes) /\ Before(b, Second(sRes))
  BY <1>1, <1>3 DEF Behind, Before
<1>6. \A i \in DOMAIN got : Before(got[i][1], sRes) /\ Before(got[i][1], Second(sRes))
  BY <1>5, Elements DEF OrderInv, BaseInv
<1>7. /\ sRes[1] = cplat /\ BehindNext(sRes)
      /\ Second(sRes)[1] = cplat /\ BehindNext(Second(sRes)) /\ Before(sRes, Second(sRes))
  BY <1>1, <1>2, <1>3 DEF BehindNext, Before
<1>8. CASE BatchPasses \/ BatchDoubles
  <2>1. Adds(sRes) /\ kept' \in {EOS, Second(sRes)}
    BY <1>2, <1>8 DEF BatchPasses, BatchDoubles, subVars
  <2>2. QED BY <1>1, <1>2, <1>3, <1>4, <1>6, <1>7, <2>1, OrderAdds DEF BaseInv
<1>9. CASE BatchIsCut
  BY <1>1, <1>4, <1>9, OrderStays DEF BatchIsCut, callVars, BaseInv
<1>10. CASE HeadTakes
  <2>1. UNCHANGED <<got, platoon, cplat>> /\ kept' = sRes
    BY <1>10 DEF HeadTakes
  <2>2. QED
    BY <1>1, <1>2, <1>4, <1>6, <1>7, <2>1, StaysBehind DEF OrderInv, Behind, BehindNext, BaseInv
<1>11. QED BY <1>8, <1>9, <1>10, SendBatchCases

LEMMA OrderSendEOS ==
  ASSUME BaseInv, OrderInv, SendEOS
  PROVE  OrderInv'
<1>1. sPC' = "top" /\ UNCHANGED <<plat, nv>> /\ ePC = "pull"
  BY DEF SendEOS, srcVars
<1>2. Forward
  BY <1>1, ForwardStays
<1>3. kept = EOS
  BY <1>1 DEF BaseInv, SubInv
<1>4. CASE EOSArrives /\ Polls
  BY <1>1, <1>2, <1>4, OrderStays DEF EOSArrives, Polls, subVars, BaseInv
<1>5. CASE EOSArrives /\ platoon # <<>> /\ isDone /\ EndsPlatoon
  BY <1>1, <1>2, <1>3, <1>5, OrderCleared DEF EOSArrives, EndsPlatoon, subVars, BaseInv
<1>6. CASE EOSArrives /\ ~isDone /\ Delivers
  BY <1>1, <1>2, <1>6, OrderDelivers DEF EOSArrives, subVars, BaseInv
<1>7. CASE ErrorArrives
  BY <1>1, <1>2, <1>3, <1>7, OrderCleared DEF ErrorArrives, Stops, subVars, BaseInv
<1>8. QED BY <1>4, <1>5, <1>6, <1>7, SendEOSCases

LEMMA OrderDones ==
  ASSUME BaseInv, OrderInv, ExitDone \/ SubDone \/ SubDoneAcked
  PROVE  OrderInv'
<1>1. CASE ExitDone
  <2>1. Forward
    BY <1>1, ForwardAdvance DEF ExitDone
  <2>2. QED BY <1>1, <2>1, OrderStays DEF ExitDone, subVars, BaseInv
<1>2. CASE SubDone
  <2>1. Forward
    BY <1>2, ForwardStays DEF SubDone, srcVars
  <2>2. QED BY <1>2, <2>1, OrderStays DEF SubDone, subVars, BaseInv
<1>3. CASE SubDoneAcked
  <2>1. HeadAcked
    BY <1>3, SubDoneAckedCases
  <2>2. Forward /\ ePC # "stop" /\ kept \in Batches /\ kept # EOS /\ Adds(kept) /\ kept' = EOS
    BY <2>1, ForwardStays, Distinct DEF HeadAcked, Ends, srcVars
  <2>3. /\ kept[1] = cplat /\ BehindNext(kept)
        /\ \A i \in DOMAIN got : Before(got[i][1], kept)
        /\ \A i \in DOMAIN platoon : Before(platoon[i], kept)
    BY <2>2, StaysBehind DEF OrderInv, BaseInv
  <2>4. QED BY <2>2, <2>3, OrderAdds DEF BaseInv
<1>4. QED BY <1>1, <1>2, <1>3

LEMMA OrderCalls ==
  ASSUME BaseInv, OrderInv,
         Poll \/ ExitPull \/ ExitPullDone \/ Cancel \/ CallCancelled \/ UNCHANGED vars
  PROVE  OrderInv'
<1>1. UNCHANGED <<plat, nv, sPC, kept>>
  BY DEF Poll, ExitPull, ExitPullDone, Cancel, CallCancelled, vars, srcVars, scopeVars, subVars
<1>2. Forward
  BY <1>1, ForwardStays
<1>3. CASE PollEnds
  BY <1>1, <1>2, <1>3, OrderCleared DEF PollEnds, EndsPlatoon, BaseInv, SubInv
<1>4. CASE PollAgain
  BY <1>1, <1>2, <1>4, OrderStays DEF PollAgain, BaseInv
<1>5. CASE PullStarts
  BY <1>1, <1>2, <1>5, OrderStays DEF PullStarts, BaseInv
<1>6. CASE PullDelivers
  BY <1>1, <1>2, <1>6, OrderDelivers DEF PullDelivers, BaseInv
<1>7. CASE ExitPullDone \/ Cancel \/ UNCHANGED vars
  BY <1>1, <1>2, <1>7, OrderStays DEF ExitPullDone, Cancel, vars, callVars, BaseInv
<1>8. CASE CallCancelled
  <2>1. UNCHANGED <<got, cplat>> /\ ePC' = "stop" /\ platoon' \in {<<>>, platoon}
    BY <1>8 DEF CallCancelled
  <2>2. QED BY <1>1, <1>2, <2>1, OrderStays, OrderCleared DEF BaseInv
<1>9. QED BY <1>3, <1>4, <1>5, <1>6, <1>7, <1>8, PollCases, ExitPullCases DEF BaseInv

LEMMA OrderStep ==
  ASSUME BaseInv, NoNestedDones, OrderInv, [Next]_vars
  PROVE  OrderInv'
  BY OrderScope, OrderSubPull, OrderSendBatch, OrderSendEOS, OrderDones, OrderCalls
  DEF Next, Call

-----------------------------------------------------------------------------
\* Batches of an over with a subquery arrive in the order of the outer values,
\* none twice, each in its platoon (Scope.run and Exit.Pull).
THEOREM OuterOrderIsKept == NoNestedDones /\ Spec => []InOuterOrder
<1> SUFFICES ASSUME NoNestedDones PROVE Spec => []InOuterOrder
  OBVIOUS
<1>1. Init => BaseInv /\ OrderInv
  BY BaseInit, OrderInit
<1>2. BaseInv /\ OrderInv /\ [Next]_vars => (BaseInv /\ OrderInv)'
  BY BaseStep, OrderStep
<1>3. BaseInv /\ OrderInv => InOuterOrder
  BY DEF BaseInv, OrderInv, InOuterOrder
<1>4. QED BY <1>1, <1>2, <1>3, PTL DEF Spec

-----------------------------------------------------------------------------
\* ErrorInv.

LEMMA ErrorInit == Init => ErrorInv
  BY DEF Init, ErrorInv, ErrorBeforeEOS

LEMMA ErrorScope ==
  ASSUME BaseInv, OneFailingPlatoon, ErrorInv, ScopeRun
  PROVE  ErrorInv'
<1> USE DEF BaseInv, srcVars, subVars, callVars
<1>0. /\ plat \in Nat /\ cplat \in Nat /\ plat >= 1 /\ cplat >= 1
      /\ token \in BOOLEAN
  BY DEF TypeOK
<1>1. CASE OverPull
  <2>1. UNCHANGED <<g, ePC, quits, cplat, platoon, kept, spent, cut, token>> /\ sPC = "top"
    BY <1>1 DEF OverPull
  <2>2. CASE failed' = failed
    <3>1. SourceEnded => SourceEnded'
      BY <1>0, <1>1, <2>1 DEF OverPull, Advance, SourceEnded, Last
    <3>2. QED BY <1>1, <2>1, <2>2, <3>1 DEF OverPull, ErrorInv, ErrorBeforeEOS, Inner
  <2>3. CASE failed' = TRUE /\ g.faults /\ ~SourceEnded /\ Advance /\ sRes' = ERR /\ sPC' = "token"
    <3>1. g.source = "original"
      BY <2>3 DEF OneFailingPlatoon, TypeOK
    <3>2. plat = 1 /\ cplat = 1 /\ SourceEnded'
      <4>1. plat = 1
        BY <1>0, <2>3, <3>1 DEF SourceEnded, Last
      <4>2. plat = cplat + Ahead /\ Ahead \in {0, 1}
        BY <1>0, <2>1, <2>3 DEF SyncInv, Ahead
      <4>3. QED BY <1>0, <2>1, <2>3, <3>1, <4>1, <4>2 DEF Advance, SourceEnded, Last
    <3>3. QED BY <2>1, <2>3, <3>1, <3>2 DEF ErrorInv, ErrorBeforeEOS, Inner
  <2>4. QED BY <1>1, <2>2, <2>3 DEF OverPull
<1>2. CASE SendToken
  <2>1. g.source = "original" => SourceEnded
    <3> SUFFICES ASSUME g.source = "original", ~SourceEnded PROVE FALSE
      OBVIOUS
    <3>1. plat = 1
      BY <1>0 DEF SourceEnded, Last
    <3>2. plat = cplat + Ahead /\ Ahead = 1
      BY <1>2 DEF SendToken, SyncInv, Ahead
    <3>3. QED BY <1>0, <3>1, <3>2
  <2>2. QED BY <1>2, <2>1 DEF SendToken, ErrorInv, ErrorBeforeEOS, Inner, SourceEnded, Last
<1>3. CASE ScopeCancelled
  BY <1>3 DEF ScopeCancelled, ErrorInv, ErrorBeforeEOS, Inner, SourceEnded, Last
<1>4. QED BY <1>1, <1>2, <1>3 DEF ScopeRun

LEMMA ErrorSubPull ==
  ASSUME BaseInv, ErrorInv, SubPull
  PROVE  ErrorInv'
<1> USE DEF BaseInv, srcVars, subVars, scopeVars, ErrorInv, ErrorBeforeEOS, Inner, SourceEnded, Last
<1>1. CASE SubGivesKept
  <2>1. kept \in Batches /\ Len(platoon) <= 1 /\ ~spent /\ kept # EOS
    BY <1>1 DEF SubGivesKept, SubInv, TypeOK
  <2>2. platoon' # <<>>
    BY <1>1, <2>1, AddsTyped DEF SubGivesKept
  <2>3. QED BY <1>1, <2>1, <2>2 DEF SubGivesKept, Adds
<1>2. CASE SubGivesEOS
  BY <1>2 DEF SubGivesEOS, Delivers
<1>3. CASE SubAsks
  BY <1>3 DEF SubAsks
<1>4. QED BY <1>1, <1>2, <1>3, SubPullCases

LEMMA ErrorSendBatch ==
  ASSUME BaseInv, NoNestedDones, ErrorInv, SendBatch
  PROVE  ErrorInv'
<1> USE DEF BaseInv, srcVars, subVars, ErrorInv, ErrorBeforeEOS, Inner, SourceEnded, Last, Sends
<1>1. sPC = "batch" /\ ePC = "pull"
  BY DEF SendBatch
<1>2. sRes \in Batches /\ sRes # EOS /\ ~spent /\ platoon = <<>>
  BY <1>1, ScopeBatch, AtSend, Distinct
<1>3. Adds(sRes) => platoon' # <<>>
  BY <1>2, AddsTyped
<1>4. CASE BatchPasses \/ BatchDoubles
  BY <1>2, <1>3, <1>4 DEF BatchPasses, BatchDoubles, Adds
<1>5. CASE BatchIsCut
  BY <1>5 DEF BatchIsCut, callVars
<1>6. CASE HeadTakes
  BY <1>2, <1>6 DEF HeadTakes
<1>7. QED BY <1>4, <1>5, <1>6, SendBatchCases

LEMMA ErrorOthers ==
  ASSUME BaseInv, NoNestedDones, OneFailingPlatoon, ErrorInv,
         SendEOS \/ ExitDone \/ SubDone \/ SubDoneAcked \/ Poll \/ ExitPull \/ ExitPullDone
           \/ Cancel \/ CallCancelled \/ UNCHANGED vars
  PROVE  ErrorInv'
<1> USE DEF BaseInv, srcVars, subVars, scopeVars, ErrorInv, ErrorBeforeEOS, Inner
<1>0. cplat \in Nat /\ cplat >= 1
  BY DEF TypeOK
<1>1. CASE SendEOS
  <2> USE DEF EOSArrives, Ends, SourceEnded, Last
  <2>1. CASE EOSArrives /\ Polls
    <3>1. ~Inner
      BY <2>1 DEF Polls, SubInv
    <3>2. QED BY <2>1, <3>1, Distinct DEF Polls
  <2>2. CASE EOSArrives /\ platoon # <<>> /\ isDone /\ EndsPlatoon
    BY <2>2, <1>0, Distinct DEF EndsPlatoon, DoneInv
  <2>3. CASE EOSArrives /\ ~isDone /\ Delivers
    BY <2>3, Distinct DEF Delivers
  <2>4. CASE ErrorArrives
    BY <2>4 DEF ErrorArrives, Stops
  <2>5. QED BY <1>1, <2>1, <2>2, <2>3, <2>4, SendEOSCases
<1>2. CASE ExitDone
  <2>1. cplat \in quits /\ UNCHANGED <<g, cplat, quits, cut>>
    BY <1>2 DEF ExitDone, DoneInv
  <2>2. (g.source = "original" /\ 1 \notin quits) => (cplat > 1 /\ ~failed) \/ cut # {}
    BY <2>1, <1>0, <1>2 DEF ExitDone
  <2>3. SourceEnded'
    BY <1>2, ExitDoneEnds
  <2>4. CASE failed' = failed
    BY <1>2, <2>1, <2>2, <2>3, <2>4 DEF ExitDone
  <2>5. CASE g.faults /\ ~SourceEnded /\ failed' = TRUE
    <3>1. plat = 1
      BY <2>5 DEF OneFailingPlatoon, TypeOK, SourceEnded, Last
    <3>2. plat = cplat + Ahead /\ Ahead \in {0, 1}
      BY <1>2, <2>5 DEF ExitDone, SyncInv, Ahead
    <3>3. cplat = 1 /\ 1 \in quits
      BY <1>0, <2>1, <3>1, <3>2
    <3>4. QED BY <2>1, <2>5, <3>3
  <2>6. QED BY <1>2, <2>4, <2>5 DEF ExitDone
<1>3. CASE SubDone
  BY <1>3 DEF SubDone, SubInv, SourceEnded, Last
<1>4. CASE SubDoneAcked
  <2>1. HeadAcked
    BY <1>4, SubDoneAckedCases
  <2>2. /\ sRes = EOS /\ sPC' = "top" /\ ePC = "subeos" /\ ePC' = "sub"
        /\ UNCHANGED <<g, plat, failed, cplat, quits, cut>>
    BY <2>1 DEF HeadAcked, Ends, Adds
  <2>3. QED BY <2>2, Distinct
<1>5. CASE PollEnds
  <2>1. failed => g.source = "original"
    BY DEF OneFailingPlatoon, TypeOK
  <2>2. /\ ePC = "poll" /\ ePC' = "idle" /\ UNCHANGED <<g, plat, failed, quits, cut, sPC, sRes>>
    BY <1>5 DEF PollEnds, EndsPlatoon
  <2>3. failed => 1 \in quits \/ cut # {}
    BY <2>1, <2>2
  <2>4. sPC = "eos" /\ g.source = "original" /\ cut = {} /\ 1 \notin quits => SourceEnded
    BY <2>2
  <2>5. QED BY <2>2, <2>3, <2>4 DEF SourceEnded, Last
<1>6. CASE PollAgain
  BY <1>6 DEF PollAgain, SubInv, SourceEnded, Last
<1>7. CASE PullStarts
  BY <1>7 DEF PullStarts, SubInv, SourceEnded, Last
<1>8. CASE PullDelivers
  BY <1>8 DEF PullDelivers, Delivers, SourceEnded, Last
<1>9. CASE ExitPullDone
  BY <1>9 DEF ExitPullDone, SourceEnded, Last
<1>10. CASE Cancel \/ UNCHANGED vars
  BY <1>10 DEF Cancel, vars, callVars, SourceEnded, Last
<1>11. CASE CallCancelled
  BY <1>11 DEF CallCancelled, SourceEnded, Last
<1>12. QED
  BY <1>1, <1>2, <1>3, <1>4, <1>5, <1>6, <1>7, <1>8, <1>9, <1>10, <1>11, PollCases, ExitPullCases

LEMMA ErrorStep ==
  ASSUME BaseInv, NoNestedDones, OneFailingPlatoon, ErrorInv, [Next]_vars
  PROVE  ErrorInv'
  BY ErrorScope, ErrorSubPull, ErrorSendBatch, ErrorOthers DEF Next, Call

-----------------------------------------------------------------------------
\* A failure of the source reaches the caller before the end of the platoon,
\* unless the subquery has filtered all of an inner platoon (Exit.pullPlatoon).
THEOREM ErrorsComeFirst == NoNestedDones /\ OneFailingPlatoon /\ Spec => []ErrorBeforeEOS
<1> SUFFICES ASSUME NoNestedDones, OneFailingPlatoon PROVE Spec => []ErrorBeforeEOS
  OBVIOUS
<1>1. Init => BaseInv /\ ErrorInv
  BY BaseInit, ErrorInit
<1>2. BaseInv /\ ErrorInv /\ [Next]_vars => (BaseInv /\ ErrorInv)'
  BY BaseStep, ErrorStep
<1>3. ErrorInv => ErrorBeforeEOS
  BY DEF ErrorInv
<1>4. QED BY <1>1, <1>2, <1>3, PTL DEF Spec

-----------------------------------------------------------------------------
\* ConserveInv.

\* The sets it is stated with, after a step.
DueNext(k) ==
    LET b == {x \in read' : x[1] = k} \ cut'
    IN  b \cup IF g'.sub = "twice" THEN {Second(x) : x \in b} ELSE {}

DeliveredNext(k) == {got'[i][1] : i \in {j \in DOMAIN got' : got'[j][2] = k}}

LEMMA DueStays ==
  ASSUME UNCHANGED <<g, read, cut>>
  PROVE  \A k : DueNext(k) = Due(k)
  BY DEF Due, DueNext, SubOutput

LEMMA DueRead ==
  ASSUME UNCHANGED <<g, cut>>, NEW r, r \notin cut, read' = read \cup {r}
  PROVE  /\ \A k : k # r[1] => DueNext(k) = Due(k)
         /\ DueNext(r[1]) = Due(r[1]) \cup SubOutput({r})
<1>1. ASSUME NEW k, k # r[1]
      PROVE  DueNext(k) = Due(k)
  <2>1. {b \in read' : b[1] = k} \ cut' = {b \in read : b[1] = k} \ cut
    BY <1>1
  <2>2. QED BY <2>1 DEF Due, DueNext, SubOutput
<1>2. {b \in read' : b[1] = r[1]} \ cut' = ({b \in read : b[1] = r[1]} \ cut) \cup {r}
  OBVIOUS
<1>3. DueNext(r[1]) = Due(r[1]) \cup SubOutput({r})
  BY <1>2 DEF Due, DueNext, SubOutput
<1>4. QED BY <1>1, <1>3

LEMMA DueCut ==
  ASSUME UNCHANGED <<g, read>>, NEW r, cut' = cut \cup {r}, g.sub = "filter"
  PROVE  /\ \A k : k # r[1] => DueNext(k) = Due(k)
         /\ \A k : DueNext(k) = Due(k) \ {r}
<1>1. ASSUME NEW k
      PROVE  DueNext(k) = Due(k) \ {r} /\ (k # r[1] => r \notin Due(k))
  <2>1. Due(k) = {b \in read : b[1] = k} \ cut /\ DueNext(k) = {b \in read' : b[1] = k} \ cut'
    BY DEF Due, DueNext, SubOutput
  <2>2. QED BY <2>1
<1>2. QED BY <1>1

LEMMA DeliveredStays ==
  ASSUME got' = got
  PROVE  \A k : DeliveredNext(k) = Delivered(k)
  BY DEF Delivered, DeliveredNext

\* A delivery moves a batch from the Exit to the caller.
LEMMA DeliversMoves ==
  ASSUME TypeOK, Delivers, kept' = kept
  PROVE  /\ \A k : k # cplat => DeliveredNext(k) = Delivered(k)
         /\ DeliveredNext(cplat) \cup Held' = Delivered(cplat) \cup Held
         /\ \A i \in DOMAIN got' : got'[i][2] = cplat \/ (i \in DOMAIN got /\ got'[i] = got[i])
         /\ cplat' = cplat
<1> DEFINE n == Len(got)
           m == Len(platoon)
           r == platoon[1]
<1>1. /\ DOMAIN got = 1..n /\ n \in Nat /\ DOMAIN platoon = 1..m /\ m \in Nat /\ m # 0
      /\ \A i \in 1..m : platoon[i] \in Batches
      /\ 1 \in 1..m
  BY Elements DEF Delivers, TypeOK
<1>2. /\ DOMAIN got' = 1..(n + 1) /\ got'[n + 1] = <<r, cplat>>
      /\ \A i \in 1..n : got'[i] = got[i]
  <2>1. got' = Append(got, <<platoon[1], cplat>>)
    BY TailIn DEF Delivers, TypeOK
  <2>2. got \in Seq(Batches \X (1..MaxPlatoons + 1))
        /\ <<platoon[1], cplat>> \in Batches \X (1..MaxPlatoons + 1)
    BY <1>1 DEF TypeOK
  <2>3. QED BY <2>1, <2>2, AppendIn
<1>3. DOMAIN platoon' = 1..(m - 1) /\ \A i \in 1..(m - 1) : platoon'[i] = platoon[i + 1]
  BY TailIn DEF Delivers, TypeOK
<1>4. cplat' = cplat
  BY DEF Delivers
<1>5. r = platoon[1]
  OBVIOUS
<1> HIDE DEF n, m, r
<1>6. \A i \in 1..(n + 1) : (i \in 1..n /\ got'[i] = got[i])
                            \/ (i = n + 1 /\ got'[i][1] = r /\ got'[i][2] = cplat)
  BY <1>1, <1>2
<1>7. n + 1 \in 1..(n + 1) /\ got'[n + 1][1] = r /\ got'[n + 1][2] = cplat
      /\ \A i \in 1..n : i \in 1..(n + 1)
  BY <1>1, <1>2
<1>8. \A k, x : x \in DeliveredNext(k) <=> \E i \in 1..(n + 1) : got'[i][2] = k /\ got'[i][1] = x
  BY <1>2 DEF DeliveredNext
<1>9. \A k, x : x \in Delivered(k) <=> \E i \in 1..n : got[i][2] = k /\ got[i][1] = x
  BY <1>1 DEF Delivered
<1>10. \A k, x : x \in DeliveredNext(k) <=> x \in Delivered(k) \/ (k = cplat /\ x = r)
  <2> TAKE k, x
  <2>1. ASSUME x \in DeliveredNext(k) PROVE x \in Delivered(k) \/ (k = cplat /\ x = r)
    <3>1. PICK i \in 1..(n + 1) : got'[i][2] = k /\ got'[i][1] = x
      BY <1>8, <2>1
    <3>2. QED BY <1>6, <1>9, <3>1
  <2>2. ASSUME x \in Delivered(k) PROVE x \in DeliveredNext(k)
    <3>1. PICK i \in 1..n : got[i][2] = k /\ got[i][1] = x
      BY <1>9, <2>2
    <3>2. QED BY <1>2, <1>7, <1>8, <3>1
  <2>3. ASSUME k = cplat, x = r PROVE x \in DeliveredNext(k)
    BY <1>7, <1>8, <2>3
  <2>4. QED BY <2>1, <2>2, <2>3
<1>11. \A x : (\E i \in 1..m : platoon[i] = x) <=> (x = r \/ \E i \in 1..(m - 1) : platoon'[i] = x)
  <2> TAKE x
  <2>1. ASSUME NEW i \in 1..m, platoon[i] = x, x # r
        PROVE  \E j \in 1..(m - 1) : platoon'[j] = x
    <3>1. i # 1
      BY <1>5, <2>1
    <3>2. i - 1 \in 1..(m - 1) /\ (i - 1) + 1 = i
      BY <1>1, <3>1
    <3>3. platoon'[i - 1] = x
      BY <1>3, <2>1, <3>2
    <3>4. QED BY <3>2, <3>3
  <2>2. ASSUME NEW i \in 1..(m - 1), platoon'[i] = x
        PROVE  \E j \in 1..m : platoon[j] = x
    <3>1. i + 1 \in 1..m
      BY <1>1
    <3>2. QED BY <1>3, <2>2, <3>1
  <2>3. QED BY <1>1, <1>5, <2>1, <2>2
<1>12. \A x : x \in Held <=> (\E i \in 1..m : platoon[i] = x) \/ (x = kept /\ x # EOS)
  BY <1>1 DEF Held
<1>13. \A x : x \in Held' <=> (\E i \in 1..(m - 1) : platoon'[i] = x) \/ (x = kept /\ x # EOS)
  BY <1>3 DEF Held
<1>14. DeliveredNext(cplat) \cup Held' = Delivered(cplat) \cup Held
  BY <1>10, <1>11, <1>12, <1>13
<1>15. \A k : k # cplat => DeliveredNext(k) = Delivered(k)
  BY <1>10
<1>16. \A i \in DOMAIN got' : got'[i][2] = cplat \/ (i \in DOMAIN got /\ got'[i] = got[i])
  BY <1>1, <1>2, <1>6
<1>17. QED BY <1>4, <1>14, <1>15, <1>16

\* What the Exit gathers is added to what is held.
LEMMA AddsHolds ==
  ASSUME TypeOK, NEW r \in Batches, Adds(r)
  PROVE  Held' = {platoon[i] : i \in DOMAIN platoon} \cup {r} \cup ({kept'} \ {EOS})
<1> DEFINE m == Len(platoon)
<1>1. DOMAIN platoon = 1..m /\ m \in Nat
  BY Elements
<1>2. /\ DOMAIN platoon' = 1..(m + 1) /\ platoon'[m + 1] = r
      /\ \A i \in 1..m : platoon'[i] = platoon[i]
  BY AppendIn DEF Adds, TypeOK
<1> HIDE DEF m
<1>3. \A i \in 1..(m + 1) : i \in 1..m \/ i = m + 1
  BY <1>1
<1>4. m + 1 \in 1..(m + 1) /\ \A i \in 1..m : i \in 1..(m + 1)
  BY <1>1
<1>5. {platoon'[i] : i \in 1..(m + 1)} = {platoon[i] : i \in 1..m} \cup {r}
  BY <1>2, <1>3, <1>4
<1>6. QED BY <1>1, <1>2, <1>5 DEF Held

\* What is known of the platoons that have ended stays, if only the caller's and
\* later ones change.
LEMMA EachStays ==
  ASSUME TypeOK, EachOuterValue, UNCHANGED <<g, cplat>>, quits \subseteq quits', dropped' \subseteq quits',
         \A k \in 1..cplat - 1 : DueNext(k) = Due(k) /\ DeliveredNext(k) = Delivered(k)
  PROVE  EachOuterValue'
<1> SUFFICES ASSUME NEW k \in 1..cplat - 1, k \notin quits', g.source = "original" => k = 1
             PROVE  k \notin dropped' /\ DeliveredNext(k) = DueNext(k)
  BY DEF EachOuterValue, Delivered, DeliveredNext, Due, DueNext, SubOutput
<1>1. k \notin quits
  OBVIOUS
<1>2. Delivered(k) = Due(k)
  BY <1>1 DEF EachOuterValue
<1>3. QED BY <1>2

\* What is on its way for the caller's platoon, after a step.
WayNext == DeliveredNext(cplat) \cup Held' \cup Offered'

Later == ePC # "stop" /\ sPC # "end" => \A b \in read : b[1] > cplat => sPC = "batch" /\ b = sRes

LEMMA ConserveParts ==
  ASSUME cplat' = cplat, EachOuterValue', HistoryInv', Later',
         EndComes' => DueNext(cplat) = WayNext
  PROVE  ConserveInv'
  BY DEF ConserveInv, Later, WayNext, Delivered, DeliveredNext, Due, DueNext, SubOutput

\* A step that keeps what was read, filtered and delivered.
LEMMA ConserveStays ==
  ASSUME TypeOK, ConserveInv, Forward, UNCHANGED <<g, read, cut, got, cplat, dropped>>,
         quits \subseteq quits', ~g.dones => quits' = quits,
         sPC' = "batch" => sPC = "batch" /\ sRes' = sRes,
         EndComes' => EndComes /\ Held' \cup Offered' = Held \cup Offered,
         Later'
  PROVE  ConserveInv'
<1>1. \A k : DueNext(k) = Due(k) /\ DeliveredNext(k) = Delivered(k)
  BY DueStays, DeliveredStays
<1>2. EachOuterValue'
  BY <1>1, EachStays DEF ConserveInv, HistoryInv
<1>3. HistoryInv'
  <2>1. \A b \in cut : BehindNext(b)
    BY DEF Forward, ConserveInv, HistoryInv, TypeOK
  <2>2. QED BY <2>1 DEF ConserveInv, HistoryInv, Behind, BehindNext
<1>4. EndComes' => DueNext(cplat) = WayNext
  BY <1>1 DEF ConserveInv, WayNext
<1>5. QED BY <1>2, <1>3, <1>4, ConserveParts

LEMMA LaterStays ==
  ASSUME ConserveInv, UNCHANGED <<read, cplat>>,
         ePC' # "stop" /\ sPC' # "end" => ePC # "stop" /\ sPC # "end",
         sPC = "batch" => sPC' \in {"batch", "end"} /\ sRes' = sRes
  PROVE  Later'
  BY DEF ConserveInv, Later

\* The Scope holds nothing for the caller's platoon unless it has a batch of it.
LEMMA NothingOffered ==
  ASSUME sPC = "batch" => sRes[1] # cplat, BaseInv
  PROVE  Offered = {}
<1>1. CASE sPC # "batch"
  BY <1>1 DEF Offered
<1>2. CASE sPC = "batch"
  <2>1. \A b \in SubOutput({sRes}) : b[1] = sRes[1]
    BY DEF SubOutput, Second
  <2>2. QED BY <1>2, <2>1 DEF Offered
<1>3. QED BY <1>1, <1>2

LEMMA AllOffered ==
  ASSUME sPC = "batch", sRes[1] = cplat
  PROVE  Offered = SubOutput({sRes})
<1>1. \A b \in SubOutput({sRes}) : b[1] = sRes[1]
  BY DEF SubOutput, Second
<1>2. QED BY <1>1 DEF Offered

\* A delivery.
LEMMA ConserveDelivers ==
  ASSUME BaseInv, ConserveInv, Delivers, kept' = kept, UNCHANGED <<g, read, cut, dropped>>,
         Forward, ePC # "stop", sPC' # "end" => sPC # "end", token' = token,
         (sPC = "batch" \/ sPC' = "batch") => UNCHANGED <<sPC, sRes>>
  PROVE  ConserveInv'
<1>0. TypeOK /\ UNCHANGED <<cplat, quits>>
  BY DEF BaseInv, Delivers
<1>1. \A k : DueNext(k) = Due(k)
  BY DueStays
<1>2. EachOuterValue'
  <2>1. \A k \in 1..cplat - 1 : k # cplat
    BY DEF BaseInv, TypeOK
  <2>2. QED BY <1>0, <1>1, <2>1, DeliversMoves, EachStays DEF ConserveInv, HistoryInv
<1>3. HistoryInv'
  <2>1. \A b \in cut : BehindNext(b)
    BY <1>0 DEF Forward, ConserveInv, HistoryInv, TypeOK
  <2>2. \A i \in DOMAIN got' : got'[i][2] <= cplat
    BY <1>0, DeliversMoves DEF ConserveInv, HistoryInv, TypeOK
  <2>3. QED BY <1>0, <2>1, <2>2 DEF ConserveInv, HistoryInv, Behind, BehindNext
<1>4. Later'
  BY <1>0, LaterStays
<1>5. EndComes' => EndComes
  BY <1>0 DEF EndComes, Last
<1>6. Offered' = Offered
  BY <1>0 DEF Offered, SubOutput
<1>7. EndComes' => DueNext(cplat) = WayNext
  BY <1>0, <1>1, <1>5, <1>6, DeliversMoves DEF ConserveInv, WayNext
<1>8. QED BY <1>0, <1>2, <1>3, <1>4, <1>7, ConserveParts

LEMMA ConserveInit == Init => ConserveInv
<1> SUFFICES ASSUME Init PROVE ConserveInv
  OBVIOUS
<1>1. DOMAIN got = {} /\ DOMAIN platoon = {} /\ read = {} /\ kept = EOS /\ sPC = "off" /\ cplat = 1
  BY DEF Init
<1>2. Due(cplat) = {} /\ Delivered(cplat) = {} /\ Held = {} /\ Offered = {}
  BY <1>1 DEF Due, SubOutput, Delivered, Held, Offered
<1>3. EachOuterValue
  BY <1>1 DEF EachOuterValue
<1>4. HistoryInv
  BY <1>1 DEF HistoryInv, Init
<1>5. QED BY <1>1, <1>2, <1>3, <1>4 DEF ConserveInv

\* Over gives the Scope a batch of the caller's platoon or of the next.
LEMMA ConserveBatch ==
  ASSUME BaseInv, ConserveInv, OverPull, sPC' = "batch", Forward
  PROVE  ConserveInv'
<1>0. TypeOK
  BY DEF BaseInv
<1>1. /\ ~SourceEnded /\ sPC = "top" /\ sRes' = <<plat, nv + 1, 1>> /\ read' = read \cup {sRes'}
      /\ UNCHANGED <<g, cut, got, cplat, dropped, quits, platoon, kept, ePC, plat, token>>
      /\ nv' = nv + 1
  BY DEF OverPull, subVars, callVars
<1> DEFINE r == sRes'
<1>2. r[1] = plat /\ r[2] = nv + 1 /\ plat \in Nat /\ nv \in Nat /\ cplat \in Nat
  BY <1>0, <1>1, BoundsAssumption DEF TypeOK
<1>3. r \notin cut
  BY <1>0, <1>1, <1>2 DEF ConserveInv, HistoryInv, Behind
<1>4. plat = cplat + Ahead /\ Ahead \in {0, 1}
  BY <1>1 DEF BaseInv, SyncInv, Ahead
<1> HIDE DEF r
<1>5. /\ \A k : k # r[1] => DueNext(k) = Due(k)
      /\ DueNext(r[1]) = Due(r[1]) \cup SubOutput({r})
  BY <1>1, <1>3, DueRead DEF r
<1>6. \A k : DeliveredNext(k) = Delivered(k)
  BY <1>1, DeliveredStays
<1>7. EachOuterValue'
  <2>1. \A k \in 1..cplat - 1 : k # r[1]
    BY <1>2, <1>4
  <2>2. QED BY <1>0, <1>1, <1>5, <1>6, <2>1, EachStays DEF ConserveInv, HistoryInv
<1>8. HistoryInv'
  <2>1. \A b \in cut : BehindNext(b)
    BY <1>0 DEF Forward, ConserveInv, HistoryInv, TypeOK
  <2>2. g.source = "original" => r[1] = 1
    BY <1>0, <1>1, <1>2 DEF SourceEnded, Last, TypeOK
  <2>3. QED BY <1>1, <2>1, <2>2 DEF ConserveInv, HistoryInv, Behind, BehindNext, r
<1>9. Later'
  BY <1>1 DEF ConserveInv, Later
<1>10. EndComes' => EndComes
  BY <1>1 DEF EndComes, Last
<1>11. Held' = Held /\ Offered = {}
  BY <1>1 DEF Held, Offered
<1>12. Offered' = {b \in SubOutput({r}) : b[1] = cplat} /\ \A b \in SubOutput({r}) : b[1] = r[1]
  BY <1>1 DEF Offered, SubOutput, Second, r
<1>13. EndComes' => DueNext(cplat) = WayNext
  <2>1. CASE r[1] = cplat
    BY <1>5, <1>6, <1>10, <1>11, <1>12, <2>1 DEF ConserveInv, WayNext
  <2>2. CASE r[1] # cplat
    BY <1>5, <1>6, <1>10, <1>11, <1>12, <2>2 DEF ConserveInv, WayNext
  <2>3. QED BY <2>1, <2>2
<1>14. QED BY <1>1, <1>7, <1>8, <1>9, <1>13, ConserveParts

\* A batch waits while the token of an end is on its way: it is of the platoon
\* after the caller's.
LEMMA BatchAhead ==
  ASSUME BaseInv, sPC = "batch", token
  PROVE  sRes[1] = cplat + 1 /\ sRes[1] # cplat
<1>1. plat = cplat + 1
  BY DEF BaseInv, SyncInv, Ahead, TypeOK
<1>2. QED BY <1>1, ScopeBatch DEF BaseInv, TypeOK

LEMMA ConserveScope ==
  ASSUME BaseInv, ConserveInv, ScopeRun, Forward
  PROVE  ConserveInv'
<1>0. TypeOK
  BY DEF BaseInv
<1>1. CASE OverPull /\ sPC' # "batch"
  <2>1. UNCHANGED <<g, read, cut, got, cplat, dropped, quits, platoon, kept, ePC, token>>
    BY <1>1 DEF OverPull, subVars, callVars
  <2>2. sPC = "top" /\ sPC' = "token"
    BY <1>1 DEF OverPull
  <2>3. Held' = Held /\ Offered = {} /\ Offered' = {}
    BY <2>1, <2>2 DEF Held, Offered
  <2>4. EndComes' => EndComes
    BY <2>1, <2>2 DEF EndComes, Last
  <2>5. QED BY <1>0, <2>1, <2>2, <2>3, <2>4, LaterStays, ConserveStays
<1>2. CASE OverPull /\ sPC' = "batch"
  BY <1>2, ConserveBatch
<1>3. CASE SendToken
  <2>1. /\ UNCHANGED <<g, read, cut, got, cplat, dropped, quits, platoon, kept, ePC>>
        /\ sPC = "token" /\ sPC' = "eos"
    BY <1>3 DEF SendToken, srcVars, subVars, callVars
  <2>2. Held' = Held /\ Offered = {} /\ Offered' = {}
    BY <2>1 DEF Held, Offered
  <2>3. EndComes' => EndComes
    BY <2>1 DEF EndComes, Last
  <2>4. QED BY <1>0, <2>1, <2>2, <2>3, LaterStays, ConserveStays
<1>4. CASE ScopeCancelled
  <2>1. /\ UNCHANGED <<g, read, cut, got, cplat, dropped, quits, platoon, kept, ePC, token, sRes>>
        /\ sPC # "end" /\ sPC' = "end"
    BY <1>4 DEF ScopeCancelled, srcVars, subVars, callVars
  <2>2. Held' = Held /\ Offered' = {}
    BY <2>1 DEF Held, Offered
  <2>3. EndComes' => EndComes /\ token
    BY <2>1 DEF EndComes, Last
  <2>4. token => Offered = {}
    BY BatchAhead, NothingOffered
  <2>5. QED BY <1>0, <2>1, <2>2, <2>3, <2>4, LaterStays, ConserveStays
<1>5. QED BY <1>1, <1>2, <1>3, <1>4 DEF ScopeRun

LEMMA ConserveSubPull ==
  ASSUME BaseInv, ConserveInv, SubPull, Forward
  PROVE  ConserveInv'
<1>0. TypeOK
  BY DEF BaseInv
<1>1. CASE SubGivesKept
  <2>1. /\ UNCHANGED <<g, read, cut, got, cplat, dropped, quits, token, sPC, sRes>>
        /\ ePC = "sub" /\ kept # EOS /\ kept' = EOS /\ Adds(kept) /\ kept \in Batches
    BY <1>0, <1>1 DEF SubGivesKept, srcVars, scopeVars, Adds, TypeOK
  <2>2. Held' = Held
    BY <1>0, <2>1, AddsHolds DEF Held
  <2>3. Offered' = Offered
    BY <2>1 DEF Offered, SubOutput
  <2>4. EndComes' => EndComes
    BY <2>1 DEF EndComes, Last
  <2>5. QED BY <1>0, <2>1, <2>2, <2>3, <2>4, LaterStays, ConserveStays
<1>2. CASE SubGivesEOS
  BY <1>2, ConserveDelivers DEF SubGivesEOS, srcVars, scopeVars
<1>3. CASE SubAsks
  <2>1. /\ UNCHANGED <<g, read, cut, got, cplat, dropped, quits, token, sRes, platoon, kept>>
        /\ ePC = "sub" /\ sPC' = IF sPC = "off" THEN "top" ELSE sPC
    BY <1>3 DEF SubAsks, srcVars, subVars
  <2>2. Held' = Held /\ Offered' = Offered
    BY <2>1 DEF Held, Offered, SubOutput
  <2>3. EndComes' => EndComes
    BY <2>1 DEF EndComes, Last
  <2>4. QED BY <1>0, <2>1, <2>2, <2>3, LaterStays, ConserveStays
<1>4. QED BY <1>1, <1>2, <1>3, SubPullCases

LEMMA ConserveSendBatch ==
  ASSUME BaseInv, NoNestedDones, OrderInv, ConserveInv, SendBatch, Forward
  PROVE  ConserveInv'
<1>0. TypeOK
  BY DEF BaseInv
<1>1. /\ sPC = "batch" /\ ePC = "pull" /\ sPC' = "eos" /\ UNCHANGED <<g, read, dropped, plat, nv, token>>
  BY DEF SendBatch, srcVars
<1>2. platoon = <<>> /\ kept = EOS /\ DOMAIN platoon = {}
  BY <1>1, AtSend
<1>3. sRes \in Batches /\ sRes # EOS /\ sRes[1] = cplat /\ sRes = <<plat, nv, 1>> /\ cplat \in Nat
  BY <1>0, <1>1, ScopeBatch, AtSend, Distinct, BoundsAssumption DEF TypeOK
<1>4. Offered = SubOutput({sRes}) /\ Offered' = {}
  BY <1>1, <1>3, AllOffered DEF Offered
<1>5. Held = {}
  BY <1>2 DEF Held
<1>6. ASSUME cplat' = cplat PROVE Later'
  BY <1>1, <1>3, <1>6 DEF ConserveInv, Later
<1>7. CASE BatchPasses /\ g.sub \in {"pass", "filter"}
  <2>1. UNCHANGED <<got, cplat, quits, cut, kept>> /\ Adds(sRes)
    BY <1>7 DEF BatchPasses, Adds, subVars
  <2>2. Held' = {sRes}
    BY <1>0, <1>2, <1>3, <2>1, AddsHolds
  <2>3. Offered = {sRes}
    BY <1>4, <1>7 DEF SubOutput
  <2>4. EndComes' => EndComes
    BY <1>1, <2>1 DEF EndComes, Last
  <2>5. QED BY <1>0, <1>1, <1>4, <1>5, <1>6, <2>1, <2>2, <2>3, <2>4, ConserveStays
<1>8. CASE BatchDoubles
  <2>1. UNCHANGED <<got, cplat, quits, cut>> /\ Adds(sRes) /\ kept' = Second(sRes)
    BY <1>8 DEF BatchDoubles, Adds
  <2>2. Second(sRes) # EOS
    BY <1>3 DEF Second, EOS
  <2>3. Held' = {sRes, Second(sRes)}
    BY <1>0, <1>2, <1>3, <2>1, <2>2, AddsHolds
  <2>4. Offered = {sRes, Second(sRes)}
    BY <1>4, <1>8 DEF SubOutput, BatchDoubles
  <2>5. EndComes' => EndComes
    BY <1>1, <2>1 DEF EndComes, Last
  <2>6. QED BY <1>0, <1>1, <1>4, <1>5, <1>6, <2>1, <2>3, <2>4, <2>5, ConserveStays
<1>9. CASE HeadTakes
  <2>1. UNCHANGED <<got, cplat, quits, cut, platoon>> /\ kept' = sRes
    BY <1>9 DEF HeadTakes
  <2>2. Held' = {sRes}
    BY <1>2, <1>3, <2>1 DEF Held
  <2>3. Offered = {sRes}
    BY <1>4, <1>9 DEF SubOutput, HeadTakes
  <2>4. EndComes' => EndComes
    BY <1>1, <2>1 DEF EndComes, Last
  <2>5. QED BY <1>0, <1>1, <1>4, <1>5, <1>6, <2>1, <2>2, <2>3, <2>4, ConserveStays
<1>10. CASE BatchIsCut
  <2>1. /\ UNCHANGED <<got, cplat, quits, platoon, kept, ePC>> /\ cut' = cut \cup {sRes}
        /\ g.sub = "filter"
    BY <1>10 DEF BatchIsCut, callVars
  <2>2. /\ \A k : k # cplat => DueNext(k) = Due(k)
        /\ DueNext(cplat) = Due(cplat) \ {sRes}
    BY <1>1, <1>3, <2>1, DueCut
  <2>3. \A k : DeliveredNext(k) = Delivered(k)
    BY <2>1, DeliveredStays
  <2>4. EachOuterValue'
    <3>1. \A k \in 1..cplat - 1 : k # cplat
      BY <1>3
    <3>2. QED BY <1>0, <1>1, <2>1, <2>2, <2>3, <3>1, EachStays DEF ConserveInv, HistoryInv
  <2>5. HistoryInv'
    <3>1. \A b \in cut : BehindNext(b)
      BY <1>0 DEF Forward, ConserveInv, HistoryInv, TypeOK
    <3>2. BehindNext(sRes)
      BY <1>1, <1>3 DEF BehindNext
    <3>3. QED BY <1>1, <2>1, <3>1, <3>2 DEF ConserveInv, HistoryInv, Behind, BehindNext
  <2>6. sRes \notin Delivered(cplat)
    <3>1. \A i \in DOMAIN got : Behind(got[i][1])
      BY DEF OrderInv
    <3>2. ~Behind(sRes)
      BY <1>0, <1>1, <1>3, BoundsAssumption DEF Behind, TypeOK
    <3>3. QED BY <3>1, <3>2 DEF Delivered
  <2>7. Offered = {sRes} /\ Held' = {}
    BY <1>2, <1>4, <2>1 DEF SubOutput, Held
  <2>8. EndComes' => EndComes
    BY <1>1, <2>1 DEF EndComes, Last
  <2>9. EndComes' => DueNext(cplat) = WayNext
    BY <1>4, <1>5, <2>2, <2>3, <2>6, <2>7, <2>8 DEF ConserveInv, WayNext
  <2>10. QED BY <1>6, <2>1, <2>4, <2>5, <2>9, ConserveParts
<1>11. QED BY <1>7, <1>8, <1>9, <1>10, SendBatchCases

\* Only the source of a lake or a file, which has one platoon, gets dones.
LEMMA DonesOfOriginal ==
  ASSUME TypeOK, NoNestedDones, g.dones
  PROVE  g.source = "original"
<1>1. g.source \in {"original", "platoons"}
  BY GraphsAssumption DEF TypeOK
<1>2. QED BY <1>1 DEF TypeOK, NoNestedDones

\* A platoon that the caller has ended with a done: the source has no other.
LEMMA ConserveQuits ==
  ASSUME BaseInv, NoNestedDones, ConserveInv, EOSArrives, isDone, EndsPlatoon, Forward
  PROVE  ConserveInv'
<1>0. TypeOK /\ cplat \in Nat /\ cplat >= 1 /\ MaxPlatoons \in Nat /\ MaxPlatoons >= 1
  BY BoundsAssumption DEF BaseInv, TypeOK
<1>1. g.source = "original" /\ cplat \in quits
  <2>1. g.dones /\ cplat \in quits
    BY DEF EOSArrives, BaseInv, DoneInv
  <2>2. QED BY <1>0, <2>1, DonesOfOriginal
<1>2. /\ UNCHANGED <<g, read, cut, got, dropped, quits, plat, nv>>
      /\ cplat' = (IF cplat <= MaxPlatoons THEN cplat + 1 ELSE cplat) /\ sPC' = "top"
  BY DEF EOSArrives, EndsPlatoon, Ends, srcVars, subVars
<1>3. cplat' > 1 /\ cplat' >= cplat /\ (1..cplat' - 1) \ {cplat} \subseteq 1..cplat - 1
  BY <1>0, <1>2
<1>4. EachOuterValue'
  <2> SUFFICES ASSUME NEW k \in 1..cplat' - 1, k \notin quits, k = 1
               PROVE  k \notin dropped /\ Delivered(k) = Due(k)
    BY <1>1, <1>2 DEF EachOuterValue, Delivered, Due, SubOutput
  <2>1. k \in 1..cplat - 1
    BY <1>1, <1>3
  <2>2. QED BY <2>1 DEF ConserveInv, EachOuterValue
<1>5. HistoryInv'
  <2>1. \A b \in cut : BehindNext(b)
    BY <1>0 DEF Forward, ConserveInv, HistoryInv, TypeOK
  <2>2. \A i \in DOMAIN got : got[i][2] <= cplat'
    <3>1. \A i \in DOMAIN got : got[i][2] \in Nat /\ got[i][2] <= cplat
      BY <1>0, Elements DEF ConserveInv, HistoryInv
    <3>2. QED BY <1>0, <1>2, <3>1
  <2>3. QED BY <1>2, <2>1, <2>2 DEF ConserveInv, HistoryInv, Behind, BehindNext
<1>6. ~EndComes'
  BY <1>1, <1>2, <1>3 DEF EndComes, Last
<1>7. \A b \in read' : ~(b[1] > cplat')
  BY <1>1, <1>2, <1>3 DEF ConserveInv, HistoryInv
<1>8. QED BY <1>4, <1>5, <1>6, <1>7 DEF ConserveInv

LEMMA ConserveSendEOS ==
  ASSUME BaseInv, NoNestedDones, ConserveInv, SendEOS, Forward
  PROVE  ConserveInv'
<1>0. TypeOK
  BY DEF BaseInv
<1>1. /\ UNCHANGED <<g, read, cut, dropped, token, kept>> /\ ePC = "pull"
      /\ sPC = "eos" /\ sPC' = "top" /\ Offered = {} /\ Offered' = {}
  <2>1. UNCHANGED <<g, read, dropped, token>> /\ ePC = "pull" /\ sPC = "eos" /\ sPC' = "top"
    BY DEF SendEOS, srcVars
  <2>2. UNCHANGED <<cut, kept>>
    BY SendEOSCases DEF EOSArrives, ErrorArrives, subVars
  <2>3. QED BY <2>1, <2>2 DEF Offered
<1>2. CASE EOSArrives /\ Polls
  <2>1. UNCHANGED <<got, cplat, quits, platoon>>
    BY <1>2 DEF Polls
  <2>2. Held' = Held
    BY <1>1, <2>1 DEF Held
  <2>3. EndComes' => EndComes
    BY <1>1, <2>1 DEF EndComes, Last
  <2>4. QED BY <1>0, <1>1, <2>1, <2>2, <2>3, LaterStays, ConserveStays
<1>3. CASE EOSArrives /\ platoon # <<>> /\ isDone /\ EndsPlatoon
  BY <1>3, ConserveQuits
<1>4. CASE EOSArrives /\ ~isDone /\ Delivers
  BY <1>1, <1>4, ConserveDelivers
<1>5. CASE ErrorArrives
  <2>1. UNCHANGED <<got, cplat, quits>> /\ ePC' = "stop"
    BY <1>5 DEF ErrorArrives, Stops
  <2>2. ~EndComes' /\ Later'
    BY <2>1 DEF EndComes, Later
  <2>3. QED BY <1>0, <1>1, <2>1, <2>2, ConserveStays
<1>6. QED BY <1>2, <1>3, <1>4, <1>5, SendEOSCases

LEMMA ConserveDones ==
  ASSUME BaseInv, NoNestedDones, ConserveInv, ExitDone \/ SubDone \/ SubDoneAcked, Forward
  PROVE  ConserveInv'
<1>0. TypeOK /\ cplat \in Nat /\ plat \in Nat /\ cplat >= 1
  BY BoundsAssumption DEF BaseInv, TypeOK
<1>1. CASE ExitDone
  <2>1. /\ UNCHANGED <<g, read, cut, got, cplat, quits>> /\ sPC' = "eos"
        /\ dropped' = IF SourceEnded THEN dropped ELSE dropped \cup {plat}
    BY <1>1 DEF ExitDone, subVars
  <2>2. g.source = "original" /\ cplat \in quits
    <3>1. g.dones /\ cplat \in quits
      BY <1>1 DEF ExitDone, BaseInv, DoneInv
    <3>2. QED BY <1>0, <3>1, DonesOfOriginal
  <2>3. ~SourceEnded => plat = cplat
    <3> SUFFICES ASSUME ~SourceEnded PROVE plat = cplat
      OBVIOUS
    <3>1. plat = cplat + Ahead /\ plat <= 1
      BY <1>0, <1>1, <2>2 DEF ExitDone, BaseInv, SyncInv, SourceEnded, Last
    <3>2. Ahead \in {0, 1, 2}
      BY DEF Ahead
    <3>3. QED BY <1>0, <3>1, <3>2
  <2>4. dropped' \subseteq quits
    BY <2>1, <2>2, <2>3 DEF ConserveInv, HistoryInv
  <2>5. \A k : DueNext(k) = Due(k) /\ DeliveredNext(k) = Delivered(k)
    BY <2>1, DueStays, DeliveredStays
  <2>6. EachOuterValue'
    BY <1>0, <2>1, <2>4, <2>5, EachStays DEF ConserveInv
  <2>7. HistoryInv'
    <3>1. \A b \in cut : BehindNext(b)
      BY <1>0 DEF Forward, ConserveInv, HistoryInv, TypeOK
    <3>2. QED BY <2>1, <2>4, <3>1 DEF ConserveInv, HistoryInv, Behind, BehindNext
  <2>8. ~EndComes'
    BY <1>0, <2>1, <2>2 DEF EndComes, Last
  <2>9. Later'
    <3>1. \A b \in read : b[1] = 1
      BY <2>2 DEF ConserveInv, HistoryInv
    <3>2. QED BY <1>0, <2>1, <3>1 DEF Later
  <2>10. QED BY <2>1, <2>6, <2>7, <2>8, <2>9, ConserveParts
<1>2. CASE SubDone
  <2>1. sPC = "eos" /\ ePC = "subdone"
    BY <1>2 DEF SubDone, BaseInv, SubInv, Inner
  <2>2. /\ UNCHANGED <<g, read, cut, got, cplat, dropped, quits, token, sPC, sRes, platoon, kept>>
        /\ ePC' = "subeos"
    BY <1>2, <2>1 DEF SubDone, srcVars, subVars
  <2>3. Held' = Held /\ Offered' = Offered
    BY <2>2 DEF Held, Offered, SubOutput
  <2>4. EndComes' => EndComes
    BY <2>1, <2>2 DEF EndComes, Last
  <2>5. QED BY <1>0, <2>1, <2>2, <2>3, <2>4, LaterStays, ConserveStays
<1>3. CASE SubDoneAcked
  <2>1. HeadAcked
    BY <1>3, SubDoneAckedCases
  <2>2. /\ UNCHANGED <<g, read, cut, got, cplat, dropped, quits, token>>
        /\ kept \in Batches /\ kept # EOS /\ Adds(kept) /\ kept' = EOS
        /\ ePC = "subeos" /\ ePC' = "sub" /\ sPC = "eos" /\ sPC' = "top"
    BY <2>1, Distinct DEF HeadAcked, Ends, Adds, srcVars
  <2>3. Held' = Held
    BY <1>0, <2>2, AddsHolds DEF Held
  <2>4. Offered = {} /\ Offered' = {}
    BY <2>2 DEF Offered
  <2>5. EndComes' => EndComes
    BY <2>2 DEF EndComes, Last
  <2>6. QED BY <1>0, <2>2, <2>3, <2>4, <2>5, LaterStays, ConserveStays
<1>4. QED BY <1>1, <1>2, <1>3

\* The Exit takes the token: all of the platoon has been delivered, and of the next
\* one the Scope has at most one batch.
LEMMA ConservePollEnds ==
  ASSUME BaseInv, NoNestedDones, ConserveInv, PollEnds, Forward
  PROVE  ConserveInv'
<1>0. TypeOK /\ cplat \in Nat /\ cplat >= 1 /\ MaxPlatoons \in Nat /\ MaxPlatoons >= 1 /\ plat \in Nat
  BY BoundsAssumption DEF BaseInv, TypeOK
<1>1. /\ UNCHANGED <<g, read, cut, got, dropped, quits, plat, nv, sPC, sRes, kept>>
      /\ cplat' = (IF cplat <= MaxPlatoons THEN cplat + 1 ELSE cplat)
      /\ token /\ ~token' /\ platoon' = <<>> /\ ePC = "poll" /\ ePC' = "idle"
  BY DEF PollEnds, EndsPlatoon, srcVars, subVars
<1>2. platoon = <<>> /\ kept = EOS
  BY <1>1 DEF BaseInv, SubInv
<1>3. Held = {} /\ Held' = {} /\ Offered = {}
  <2>1. DOMAIN platoon = {} /\ DOMAIN platoon' = {}
    BY <1>1, <1>2
  <2>2. Held = {} /\ Held' = {}
    BY <1>1, <1>2, <2>1 DEF Held
  <2>3. QED BY <1>1, <2>2, BatchAhead, NothingOffered
<1>4. \A k : DueNext(k) = Due(k) /\ DeliveredNext(k) = Delivered(k)
  BY <1>1, DueStays, DeliveredStays
<1>5. ASSUME cplat \notin quits, cplat <= MaxPlatoons, g.source = "original" => cplat = 1
      PROVE  Delivered(cplat) = Due(cplat)
  <2>1. 1 \notin quits
    <3>1. CASE g.dones
      BY <1>0, <1>5, <3>1, DonesOfOriginal
    <3>2. CASE ~g.dones
      BY <3>2 DEF ConserveInv, HistoryInv
    <3>3. QED BY <3>1, <3>2
  <2>2. cplat <= Last
    BY <1>0, <1>5 DEF Last
  <2>3. EndComes
    BY <1>1, <2>1, <2>2 DEF EndComes
  <2>4. QED BY <1>3, <2>3 DEF ConserveInv
<1>6. EachOuterValue'
  <2> SUFFICES ASSUME NEW k \in 1..cplat' - 1, k \notin quits, g.source = "original" => k = 1
               PROVE  k \notin dropped /\ DeliveredNext(k) = DueNext(k)
    BY <1>1 DEF EachOuterValue, Delivered, DeliveredNext, Due, DueNext, SubOutput
  <2>1. CASE k = cplat
    <3>1. cplat <= MaxPlatoons
      BY <1>0, <1>1, <2>1
    <3>2. QED BY <1>4, <1>5, <2>1, <3>1 DEF ConserveInv, HistoryInv
  <2>2. CASE k # cplat
    <3>1. k \in 1..cplat - 1
      BY <1>0, <1>1, <2>2
    <3>2. QED BY <1>4, <3>1 DEF ConserveInv, EachOuterValue
  <2>3. QED BY <2>1, <2>2
<1>7. HistoryInv'
  <2>1. \A b \in cut : BehindNext(b)
    BY <1>0 DEF Forward, ConserveInv, HistoryInv, TypeOK
  <2>2. \A i \in DOMAIN got : got[i][2] <= cplat'
    <3>1. \A i \in DOMAIN got : got[i][2] \in Nat /\ got[i][2] <= cplat
      BY <1>0, Elements DEF ConserveInv, HistoryInv
    <3>2. QED BY <1>0, <1>1, <3>1
  <2>3. QED BY <1>1, <2>1, <2>2 DEF ConserveInv, HistoryInv, Behind, BehindNext
<1>8. Later'
  <2>1. \A b \in read : b[1] \in Nat
    BY <1>0, BatchParts, BoundsAssumption DEF TypeOK
  <2>2. \A b \in read : b[1] > cplat' => b[1] > cplat
    BY <1>0, <1>1, <2>1
  <2>3. QED BY <1>1, <2>2 DEF ConserveInv, Later
<1>9. ASSUME EndComes' PROVE Due(cplat + 1) = Offered' /\ Delivered(cplat + 1) = {} /\ cplat' = cplat + 1
  <2>1. cplat' <= Last /\ sPC # "end" /\ Last <= MaxPlatoons
    BY <1>0, <1>1, <1>9 DEF EndComes, Last
  <2>2. cplat' = cplat + 1
    BY <1>0, <1>1, <2>1 DEF Last
  <2>3. Delivered(cplat + 1) = {}
    <3>1. \A i \in DOMAIN got : got[i][2] # cplat + 1
      BY <1>0, Elements DEF ConserveInv, HistoryInv
    <3>2. QED BY <3>1 DEF Delivered
  <2>4. \A b \in read : b[1] = cplat + 1 => sPC = "batch" /\ b = sRes
    BY <1>0, <1>1, <2>1 DEF ConserveInv
  <2>5. CASE sPC = "batch"
    <3>1. sRes \in read /\ sRes[1] = cplat + 1
      BY <1>1, <2>5, BatchAhead DEF ConserveInv, HistoryInv
    <3>2. ~Behind(sRes)
      <4>1. sRes = <<plat, nv, 1>> /\ nv \in Nat
        BY <1>0, <2>5, ScopeBatch, BoundsAssumption DEF TypeOK
      <4>2. QED BY <1>0, <2>5, <4>1 DEF Behind
    <3>3. sRes \notin cut
      BY <3>2 DEF ConserveInv, HistoryInv
    <3>4. {b \in read : b[1] = cplat + 1} \ cut = {sRes}
      BY <2>4, <3>1, <3>3
    <3>5. Due(cplat + 1) = SubOutput({sRes})
      BY <3>4 DEF Due
    <3>6. \A b \in SubOutput({sRes}) : b[1] = cplat + 1
      BY <3>1 DEF SubOutput, Second
    <3>7. Offered' = {b \in SubOutput({sRes}) : b[1] = cplat + 1}
      BY <1>1, <2>2, <2>5 DEF Offered, SubOutput
    <3>8. QED BY <2>2, <2>3, <3>5, <3>6, <3>7
  <2>6. CASE sPC # "batch"
    <3>1. {b \in read : b[1] = cplat + 1} \ cut = {}
      BY <2>4, <2>6
    <3>2. Due(cplat + 1) = {}
      BY <3>1 DEF Due, SubOutput
    <3>3. QED BY <1>1, <2>2, <2>3, <2>6, <3>2 DEF Offered
  <2>7. QED BY <2>5, <2>6
<1>10. EndComes' => (Due(cplat) = Delivered(cplat) \cup Held \cup Offered)'
  <2> SUFFICES ASSUME EndComes' PROVE DueNext(cplat') = DeliveredNext(cplat') \cup Held' \cup Offered'
    BY DEF Due, DueNext, Delivered, DeliveredNext, SubOutput
  <2>1. QED BY <1>3, <1>4, <1>9
<1>11. QED BY <1>6, <1>7, <1>8, <1>10 DEF ConserveInv, Later

LEMMA ConserveCalls ==
  ASSUME BaseInv, NoNestedDones, ConserveInv, Forward,
         Poll \/ ExitPull \/ ExitPullDone \/ Cancel \/ CallCancelled \/ UNCHANGED vars
  PROVE  ConserveInv'
<1>0. TypeOK
  BY DEF BaseInv
<1>1. CASE PollEnds
  BY <1>1, ConservePollEnds
<1>2. CASE PullDelivers
  BY <1>2, ConserveDelivers DEF PullDelivers, srcVars, scopeVars, subVars
<1>3. CASE CallCancelled
  <2>1. /\ UNCHANGED <<g, read, cut, got, cplat, dropped, quits, sPC, sRes>> /\ ePC' = "stop"
    BY <1>3 DEF CallCancelled, srcVars, scopeVars, subVars
  <2>2. ~EndComes' /\ Later'
    BY <2>1 DEF EndComes, Later
  <2>3. QED BY <1>0, <2>1, <2>2, ConserveStays
<1>4. CASE PollAgain \/ PullStarts \/ ExitPullDone \/ Cancel \/ UNCHANGED vars
  <2>1. /\ UNCHANGED <<g, read, cut, got, cplat, dropped, sPC, sRes, token, platoon, kept>>
        /\ quits \subseteq quits' /\ (~g.dones => quits' = quits)
        /\ ePC' # "stop" => ePC # "stop"
    BY <1>4 DEF PollAgain, PullStarts, ExitPullDone, Cancel, vars, srcVars, scopeVars, subVars, callVars
  <2>2. Held' = Held /\ Offered' = Offered
    BY <2>1 DEF Held, Offered, SubOutput
  <2>3. EndComes' => EndComes
    BY <2>1 DEF EndComes, Last
  <2>4. QED BY <1>0, <2>1, <2>2, <2>3, LaterStays, ConserveStays
<1>5. QED BY <1>0, <1>1, <1>2, <1>3, <1>4, PollCases, ExitPullCases

LEMMA ConserveStep ==
  ASSUME BaseInv, NoNestedDones, OrderInv, ConserveInv, [Next]_vars
  PROVE  ConserveInv'
<1>1. Forward
  BY StepsForward
<1>2. QED
  BY <1>1, ConserveScope, ConserveSubPull, ConserveSendBatch, ConserveSendEOS, ConserveDones,
     ConserveCalls
  DEF Next, Call

-----------------------------------------------------------------------------
\* The subquery runs for every outer value: a platoon that ends for the caller, and
\* not by its done, has delivered all that the subgraph gives for its outer values
\* (Scope.run, Exit.pullPlatoon and the token between them).
THEOREM EachOuterValueRuns == NoNestedDones /\ Spec => []EachOuterValue
<1> SUFFICES ASSUME NoNestedDones PROVE Spec => []EachOuterValue
  OBVIOUS
<1> DEFINE IInv == BaseInv /\ OrderInv /\ ConserveInv
<1>1. Init => IInv
  BY BaseInit, OrderInit, ConserveInit
<1>2. IInv /\ [Next]_vars => IInv'
  BY BaseStep, OrderStep, ConserveStep
<1>3. IInv => EachOuterValue
  BY DEF ConserveInv
<1> HIDE DEF IInv
<1>4. QED BY <1>1, <1>2, <1>3, PTL DEF Spec
=============================================================================
