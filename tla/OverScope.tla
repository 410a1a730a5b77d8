----------------------------- MODULE OverScope -----------------------------
(***************************************************************************)
(* The scoped form of the over operator (runtime/sam/op/traverse):         *)
(*                                                                         *)
(*   source -> Over -> Scope -> subgraph -> Exit -> caller                 *)
(*                                                                         *)
(* Over turns each outer value into one batch.  The goroutine of the Scope *)
(* sends each such batch to the subgraph as a platoon of its own, followed *)
(* by an EOS, and tells the Exit of the real end of a platoon of the source*)
(* with a token in parentEOSCh.  The Exit gathers the subgraph's output of *)
(* one inner platoon and returns it batch by batch.  Pull(true) of the     *)
(* Exit goes to the Scope over exitDoneCh and from there to the source;    *)
(* one of the subgraph goes over subDoneCh and ends only its own platoon.  *)
(*                                                                         *)
(* The subgraph runs in the caller's thread.  It passes its input on,      *)
(* filters it, is a "head" of one batch, or gives two batches for each.    *)
(* A batch is named by the source's platoon, the outer value in it and     *)
(* which of two it is; outer values with nothing to traverse are left out. *)
(***************************************************************************)
EXTENDS Naturals, Sequences

CONSTANTS
    Graphs,       \* what is run: [source, sub, dones, faults]
    MaxPlatoons,  \* platoons of a source that has several
    MaxVals       \* outer values in a platoon

EOS == <<0, 0, 0>>
ERR == <<0, 0, 1>>
Batches == (1..MaxPlatoons) \X (1..MaxVals) \X (1..2)
Results == Batches \cup {EOS, ERR}

ASSUME GraphsAssumption ==
    Graphs \subseteq [source : {"original", "platoons"},
                      sub : {"pass", "filter", "head", "twice"},
                      dones : BOOLEAN, faults : BOOLEAN]
ASSUME BoundsAssumption == MaxPlatoons \in Nat \ {0} /\ MaxVals \in Nat

VARIABLES
    g,              \* what is being run
    plat, nv,       \* source: platoon being read and outer values read of it
    sPC, sRes,      \* Scope.run and the result it is sending
    token,          \* parentEOSCh holds an element
    ePC,            \* the caller inside Exit.Pull, the subgraph and Scope.Pull
    isDone,         \* whether the call is Pull(true)
    platoon,        \* Exit.platoon
    kept,           \* subgraph: batch it will return next; EOS if none
    spent,          \* subgraph: head has said done and owes an EOS
    cancelled,      \* the context
    cplat,          \* platoon the caller is in
    read, got, cut, \* history: batches of Over; delivered in a platoon; filtered
    dropped,        \* history: platoons of the source that a done has ended
    failed,         \* history: the source has returned an error
    quits,          \* history: platoons the caller said done in
    stale           \* history: a Pull(true) left the token of an EOS behind

srcVars == <<plat, nv, read, dropped, failed>>
scopeVars == <<sPC, sRes, token>>
subVars == <<kept, spent, cut>>
callVars == <<ePC, isDone, platoon, cplat, got, quits, stale>>
vars == <<g, srcVars, scopeVars, subVars, callVars, cancelled>>

TypeOK ==
    /\ g \in Graphs
    /\ plat \in 1..MaxPlatoons + 1 /\ nv \in 0..MaxVals
    /\ sPC \in {"off", "top", "token", "batch", "eos", "end"} /\ sRes \in Results
    /\ token \in BOOLEAN
    /\ ePC \in {"idle", "senddone", "sub", "pull", "subdone", "subeos", "poll", "stop"}
    /\ isDone \in BOOLEAN
    /\ platoon \in Seq(Batches) /\ Len(platoon) <= 2
    /\ kept \in Batches \cup {EOS} /\ spent \in BOOLEAN
    /\ cancelled \in BOOLEAN
    /\ cplat \in 1..MaxPlatoons + 1
    /\ read \subseteq Batches /\ cut \subseteq Batches
    /\ got \in Seq(Batches \X (1..MaxPlatoons + 1))
    /\ dropped \subseteq 1..MaxPlatoons /\ failed \in BOOLEAN
    /\ quits \subseteq 1..MaxPlatoons + 1
    /\ stale \in BOOLEAN

Init ==
    /\ g \in Graphs
    /\ plat = 1 /\ nv = 0
    /\ sPC = "off" /\ sRes = EOS /\ token = FALSE
    /\ ePC = "idle" /\ isDone = FALSE /\ platoon = <<>>
    /\ kept = EOS /\ spent = FALSE
    /\ cancelled = FALSE
    /\ cplat = 1 /\ read = {} /\ got = <<>> /\ cut = {}
    /\ dropped = {} /\ failed = FALSE /\ quits = {} /\ stale = FALSE

(***************************************************************************)
(* The source and Over.                                                    *)
(***************************************************************************)

\* The last platoon of the source, after which it always returns EOS.
Last == IF g.source = "original" THEN 1 ELSE MaxPlatoons

SourceEnded == plat > Last

Advance == plat' = (IF SourceEnded THEN plat ELSE plat + 1) /\ nv' = 0

\* Over.Pull(false): one batch for the next outer value, or the source's EOS or
\* error.
OverPull ==
    /\ sPC = "top"
    /\ \/ /\ ~SourceEnded /\ nv < MaxVals
          /\ nv' = nv + 1 /\ UNCHANGED plat
          /\ sRes' = <<plat, nv + 1, 1>>
          /\ read' = read \cup {sRes'}
          /\ sPC' = "batch" /\ UNCHANGED failed
       \/ /\ Advance
          /\ sRes' = EOS /\ sPC' = "token" /\ UNCHANGED <<read, failed>>
       \/ /\ g.faults /\ ~SourceEnded
          /\ Advance
          /\ sRes' = ERR /\ sPC' = "token" /\ failed' = TRUE /\ UNCHANGED read
    /\ UNCHANGED <<g, dropped, token, subVars, callVars, cancelled>>

(***************************************************************************)
(* The subgraph, called by Exit.pullPlatoon.                               *)
(***************************************************************************)

\* Exit.Pull returns r to the caller.
Return(r) ==
    /\ ePC' = IF r = ERR THEN "stop" ELSE "idle"
    /\ cplat' = IF r = EOS /\ cplat <= MaxPlatoons THEN cplat + 1 ELSE cplat
    /\ got' = IF r \in Batches THEN Append(got, <<r, cplat>>) ELSE got
    /\ UNCHANGED <<isDone, quits>>

\* (A variant that keeps what was gathered before a done.)
FinishKeeps(p) ==
    IF p = <<>> \/ isDone
    THEN Return(EOS) /\ platoon' = p
    ELSE Return(Head(p)) /\ platoon' = Tail(p)

\* Exit.Pull after pullPlatoon, which has gathered p.
Finish(p) ==
    IF isDone \/ p = <<>>
    THEN Return(EOS) /\ platoon' = <<>>
    ELSE Return(Head(p)) /\ platoon' = Tail(p)

\* pullPlatoon receives r from the subgraph.
Gather(r) ==
    \/ /\ r = ERR
       /\ platoon' = <<>> /\ Return(ERR) /\ UNCHANGED stale
    \/ /\ r = EOS /\ platoon = <<>>
       /\ ePC' = "poll" /\ UNCHANGED <<isDone, platoon, cplat, got, quits, stale>>
    \/ /\ r = EOS /\ platoon # <<>>
       /\ Finish(platoon)
       /\ stale' = (stale \/ (token /\ isDone))
    \/ /\ r \in Batches
       /\ platoon' = Append(platoon, r) /\ ePC' = "sub"
       /\ UNCHANGED <<isDone, cplat, got, quits, stale>>

\* The subgraph's Pull(false): what it still has to return, or Scope.Pull(false),
\* whose first call starts the goroutine.
SubPull ==
    /\ ePC = "sub"
    /\ \/ /\ kept # EOS
          /\ kept' = EOS /\ Gather(kept)
          /\ UNCHANGED <<spent, sPC>>
       \/ /\ kept = EOS /\ spent
          /\ spent' = FALSE /\ Gather(EOS)
          /\ UNCHANGED <<kept, sPC>>
       \/ /\ kept = EOS /\ ~spent
          /\ ePC' = "pull"
          /\ sPC' = IF sPC = "off" THEN "top" ELSE sPC
          /\ UNCHANGED <<isDone, platoon, cplat, got, quits, stale, kept, spent>>
    /\ UNCHANGED <<g, srcVars, sRes, token, cut, cancelled>>

\* The second of the two batches that "twice" gives for r.
Second(r) == <<r[1], r[2], 2>>

\* The subgraph receives r from Scope.Pull(false).
SubReceives(r) ==
    \/ /\ r \notin Batches \/ g.sub \in {"pass", "filter"}
       /\ Gather(r)
       /\ UNCHANGED subVars
    \/ /\ r \in Batches /\ g.sub = "filter"
       /\ cut' = cut \cup {r}
       /\ UNCHANGED <<callVars, kept, spent>>
    \/ /\ r \in Batches /\ g.sub = "twice"
       /\ kept' = Second(r)
       /\ Gather(r)
       /\ UNCHANGED <<spent, cut>>
    \/ /\ r \in Batches /\ g.sub = "head"
       /\ kept' = r
       /\ ePC' = "subdone"
       /\ UNCHANGED <<isDone, platoon, cplat, got, quits, stale, spent, cut>>

(***************************************************************************)
(* The Scope (Scope.run, sendBatch, sendEOS) meeting Scope.Pull and        *)
(* Exit.Pull on its unbuffered channels.                                   *)
(***************************************************************************)

\* The token goes into parentEOSCh, which holds one, before the EOS or the error
\* of the source is sent.
SendToken ==
    /\ sPC = "token" /\ ~token
    /\ token' = TRUE /\ sPC' = "eos"
    /\ UNCHANGED <<g, srcVars, sRes, subVars, callVars, cancelled>>

\* resultCh: after a batch comes the EOS of its platoon.
SendBatch ==
    /\ sPC = "batch" /\ ePC = "pull"
    /\ SubReceives(sRes)
    /\ sPC' = "eos" /\ sRes' = EOS
    /\ UNCHANGED <<g, srcVars, token, cancelled>>

\* (A variant that forgets the error.)
SendPlainEOS ==
    /\ sPC = "eos" /\ ePC = "pull"
    /\ SubReceives(EOS)
    /\ sPC' = "top" /\ sRes' = EOS
    /\ UNCHANGED <<g, srcVars, token, cancelled>>

SendEOS ==
    /\ sPC = "eos" /\ ePC = "pull"
    /\ SubReceives(sRes)
    /\ sPC' = "top" /\ sRes' = EOS
    /\ UNCHANGED <<g, srcVars, token, cancelled>>

\* exitDoneCh: the done goes on to the source, which drops what is left of the
\* platoon it is in, and an EOS follows; or the source fails, and its error follows.
ExitDone ==
    /\ ePC = "senddone" /\ sPC \in {"batch", "eos"}
    /\ Advance
    /\ dropped' = IF SourceEnded THEN dropped ELSE dropped \cup {plat}
    /\ sPC' = "eos"
    /\ \/ /\ sRes' = IF sPC = "batch" THEN EOS ELSE sRes
          /\ UNCHANGED failed
       \/ /\ g.faults /\ ~SourceEnded
          /\ sRes' = ERR /\ failed' = TRUE
    /\ ePC' = "sub"
    /\ UNCHANGED <<g, read, token, subVars, isDone, platoon, cplat, got, quits, stale,
                   cancelled>>

\* (A variant that passes the done of the subgraph on to the source.)
SubDoneToSource ==
    /\ ePC = "subdone" /\ sPC \in {"batch", "eos"}
    /\ Advance
    /\ dropped' = IF SourceEnded THEN dropped ELSE dropped \cup {plat}
    /\ sPC' = "eos"
    /\ sRes' = IF sPC = "batch" THEN EOS ELSE sRes
    /\ ePC' = "subeos"
    /\ UNCHANGED <<g, read, failed, token, subVars, isDone, platoon, cplat, got, quits, stale,
                   cancelled>>

\* (A variant that takes no done while it sends an EOS.)
SubDoneInBatch ==
    /\ ePC = "subdone" /\ sPC = "batch"
    /\ sPC' = "eos" /\ sRes' = EOS
    /\ ePC' = "subeos"
    /\ UNCHANGED <<g, srcVars, token, subVars, isDone, platoon, cplat, got, quits, stale,
                   cancelled>>

\* subDoneCh: the source is not told; the batch at hand is dropped, and the EOS
\* that follows, or is already on its way, acknowledges the done.
SubDone ==
    /\ ePC = "subdone" /\ sPC \in {"batch", "eos"}
    /\ sPC' = "eos"
    /\ sRes' = IF sPC = "batch" THEN EOS ELSE sRes
    /\ ePC' = "subeos"
    /\ UNCHANGED <<g, srcVars, token, subVars, isDone, platoon, cplat, got, quits, stale,
                   cancelled>>

\* The head gets that EOS and returns its batch; it owes the EOS of its own
\* platoon to the next Pull.
SubDoneAcked ==
    /\ ePC = "subeos" /\ sPC = "eos"
    /\ sPC' = "top" /\ sRes' = EOS
    /\ IF sRes = ERR
       THEN Gather(ERR) /\ UNCHANGED <<kept, spent>>
       ELSE Gather(kept) /\ kept' = EOS /\ spent' = TRUE
    /\ UNCHANGED <<g, srcVars, token, cut, cancelled>>

\* The source's EOS, or just an empty inner platoon?
Poll ==
    /\ ePC = "poll"
    /\ IF token
       THEN token' = FALSE /\ Finish(<<>>) /\ UNCHANGED stale
       ELSE ePC' = "sub" /\ UNCHANGED <<token, isDone, platoon, cplat, got, quits, stale>>
    /\ UNCHANGED <<g, srcVars, sPC, sRes, subVars, cancelled>>

(***************************************************************************)
(* The caller and the context.                                             *)
(***************************************************************************)

ExitPull ==
    /\ ePC = "idle"
    /\ IF platoon = <<>>
       THEN ePC' = "sub" /\ isDone' = FALSE /\ UNCHANGED <<platoon, cplat, got, quits>>
       ELSE Return(Head(platoon)) /\ platoon' = Tail(platoon)
    /\ UNCHANGED <<g, srcVars, scopeVars, subVars, stale, cancelled>>

\* Every operator that ends a platoon early has pulled before, which has started
\* the goroutine (Query.Pull(true), which need not have, cancels the context first).
ExitPullDone ==
    /\ ePC = "idle" /\ g.dones /\ sPC # "off"
    /\ ePC' = "senddone" /\ isDone' = TRUE
    /\ quits' = quits \cup {cplat}
    /\ UNCHANGED <<g, srcVars, scopeVars, subVars, platoon, cplat, got, stale, cancelled>>

Cancel ==
    /\ ~cancelled /\ cancelled' = TRUE
    /\ UNCHANGED <<g, srcVars, scopeVars, subVars, callVars>>

\* (A variant that does not watch the context while it sends an EOS.)
ScopeCancelledInBatch ==
    /\ cancelled /\ sPC \in {"token", "batch"}
    /\ sPC' = "end"
    /\ UNCHANGED <<g, srcVars, sRes, token, subVars, callVars, cancelled>>

\* ctx.Done in Scope.run, and in Scope.Pull and Exit.Pull, which return its error.
ScopeCancelled ==
    /\ cancelled /\ sPC \in {"token", "batch", "eos"}
    /\ sPC' = "end"
    /\ UNCHANGED <<g, srcVars, sRes, token, subVars, callVars, cancelled>>

CallCancelled ==
    /\ cancelled /\ ePC \in {"senddone", "pull", "subdone", "subeos"}
    /\ ePC' = "stop"
    /\ platoon' = IF ePC = "senddone" THEN platoon ELSE <<>>
    /\ UNCHANGED <<g, srcVars, scopeVars, subVars, isDone, cplat, got, quits, stale, cancelled>>

ScopeRun == OverPull \/ SendToken \/ ScopeCancelled
Call == SubPull \/ Poll \/ SendBatch \/ SendEOS \/ ExitDone \/ SubDone \/ SubDoneAcked
          \/ CallCancelled
Next == ScopeRun \/ Call \/ ExitPull \/ ExitPullDone \/ Cancel

Spec == Init /\ [][Next]_vars

\* The goroutine and a call in progress advance; source and subgraph return.  A
\* select with several ready cases picks one at random, so that a goroutine that
\* comes to a select with a cancelled context time and again leaves in the end.
FairSpec ==
    Spec /\ WF_vars(ScopeRun) /\ WF_vars(Call) /\ SF_vars(ScopeCancelled)

(***************************************************************************)
(* Properties.                                                             *)
(***************************************************************************)

\* The batches the subgraph gives for those in b.
SubOutput(b) == b \cup IF g.sub = "twice" THEN {Second(x) : x \in b} ELSE {}

\* What it gives for the outer values read of platoon k.
Due(k) == SubOutput({b \in read : b[1] = k} \ cut)

\* What the caller has received of platoon k.
Delivered(k) == {got[i][1] : i \in {j \in DOMAIN got : got[j][2] = k}}

\* Batch a comes before batch b.
Before(a, b) ==
    \/ a[1] < b[1]
    \/ a[1] = b[1] /\ a[2] < b[2]
    \/ a[1] = b[1] /\ a[2] = b[2] /\ a[3] < b[3]

\* Batches come in the order of the outer values, none twice, each in the platoon
\* of its outer value.  (The types of the state are checked along with it.)
InOuterOrder ==
    /\ TypeOK
    /\ \A i \in DOMAIN got : got[i][1][1] = got[i][2]
    /\ \A i, j \in DOMAIN got : i < j => Before(got[i][1], got[j][1])

\* The subquery runs for every outer value: when a platoon has ended for the caller,
\* and not because it said done, no done has reached the source in that platoon, and
\* all the subgraph gives for its values has been delivered.
EachOuterValue ==
    \A k \in 1..cplat - 1 : k \notin quits /\ (g.source = "original" => k = 1) =>
        /\ k \notin dropped
        /\ Delivered(k) = Due(k)

\* A failure of the source is returned by Pull before the platoon ends with EOS.
\* The exception: when the subgraph has filtered an inner platoon away, Exit may take
\* the token of the failure for that of an end, and return EOS first.
ErrorBeforeEOS == failed /\ cplat > 1 => 1 \in quits \/ cut # {}

\* A Pull returns, also the one after an EOS.  The exception: Pull(true) in the
\* middle of a gathered platoon returns without taking the token of the source's
\* EOS, and the next EOS of the source waits for room in parentEOSCh for ever.
PullsReturn == (ePC \notin {"idle", "stop"}) ~> (ePC \in {"idle", "stop"} \/ stale)

\* The goroutine ends after the context is cancelled, if it was ever started.
ScopeEnds == cancelled ~> (sPC \in {"off", "end"})

(***************************************************************************)
(* The inductive invariant behind the three invariants, in named parts.    *)
(***************************************************************************)

\* A done that passes a Scope whose source has further platoons may end the next
\* one of them (see README); a source of data has one.
NoNestedDones == \A x \in Graphs : x.source = "platoons" => ~x.dones

\* The Exit is gathering what the subgraph gives for a batch.
Inner ==
    /\ ePC \in {"sub", "pull", "subdone", "subeos"}
    /\ ~spent
    /\ platoon # <<>> \/ kept # EOS

\* What the subgraph still has to return, where the caller stands.  While a
\* batch's output is being gathered the Scope offers the EOS after that batch.
SubInv ==
    /\ ePC \in {"idle", "senddone", "pull", "poll"} => kept = EOS /\ ~spent
    /\ ePC = "poll" => platoon = <<>>
    /\ ePC \in {"subdone", "subeos"} =>
          kept # EOS /\ ~spent /\ ~isDone /\ platoon = <<>>
    /\ ePC = "sub" /\ spent => kept = EOS /\ ~isDone /\ platoon # <<>>
    /\ ePC = "sub" /\ kept # EOS => ~isDone /\ Len(platoon) <= 1
    /\ Inner /\ ~isDone => (sPC = "eos" /\ sRes = EOS /\ ~token) \/ sPC = "end"

\* A done that the Scope has taken has ended the source.
DoneInv ==
    /\ isDone => g.dones
    /\ ePC = "senddone" => isDone
    /\ isDone /\ ePC \notin {"idle", "stop"} => cplat \in quits
    /\ isDone /\ ePC \notin {"idle", "stop", "senddone"} => SourceEnded

\* How far the source is ahead of the caller: by the ends of platoons that are
\* on their way, as a result that waits for room for its token or as a token.
Ahead == (IF token THEN 1 ELSE 0) + (IF sPC = "token" THEN 1 ELSE 0)

SyncInv ==
    /\ sPC = "batch" => ~SourceEnded /\ nv > 0 /\ sRes = <<plat, nv, 1>>
    /\ sPC \in {"off", "top", "token", "eos"} => sRes \in {EOS, ERR}
    /\ sPC = "off" => ~token
    /\ SourceEnded => nv = 0
    /\ ~SourceEnded /\ sPC # "end" => plat = cplat + Ahead
    /\ token /\ sPC \in {"top", "token", "batch"} => ePC \in {"poll", "stop"} \/ g.dones

\* Batch b is from an outer value that the Scope has dealt with.
Behind(b) ==
    \/ b[1] < plat
    \/ b[1] = plat /\ b[2] < nv
    \/ b[1] = plat /\ b[2] = nv /\ sPC # "batch"

\* What has been delivered, what the Exit has gathered and what the subgraph keeps
\* is in this order, behind the Scope, and all but the first in the caller's platoon.
OrderInv ==
    /\ \A i \in DOMAIN got : got[i][1][1] = got[i][2] /\ Behind(got[i][1])
    /\ \A i, j \in DOMAIN got : i < j => Before(got[i][1], got[j][1])
    /\ \A i \in DOMAIN platoon :
          /\ Behind(platoon[i])
          /\ ePC # "stop" => platoon[i][1] = cplat
          /\ \A j \in DOMAIN got : Before(got[j][1], platoon[i])
    /\ \A i, j \in DOMAIN platoon : i < j => Before(platoon[i], platoon[j])
    /\ kept # EOS =>
          /\ Behind(kept)
          /\ ePC # "stop" => kept[1] = cplat
          /\ \A j \in DOMAIN got : Before(got[j][1], kept)
          /\ \A j \in DOMAIN platoon : Before(platoon[j], kept)

\* What the Exit and the subgraph hold, and what the Scope holds for the caller's
\* platoon.
Held == {platoon[i] : i \in DOMAIN platoon} \cup ({kept} \ {EOS})
Offered == {b \in IF sPC = "batch" THEN SubOutput({sRes}) ELSE {} : b[1] = cplat}

\* The end of the caller's platoon can still arrive, and not because of a done.
EndComes == 1 \notin quits /\ ePC # "stop" /\ (sPC # "end" \/ token) /\ cplat <= Last

\* What was read, filtered, delivered and dropped, relative to Scope and caller.
HistoryInv ==
    /\ dropped \subseteq quits
    /\ ~g.dones => quits = {}
    /\ g.source = "original" => \A b \in read : b[1] = 1
    /\ sPC = "batch" => sRes \in read
    /\ \A b \in cut : Behind(b)
    /\ \A i \in DOMAIN got : got[i][2] <= cplat

\* Nothing is lost of the caller's platoon as long as its end can arrive, and of
\* later ones the Scope has at most one batch.
ConserveInv ==
    /\ EachOuterValue
    /\ HistoryInv
    /\ EndComes => Due(cplat) = Delivered(cplat) \cup Held \cup Offered
    /\ ePC # "stop" /\ sPC # "end" =>
          \A b \in read : b[1] > cplat => sPC = "batch" /\ b = sRes

\* A failed source has one platoon, and the Scope has the error until the Exit
\* gets it: the Exit polls the token only after an EOS of the source.
ErrorInv ==
    /\ ErrorBeforeEOS
    /\ failed => g.faults
    /\ (g.source = "original" /\ cut = {} /\ 1 \notin quits /\ ePC # "stop") =>
          /\ ePC = "poll" => SourceEnded
          /\ sPC = "eos" /\ ~Inner => SourceEnded
          /\ failed => /\ cplat = 1 /\ SourceEnded
                       /\ ePC # "poll"
                       /\ sRes = ERR /\ sPC \in {"token", "eos", "end"}

OneFailingPlatoon == \A x \in Graphs : x.faults => x.source = "original"
=============================================================================
