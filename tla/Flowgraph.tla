----------------------------- MODULE Flowgraph -----------------------------
(***************************************************************************)
(* Fan-out and fan-in inside a query's flowgraph (runtime/sam/op).         *)
(*                                                                         *)
(*   source -> Router -> one leg per route -> fan-in -> consumer           *)
(*                                                                         *)
(* Data moves in platoons: batches ended by an EOS, after which the next   *)
(* Pull begins the next platoon.  Pull(true) ("done") ends a platoon early.*)
(* The Router (op/router.go, for fork and switch) is a goroutine that      *)
(* pulls the source and hands each batch to its routes, meeting on each    *)
(* route either the leg's Pull(false) or its Pull(true).  A leg passes its *)
(* input on or is a "head" of one batch, which ends its own platoon early. *)
(* The fan-in has one goroutine per leg and is a combine, a merge or the   *)
(* mux at the output of the query.  The consumer pulls until EOS and may   *)
(* say done at any time; the query's context may be cancelled at any time. *)
(*                                                                         *)
(* Values are left out: a batch is named by its platoon and its place in   *)
(* it, and the comparison of a merge picks any batch.                      *)
(***************************************************************************)
EXTENDS Naturals, Sequences, SequencesExt, FiniteSets

CONSTANTS
    N,            \* number of routes
    Graphs,       \* the flowgraphs: [fanin, source, select, heads, faults]
    MaxPlatoons,  \* platoons of a source that has several
    MaxBatches,   \* batches in a platoon
    MaxErrors     \* bound on failures of the source and of the legs

Routes == 1..N
Batches == (1..MaxPlatoons + 1) \X (1..MaxBatches)
EOS == <<0, 0>>
ERR == <<0, 1>>
Results == Batches \cup {EOS, ERR}

ASSUME NAssumption == N \in Nat \ {0}
ASSUME BoundsAssumption == MaxPlatoons \in Nat \ {0} /\ MaxBatches \in Nat /\ MaxErrors \in Nat
ASSUME GraphsAssumption ==
    Graphs \subseteq [fanin : {"combine", "merge", "mux"}, source : {"platoons", "original"},
                      select : {"fork", "switch"}, heads : SUBSET Routes,
                      faults : BOOLEAN]

VARIABLES
    g,          \* the flowgraph being run
    plat, nb,   \* source: platoon being read and batches read of it
    srcErr,     \* source: whether it has failed
    errs,       \* failures so far
    rPC,        \* Router.run: "top", "fwd", "eos" or "end"
    rBatch,     \* the batch being forwarded
    rTodo,      \* routes it still has to be offered to
    blocked,    \* route.blocked
    pPC, pRes,  \* fan-in goroutine of a leg, and the result it holds
    spent,      \* head legs that have already said done upstream
    fPC,        \* the fan-in's Pull
    queue,      \* combine: legs with a result, in order of arrival
    held,       \* combine: blocked legs; merge: legs in the heap; mux: ended legs
    left,       \* legs still to be dealt with by a loop of the fan-in
    cur,        \* leg being received from
    hol,        \* merge: a leg's batch at the head of line
    cancelled,  \* the context
    cPC,        \* consumer: "idle", "pull", "done" or "stop"
    cplat,      \* platoon the consumer is in
    early,      \* whether the consumer said done in the platoon before
    fwd, got,   \* history: batches forwarded to, and received from, a leg
    swallowed   \* history: a done has met an error of a leg in combine

srcVars == <<plat, nb, srcErr>>
routerVars == <<rPC, rBatch, rTodo, blocked>>
legVars == <<pPC, pRes, spent>>
histVars == <<fwd, got, swallowed>>
fanVars == <<fPC, queue, held, left, cur, hol>>
conVars == <<cPC, cplat, early>>
vars == <<g, srcVars, errs, routerVars, legVars, fanVars, cancelled, conVars, histVars>>

TypeOK ==
    /\ g \in Graphs
    /\ plat \in 1..MaxPlatoons + 1 /\ nb \in 0..MaxBatches /\ srcErr \in BOOLEAN
    /\ errs \in 0..MaxErrors
    /\ rPC \in {"top", "fwd", "eos", "end"} /\ rBatch \in Results
    /\ rTodo \in Seq(Routes) /\ blocked \subseteq Routes
    /\ pPC \in [Routes -> {"idle", "pull", "legdone", "queue", "offer", "pulldone",
                           "wait", "end"}]
    /\ pRes \in [Routes -> Results]
    /\ spent \subseteq g.heads
    /\ fPC \in {"idle", "next", "recv", "unwait", "done", "pop", "start", "eos"}
    /\ queue \in Seq(Routes) /\ Len(queue) <= N
    /\ held \subseteq Routes /\ left \subseteq Routes /\ cur \in Routes
    /\ hol \in [Routes -> Results]
    /\ cancelled \in BOOLEAN
    /\ cPC \in {"idle", "pull", "done", "stop"}
    /\ cplat \in 1..MaxPlatoons + 1
    /\ early \in BOOLEAN
    /\ fwd \subseteq Routes \X Batches
    /\ got \subseteq Routes \X Batches \X (1..MaxPlatoons)
    /\ swallowed \in BOOLEAN

Init ==
    /\ g \in Graphs
    /\ plat = 1 /\ nb = 0 /\ srcErr = FALSE /\ errs = 0
    /\ rPC = "top" /\ rBatch = EOS /\ rTodo = <<>> /\ blocked = {}
    /\ pPC = [r \in Routes |-> "idle"] /\ pRes = [r \in Routes |-> EOS]
    /\ spent = {}
    /\ fPC = "idle" /\ queue = <<>> /\ held = {} /\ left = {} /\ cur = 1
    /\ hol = [r \in Routes |-> EOS]
    /\ cancelled = FALSE
    /\ cPC = "idle" /\ cplat = 1 /\ early = FALSE
    /\ fwd = {} /\ got = {} /\ swallowed = FALSE

(***************************************************************************)
(* The Router.                                                             *)
(***************************************************************************)

\* Whether a source of data has returned its EOS: it then always returns EOS.
SourceEnded == g.source = "original" /\ plat > 1

\* Whether one more operation of the source or of a leg may fail.
MayFail == g.faults /\ errs < MaxErrors

\* The routes a batch is offered to: all of them in order for a fork, those
\* whose case matches for a switch.
Selected ==
    IF g.select = "fork" THEN {[i \in Routes |-> i]}
    ELSE UNION {SetToSeqs(S) : S \in SUBSET Routes}

\* Every route is blocked by a done: done is sent upstream, all are unblocked.  If
\* the source fails on it, sendEOS finds no route to send to and unblocks them too.
RouterDone ==
    /\ rPC = "top" /\ blocked = Routes
    /\ blocked' = {}
    /\ \/ /\ plat' = IF SourceEnded \/ srcErr THEN plat ELSE plat + 1
          /\ UNCHANGED <<srcErr, errs>>
       \/ /\ ~srcErr /\ ~SourceEnded /\ MayFail
          /\ errs' = errs + 1 /\ srcErr' = TRUE /\ UNCHANGED plat
    /\ nb' = 0
    /\ UNCHANGED <<g, rPC, rBatch, rTodo, legVars, fanVars, cancelled,
                   conVars, histVars>>

\* The parent returns a batch and the selector starts to forward it.
RouterBatch ==
    /\ rPC = "top" /\ blocked # Routes /\ \E r \in Routes : pPC[r] # "idle"
    /\ ~SourceEnded /\ ~srcErr
    /\ plat <= MaxPlatoons /\ nb < MaxBatches
    /\ nb' = nb + 1
    /\ rBatch' = <<plat, nb + 1>>
    /\ rPC' = "fwd"
    /\ rTodo' \in Selected
    /\ fwd' = fwd \cup (Range(rTodo') \X {rBatch'})
    /\ UNCHANGED <<g, plat, srcErr, errs, blocked, legVars, fanVars, cancelled, conVars, got, swallowed>>

\* The parent returns EOS or an error; either way sendEOS sends an empty Result.
\* A source of several platoons that has come to its last one just blocks.
RouterEOS ==
    /\ rPC = "top" /\ blocked # Routes /\ \E r \in Routes : pPC[r] # "idle"
    /\ \/ /\ ~srcErr /\ (SourceEnded \/ plat <= MaxPlatoons)
          /\ plat' = IF SourceEnded THEN plat ELSE plat + 1
          /\ UNCHANGED <<srcErr, errs>>
       \/ /\ ~srcErr /\ ~SourceEnded /\ plat <= MaxPlatoons /\ MayFail
          /\ errs' = errs + 1 /\ srcErr' = TRUE /\ UNCHANGED plat
       \/ srcErr /\ UNCHANGED <<plat, srcErr, errs>>
    /\ nb' = 0
    /\ rPC' = "eos" /\ rBatch' = EOS
    /\ rTodo' = [i \in Routes |-> i]
    /\ UNCHANGED <<g, blocked, legVars, fanVars, cancelled, conVars, histVars>>

\* What follows once the route at the head of rTodo is dealt with.  After an
\* EOS every route is unblocked.
RouterAdvance(newBlocked) ==
    /\ rTodo' = Tail(rTodo)
    /\ IF Tail(rTodo) # <<>>
       THEN rPC' = rPC /\ blocked' = newBlocked
       ELSE rPC' = "top" /\ blocked' = IF rPC = "eos" THEN {} ELSE newBlocked
    /\ UNCHANGED rBatch

\* Nothing to forward (a switch with no matching case), or a blocked route.
RouterSkip ==
    /\ rPC \in {"fwd", "eos"}
    /\ \/ rTodo = <<>> /\ rPC' = "top" /\ UNCHANGED <<rBatch, rTodo, blocked>>
       \/ rTodo # <<>> /\ Head(rTodo) \in blocked /\ RouterAdvance(blocked)
    /\ UNCHANGED <<g, srcVars, errs, legVars, fanVars, cancelled, conVars, histVars>>

\* Where a fan-in goroutine goes with a result of its leg.
Received == IF g.fanin = "combine" THEN "queue" ELSE "offer"

\* The send on resultCh meets the leg's Pull(false).  A leg may fail on a
\* batch; a head leg says done upstream before it passes the batch on.
RouterSend(r) ==
    /\ rPC \in {"fwd", "eos"} /\ rTodo # <<>> /\ Head(rTodo) = r /\ r \notin blocked
    /\ pPC[r] = "pull" /\ r \notin spent
    /\ RouterAdvance(IF rPC = "eos" THEN blocked \cup {r} ELSE blocked)
    /\ \/ /\ pRes' = [pRes EXCEPT ![r] = rBatch]
          /\ pPC' = [pPC EXCEPT ![r] =
                        IF rPC = "fwd" /\ r \in g.heads THEN "legdone" ELSE Received]
          /\ UNCHANGED errs
       \/ /\ rPC = "fwd" /\ MayFail
          /\ errs' = errs + 1
          /\ pRes' = [pRes EXCEPT ![r] = ERR]
          /\ pPC' = [pPC EXCEPT ![r] = Received]
    /\ UNCHANGED <<g, srcVars, spent, fanVars, cancelled, conVars, histVars>>

\* (A variant in which a done ends the forwarding of the batch to other routes.)
RouterTakesDoneAndStops(r) ==
    /\ rPC \in {"fwd", "eos"} /\ rTodo # <<>> /\ Head(rTodo) = r /\ r \notin blocked
    /\ pPC[r] \in {"legdone", "pulldone"} /\ (pPC[r] = "pulldone" => r \notin spent)
    /\ IF rPC = "fwd"
       THEN rPC' = "top" /\ rTodo' = <<>> /\ blocked' = blocked \cup {r} /\ UNCHANGED rBatch
       ELSE RouterAdvance(blocked \cup {r})
    /\ IF pPC[r] = "legdone"
       THEN /\ pPC' = [pPC EXCEPT ![r] = Received]
            /\ spent' = spent \cup {r}
       ELSE /\ pPC' = [pPC EXCEPT ![r] = IF g.fanin = "combine" THEN "wait" ELSE "pull"]
            /\ UNCHANGED spent
    /\ UNCHANGED <<g, srcVars, errs, pRes, fanVars, cancelled, conVars, histVars>>

\* (A variant that does not block the route.)
RouterTakesDoneUnblocked(r) ==
    /\ rPC \in {"fwd", "eos"} /\ rTodo # <<>> /\ Head(rTodo) = r /\ r \notin blocked
    /\ pPC[r] \in {"legdone", "pulldone"} /\ (pPC[r] = "pulldone" => r \notin spent)
    /\ RouterAdvance(blocked)
    /\ IF pPC[r] = "legdone"
       THEN /\ pPC' = [pPC EXCEPT ![r] = Received]
            /\ spent' = spent \cup {r}
       ELSE /\ pPC' = [pPC EXCEPT ![r] = IF g.fanin = "combine" THEN "wait" ELSE "pull"]
            /\ UNCHANGED spent
    /\ UNCHANGED <<g, srcVars, errs, pRes, fanVars, cancelled, conVars, histVars>>

\* The receive on doneCh meets the leg's Pull(true): the batch is dropped for
\* this route, or the done resolved with the EOS.
RouterTakesDone(r) ==
    /\ rPC \in {"fwd", "eos"} /\ rTodo # <<>> /\ Head(rTodo) = r /\ r \notin blocked
    /\ pPC[r] \in {"legdone", "pulldone"} /\ (pPC[r] = "pulldone" => r \notin spent)
    /\ RouterAdvance(blocked \cup {r})
    /\ IF pPC[r] = "legdone"
       THEN /\ pPC' = [pPC EXCEPT ![r] = Received]
            /\ spent' = spent \cup {r}
       ELSE /\ pPC' = [pPC EXCEPT ![r] = IF g.fanin = "combine" THEN "wait" ELSE "pull"]
            /\ UNCHANGED spent
    /\ UNCHANGED <<g, srcVars, errs, pRes, fanVars, cancelled, conVars, histVars>>

\* A head leg that has said done answers EOS by itself, to either kind of Pull.
HeadEOS(r) ==
    /\ r \in spent /\ pPC[r] \in {"pull", "pulldone"}
    /\ spent' = spent \ {r}
    /\ IF pPC[r] = "pull"
       THEN pPC' = [pPC EXCEPT ![r] = Received] /\ pRes' = [pRes EXCEPT ![r] = EOS]
       ELSE /\ pPC' = [pPC EXCEPT ![r] = IF g.fanin = "combine" THEN "wait" ELSE "pull"]
            /\ UNCHANGED pRes
    /\ UNCHANGED <<g, srcVars, errs, routerVars, fanVars, cancelled, conVars, histVars>>

\* The Router's selects see the context; its goroutine ends.
RouterCancelled ==
    /\ cancelled /\ rPC # "end"
    /\ rPC' = "end"
    /\ UNCHANGED <<g, srcVars, errs, rBatch, rTodo, blocked, legVars, fanVars, cancelled,
                   conVars, histVars>>

(***************************************************************************)
(* The consumer, and what a Pull of the fan-in returns to it.              *)
(***************************************************************************)

ReturnBatch(r, b) ==
    /\ got' = got \cup {<<r, b, cplat>>}
    /\ cPC' = "idle" /\ fPC' = "idle"
    /\ UNCHANGED <<cplat, early, cancelled>>

ReturnEOS ==
    /\ cPC' = "idle" /\ fPC' = "idle"
    /\ cplat' = cplat + 1 /\ early' = (cPC = "done")
    /\ UNCHANGED <<got, cancelled>>

\* An error ends the query, which cancels the context.
ReturnErr ==
    /\ cPC' = "stop" /\ fPC' = "idle"
    /\ cancelled' = TRUE
    /\ UNCHANGED <<cplat, early, got>>

\* The platoons the consumer reads: all of them, or the one of a plain source.
LastPlatoon == IF g.source = "original" THEN 1 ELSE MaxPlatoons

\* The consumer calls Pull; the first call starts the goroutines of the fan-in.
\* Nothing says done to the mux, which is the output of the query.
ConsumerPull ==
    /\ cPC = "idle" /\ cplat <= LastPlatoon
    /\ \E pc \in IF g.fanin = "mux" THEN {"pull"} ELSE {"pull", "done"} :
          /\ cPC' = pc
          /\ CASE g.fanin = "merge" /\ pPC[1] = "idle" -> fPC' = "start" /\ left' = Routes
               [] g.fanin = "merge" /\ pPC[1] # "idle" ->
                     fPC' = (IF pc = "done" THEN "done" ELSE "next") /\ UNCHANGED left
               [] OTHER -> /\ fPC' = IF pc = "done" THEN "done" ELSE "next"
                           /\ left' = Routes \ held
    /\ pPC' = [r \in Routes |-> IF pPC[r] = "idle" THEN "pull" ELSE pPC[r]]
    /\ UNCHANGED <<g, srcVars, errs, routerVars, pRes, spent, queue, held, cur, hol,
                   cancelled, cplat, early, histVars>>

\* After the last EOS the query is over and its context is cancelled.
ConsumerStop ==
    /\ cPC = "idle" /\ cplat > LastPlatoon
    /\ cPC' = "stop" /\ cancelled' = TRUE
    /\ UNCHANGED <<g, srcVars, errs, routerVars, legVars, fanVars, cplat, early, histVars>>

\* The context of the request is cancelled from outside.
Cancel ==
    /\ g.faults /\ ~cancelled
    /\ cancelled' = TRUE
    /\ UNCHANGED <<g, srcVars, errs, routerVars, legVars, fanVars, conVars, histVars>>

\* A Pull that waits sees the context and returns its error.
PullCancelled ==
    /\ cancelled /\ cPC # "stop"
    /\ cPC' = "stop" /\ fPC' = "idle"
    /\ UNCHANGED <<g, srcVars, errs, routerVars, legVars, queue, held, left, cur, hol,
                   cancelled, cplat, early, histVars>>

\* (A variant that does not see the context while it waits after its EOS.)
LegCancelledNotWaiting(r) ==
    /\ cancelled /\ pPC[r] \notin {"idle", "wait", "end"}
    /\ pPC' = [pPC EXCEPT ![r] = "end"]
    /\ UNCHANGED <<g, srcVars, errs, routerVars, pRes, spent, fanVars, cancelled, conVars,
                   histVars>>

\* So does a fan-in goroutine.
LegCancelled(r) ==
    /\ cancelled /\ pPC[r] \notin {"idle", "end"}
    /\ pPC' = [pPC EXCEPT ![r] = "end"]
    /\ UNCHANGED <<g, srcVars, errs, routerVars, pRes, spent, fanVars, cancelled, conVars,
                   histVars>>

(***************************************************************************)
(* combine.                                                                *)
(***************************************************************************)

\* puller.run: queue <- p, which has room for every leg, before the select.
CombineQueue(r) ==
    /\ pPC[r] = "queue" /\ Len(queue) < N
    /\ queue' = Append(queue, r)
    /\ pPC' = [pPC EXCEPT ![r] = "offer"]
    /\ UNCHANGED <<g, srcVars, errs, routerVars, pRes, spent, fPC, held, left, cur, hol,
                   cancelled, conVars, histVars>>

\* Op.next: the next leg with a result, or unwait once every leg is at EOS.
CombineNext ==
    /\ g.fanin = "combine" /\ fPC = "next"
    /\ \/ /\ held = Routes
          /\ fPC' = "unwait" /\ left' = Routes
          /\ UNCHANGED <<queue, cur>>
       \/ /\ held # Routes /\ queue # <<>>
          /\ cur' = Head(queue) /\ queue' = Tail(queue)
          /\ fPC' = "recv"
          /\ UNCHANGED left
    /\ UNCHANGED <<g, srcVars, errs, routerVars, legVars, held, hol, cancelled, conVars,
                   histVars>>

\* The receive from next.resultCh: an EOS blocks the leg, which then waits.
CombineRecv ==
    /\ g.fanin = "combine" /\ fPC = "recv" /\ pPC[cur] = "offer"
    /\ \/ /\ pRes[cur] = ERR /\ ReturnErr
          /\ pPC' = [pPC EXCEPT ![cur] = "end"]
          /\ UNCHANGED held
       \/ /\ pRes[cur] = EOS
          /\ held' = held \cup {cur}
          /\ pPC' = [pPC EXCEPT ![cur] = "wait"]
          /\ fPC' = "next"
          /\ UNCHANGED <<cPC, cplat, early, cancelled, got>>
       \/ /\ pRes[cur] \in Batches /\ ReturnBatch(cur, pRes[cur])
          /\ pPC' = [pPC EXCEPT ![cur] = "pull"]
          /\ UNCHANGED held
    /\ UNCHANGED <<g, srcVars, errs, routerVars, pRes, spent, queue, left, cur, hol, fwd, swallowed>>

\* Op.unwait receives one token from every leg's wait, in any order, and then
\* all of them are unblocked and the Pull returns EOS.
CombineUnwait(r) ==
    /\ fPC = "unwait" /\ pPC[r] = "wait"
    /\ pPC' = [pPC EXCEPT ![r] = "pull"]
    /\ left' = left \ {CHOOSE q \in left : TRUE}
    /\ IF Cardinality(left) = 1
       THEN held' = {} /\ ReturnEOS
       ELSE UNCHANGED <<held, fPC, got, cancelled, conVars>>
    /\ UNCHANGED <<g, srcVars, errs, routerVars, pRes, spent, queue, cur, hol, fwd, swallowed>>

\* propagateDone: one goroutine per unblocked leg drains the queue ...
CombineDrain ==
    /\ g.fanin = "combine" /\ fPC = "done" /\ left # {} /\ queue # <<>>
    /\ queue' = Tail(queue)
    /\ UNCHANGED <<g, srcVars, errs, routerVars, legVars, fPC, held, left, cur, hol,
                   cancelled, conVars, histVars>>

\* (A variant that does not pass the done upstream.)
CombineDoneQuiet(r) ==
    /\ g.fanin = "combine" /\ fPC = "done" /\ r \in left /\ pPC[r] = "offer"
    /\ left' = left \ {r}
    /\ held' = held \cup {r}
    /\ pPC' = [pPC EXCEPT ![r] = "wait"]
    /\ swallowed' = (swallowed \/ pRes[r] = ERR)
    /\ UNCHANGED <<g, srcVars, errs, routerVars, pRes, spent, fPC, queue, cur, hol,
                   cancelled, conVars, fwd, got>>

\* ... and hands its leg a done.  A leg that holds an EOS, or an error, does not
\* pass it upstream and waits; one that holds a batch drops it and does.
CombineDone(r) ==
    /\ g.fanin = "combine" /\ fPC = "done" /\ r \in left /\ pPC[r] = "offer"
    /\ left' = left \ {r}
    /\ held' = held \cup {r}
    /\ pPC' = [pPC EXCEPT ![r] = IF pRes[r] \in Batches THEN "pulldone" ELSE "wait"]
    /\ swallowed' = (swallowed \/ pRes[r] = ERR)
    /\ UNCHANGED <<g, srcVars, errs, routerVars, pRes, spent, fPC, queue, cur, hol,
                   cancelled, conVars, fwd, got>>

\* When all have, what is left in the queue is thrown away.
CombineDoneAll ==
    /\ g.fanin = "combine" /\ fPC = "done" /\ left = {}
    /\ queue' = <<>>
    /\ fPC' = "unwait" /\ left' = Routes
    /\ UNCHANGED <<g, srcVars, errs, routerVars, legVars, held, cur, hol, cancelled,
                   conVars, histVars>>

(***************************************************************************)
(* merge.                                                                  *)
(***************************************************************************)

\* Where start goes when every leg has been replenished: the first Pull goes
\* on, one that found the heap empty or has propagated a done returns EOS.
MergeStarted(first) ==
    IF first THEN /\ fPC' = IF cPC = "done" THEN "done" ELSE "next"
                  /\ UNCHANGED <<got, cancelled, conVars>>
             ELSE ReturnEOS

\* start: replenish the legs one after the other, in order.
MergeStart ==
    /\ fPC \in {"start", "eos"} /\ left # {}
    /\ LET r == CHOOSE q \in left : \A x \in left : q <= x IN
       /\ pPC[r] = "offer"
       /\ pPC' = [pPC EXCEPT ![r] = IF pRes[r] = ERR THEN "end" ELSE "pull"]
       /\ held' = IF pRes[r] \in Batches THEN held \cup {r} ELSE held
       /\ hol' = [hol EXCEPT ![r] = pRes[r]]
       /\ left' = left \ {r}
       /\ IF pRes[r] = ERR THEN ReturnErr
          ELSE IF left = {r} THEN MergeStarted(fPC = "start")
          ELSE UNCHANGED <<fPC, got, cancelled, conVars>>
    /\ UNCHANGED <<g, srcVars, errs, routerVars, pRes, spent, queue, cur, fwd, swallowed>>

\* Pull: an empty heap is an EOS and restarts every leg; else some leg is the
\* least, and its batch is returned once the leg is replenished.  (Where values of
\* legs overlap, one Pull of the code may return parts of batches of several legs.
\* Here a Pull ends when the last value of a batch is taken; as the consumer can
\* pull again at once, the states that the code passes through are among these.)
MergeNext ==
    /\ g.fanin = "merge" /\ fPC = "next"
    /\ \/ /\ held = {}
          /\ fPC' = "eos" /\ left' = Routes
          /\ UNCHANGED cur
       \/ /\ cur' \in held
          /\ fPC' = "recv"
          /\ UNCHANGED left
    /\ UNCHANGED <<g, srcVars, errs, routerVars, legVars, queue, held, hol, cancelled,
                   conVars, histVars>>

\* replenish: the goroutine goes on pulling, past an EOS too.
MergeReplenish ==
    /\ g.fanin = "merge" /\ fPC = "recv" /\ pPC[cur] = "offer"
    /\ pPC' = [pPC EXCEPT ![cur] = IF pRes[cur] = ERR THEN "end" ELSE "pull"]
    /\ held' = IF pRes[cur] \in Batches THEN held ELSE held \ {cur}
    /\ hol' = [hol EXCEPT ![cur] = pRes[cur]]
    /\ IF pRes[cur] = ERR THEN ReturnErr ELSE ReturnBatch(cur, hol[cur])
    /\ UNCHANGED <<g, srcVars, errs, routerVars, pRes, spent, queue, left, cur, fwd, swallowed>>

\* propagateDone: pop a leg of the heap, or start over when it is empty.
MergePop ==
    /\ g.fanin = "merge" /\ fPC = "done"
    /\ \/ /\ held = {} /\ fPC' = "eos" /\ left' = Routes
          /\ UNCHANGED <<held, cur>>
       \/ /\ cur' \in held /\ held' = held \ {cur'}
          /\ fPC' = "pop" /\ UNCHANGED left
    /\ UNCHANGED <<g, srcVars, errs, routerVars, legVars, queue, hol, cancelled, conVars,
                   histVars>>

\* Hand it a done, which the leg passes upstream whatever result it holds.
MergeDone ==
    /\ fPC = "pop" /\ pPC[cur] = "offer"
    /\ pPC' = [pPC EXCEPT ![cur] = "pulldone"]
    /\ fPC' = "done"
    /\ UNCHANGED <<g, srcVars, errs, routerVars, pRes, spent, queue, held, left, cur, hol,
                   cancelled, conVars, histVars>>

(***************************************************************************)
(* mux.                                                                    *)
(***************************************************************************)

\* Pull receives from any leg; EOS of a leg is returned as the end of its
\* channel, and its goroutine ends.
MuxRecv(r) ==
    /\ g.fanin = "mux" /\ fPC = "next" /\ held # Routes /\ pPC[r] = "offer"
    /\ pPC' = [pPC EXCEPT ![r] = IF pRes[r] \in Batches THEN "pull" ELSE "end"]
    /\ \/ pRes[r] = ERR /\ ReturnErr /\ UNCHANGED held
       \/ /\ pRes[r] = EOS
          /\ held' = held \cup {r}
          /\ cPC' = "idle" /\ fPC' = "idle"
          /\ UNCHANGED <<cplat, early, got, cancelled>>
       \/ pRes[r] \in Batches /\ ReturnBatch(r, pRes[r]) /\ UNCHANGED held
    /\ UNCHANGED <<g, srcVars, errs, routerVars, pRes, spent, queue, left, cur, hol, fwd, swallowed>>

\* Every leg has ended: the context is cancelled and EOS returned.
MuxEOS ==
    /\ g.fanin = "mux" /\ fPC = "next" /\ held = Routes
    /\ cancelled' = TRUE
    /\ cPC' = "idle" /\ fPC' = "idle"
    /\ cplat' = cplat + 1 /\ early' = FALSE
    /\ UNCHANGED <<g, srcVars, errs, routerVars, legVars, queue, held, left, cur, hol, histVars>>

----------------------------------------------------------------------------

RouterStep ==
    \/ RouterDone \/ RouterBatch \/ RouterEOS \/ RouterSkip \/ RouterCancelled
    \/ \E r \in Routes : RouterSend(r) \/ RouterTakesDone(r)

LegStep(r) == HeadEOS(r) \/ CombineQueue(r) \/ LegCancelled(r)

FanInStep ==
    \/ CombineNext \/ CombineRecv \/ CombineDrain \/ CombineDoneAll
    \/ \E r \in Routes : CombineUnwait(r) \/ CombineDone(r) \/ MuxRecv(r)
    \/ MergeStart \/ MergeNext \/ MergeReplenish \/ MergePop \/ MergeDone
    \/ MuxEOS \/ PullCancelled

Next ==
    \/ RouterStep \/ FanInStep \/ \E r \in Routes : LegStep(r)
    \/ ConsumerPull \/ ConsumerStop \/ Cancel

Spec == Init /\ [][Next]_vars

\* Every goroutine that can take a step takes one, and a consumer that is owed
\* an EOS goes on pulling.
Fairness ==
    /\ WF_vars(RouterStep) /\ WF_vars(FanInStep)
    /\ \A r \in Routes : WF_vars(LegStep(r))
    /\ WF_vars(ConsumerPull) /\ WF_vars(ConsumerStop)

FairSpec == Spec /\ Fairness

(***************************************************************************)
(* Properties.                                                             *)
(***************************************************************************)

\* EOS and done meet exactly once per route and platoon (the invariant claimed
\* at Router.sendEOS): what the consumer receives in its k-th platoon comes
\* from the k-th platoon of the source, on every leg, unless a done has hidden
\* the error of a leg from combine.  (The types of the state are checked along
\* with it.)
PlatoonsAligned == TypeOK /\ (~swallowed => \A x \in got : x[2][1] = x[3])

\* When the fan-in returns EOS by itself, every batch that the Router forwarded
\* to a leg in that platoon has reached the consumer through that leg, or the
\* first one has where the leg is a head: no done, EOS or blocked route of
\* another leg swallows a batch.
NothingMissed ==
    (cplat > 1 /\ ~early /\ ~swallowed) =>
        \A f \in fwd :
            f[2][1] = cplat - 1 =>
                \/ <<f[1], f[2], cplat - 1>> \in got
                \/ f[1] \in g.heads /\ \E i \in 1..MaxBatches :
                        i < f[2][2] /\ <<f[1], <<f[2][1], i>>, cplat - 1>> \in got

\* Every Pull of the consumer returns, done or not: the Router, the legs and
\* the fan-in never come to wait for each other, unless a done has hidden the
\* error of a leg: its route is then never told of the done.
PullsReturn == (cPC \in {"pull", "done"}) ~> (cPC \in {"idle", "stop"} \/ swallowed)

\* Once the context is cancelled, by the end of the query, an error or from
\* outside, the goroutines of the Router and of the fan-in end.
GoroutinesEnd ==
    cancelled ~> (rPC = "end" /\ cPC = "stop" /\ \A r \in Routes : pPC[r] \in {"idle", "end"})

\* zbuf/batch.go says that a nil batch with a nil error signals end of stream.
\* The consumer is not told EOS for a platoon whose source failed.
SourceErrorSeen == (srcErr /\ ~early) => cplat <= plat

(***************************************************************************)
(* The inductive invariant behind PlatoonsAligned and NothingMissed, in    *)
(* named parts.  A source of several platoons is read by a combine.        *)
(***************************************************************************)

PlatoonsCombined == \A x \in Graphs : x.source = "platoons" => x.fanin = "combine"

\* The calls and the goroutines where they stand.
CallInv ==
    /\ fPC # "idle" => cPC \in {"pull", "done"}
    /\ fPC \in {"next", "recv"} => cPC = "pull"
    /\ fPC \in {"done", "pop"} => cPC = "done"
    /\ cPC \in {"pull", "done"} => cplat <= LastPlatoon
    /\ cplat <= LastPlatoon + 1
    /\ g.fanin = "mux" => cPC # "done"
    /\ fPC \in {"start", "eos", "pop"} => g.fanin = "merge"
    /\ fPC \in {"start", "eos"} => left \cap held = {}
    /\ fPC = "unwait" => g.fanin = "combine"
    /\ fPC = "recv" => g.fanin # "mux" /\ (g.fanin = "merge" => cur \in held)
    /\ fPC = "pop" => cur \notin held

\* The Router: a route is blocked only in a platoon of which a batch was read.
RouterInv ==
    /\ rPC = "top" => rTodo = <<>>
    /\ rPC = "eos" => rTodo # <<>> /\ rBatch = EOS /\ Routes \ Range(rTodo) \subseteq blocked
    /\ rPC = "fwd" => rBatch \in Batches
    /\ (rTodo # <<>> /\ rBatch \in Batches) => rBatch = <<plat, nb>> /\ ~srcErr
    /\ IsInjective(rTodo)
    /\ (rPC \in {"top", "fwd"} /\ blocked # {}) => plat <= LastPlatoon
    /\ g.source = "original" => plat <= 2 /\ (rPC = "eos" => plat = 2 \/ srcErr)
    /\ (rTodo # <<>> /\ rBatch \in Batches) => plat <= LastPlatoon
    /\ \A f \in fwd : f[2][1] <= plat /\ f[2][1] <= LastPlatoon

\* What a leg may be at: no leg has started before the first Pull, a head that has said
\* done has its batch, and so has a leg in the heap of a merge, which a leg that is told
\* of a done has left.
LegOK(r) ==
    /\ pPC[r] = "idle" =>
          fwd = {} /\ fPC = "idle" /\ held = {} /\ \A q \in Routes : pPC[q] = "idle"
    /\ pPC[r] = "legdone" => r \in g.heads \ spent /\ pRes[r] \in Batches
    /\ r \in spent => /\ pPC[r] \in {"queue", "offer", "pull", "pulldone", "end"}
                      /\ pPC[r] \in {"queue", "offer"} => pRes[r] \in Batches
    /\ (g.fanin = "merge" /\ r \in held) => hol[r] \in Batches
    /\ pPC[r] = "pulldone" => /\ g.fanin # "mux"
                              /\ g.fanin = "merge" => r \notin held /\ fPC # "start"
                              /\ g.fanin = "combine" => cPC \in {"done", "stop"}
LegInv == \A r \in Routes : LegOK(r)

\* The batch b is on its way through leg r, in its goroutine or in the heap of a merge.
Holding(r, b) ==
    \/ pPC[r] \in {"legdone", "queue", "offer"} /\ pRes[r] = b
    \/ g.fanin = "merge" /\ r \in held /\ hol[r] = b

\* combine: the legs whose token unwait has yet to receive.
Waiting == {r \in Routes : pPC[r] \in {"wait", "pulldone"}}

\* The platoon that leg r is in: once unwait has its token, the next one.
LegAt(r) == IF fPC = "unwait" /\ r \notin Waiting THEN cplat + 1 ELSE cplat

\* combine: blocked legs wait, and unwait receives one token of each.
WaitInv ==
    (g.fanin = "combine" /\ cPC # "stop") =>
        /\ fPC # "unwait" => \A r \in held : pPC[r] \in {"wait", "pulldone", "end"}
        /\ fPC = "unwait" => held = Routes /\ Cardinality(Waiting) <= Cardinality(left)
        /\ fPC = "done" => Routes \subseteq held \cup left

\* The Router has ended the platoon of leg r, with EOS or a done.
Resolved(r) ==
    r \in spent \/ pPC[r] = "wait" \/ (pPC[r] \in {"queue", "offer"} /\ pRes[r] = EOS)

\* The platoon that route r is in.
RouteAt(r) ==
    (IF rPC = "eos" THEN plat - 1 ELSE plat) + (IF r \in blocked THEN 1 ELSE 0)

\* Leg r is still part of what the consumer gets.
Active(r) == pPC[r] # "end" /\ cPC # "stop" /\ ~swallowed

\* EOS and done meet once per route and platoon: a leg and its route are in the same
\* platoon, or the route is one ahead because it has ended the leg's.
Lockstep(r) ==
    (~srcErr /\ rPC # "end") => RouteAt(r) = IF Resolved(r) THEN LegAt(r) + 1 ELSE LegAt(r)
LockstepInv == g.source = "platoons" => \A r \in Routes : Active(r) => Lockstep(r)

\* What a leg holds is of its platoon; a plain source has only one.
InPlatoon(r) ==
    \A b \in Batches :
        Holding(r, b) => b[1] = IF g.source = "original" THEN 1 ELSE LegAt(r)
HoldingInv == \A r \in Routes : Active(r) \/ g.source = "original" => InPlatoon(r)

\* A head leg that is about to say done holds a batch from before the one that the
\* Router is offering.
HeadOK(r) ==
    (pPC[r] = "legdone" /\ ~srcErr) =>
        /\ pRes[r][1] <= plat
        /\ pRes[r][1] = plat => pRes[r][2] <= nb
        /\ (pRes[r][1] = plat /\ rPC = "fwd" /\ r \in Range(rTodo)) => pRes[r][2] < nb
HeadInv == \A r \in Routes : HeadOK(r)

Got(r, b) == <<r, b, b[1]>> \in got
Has(r, b) == Got(r, b) \/ Holding(r, b)

\* The Router will still offer b to route r.
Offering(r, b) == rBatch = b /\ r \in Range(rTodo) \ blocked

\* Batch b of leg r has been returned, or an earlier one that is all a head wants.
Through(r, b) ==
    Got(r, b) \/ (r \in g.heads /\ \E j \in 1..MaxBatches : j < b[2] /\ Got(r, <<b[1], j>>))

\* It is on its way, or has been returned.
Accounted(r, b) ==
    \/ Has(r, b) \/ Offering(r, b)
    \/ r \in g.heads /\ \E j \in 1..MaxBatches : j < b[2] /\ Has(r, <<b[1], j>>)

\* Route r is given no more of platoon p, unless as a head that has its batch.
NoMoreBut(r, p, hasBatch) ==
    srcErr \/ plat > p \/ (plat = p /\ rPC # "eos" /\ r \in blocked /\ hasBatch)
NoMore(r, p) ==
    NoMoreBut(r, p, r \in g.heads /\ \E j \in 1..MaxBatches : j <= nb /\ Has(r, <<p, j>>))

\* The consumer has all of platoon p that leg r will ever give.
Finished(r, p) ==
    /\ \A b \in Batches : (<<r, b>> \in fwd /\ b[1] = p) => Through(r, b)
    /\ NoMoreBut(r, p, r \in g.heads /\ \E j \in 1..MaxBatches : j <= nb /\ Got(r, <<p, j>>))

\* merge: leg r is past its EOS.
Past(r) ==
    g.fanin = "merge" /\ r \notin held /\ ~(fPC = "start" /\ r \in left) /\ pPC[r] # "idle"

\* The fan-in has seen the EOS of leg r.
AtEnd(r) == (g.fanin # "merge" /\ r \in held) \/ Past(r) \/ fPC = "eos"

\* Leg r has an error for the consumer.
Broken(r) == pPC[r] \in {"queue", "offer"} /\ pRes[r] = ERR

\* What leg r is given is owed to the consumer.
Watched(r) == Active(r) /\ ~Past(r) /\ ~Broken(r)

\* The consumer has said done in platoon p.
Excused(p) == cPC = "done" /\ p = cplat

\* The platoon of leg r has ended, or its route has been blocked in it.
Ended(r) == Resolved(r) \/ (rPC \in {"top", "fwd"} /\ r \in blocked /\ plat = LegAt(r))

\* No batch that was forwarded to leg r is dropped unless the consumer has said done.
AccountOK(r) ==
    /\ \A b \in Batches :
          (<<r, b>> \in fwd /\ b[1] >= LegAt(r) /\ ~Excused(b[1])) => Accounted(r, b)
    /\ (Ended(r) /\ LegAt(r) <= LastPlatoon /\ ~Excused(LegAt(r))) => NoMore(r, LegAt(r))
AccountInv == \A r \in Routes : Watched(r) => AccountOK(r)

\* Where the fan-in has seen the EOS of a leg, the leg is finished; so are all
\* legs when the fan-in has returned EOS by itself.
FinishedInv ==
    ~swallowed =>
        /\ (cPC \in {"idle", "pull"} /\ cplat <= LastPlatoon) =>
              \A r \in Routes : AtEnd(r) => Finished(r, cplat)
        /\ (cplat > 1 /\ ~early) => \A r \in Routes : Finished(r, cplat - 1)

FlowInv ==
    /\ PlatoonsAligned /\ CallInv /\ RouterInv /\ LegInv /\ WaitInv
    /\ LockstepInv /\ HoldingInv /\ HeadInv /\ AccountInv /\ FinishedInv
============================================================================
