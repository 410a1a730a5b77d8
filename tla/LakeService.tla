---------------------------- MODULE LakeService ----------------------------
(***************************************************************************)
(* The parts of the HTTP service (service/core.go, service/handlers.go)    *)
(* that keep state of their own: the event feed and the running queries.   *)
(*                                                                         *)
(* A handler that changed the lake publishes an event from a goroutine,    *)
(* which holds subscriptionsMu for reading while it sends to one unbuffered *)
(* channel after the other.  An /events request adds its channel under the *)
(* write lock, receives in a loop and, when its client is gone, takes the  *)
(* write lock again to remove the channel.                                 *)
(*                                                                         *)
(* A /query request runs the flowgraph in a goroutine that hands over one  *)
(* result at a time, writes the results through a writer that may keep     *)
(* them in a buffer, and registers a status which a /query/status request  *)
(* can wait for until ten seconds after the query is done.                 *)
(*                                                                         *)
(* A client may go away or, staying connected, stop reading: the server    *)
(* sets no write timeout (pkg/httpd/server.go), so that a write to such a  *)
(* client need not return.                                                 *)
(***************************************************************************)
EXTENDS Naturals, Sequences, SequencesExt, FiniteSets

CONSTANTS
    Subs,        \* /events requests
    Ops,         \* requests that change the lake and publish one event
    Queries,     \* /query requests
    StatusReqs,  \* /query/status requests
    Workloads,   \* which requests may arrive together
    IDOf,        \* the X-Request-ID of a query
    None,
    MaxBatches   \* bound on the batches one query produces

ASSUME NoneAssumption == None \notin Subs \cup Queries
ASSUME SubsAssumption == IsFiniteSet(Subs)
ASSUME WorkloadsAssumption == Workloads \subseteq SUBSET (Subs \cup Ops \cup Queries \cup StatusReqs)
ASSUME MaxBatchesAssumption == MaxBatches \in Nat

IDs == {IDOf[q] : q \in Queries}

VARIABLE
    workload        \* the requests that may arrive

VARIABLES
    subscriptions,  \* Core.subscriptions: the registered channels
    writer,         \* the request that holds or has announced the write lock
    opPC,           \* where a publishing goroutine stands
    todo,           \* the channels it still has to send to, in map order
    subPC,          \* where an /events handler stands
    got,            \* the events an /events request has received
    cancelled,      \* requests whose client is gone and whose context is done
    stalled         \* requests whose client has stopped reading

clientVars == <<cancelled, stalled>>
feedVars == <<subscriptions, writer, opPC, todo, subPC, got>>
eventVars == <<feedVars, clientVars, workload>>

VARIABLES
    runningQueries, \* Core.runningQueries
    qPC,            \* where a query handler stands
    puller,         \* where its Pull goroutine stands
    result,         \* the result the goroutine has to hand over
    produced,       \* batches the flowgraph has produced
    form,           \* what its queryio.Writer does: buffer, write control messages
    sent,           \* batches given to the response
    buffered,       \* batches in the writer's buffer
    qerr,           \* queryStatus.error: whether an error was recorded
    expiring,       \* queries whose remove goroutine sleeps
    stPC,           \* where a status request stands
    stQ             \* the query status it found

responseVars == <<form, sent, buffered>>
statusVars == <<stPC, stQ>>
queryVars == <<runningQueries, qPC, puller, result, produced, responseVars, qerr, expiring,
               statusVars>>
vars == <<eventVars, queryVars>>

\* The bsup writer collects values in frames, others flush each value; control
\* messages are written if the request asks for them and the format has them.
Forms == [buffers : BOOLEAN, ctrl : BOOLEAN]

\* The requests that have arrived, and those to which a write need not return.
Begun == {s \in Subs : subPC[s] # "idle"} \cup {q \in Queries : qPC[q] # "idle"}
Blocked(r) == r \in stalled /\ r \notin cancelled

\* The goroutines that hold subscriptionsMu for reading.
Readers == {o \in Ops : opPC[o] = "sending"}

TypeOK ==
    /\ workload \in Workloads
    /\ subscriptions \subseteq Subs
    /\ writer \in Subs \cup {None}
    /\ opPC \in [Ops -> {"idle", "rlock", "blocked", "sending", "end"}]
    /\ todo \in [Ops -> Seq(Subs)]
    /\ subPC \in [Subs -> {"idle", "add", "loop", "writing", "del", "gone"}]
    /\ got \in [Subs -> SUBSET Ops]
    /\ cancelled \subseteq Subs \cup Queries
    /\ stalled \subseteq Subs \cup Queries
    /\ runningQueries \in [IDs -> Queries \cup {None}]
    /\ qPC \in [Queries -> {"idle", "loop", "write", "progress", "last", "error", "return",
                           "close", "end"}]
    /\ puller \in [Queries -> {"idle", "pull", "send", "end"}]
    /\ result \in [Queries -> {"none", "batch", "eos", "err", "empty"}]
    /\ produced \in [Queries -> 0..MaxBatches]
    /\ form \in [Queries -> Forms]
    /\ sent \in [Queries -> 0..MaxBatches]
    /\ buffered \in [Queries -> 0..MaxBatches]
    /\ qerr \in [Queries -> BOOLEAN]
    /\ expiring \subseteq Queries
    /\ stPC \in [StatusReqs -> {"idle", "wait", "answered", "notfound"}]
    /\ stQ \in [StatusReqs -> Queries \cup {None}]

Init ==
    /\ workload \in Workloads
    /\ subscriptions = {}
    /\ writer = None
    /\ opPC = [o \in Ops |-> "idle"]
    /\ todo = [o \in Ops |-> <<>>]
    /\ subPC = [s \in Subs |-> "idle"]
    /\ got = [s \in Subs |-> {}]
    /\ cancelled = {}
    /\ stalled = {}
    /\ runningQueries = [i \in IDs |-> None]
    /\ qPC = [q \in Queries |-> "idle"]
    /\ puller = [q \in Queries |-> "idle"]
    /\ result = [q \in Queries |-> "none"]
    /\ produced = [q \in Queries |-> 0]
    /\ form = [q \in Queries |-> [buffers |-> FALSE, ctrl |-> FALSE]]
    /\ sent = [q \in Queries |-> 0]
    /\ buffered = [q \in Queries |-> 0]
    /\ qerr = [q \in Queries |-> FALSE]
    /\ expiring = {}
    /\ stPC = [t \in StatusReqs |-> "idle"]
    /\ stQ = [t \in StatusReqs |-> None]

(***************************************************************************)
(* The event feed.                                                         *)
(***************************************************************************)

\* A handler that changes the lake: an error is reported to the client and
\* nothing is published, success starts the publishing goroutine.
LakeOp(o) ==
    /\ opPC[o] = "idle" /\ o \in workload
    /\ \E pc \in {"rlock", "end"} : opPC' = [opPC EXCEPT ![o] = pc]
    /\ UNCHANGED <<subscriptions, writer, todo, subPC, got, clientVars, workload, queryVars>>

\* subscriptionsMu.RLock(): a Go RWMutex lets no reader in once a writer has
\* announced itself.  The loop then visits the map in any order.
RLock(o) ==
    /\ opPC[o] = "rlock"
    /\ IF writer = None
       THEN /\ opPC' = [opPC EXCEPT ![o] = "sending"]
            /\ \E order \in SetToSeqs(subscriptions) : todo' = [todo EXCEPT ![o] = order]
       ELSE /\ opPC' = [opPC EXCEPT ![o] = "blocked"]
            /\ UNCHANGED todo
    /\ UNCHANGED <<subscriptions, writer, subPC, got, clientVars, workload, queryVars>>

\* "sub <- ev" meets the receive of that subscriber's select.
Send(o) ==
    /\ opPC[o] = "sending" /\ todo[o] # <<>>
    /\ LET s == Head(todo[o]) IN
       /\ subPC[s] = "loop"
       /\ subPC' = [subPC EXCEPT ![s] = "writing"]
       /\ got' = [got EXCEPT ![s] = @ \cup {o}]
    /\ todo' = [todo EXCEPT ![o] = Tail(@)]
    /\ UNCHANGED <<subscriptions, writer, opPC, clientVars, workload, queryVars>>

RUnlock(o) ==
    /\ opPC[o] = "sending" /\ todo[o] = <<>>
    /\ opPC' = [opPC EXCEPT ![o] = "end"]
    /\ UNCHANGED <<subscriptions, writer, todo, subPC, got, clientVars, workload, queryVars>>

\* An /events request arrives and comes to its first Lock.
Subscribe(s) ==
    /\ subPC[s] = "idle" /\ s \in workload
    /\ subPC' = [subPC EXCEPT ![s] = "add"]
    /\ UNCHANGED <<subscriptions, writer, opPC, todo, got, clientVars, workload, queryVars>>

\* subscriptionsMu.Lock(), first half: one writer at a time announces itself.
AnnounceLock(s) ==
    /\ subPC[s] \in {"add", "del"}
    /\ writer = None
    /\ writer' = s
    /\ UNCHANGED <<subscriptions, opPC, todo, subPC, got, clientVars, workload, queryVars>>

\* (A variant that adds to the map while it is being read.)
LockedUpdateAdds(s) ==
    /\ writer = s
    /\ subPC[s] = "del" => Readers = {}
    /\ subscriptions' = IF subPC[s] = "add" THEN subscriptions \cup {s}
                                            ELSE subscriptions \ {s}
    /\ subPC' = [subPC EXCEPT ![s] = IF @ = "add" THEN "writing" ELSE "gone"]
    /\ writer' = None
    /\ opPC' = [o \in Ops |-> IF opPC[o] = "blocked" THEN "sending" ELSE opPC[o]]
    /\ \E order \in [{o \in Ops : opPC[o] = "blocked"} -> SetToSeqs(subscriptions')] :
          todo' = [o \in Ops |-> IF opPC[o] = "blocked" THEN order[o] ELSE todo[o]]
    /\ UNCHANGED <<got, clientVars, workload, queryVars>>

\* The second half waits for the readers; the map is changed, and Unlock lets
\* in every reader that was blocked.  A new subscriber writes its header next.
LockedUpdate(s) ==
    /\ writer = s
    /\ Readers = {}
    /\ subscriptions' = IF subPC[s] = "add" THEN subscriptions \cup {s}
                                            ELSE subscriptions \ {s}
    /\ subPC' = [subPC EXCEPT ![s] = IF @ = "add" THEN "writing" ELSE "gone"]
    /\ writer' = None
    /\ opPC' = [o \in Ops |-> IF opPC[o] = "blocked" THEN "sending" ELSE opPC[o]]
    /\ \E order \in [{o \in Ops : opPC[o] = "blocked"} -> SetToSeqs(subscriptions')] :
          todo' = [o \in Ops |-> IF opPC[o] = "blocked" THEN order[o] ELSE todo[o]]
    /\ UNCHANGED <<got, clientVars, workload, queryVars>>

\* The header, or an event, is written and flushed to the client, or the write
\* fails and the handler goes on.
WriteEvent(s) ==
    /\ subPC[s] = "writing"
    /\ subPC' = [subPC EXCEPT ![s] = "loop"]
    /\ UNCHANGED <<subscriptions, writer, opPC, todo, got, clientVars, workload, queryVars>>

\* (A variant that returns without removing its channel.)
SeeDoneAndReturn(s) ==
    /\ subPC[s] = "loop" /\ s \in cancelled
    /\ subPC' = [subPC EXCEPT ![s] = "gone"]
    /\ UNCHANGED <<subscriptions, writer, opPC, todo, got, clientVars, workload, queryVars>>

\* The select takes r.Context().Done() and the handler comes to its second Lock.
SeeDone(s) ==
    /\ subPC[s] = "loop" /\ s \in cancelled
    /\ subPC' = [subPC EXCEPT ![s] = "del"]
    /\ UNCHANGED <<subscriptions, writer, opPC, todo, got, clientVars, workload, queryVars>>

\* The client of a request goes away.
Disconnect(r) ==
    /\ r \in Begun \ cancelled
    /\ cancelled' = cancelled \cup {r}
    /\ UNCHANGED <<feedVars, stalled, workload, queryVars>>

\* The client stays connected and reads no more.
StopReading(r) ==
    /\ r \in Begun \ (cancelled \cup stalled)
    /\ stalled' = stalled \cup {r}
    /\ UNCHANGED <<feedVars, cancelled, workload, queryVars>>

(***************************************************************************)
(* Queries and their status.                                               *)
(***************************************************************************)

\* handleQuery up to its loop: a query that does not compile never gets here.
StartQuery(q) ==
    /\ qPC[q] = "idle" /\ q \in workload
    /\ qPC' = [qPC EXCEPT ![q] = "loop"]
    /\ runningQueries' = [runningQueries EXCEPT ![IDOf[q]] = q]
    /\ puller' = [puller EXCEPT ![q] = "pull"]
    /\ \E f \in Forms : form' = [form EXCEPT ![q] = f]
    /\ UNCHANGED <<result, produced, sent, buffered, qerr, expiring, statusVars, eventVars>>

\* flowgraph.Pull(false) returns.  journal.ErrEmpty comes from opening an
\* empty pool, so before any batch.
PullReturns(q) ==
    /\ puller[q] = "pull"
    /\ \E r \in {"batch", "eos", "err", "empty"} :
          /\ r = "batch" => produced[q] < MaxBatches
          /\ r = "empty" => produced[q] = 0
          /\ result' = [result EXCEPT ![q] = r]
          /\ produced' = [produced EXCEPT ![q] = IF r = "batch" THEN @ + 1 ELSE @]
    /\ puller' = [puller EXCEPT ![q] = "send"]
    /\ UNCHANGED <<runningQueries, qPC, responseVars, qerr, expiring, statusVars, eventVars>>

\* Where the handler goes with a result: a batch is written, the end is followed
\* by the last progress message, an error is handled, and ErrEmpty is none.
After(r) == CASE r = "batch" -> "write"
              [] r = "eos"   -> "last"
              [] r = "err"   -> "error"
              [] OTHER       -> "return"

\* The select receives a result, and the goroutine goes on or ends.
ReceiveResult(q) ==
    /\ qPC[q] = "loop" /\ puller[q] = "send"
    /\ puller' = [puller EXCEPT ![q] = IF result[q] = "batch" THEN "pull" ELSE "end"]
    /\ qPC' = [qPC EXCEPT ![q] = After(result[q])]
    /\ UNCHANGED <<runningQueries, result, produced, responseVars, qerr, expiring,
                   statusVars, eventVars>>

\* The select takes the ticker; without control messages WriteProgress does nothing.
\* (The message for a channel's end, in between two batches, is one of these too.)
Tick(q) ==
    /\ qPC[q] = "loop" /\ form[q].ctrl
    /\ qPC' = [qPC EXCEPT ![q] = "progress"]
    /\ UNCHANGED <<runningQueries, puller, result, produced, responseVars, qerr, expiring,
                   statusVars, eventVars>>

\* WriteBatch: the batch goes to the response with all that was buffered, or stays
\* in the buffer, with the others or alone if a control message for its channel
\* flushed those.  A flush that fails reports nothing and leaves the buffer as it
\* is; other failures are reported.
WriteBatch(q) ==
    /\ qPC[q] = "write"
    /\ \/ \E left \in {0, 1, buffered[q] + 1} :
             /\ left > 0 => form[q].buffers
             /\ qPC' = [qPC EXCEPT ![q] = "loop"]
             /\ sent' = [sent EXCEPT ![q] = @ + buffered[q] + 1 - left]
             /\ buffered' = [buffered EXCEPT ![q] = left]
       \/ /\ qPC' = [qPC EXCEPT ![q] = "error"]
          /\ UNCHANGED <<sent, buffered>>
    /\ UNCHANGED <<runningQueries, puller, result, produced, form, qerr, expiring,
                   statusVars, eventVars>>

\* (A variant that empties the buffer although the write failed.)
FlushClears(q) ==
    /\ \/ sent' = [sent EXCEPT ![q] = @ + buffered[q]]
       \/ UNCHANGED sent
    /\ buffered' = [buffered EXCEPT ![q] = 0]

\* The writer's flush: what is buffered is written to the response or, if the write
\* fails, kept; an error is not reported.
Flush(q) ==
    \/ /\ sent' = [sent EXCEPT ![q] = @ + buffered[q]]
       /\ buffered' = [buffered EXCEPT ![q] = 0]
    \/ UNCHANGED <<sent, buffered>>

\* WriteControl of a progress message or, in handleError, of an error: the buffer
\* is flushed first.  If a progress message can not be written that is an error too;
\* the error is recorded whether or not the message about it could be written.
WriteControl(q) ==
    /\ qPC[q] \in {"progress", "last", "error"}
    /\ IF form[q].ctrl THEN Flush(q) ELSE UNCHANGED <<sent, buffered>>
    /\ \E fails \in BOOLEAN :
          /\ fails => form[q].ctrl
          /\ qPC' = [qPC EXCEPT ![q] = IF @ # "error" /\ fails THEN "error"
                                       ELSE IF @ = "progress" THEN "loop" ELSE "return"]
    /\ qerr' = [qerr EXCEPT ![q] = qPC[q] = "error"]
    /\ UNCHANGED <<runningQueries, puller, result, produced, form, expiring, statusVars,
                   eventVars>>

\* The deferred calls run last in first out: status.Done(), which lets the
\* waiting status requests go on and starts the removal, before writer.Close().
SignalDone(q) ==
    /\ qPC[q] = "return"
    /\ qPC' = [qPC EXCEPT ![q] = "close"]
    /\ expiring' = expiring \cup {q}
    /\ UNCHANGED <<runningQueries, puller, result, produced, responseVars, qerr, statusVars,
                   eventVars>>

\* writer.Close() writes what is left, after the status was answered; whatever
\* becomes of it, its error is dropped.
CloseWriter(q) ==
    /\ qPC[q] = "close"
    /\ Flush(q)
    /\ qPC' = [qPC EXCEPT ![q] = "end"]
    /\ UNCHANGED <<runningQueries, puller, result, produced, form, qerr, expiring,
                   statusVars, eventVars>>

\* (A variant that never deletes.)
RemoveNothing(q) ==
    /\ q \in expiring
    /\ expiring' = expiring \ {q}
    /\ UNCHANGED <<runningQueries, qPC, puller, result, produced, responseVars, qerr,
                   statusVars, eventVars>>

\* Ten seconds after done, remove deletes whatever the ID now stands for.
RemoveStatus(q) ==
    /\ q \in expiring
    /\ expiring' = expiring \ {q}
    /\ runningQueries' = [runningQueries EXCEPT ![IDOf[q]] = None]
    /\ UNCHANGED <<qPC, puller, result, produced, responseVars, qerr, statusVars, eventVars>>

\* handleQueryStatus looks the ID up.
AskStatus(t, i) ==
    /\ stPC[t] = "idle" /\ t \in workload
    /\ stQ' = [stQ EXCEPT ![t] = runningQueries[i]]
    /\ stPC' = [stPC EXCEPT ![t] = IF runningQueries[i] = None THEN "notfound" ELSE "wait"]
    /\ UNCHANGED <<runningQueries, qPC, puller, result, produced, responseVars, qerr,
                   expiring, eventVars>>

\* q.wg.Wait() returns once status.Done() was called, and the error is read.
AnswerStatus(t) ==
    /\ stPC[t] = "wait"
    /\ qPC[stQ[t]] \in {"close", "end"}
    /\ stPC' = [stPC EXCEPT ![t] = "answered"]
    /\ UNCHANGED <<runningQueries, qPC, puller, result, produced, responseVars, qerr,
                   expiring, stQ, eventVars>>

----------------------------------------------------------------------------

EventStep ==
    \/ \E o \in Ops : RLock(o) \/ Send(o) \/ RUnlock(o)
    \/ \E s \in Subs : AnnounceLock(s) \/ LockedUpdate(s) \/ WriteEvent(s) \/ SeeDone(s)

QueryStep ==
    \/ \E q \in Queries : \/ PullReturns(q) \/ ReceiveResult(q) \/ WriteBatch(q)
                          \/ WriteControl(q) \/ SignalDone(q) \/ CloseWriter(q)
                          \/ RemoveStatus(q)
    \/ \E t \in StatusReqs : AnswerStatus(t)

Environment ==
    \/ \E o \in Ops : LakeOp(o)
    \/ \E s \in Subs : Subscribe(s)
    \/ \E r \in Subs \cup Queries : Disconnect(r) \/ StopReading(r)
    \/ \E q \in Queries : StartQuery(q) \/ Tick(q)
    \/ \E t \in StatusReqs, i \in IDs : AskStatus(t, i)

Next == EventStep \/ QueryStep \/ Environment

Spec == Init /\ [][Next]_vars

\* The Go scheduler runs every goroutine that can go on; a mutex and a channel
\* are handed over first come first served.  A write to a client returns if the
\* client reads or is gone; of a client that is connected and does not read nothing
\* is assumed.  When a result is ready again and again between ticks, the select,
\* which chooses at random, takes it (strong fairness).
Fairness ==
    /\ \A o \in Ops : WF_vars(RLock(o)) /\ WF_vars(Send(o)) /\ WF_vars(RUnlock(o))
    /\ \A s \in Subs : /\ WF_vars(AnnounceLock(s)) /\ WF_vars(LockedUpdate(s))
                       /\ WF_vars(~Blocked(s) /\ WriteEvent(s)) /\ WF_vars(SeeDone(s))
    /\ \A q \in Queries : /\ WF_vars(PullReturns(q)) /\ SF_vars(ReceiveResult(q))
                          /\ WF_vars(~Blocked(q) /\ WriteBatch(q))
                          /\ WF_vars(~Blocked(q) /\ WriteControl(q))
                          /\ WF_vars(~Blocked(q) /\ CloseWriter(q))
                          /\ WF_vars(SignalDone(q)) /\ WF_vars(RemoveStatus(q))
    /\ \A t \in StatusReqs : WF_vars(AnswerStatus(t))

FairSpec == Spec /\ Fairness

(***************************************************************************)
(* Properties.                                                             *)
(***************************************************************************)

\* A goroutine sends to a subscriber whose client is gone and which waits for
\* the lock that the goroutine holds.
Wedged ==
    \E o \in Ops : /\ opPC[o] = "sending" /\ todo[o] # <<>>
                   /\ subPC[Head(todo[o])] = "del"

\* The wait of publishEvent and handleEvents on each other never ends, and
\* while it lasts no later subscription or removal takes effect.
WedgeStalls == [][Wedged => Wedged' /\ subscriptions' = subscriptions]_vars

\* A goroutine sends to a subscriber that is still writing to a client which is
\* connected and does not read.
Stuck ==
    \E o \in Ops : /\ opPC[o] = "sending" /\ todo[o] # <<>>
                   /\ subPC[Head(todo[o])] = "writing" /\ Blocked(Head(todo[o]))

\* An event published by publishEvent reaches every /events request that was
\* registered before it and whose client stays, unless some client went away
\* while a publishing goroutine was about to send to it (Wedged), or one has
\* stopped reading and holds a publishing goroutine up for ever (Stuck).
EventsArriveOrWedge ==
    \/ <>[]Stuck
    \/ \A o \in Ops, s \in Subs :
          (opPC[o] = "rlock" /\ s \in subscriptions)
              ~> (o \in got[s] \/ s \in cancelled \/ Wedged)

\* When handleQueryStatus answers that a query had no error, the flowgraph had
\* ended without one, and every batch it produced is in the response or still in
\* the buffer of the query's writer; the latter only if its format buffers.
\* (The types of the state are checked along with it.)
StatusTruthful ==
    /\ TypeOK
    /\ \A t \in StatusReqs :
          (stPC[t] = "answered" /\ ~qerr[stQ[t]]) =>
              LET q == stQ[t] IN
              /\ puller[q] = "end" /\ result[q] \in {"eos", "empty"}
              /\ sent[q] + buffered[q] = produced[q]
              /\ ~form[q].buffers => sent[q] = produced[q]

\* "This endpoint only responds after the query has exited" (docs/lake/api.md):
\* when handleQueryStatus answers, handleQuery has returned, its response complete.
RespondsAfterExit ==
    \A t \in StatusReqs : stPC[t] = "answered" => qPC[stQ[t]] = "end"

\* Every handleQuery returns, its status is forgotten in the end, and so is its
\* Pull goroutine, unless the client stays connected and never reads again.  When
\* the handler gave up early after a write error, the goroutine is left sending
\* a result that nobody receives.
QueriesEnd ==
    \A q \in Queries :
        \/ <>[]Blocked(q)
        \/ (qPC[q] = "loop")
              ~> /\ qPC[q] = "end"
                 /\ runningQueries[IDOf[q]] # q
                 /\ puller[q] = "end" \/ (puller[q] = "send" /\ qerr[q])
----------------------------------------------------------------------------
(***************************************************************************)
(* The inductive invariant behind StatusTruthful, in named parts.          *)
(***************************************************************************)

\* A batch that the handler is writing, and one that the Pull goroutine offers.
InWrite(q) == IF qPC[q] = "write" THEN 1 ELSE 0
InFlight(q) == IF puller[q] = "send" /\ result[q] = "batch" THEN 1 ELSE 0

\* Until the handler meets an error, each batch is in the response, in the buffer,
\* being written or offered; when it has left the loop without an error, the
\* flowgraph had ended.
QueryInv ==
    \A q \in Queries :
        /\ form[q].buffers \/ buffered[q] = 0
        /\ qPC[q] = "idle" => puller[q] = "idle" /\ produced[q] = 0
        /\ qPC[q] \notin {"return", "close", "end"} => ~qerr[q]
        /\ puller[q] = "send" => result[q] # "none"
        /\ sent[q] + buffered[q] + InWrite(q) <= produced[q]
        /\ qPC[q] \in {"loop", "write", "progress"} =>
              /\ puller[q] \in {"pull", "send"}
              /\ sent[q] + buffered[q] + InWrite(q) + InFlight(q) = produced[q]
        /\ qPC[q] \in {"last", "return", "close", "end"} /\ ~qerr[q] =>
              /\ puller[q] = "end" /\ result[q] \in {"eos", "empty"}
              /\ sent[q] + buffered[q] = produced[q]

\* A status request waits for a query that was started, and is answered once
\* that query is done.
StatusInv ==
    \A t \in StatusReqs :
        /\ stPC[t] \in {"wait", "answered"} => stQ[t] \in Queries
        /\ stPC[t] = "answered" => qPC[stQ[t]] \in {"close", "end"}

ServiceInv == TypeOK /\ QueryInv /\ StatusInv
============================================================================
