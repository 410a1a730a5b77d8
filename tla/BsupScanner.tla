---------------------------- MODULE BsupScanner ----------------------------
(***************************************************************************)
(* The reader of Super Binary (zio/bsupio), threaded and synchronous.      *)
(*                                                                         *)
(* The parser goroutine reads frames, keeps the Decoder that maps local    *)
(* type IDs to types, and hands each values frame to a free worker.  Before*)
(* the worker gets it, the channel its result will come on is queued in    *)
(* resultChCh, so that Pull receives the results in file order whatever    *)
(* order the workers finish in.  Control frames, end of file and errors    *)
(* travel through the same queue.  Pull(true), the end of the file and an  *)
(* error cancel the scanner's context; so may its owner at any time.  With *)
(* one thread there are no goroutines and Pull does the work itself.       *)
(*                                                                         *)
(* A frame is named by its place in the file and what its bytes hold is    *)
(* given by the constant Files.  A result channel is named by its frame.   *)
(***************************************************************************)
EXTENDS Naturals, Sequences, FiniteSets

CONSTANTS
    Files,        \* the inputs: sequences of frames
    ThreadCounts  \* the values of ReaderOpts.Threads

\* What a values frame does in a worker: a batch, no value passes the filter,
\* a value that does not decode, a block that does not decompress.
Outcomes == {"batch", "none", "badval", "badzip"}

\* What parser.read tells apart.  A file cut off right after a frame's code, or after
\* the header of one that is not compressed, reads like a file without that frame,
\* because io.EOF is a clean end (scanner.go:125); cut off elsewhere, the frame is bad
\* or its block does not decompress.
Frames == [kind : {"types", "eos", "control", "bad"}]
            \cup [kind : {"values"}, id : Nat \ {0}, does : Outcomes]

ASSUME FilesAssumption == Files \subseteq Seq(Frames)
ASSUME ThreadsAssumption == ThreadCounts \subseteq Nat \ {0}

VARIABLES
    file, threads,      \* the input and the number of threads
    pos,                \* frames read so far
    dec, nStream,       \* Decoder.types of each stream; the current one
    pPC, held,          \* the parser goroutine; the worker it has taken
    ctl,                \* the control result it is sending
    wPC, work, cache,   \* the workers, the frame and Decoder in hand, typeCache
    workerCh,           \* workers ready for a frame
    resultChCh, closed, \* queue of result channels, and whether it is closed
    res,                \* what each result channel holds
    cancelled, outside, \* the context, and whether its owner cancelled it
    cPC, cur,           \* the caller of Pull; the channel it receives from
    eof, err,           \* scanner.eof and scanner.err
    out,                \* results of Pull up to the first that ends the scan
    ended, late         \* how the scan ended for the caller; whether data came after

readVars == <<pos, dec, nStream>>
parserVars == <<pPC, held, ctl>>
workerVars == <<wPC, work, cache>>
callerVars == <<cPC, cur, eof, err, out, ended, late>>
ctxVars == <<cancelled, outside>>
vars == <<file, threads, readVars, parserVars, workerVars, workerCh, resultChCh, closed,
          res, ctxVars, callerVars>>

Workers == 1..threads
NoType == 0
NoWork == <<0, 0>>
None == <<"none", 0, NoType>>      \* nothing in the channel yet
Closed == <<"closed", 0, NoType>>  \* closed with nothing in it
EOF == <<"eos", 0, NoType>>
CtxErr == <<"cancelled", 0, NoType>>
Control(i) == <<"control", i, NoType>>
Error(i) == <<"error", i, NoType>>
Batch(i, t) == <<"batch", i, t>>

Places == 1..Len(file)
Types == {NoType} \cup Places  \* a type is named by the frame that defines it
Ends(r) == r[1] \in {"eos", "error", "cancelled"}
Results == {None, Closed, EOF, CtxErr}
             \cup {Control(i) : i \in Places} \cup {Error(i) : i \in Places}
             \cup {Batch(i, t) : i \in Places, t \in Types}

TypeOK ==
    /\ file \in Files /\ threads \in ThreadCounts
    /\ pos \in 0..Len(file)
    /\ nStream \in 1..Len(file) + 1 /\ dec \in [1..Len(file) + 1 -> Seq(Places)]
    /\ pPC \in {"off", "read", "take", "queue", "give", "ctl", "end"}
    /\ held \in 0..threads /\ ctl \in Results
    /\ wPC \in [Workers -> {"off", "ready", "wait", "work", "decode", "end"}]
    /\ work \in [Workers -> {NoWork} \cup Places \X (1..Len(file) + 1)]
    /\ cache \in [Workers -> [1..Len(file) -> Types]]
    /\ workerCh \in Seq(Workers) /\ Len(workerCh) <= threads + 1
    /\ resultChCh \in Seq(Places \cup {Len(file) + 1}) /\ Len(resultChCh) <= threads + 1
    /\ closed \in BOOLEAN
    /\ res \in [1..Len(file) + 1 -> Results]
    /\ cancelled \in BOOLEAN /\ outside \in BOOLEAN
    /\ cPC \in {"idle", "pull", "recv", "nil", "drain"} /\ cur \in 0..Len(file) + 1
    /\ cPC = "recv" => cur # 0
    /\ eof \in BOOLEAN /\ err \in Results
    /\ out \in Seq(Results) /\ ended \in Results \cup {<<"done", 0, NoType>>}
    /\ late \in BOOLEAN

Init ==
    /\ file \in Files /\ threads \in ThreadCounts
    /\ pos = 0 /\ nStream = 1 /\ dec = [k \in 1..Len(file) + 1 |-> <<>>]
    /\ pPC = "off" /\ held = 0 /\ ctl = None
    /\ wPC = [w \in Workers |-> "off"] /\ work = [w \in Workers |-> NoWork]
    /\ cache = [w \in Workers |-> [i \in 1..Len(file) |-> NoType]]
    /\ workerCh = <<>>
    /\ resultChCh = <<>> /\ closed = FALSE
    /\ res = [i \in 1..Len(file) + 1 |-> None]
    /\ cancelled = FALSE /\ outside = FALSE
    /\ cPC = "idle" /\ cur = 0 /\ eof = FALSE /\ err = None
    /\ out = <<>> /\ ended = None /\ late = FALSE

(***************************************************************************)
(* Reading frames (parser.read).                                           *)
(***************************************************************************)

AtEnd == pos = Len(file)
NextFrame == file[pos + 1]

\* A types frame enters its type in the current Decoder.
ReadTypes ==
    /\ ~AtEnd /\ NextFrame.kind = "types"
    /\ pos' = pos + 1
    /\ dec' = [dec EXCEPT ![nStream] = Append(@, pos + 1)]
    /\ UNCHANGED nStream

\* (A variant that empties the Decoder in use.)
ReadEOSInPlace ==
    /\ ~AtEnd /\ NextFrame.kind = "eos"
    /\ pos' = pos + 1
    /\ dec' = [dec EXCEPT ![nStream] = <<>>]
    /\ UNCHANGED nStream

\* An end of stream starts a new Decoder; frames already handed out keep theirs.
ReadEOS ==
    /\ ~AtEnd /\ NextFrame.kind = "eos"
    /\ pos' = pos + 1
    /\ nStream' = nStream + 1
    /\ UNCHANGED dec

\* Any other frame is returned to the caller of read.
ReadFrame ==
    /\ ~AtEnd /\ NextFrame.kind \in {"values", "control", "bad"}
    /\ pos' = pos + 1
    /\ UNCHANGED <<dec, nStream>>

\* What read's error becomes: a control message, an error or, at the end of the
\* file, a nil error.
ReadResult ==
    CASE AtEnd -> EOF
      [] ~AtEnd /\ NextFrame.kind = "control" -> Control(pos + 1)
      [] OTHER -> Error(pos + 1)

(***************************************************************************)
(* The parser goroutine (scanner.start).                                   *)
(***************************************************************************)

ParserUnchanged == UNCHANGED <<file, threads, workerVars, ctxVars, callerVars>>

ParserSkips ==
    /\ pPC = "read"
    /\ ReadTypes \/ ReadEOS
    /\ ParserUnchanged /\ UNCHANGED <<parserVars, workerCh, resultChCh, closed, res>>

ParserReadsValues ==
    /\ pPC = "read"
    /\ ReadFrame /\ NextFrame.kind = "values"
    /\ pPC' = "take"
    /\ ParserUnchanged /\ UNCHANGED <<held, ctl, workerCh, resultChCh, closed, res>>

\* sendControl makes a channel that already holds its result.
ParserReadsOther ==
    /\ pPC = "read"
    /\ \/ ReadFrame /\ NextFrame.kind # "values"
       \/ AtEnd /\ UNCHANGED readVars
    /\ pPC' = "ctl" /\ ctl' = ReadResult
    /\ res' = [res EXCEPT ![IF AtEnd THEN Len(file) + 1 ELSE pos + 1] = ReadResult]
    /\ ParserUnchanged /\ UNCHANGED <<held, workerCh, resultChCh, closed>>

\* The capacity of resultChCh.
QueueHasRoom == Len(resultChCh) < threads + 1

ParserEnds == pPC' = "end" /\ held' = 0 /\ closed' = TRUE

\* sendControl queues the channel, or gives up when the context is done.  A
\* control message is followed by the next frame either way.
SendControl ==
    /\ pPC = "ctl"
    /\ \/ /\ QueueHasRoom
          /\ resultChCh' = Append(resultChCh, IF ctl = EOF THEN Len(file) + 1 ELSE pos)
       \/ cancelled /\ UNCHANGED resultChCh
    /\ IF ctl[1] = "control" THEN pPC' = "read" /\ UNCHANGED <<held, closed>> ELSE ParserEnds
    /\ ctl' = None
    /\ ParserUnchanged /\ UNCHANGED <<readVars, workerCh, res>>

TakeWorker ==
    /\ pPC = "take" /\ workerCh # <<>>
    /\ held' = Head(workerCh) /\ workerCh' = Tail(workerCh)
    /\ pPC' = "queue"
    /\ ParserUnchanged /\ UNCHANGED <<readVars, ctl, resultChCh, closed, res>>

QueueResultCh ==
    /\ pPC = "queue" /\ QueueHasRoom
    /\ resultChCh' = Append(resultChCh, pos)
    /\ pPC' = "give"
    /\ ParserUnchanged /\ UNCHANGED <<readVars, held, ctl, workerCh, closed, res>>

\* The worker's channel is unbuffered: it takes the frame as the parser sends it,
\* with the Decoder in use at that point of the file.
GiveWork ==
    /\ pPC = "give" /\ wPC[held] = "wait"
    /\ work' = [work EXCEPT ![held] = <<pos, nStream>>]
    /\ wPC' = [wPC EXCEPT ![held] = "work"]
    /\ pPC' = "read" /\ held' = 0
    /\ UNCHANGED <<file, threads, readVars, ctl, cache, workerCh, resultChCh,
                   closed, res, ctxVars, callerVars>>

\* ctx.Done at any of its three selects.  The channel that is already queued is
\* closed, so that a Pull that has it gets no result rather than none at all.
ParserCancelled ==
    /\ cancelled /\ pPC \in {"take", "queue", "give"}
    /\ ParserEnds
    /\ res' = IF pPC = "give" THEN [res EXCEPT ![pos] = Closed] ELSE res
    /\ ParserUnchanged /\ UNCHANGED <<readVars, ctl, workerCh, resultChCh>>

(***************************************************************************)
(* The workers (worker.run, worker.scanBatch).                             *)
(***************************************************************************)

WorkerUnchanged ==
    UNCHANGED <<file, threads, readVars, parserVars, resultChCh, closed, ctxVars, callerVars>>

WorkerReady(w) ==
    /\ wPC[w] = "ready" /\ Len(workerCh) < threads + 1
    /\ workerCh' = Append(workerCh, w)
    /\ wPC' = [wPC EXCEPT ![w] = "wait"]
    /\ WorkerUnchanged /\ UNCHANGED <<work, cache, res>>

\* Back to the top of its loop.
WorkerAgain(w) ==
    /\ wPC' = [wPC EXCEPT ![w] = "ready"]
    /\ work' = [work EXCEPT ![w] = NoWork]

\* Decompress the block, then start scanBatch: its type cache is reset.  A buffer
\* filter may find that no value can match without decoding any.
WorkerBegins(w) ==
    /\ wPC[w] = "work"
    /\ LET i == work[w][1] IN
       \/ /\ file[i].does = "badzip"
          /\ res' = [res EXCEPT ![i] = Error(i)]
          /\ WorkerAgain(w)
          /\ UNCHANGED cache
       \/ /\ file[i].does = "none"
          /\ res' = [res EXCEPT ![i] = Closed]
          /\ WorkerAgain(w)
          /\ UNCHANGED cache
       \/ /\ file[i].does # "badzip"
          /\ cache' = [cache EXCEPT ![w] = [j \in DOMAIN @ |-> NoType]]
          /\ wPC' = [wPC EXCEPT ![w] = "decode"]
          /\ UNCHANGED <<res, work>>
    /\ WorkerUnchanged /\ UNCHANGED workerCh

\* typeCache.LookupType(id) over the Decoder that came with the frame, or NoType.
LookupType(c, k, id) ==
    IF id \in DOMAIN c /\ c[id] # NoType THEN c[id]
    ELSE IF id <= Len(dec[k]) THEN dec[k][id] ELSE NoType

\* (A variant that leaves the channel open when no value passes the filter.)
ScanResultOpen(i, t) ==
    CASE t = NoType \/ file[i].does = "badval" -> Error(i)
      [] t # NoType /\ file[i].does = "batch" -> Batch(i, t)
      [] OTHER -> None

\* What a worker's scanBatch puts in the frame's result channel.
ScanResult(i, t) ==
    CASE t = NoType \/ file[i].does = "badval" -> Error(i)
      [] t # NoType /\ file[i].does = "batch" -> Batch(i, t)
      [] OTHER -> Closed

WorkerDecodes(w) ==
    /\ wPC[w] = "decode"
    /\ LET i == work[w][1]
           t == LookupType(cache[w], work[w][2], file[i].id)
       IN  /\ cache' = [cache EXCEPT ![w][file[i].id] = t]
           /\ res' = [res EXCEPT ![i] = ScanResult(i, t)]
    /\ WorkerAgain(w)
    /\ WorkerUnchanged /\ UNCHANGED workerCh

\* (A variant that does not watch the context while it waits for a frame.)
WorkerCancelledReady(w) ==
    /\ cancelled /\ wPC[w] = "ready"
    /\ wPC' = [wPC EXCEPT ![w] = "end"]
    /\ WorkerUnchanged /\ UNCHANGED <<work, cache, workerCh, res>>

WorkerCancelled(w) ==
    /\ cancelled /\ wPC[w] \in {"ready", "wait"}
    /\ wPC' = [wPC EXCEPT ![w] = "end"]
    /\ WorkerUnchanged /\ UNCHANGED <<work, cache, workerCh, res>>

(***************************************************************************)
(* Pull.                                                                   *)
(***************************************************************************)

\* The caller gets r.
Return(r) ==
    /\ cPC' = "idle"
    /\ out' = IF ended = None THEN Append(out, r) ELSE out
    /\ ended' = IF ended = None /\ Ends(r) THEN r ELSE ended
    /\ late' = (late \/ (ended # None /\ ~Ends(r)))

\* once.Do(start)
Start ==
    IF pPC = "off" /\ threads > 1
    THEN pPC' = "read" /\ wPC' = [w \in Workers |-> "ready"]
    ELSE UNCHANGED <<pPC, wPC>>

CallUnchanged ==
    UNCHANGED <<file, threads, readVars, held, ctl, work, cache, workerCh,
                resultChCh, closed, res, outside>>

PullCall ==
    /\ cPC = "idle"
    /\ Start
    /\ IF err # None \/ eof
       THEN Return(IF err # None THEN err ELSE EOF)
       ELSE cPC' = "pull" /\ UNCHANGED <<out, ended, late>>
    /\ CallUnchanged /\ UNCHANGED <<cancelled, cur, eof, err>>

\* Pull(true) of the threaded scanner cancels the context and drains the queue;
\* that of the synchronous one just sets eof.
PullDone ==
    /\ cPC = "idle"
    /\ Start
    /\ IF threads > 1
       THEN cancelled' = TRUE /\ cPC' = "drain" /\ UNCHANGED <<eof, ended>>
       ELSE /\ eof' = TRUE /\ UNCHANGED <<cancelled, cPC>>
            /\ ended' = IF ended = None THEN <<"done", 0, NoType>> ELSE ended
    /\ CallUnchanged /\ UNCHANGED <<cur, err, out, late>>

PullUnchanged ==
    UNCHANGED <<file, threads, readVars, parserVars, workerVars, workerCh, closed, res, outside>>

Drain ==
    /\ cPC = "drain" /\ resultChCh # <<>>
    /\ resultChCh' = Tail(resultChCh)
    /\ PullUnchanged /\ UNCHANGED <<cancelled, callerVars>>

\* (A variant that does not wait for the parser to exit.)
DrainEndsEarly ==
    /\ cPC = "drain"
    /\ eof' = TRUE /\ cPC' = "idle"
    /\ ended' = IF ended = None THEN <<"done", 0, NoType>> ELSE ended
    /\ PullUnchanged /\ UNCHANGED <<cancelled, resultChCh, cur, err, out, late>>

DrainEnds ==
    /\ cPC = "drain" /\ resultChCh = <<>> /\ closed
    /\ eof' = TRUE /\ cPC' = "idle"
    /\ ended' = IF ended = None THEN <<"done", 0, NoType>> ELSE ended
    /\ PullUnchanged /\ UNCHANGED <<cancelled, resultChCh, cur, err, out, late>>

\* Receive from resultChCh.  From the closed queue comes a nil channel.
TakeResultCh ==
    /\ cPC = "pull" /\ threads > 1
    /\ \/ /\ resultChCh # <<>>
          /\ cur' = Head(resultChCh) /\ resultChCh' = Tail(resultChCh)
          /\ cPC' = "recv"
       \/ /\ resultChCh = <<>> /\ closed
          /\ cPC' = "nil"
          /\ UNCHANGED <<cur, resultChCh>>
    /\ PullUnchanged /\ UNCHANGED <<cancelled, eof, err, out, ended, late>>

PullCancelled ==
    /\ cPC = "pull" /\ threads > 1 /\ cancelled
    /\ Return(CtxErr)
    /\ PullUnchanged /\ UNCHANGED <<cancelled, resultChCh, cur, eof, err>>

\* Receive from the result channel: nothing when it was closed empty, and the end
\* of the scan when the result is neither a batch nor a control message.
Receive ==
    /\ cPC = "recv" /\ res[cur] # None
    /\ LET r == res[cur] IN
       IF r = Closed
       THEN cPC' = "pull" /\ UNCHANGED <<cancelled, eof, err, out, ended, late>>
       ELSE /\ Return(r)
            /\ IF Ends(r)
               THEN /\ eof' = TRUE /\ cancelled' = TRUE
                    /\ err' = IF r = EOF THEN None ELSE r
               ELSE UNCHANGED <<eof, err, cancelled>>
    /\ cur' = 0
    /\ PullUnchanged /\ UNCHANGED resultChCh

\* scannerSync.Pull: read until a frame gives a batch or an error.  An error is
\* not remembered: the next Pull reads on.
SyncPull ==
    /\ cPC = "pull" /\ threads = 1
    /\ LET i == pos + 1
           k == nStream
           t == IF ~AtEnd /\ NextFrame.kind = "values"
                THEN LookupType([j \in DOMAIN cache[1] |-> NoType], k, NextFrame.id) ELSE NoType
       IN  \/ /\ ReadTypes \/ ReadEOS
              /\ UNCHANGED <<cPC, out, ended, late>>
           \/ ReadFrame /\ NextFrame.kind # "values" /\ Return(ReadResult)
           \/ AtEnd /\ Return(EOF) /\ UNCHANGED readVars
           \/ /\ ReadFrame /\ NextFrame.kind = "values"
              /\ \/ NextFrame.does = "none" /\ UNCHANGED <<cPC, out, ended, late>>
                 \/ IF NextFrame.does = "badzip" \/ ScanResult(i, t) = Error(i)
                    THEN Return(Error(i))
                    ELSE IF ScanResult(i, t) = Batch(i, t)
                    THEN Return(Batch(i, t))
                    ELSE UNCHANGED <<cPC, out, ended, late>>
    /\ UNCHANGED <<file, threads, parserVars, wPC, work, cache, workerCh, resultChCh, closed,
                   res, ctxVars, cur, eof, err>>

\* The owner of the context cancels it.
Cancel ==
    /\ ~cancelled
    /\ cancelled' = TRUE /\ outside' = TRUE
    /\ UNCHANGED <<file, threads, readVars, parserVars, workerVars, workerCh, resultChCh,
                   closed, res, callerVars>>

(***************************************************************************)
(* Specification.  The goroutines and the calls in progress advance; the   *)
(* caller need not call, and the owner need not cancel.                    *)
(***************************************************************************)

Parser ==
    \/ ParserSkips \/ ParserReadsValues \/ ParserReadsOther \/ SendControl
    \/ TakeWorker \/ QueueResultCh \/ GiveWork \/ ParserCancelled
Worker(w) ==
    WorkerReady(w) \/ WorkerBegins(w) \/ WorkerDecodes(w) \/ WorkerCancelled(w)
Pull == Drain \/ DrainEnds \/ TakeResultCh \/ PullCancelled \/ Receive \/ SyncPull

Next ==
    \/ Parser
    \/ \E w \in Workers : Worker(w)
    \/ Pull \/ PullCall \/ PullDone \/ Cancel

Spec == Init /\ [][Next]_vars
FairSpec ==
    /\ Spec
    /\ WF_vars(Parser)
    /\ \A n \in ThreadCounts : \A w \in 1..n : WF_vars(threads >= w /\ Worker(w))
    /\ WF_vars(Pull)

(***************************************************************************)
(* Properties.                                                             *)
(***************************************************************************)

\* No end of stream after frame i up to frame j.
SameStream(i, j) == \A k \in i + 1..j : file[k].kind # "eos"

\* The types frames read so far in the stream of frame n, and the ID one defines.
StreamTypes(n) == {t \in 1..n : file[t].kind = "types" /\ SameStream(t, n)}
IdOf(t) == Cardinality(StreamTypes(t))

\* The types the ID in values frame i can stand for: the one defined before it in
\* its own stream, or one that the parser entered in that stream's Decoder while
\* the frame waited for its worker.
TypesBefore(i) == {t \in StreamTypes(i) : IdOf(t) = file[i].id}
TypesAfter(i) ==
    {t \in i + 1..Len(file) :
        file[t].kind = "types" /\ SameStream(i, t) /\ IdOf(t) = file[i].id}

\* What frame i gives the caller, Closed being nothing.  An ID that its stream has
\* not defined yet is an error, but a worker may find it defined by then, and a
\* buffer filter may find that nothing passes before any ID is looked up.
Gives(i) ==
    LET undefined == IF TypesBefore(i) = {} THEN {Error(i)} ELSE {}
        defined == TypesBefore(i) \cup (IF threads = 1 THEN {} ELSE TypesAfter(i))
        FromValues ==
            CASE file[i].does = "batch" -> undefined \cup {Batch(i, t) : t \in defined}
              [] file[i].does = "none" -> undefined \cup {Closed}
              [] OTHER -> {Error(i)}
    IN  CASE file[i].kind = "values" -> FromValues
          [] file[i].kind = "control" -> {Control(i)}
          [] file[i].kind = "bad" -> {Error(i)}
          [] OTHER -> {Closed}

\* Whether the caller may get nothing of frame i and then something of a later one:
\* sendControl gives up when the context is done, and the parser reads on.
PassedOver(i) == Closed \in Gives(i) \/ (outside /\ file[i].kind = "control")

\* Whether a caller that has got the result of frame p, or nothing yet when p is 0,
\* may get r next.
Follows(p, r) ==
    LET i == IF r = EOF THEN Len(file) + 1 ELSE r[2]
    IN  \/ /\ i \in Places => r \in Gives(i)
           /\ p < i
           /\ \A j \in p + 1..i - 1 : PassedOver(j)
        \/ r = CtxErr /\ outside

\* The frame of the n-th result.
PlaceOf(n) == IF n = 0 THEN 0 ELSE out[n][2]

\* Each result follows the one before it, and the first that ends the scan is last.
Delivered ==
    \A n \in 1..Len(out) :
        Follows(PlaceOf(n - 1), out[n]) /\ (Ends(out[n]) => n = Len(out))

NothingLate == late => ended[1] = "cancelled" \/ (ended[1] = "error" /\ threads = 1)

\* However the workers race, Pull returns the file's batches and control messages
\* in file order, each once, decoded with the types of its own stream, and then
\* the end or the first error.  Only after the owner has cancelled the context may
\* a control message be missing (sendControl gives up, the parser reads on), or
\* the error of the context come instead of the rest.  Nothing comes after end of
\* stream or Pull(true), nor after an error of the threaded scanner.  (The types of
\* the state are checked along with it.)
InFileOrder == TypeOK /\ Delivered /\ NothingLate

\* When Pull(true) has ended a scan, the parser goroutine has exited and the underlying
\* reader is read no more: what the comments in scanner.Pull and Reader.Close say.
\* (After an error or a cancellation there is nothing left for Pull(true) to end.)
NotReadAfterDone == [][ended[1] = "done" => pos' = pos]_vars

\* A Pull returns unless the owner of the context has cancelled it: then a Pull
\* that finds the queue closed by the parser waits on a nil channel for ever.
PullsReturn == (cPC # "idle") ~> (cPC = "idle" \/ outside)

\* After end, error, done or cancellation all goroutines of the scanner exit.
GoroutinesExit ==
    cancelled ~> (pPC \in {"off", "end"} /\ \A w \in Workers : wPC[w] \in {"off", "end"})

(***************************************************************************)
(* The inductive invariant behind InFileOrder and NotReadAfterDone, in     *)
(* named parts.                                                            *)
(***************************************************************************)

\* With one thread nothing of the threaded scanner moves.
SyncInv ==
    threads = 1 =>
        /\ pPC = "off" /\ wPC = [w \in Workers |-> "off"]
        /\ resultChCh = <<>> /\ ~closed /\ cPC \in {"idle", "pull"}

\* What the parser holds where it stands.
ParserInv ==
    /\ closed => pPC = "end"
    /\ pPC \in {"take", "queue", "give"} => pos \in Places /\ file[pos].kind = "values"
    /\ pPC \in {"queue", "give"} => held \in Workers
    /\ pPC = "ctl" =>
          \/ ctl = EOF /\ pos = Len(file) /\ res[Len(file) + 1] = EOF
          \/ /\ pos \in Places /\ res[pos] = ctl
             /\ \/ ctl = Control(pos) /\ file[pos].kind = "control"
                \/ ctl = Error(pos) /\ file[pos].kind = "bad"

\* A Decoder d holds the types T of a stream, each at its ID.
Holds(d, T) ==
    /\ Cardinality(T) = Len(d)
    /\ \A n \in 1..Len(d) : d[n] \in T /\ IdOf(d[n]) = n
    /\ \A t \in T : IdOf(t) \in 1..Len(d) /\ d[IdOf(t)] = t

\* The Decoder in use holds the types of the stream being read.
DecoderInv ==
    /\ nStream <= pos + 1
    /\ \A k \in nStream + 1..Len(file) + 1 : dec[k] = <<>>
    /\ Holds(dec[nStream], StreamTypes(pos))

\* Decoder k has every type that the stream of frame i had before it, and no type
\* of another stream.
Decodes(k, i) ==
    /\ k <= nStream /\ (k = nStream => SameStream(i, pos))
    /\ \A t \in StreamTypes(i) : IdOf(t) \in 1..Len(dec[k]) /\ dec[k][IdOf(t)] = t
    /\ \A n \in 1..Len(dec[k]) :
          /\ IdOf(dec[k][n]) = n
          /\ \/ dec[k][n] \in StreamTypes(i)
             \/ /\ dec[k][n] \in i + 1..Len(file)
                /\ file[dec[k][n]].kind = "types" /\ SameStream(i, dec[k][n])

\* A worker has a values frame with a Decoder of its stream, and, once the block is
\* decompressed, an empty cache.
WorkInv ==
    \A w \in Workers :
        wPC[w] \in {"work", "decode"} =>
            /\ work[w][1] \in 1..pos /\ file[work[w][1]].kind = "values"
            /\ work[w][2] \in 1..Len(file) + 1 /\ Decodes(work[w][2], work[w][1])
            /\ wPC[w] = "decode" => file[work[w][1]].does # "badzip"
            /\ wPC[w] = "decode" => \A n \in 1..Len(file) : cache[w][n] = NoType

\* The frame at which a cancelled parser has given up.
Abandoned(i) == i = pos /\ pPC = "end" /\ res[Len(file) + 1] = None

\* A result channel holds what its frame gives, or was closed by the parser.
ResInv ==
    /\ \A i \in Places :
          res[i] # None => res[i] \in Gives(i) \/ (res[i] = Closed /\ Abandoned(i))
    /\ res[Len(file) + 1] # None =>
          /\ res[Len(file) + 1] = EOF /\ pos = Len(file)
          /\ pPC = "end" \/ (pPC = "ctl" /\ ctl = EOF)

\* The frames whose result the caller has yet to get: the one it waits for, the
\* queued ones, and the one the parser has read and not queued yet.
Queued == {resultChCh[n] : n \in 1..Len(resultChCh)}
AtParser == IF pPC \in {"take", "queue"} \/ (pPC = "ctl" /\ ctl # EOF) THEN {pos} ELSE {}
Receiving == IF cPC = "recv" THEN {cur} ELSE {}

\* Until the scan ends, results are queued in file order, and a frame that was read
\* is in out, on its way there, passed over or abandoned.
QueueInv ==
    (ended = None /\ cPC # "drain") =>
        /\ PlaceOf(Len(out)) <= pos
        /\ \A x \in Receiving \cup Queued \cup AtParser : PlaceOf(Len(out)) < x
        /\ \A x \in Receiving, y \in Queued : x < y
        /\ \A m, n \in 1..Len(resultChCh) : m < n => resultChCh[m] < resultChCh[n]
        /\ \A x \in Receiving \cup Queued, y \in AtParser : x < y
        /\ \A x \in Receiving \cup Queued :
              x <= pos \/ (x = Len(file) + 1 /\ pPC = "end" /\ res[x] = EOF)
        /\ \A i \in PlaceOf(Len(out)) + 1..pos :
              i \in Receiving \cup Queued \cup AtParser \/ PassedOver(i) \/ Abandoned(i)

\* How the scan ends for the caller.
EndInv ==
    /\ ended = None \/ Ends(ended) \/ ended[1] = "done"
    /\ ended = None =>
          /\ ~eof /\ err = None /\ ~late
          /\ cancelled => outside \/ cPC = "drain"
          /\ \A n \in 1..Len(out) : ~Ends(out[n])
    /\ err = None \/ Ends(err)
    /\ ended[1] \in {"eos", "error", "done"} /\ threads > 1 => eof /\ cPC \in {"idle", "drain"}
    /\ threads = 1 =>
          /\ ended[1] = "done" => eof /\ cPC = "idle"
          /\ ended[1] = "eos" => pos = Len(file)
          /\ ended[1] # "cancelled"
    /\ (ended[1] = "done" /\ threads > 1) => pPC = "end"

IInv ==
    /\ InFileOrder /\ SyncInv /\ ParserInv /\ DecoderInv /\ WorkInv /\ ResInv
    /\ QueueInv /\ EndInv
=============================================================================
