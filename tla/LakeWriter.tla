----------------------------- MODULE LakeWriter -----------------------------
(***************************************************************************)
(* The two writers of data objects (lake/writer.go, lake/data/writer.go).  *)
(*                                                                         *)
(* Writer, for loads, double buffers: the caller fills one buffer while a  *)
(* goroutine of an errgroup sorts and writes the other one as an object.   *)
(* The channel "buffer" of capacity one hands the spare buffer back; it is *)
(* closed when a write fails.  The caller copies its input, closes the     *)
(* writer and commits the objects if nothing failed (Branch.Load).         *)
(*                                                                         *)
(* SortedWriter, for compaction, writes sorted input straight to objects,  *)
(* begins a new one when the threshold is reached and the key changes, and *)
(* removes what it has created when it fails (exec.Compact).               *)
(*                                                                         *)
(* A value is the position at which it was written; the SortedWriter also  *)
(* looks at its key.  A behaviour is the life of one writer of either      *)
(* kind.                                                                   *)
(***************************************************************************)
EXTENDS Naturals, Sequences

CONSTANTS
    MaxVals,    \* values written to a Writer
    Threshold,  \* values that fill its buffer
    MaxKey,     \* keys written to a SortedWriter
    MaxFaults   \* storage operations that may fail

ASSUME WriterAssumption == MaxVals \in Nat /\ Threshold \in Nat \ {0}
ASSUME SortedAssumption == MaxKey \in Nat /\ MaxFaults \in Nat

\* The two buffers that the caller and the goroutines exchange.
Buffers == {"a", "b"}

VARIABLES
    kind,       \* "writer" or "sorted"
    faults,     \* storage operations that have failed
    ctxDone,    \* the context, cancelled by the errgroup or from outside
    result      \* what the caller got in the end: "none", "ok" or "err"

VARIABLES
    mem,        \* contents of the buffers
    filling,    \* w.vals: the buffer the caller appends to
    buffer,     \* the channel: a set of at most one spare buffer
    closed,     \* whether it is closed
    nvals,      \* values the caller has written
    wPC,        \* "idle", "flip", "closeflip", "wait" or "end"
    writeErr,   \* whether Write returned an error
    objects,    \* w.objects: [vals, done]
    jobs,       \* goroutines of the errgroup: [buf, pc, obj]
    egErr       \* the errgroup has an error

VARIABLES
    keys,       \* SortedWriter: the keys of the values written, in order
    sObjects,   \* w.objects: the values of each object
    open,       \* whether w.writer is set
    full,       \* whether the open object has reached the threshold
    orphans,    \* data objects created but not listed
    removed     \* whether Abort has removed the listed objects

common == <<kind, faults, ctxDone, result>>
writerVars == <<mem, filling, buffer, closed, nvals, wPC, writeErr, objects, jobs, egErr>>
sortedVars == <<keys, sObjects, open, full, orphans, removed>>
vars == <<common, writerVars, sortedVars>>

\* An entry of w.objects, and a goroutine of the errgroup.
ObjectSet == [vals : Seq(1..MaxVals), done : BOOLEAN]
JobSet == [buf : Buffers, obj : 0..MaxVals,
           pc : {"new", "sort", "write", "ok", "failed", "closed", "end"}]

TypeOK ==
    /\ kind \in {"writer", "sorted"} /\ faults \in 0..MaxFaults /\ ctxDone \in BOOLEAN
    /\ result \in {"none", "ok", "err"}
    /\ mem \in [Buffers -> Seq(1..MaxVals)]
    /\ ~closed => \A x \in Buffers : Len(mem[x]) <= Threshold
    /\ filling \in Buffers /\ buffer \subseteq Buffers /\ closed \in BOOLEAN
    /\ nvals \in 0..MaxVals
    /\ wPC \in {"idle", "flip", "closeflip", "wait", "end"} /\ writeErr \in BOOLEAN
    /\ objects \in Seq(ObjectSet) /\ jobs \in Seq(JobSet) /\ egErr \in BOOLEAN
    /\ keys \in Seq(1..MaxKey) /\ sObjects \in Seq(Seq(1..MaxVals))
    /\ open \in BOOLEAN /\ full \in BOOLEAN /\ orphans \in 0..1 /\ removed \in BOOLEAN

\* NewWriter puts a nil slice in the channel: a buffer nobody has used.
Init ==
    /\ kind \in {"writer", "sorted"} /\ faults = 0 /\ ctxDone = FALSE /\ result = "none"
    /\ mem = [x \in Buffers |-> <<>>] /\ filling = "a" /\ buffer = {"b"} /\ closed = FALSE
    /\ nvals = 0 /\ wPC = "idle" /\ writeErr = FALSE
    /\ objects = <<>> /\ jobs = <<>> /\ egErr = FALSE
    /\ keys = <<>> /\ sObjects = <<>> /\ open = FALSE /\ full = FALSE
    /\ orphans = 0 /\ removed = FALSE

\* A storage operation may fail by itself, and fails once the context is done.
Failing == \/ faults < MaxFaults /\ faults' = faults + 1
           \/ ctxDone /\ UNCHANGED faults

\* The caller's context is cancelled.
Cancel ==
    /\ result = "none" /\ ~ctxDone
    /\ ctxDone' = TRUE
    /\ UNCHANGED <<kind, faults, result, writerVars, sortedVars>>

(***************************************************************************)
(* Writer.                                                                 *)
(***************************************************************************)

\* Write: once the context is done, wait for the goroutines and return an
\* error; else append, and flip when the threshold is reached.
Write ==
    /\ kind = "writer" /\ wPC = "idle" /\ ~writeErr /\ nvals < MaxVals
    /\ IF ctxDone
       THEN /\ \A j \in DOMAIN jobs : jobs[j].pc = "end"
            /\ writeErr' = TRUE
            /\ UNCHANGED <<mem, nvals, wPC>>
       ELSE /\ nvals' = nvals + 1
            /\ mem' = [mem EXCEPT ![filling] = Append(@, nvals + 1)]
            /\ wPC' = IF Len(mem'[filling]) >= Threshold THEN "flip" ELSE "idle"
            /\ UNCHANGED writeErr
    /\ UNCHANGED <<common, filling, buffer, closed, objects, jobs, egErr, sortedVars>>

\* (A variant that does not wait for the spare buffer.)
FlipBuffersAtOnce ==
    /\ wPC \in {"flip", "closeflip"}
    /\ \E spare \in Buffers \ {filling} :
          /\ buffer' = buffer \ {spare}
          /\ filling' = spare
          /\ mem' = [mem EXCEPT ![spare] = <<>>]
          /\ jobs' = Append(jobs, [buf |-> filling, pc |-> "new", obj |-> 0])
    /\ wPC' = IF wPC = "flip" THEN "idle" ELSE "wait"
    /\ UNCHANGED <<common, closed, nvals, writeErr, objects, egErr, sortedVars>>

\* flipBuffers: take the spare buffer and start a goroutine for the full one.
FlipBuffers ==
    /\ wPC \in {"flip", "closeflip"}
    /\ \E spare \in buffer :
          /\ buffer' = buffer \ {spare}
          /\ filling' = spare
          /\ mem' = [mem EXCEPT ![spare] = <<>>]
          /\ jobs' = Append(jobs, [buf |-> filling, pc |-> "new", obj |-> 0])
    /\ wPC' = IF wPC = "flip" THEN "idle" ELSE "wait"
    /\ UNCHANGED <<common, closed, nvals, writeErr, objects, egErr, sortedVars>>

\* The channel is closed and empty: flipBuffers just returns.
FlipClosed ==
    /\ wPC \in {"flip", "closeflip"} /\ closed /\ buffer = {}
    /\ wPC' = IF wPC = "flip" THEN "idle" ELSE "wait"
    /\ UNCHANGED <<common, mem, filling, buffer, closed, nvals, writeErr, objects, jobs,
                   egErr, sortedVars>>

\* Close, after the input or after an error of Write.
Close ==
    /\ kind = "writer" /\ wPC = "idle"
    /\ wPC' = IF mem[filling] # <<>> THEN "closeflip" ELSE "wait"
    /\ UNCHANGED <<common, mem, filling, buffer, closed, nvals, writeErr, objects, jobs,
                   egErr, sortedVars>>

\* errgroup.Wait returns when every goroutine has; Load commits if no error.
CloseReturns ==
    /\ wPC = "wait" /\ \A j \in DOMAIN jobs : jobs[j].pc = "end"
    /\ wPC' = "end"
    /\ result' = IF writeErr \/ egErr THEN "err" ELSE "ok"
    /\ UNCHANGED <<kind, faults, ctxDone, mem, filling, buffer, closed, nvals, writeErr,
                   objects, jobs, egErr, sortedVars>>

JobTo(j, pc) == jobs' = [jobs EXCEPT ![j].pc = pc]

\* The goroutine begins: newObject appends to w.objects.
JobNew(j) ==
    /\ jobs[j].pc = "new"
    /\ objects' = Append(objects, [vals |-> <<>>, done |-> FALSE])
    /\ jobs' = [jobs EXCEPT ![j].pc = "sort", ![j].obj = Len(objects) + 1]
    /\ UNCHANGED <<common, mem, filling, buffer, closed, nvals, wPC, writeErr, egErr,
                   sortedVars>>

\* The sort is done, or the context is first.
JobSort(j) ==
    /\ jobs[j].pc = "sort"
    /\ JobTo(j, "write") \/ (ctxDone /\ JobTo(j, "failed"))
    /\ UNCHANGED <<common, mem, filling, buffer, closed, nvals, wPC, writeErr, objects,
                   egErr, sortedVars>>

\* The object is created, copied from the buffer and closed; its metadata goes
\* through a pointer into w.objects, lost if the slice has grown meanwhile.
JobWrite(j) ==
    /\ jobs[j].pc = "write"
    /\ \/ /\ JobTo(j, "ok")
          /\ objects' = IF jobs[j].obj = Len(objects)
                        THEN [objects EXCEPT ![jobs[j].obj] =
                                 [vals |-> mem[jobs[j].buf], done |-> TRUE]]
                        ELSE objects
          /\ UNCHANGED faults
       \/ JobTo(j, "failed") /\ Failing /\ UNCHANGED objects
    /\ UNCHANGED <<kind, ctxDone, result, mem, filling, buffer, closed, nvals, wPC,
                   writeErr, egErr, sortedVars>>

\* The buffer goes back through the channel, which has room for one.
JobReturn(j) ==
    /\ jobs[j].pc = "ok" /\ buffer = {}
    /\ buffer' = {jobs[j].buf}
    /\ JobTo(j, "end")
    /\ UNCHANGED <<common, mem, filling, closed, nvals, wPC, writeErr, objects, egErr,
                   sortedVars>>

\* (A variant that does not close the channel.)
JobCloseForgotten(j) ==
    /\ jobs[j].pc = "failed"
    /\ JobTo(j, "closed")
    /\ UNCHANGED <<common, mem, filling, buffer, closed, nvals, wPC, writeErr, objects, egErr,
                   sortedVars>>

\* A failed write closes the channel ...
JobClose(j) ==
    /\ jobs[j].pc = "failed"
    /\ closed' = TRUE
    /\ JobTo(j, "closed")
    /\ UNCHANGED <<common, mem, filling, buffer, nvals, wPC, writeErr, objects, egErr,
                   sortedVars>>

\* (A variant that drops the error.)
JobFailSilent(j) ==
    /\ jobs[j].pc = "closed"
    /\ JobTo(j, "end")
    /\ UNCHANGED <<common, mem, filling, buffer, closed, nvals, wPC, writeErr, objects, egErr,
                   sortedVars>>

\* ... and then returns its error, upon which the errgroup cancels the context.
JobFail(j) ==
    /\ jobs[j].pc = "closed"
    /\ JobTo(j, "end")
    /\ egErr' = TRUE /\ ctxDone' = TRUE
    /\ UNCHANGED <<kind, faults, result, mem, filling, buffer, closed, nvals, wPC, writeErr,
                   objects, sortedVars>>

(***************************************************************************)
(* SortedWriter.                                                           *)
(***************************************************************************)

\* Abort closes the open object and removes the listed ones, if the context
\* still allows that; exec.Compact returns the error.
Abort ==
    /\ result' = "err"
    /\ open' = FALSE
    /\ removed' \in IF ctxDone THEN BOOLEAN ELSE {TRUE}
    /\ UNCHANGED <<keys, sObjects, full>>

\* (A variant that begins a new object in the middle of a key.)
NewObjectAnywhere(key) == ~open \/ full

\* Whether the next value belongs to a new object (w.lastKey is keys[Len(keys)]).
NewObjectFor(key) == ~open \/ (full /\ keys[Len(keys)] # key)

\* Write a value: close and begin objects as needed, then append.  Bytes are
\* counted when they leave the frame buffer, so any write may reach the
\* threshold.
SortedWrite(key) ==
    /\ kind = "sorted" /\ result = "none" /\ Len(keys) < MaxVals
    /\ keys # <<>> => key >= keys[Len(keys)]
    /\ keys' = Append(keys, key)
    /\ sObjects' = IF NewObjectFor(key)
                   THEN Append(sObjects, <<Len(keys) + 1>>)
                   ELSE [sObjects EXCEPT ![Len(sObjects)] = Append(@, Len(keys) + 1)]
    /\ open' = TRUE
    /\ full' \in IF NewObjectFor(key) THEN BOOLEAN ELSE {full, TRUE}
    /\ UNCHANGED <<common, writerVars, orphans, removed>>

\* A storage operation of Write fails.  A new object whose data file exists and
\* whose seek index or vector cannot be created is not listed.
SortedWriteFails(key) ==
    /\ kind = "sorted" /\ result = "none" /\ Len(keys) < MaxVals
    /\ keys # <<>> => key >= keys[Len(keys)]
    /\ Failing
    /\ orphans' \in IF NewObjectFor(key) THEN {0, 1} ELSE {0}
    /\ Abort
    /\ UNCHANGED <<kind, ctxDone, writerVars>>

\* Close at the end of the input, and the commit.
SortedClose ==
    /\ kind = "sorted" /\ result = "none"
    /\ result' = "ok"
    /\ open' = FALSE
    /\ UNCHANGED <<kind, faults, ctxDone, writerVars, keys, sObjects, full, orphans, removed>>

\* Close or the commit fails.
SortedCloseFails ==
    /\ kind = "sorted" /\ result = "none"
    /\ Failing
    /\ Abort
    /\ UNCHANGED <<kind, ctxDone, writerVars, orphans>>

----------------------------------------------------------------------------

Job(j) == JobNew(j) \/ JobSort(j) \/ JobWrite(j) \/ JobReturn(j) \/ JobClose(j) \/ JobFail(j)

Caller == Write \/ FlipBuffers \/ FlipClosed \/ Close \/ CloseReturns

SortedStep ==
    \/ \E key \in 1..MaxKey : SortedWrite(key) \/ SortedWriteFails(key)
    \/ SortedClose \/ SortedCloseFails

Next == Cancel \/ Caller \/ SortedStep \/ \E j \in DOMAIN jobs : Job(j)

Spec == Init /\ [][Next]_vars

\* Goroutines run, and the caller comes to the end of its input.
Fairness ==
    /\ WF_vars(FlipBuffers) /\ WF_vars(FlipClosed) /\ WF_vars(CloseReturns)
    /\ WF_vars(Close)
    /\ \A j \in 1..MaxVals : WF_vars(j \in DOMAIN jobs /\ Job(j))

FairSpec == Spec /\ Fairness

(***************************************************************************)
(* Properties.                                                             *)
(***************************************************************************)

\* Double buffering is safe (Writer.flipBuffers): no two goroutines write at
\* once, none writes the buffer that the caller fills or the spare one, and the
\* channel is never closed or sent to once it is closed, which would be a panic.
\* (The types of the state are checked along with it.)
BuffersDisjoint ==
    /\ TypeOK
    /\ \A j \in DOMAIN jobs :
          jobs[j].pc # "end" =>
              /\ jobs[j].buf # filling /\ jobs[j].buf \notin buffer
              /\ jobs[j].pc \in {"ok", "failed"} => ~closed
              /\ \A i \in DOMAIN jobs : jobs[i].pc # "end" => i = j

\* The objects hold each of the values 1..n once, in the order they were written.
Complete(vals, n) ==
    /\ \A v \in 1..n : \E i \in DOMAIN vals : \E k \in DOMAIN vals[i] : vals[i][k] = v
    /\ \A i, j \in DOMAIN vals : \A k \in DOMAIN vals[i], l \in DOMAIN vals[j] :
          /\ vals[i][k] \in 1..n
          /\ i < j \/ (i = j /\ k < l) => vals[i][k] < vals[j][l]

\* When Branch.Load gets to commit, the listed objects are complete and hold
\* every value given to Writer.Write exactly once: no failed, cancelled or
\* pending write goes unnoticed.
LoadComplete ==
    (kind = "writer" /\ result = "ok") =>
        /\ \A i \in DOMAIN objects : objects[i].done
        /\ Complete([i \in DOMAIN objects |-> objects[i].vals], nvals)

\* Writer.Close returns, and so does every Write: the caller never waits for a
\* buffer that no goroutine will hand back.
WriterEnds == (kind = "writer") ~> (result # "none")

\* When exec.Compact gets to commit, the objects of the SortedWriter hold the
\* values written, in order, and no key is in two of them: the new objects do
\* not overlap.
CompactComplete ==
    (kind = "sorted" /\ result = "ok") =>
        /\ Complete(sObjects, Len(keys))
        /\ \A i, j \in DOMAIN sObjects : i # j =>
              \A k \in DOMAIN sObjects[i], l \in DOMAIN sObjects[j] :
                  keys[sObjects[i][k]] # keys[sObjects[j][l]]

(***************************************************************************)
(* The inductive invariant behind the three, in named parts.               *)
(***************************************************************************)

\* Where the last goroutine is; the others have ended.
LastJob == IF jobs = <<>> THEN "end" ELSE jobs[Len(jobs)].pc

\* It has values that are not in an object yet, and it has its object.
Writing == LastJob \in {"new", "sort", "write", "failed", "closed"}
HasObject == LastJob \in {"sort", "write", "failed", "closed"}

JobsInv ==
    /\ \A j \in DOMAIN jobs : jobs[j].pc # "end" =>
          /\ j = Len(jobs)
          /\ jobs[j].buf # filling /\ jobs[j].buf \notin buffer
          /\ jobs[j].pc # "new" => jobs[j].obj = j
    /\ Len(jobs) = Len(objects) + (IF LastJob = "new" THEN 1 ELSE 0)
    /\ filling \notin buffer
    /\ closed => buffer = {} /\ LastJob \in {"closed", "end"} /\ (LastJob = "end" => egErr)
    /\ LastJob = "closed" => closed
    /\ egErr => closed

CallerInv ==
    /\ Len(jobs) + Len(mem[filling]) <= nvals
    /\ wPC = "idle" /\ ~closed => Len(mem[filling]) < Threshold
    /\ wPC \in {"flip", "closeflip"} => mem[filling] # <<>>
    /\ wPC \in {"wait", "end"} /\ ~closed => mem[filling] = <<>>
    /\ wPC = "end" => LastJob = "end"
    /\ kind = "writer" /\ result # "none" => wPC = "end"
    /\ kind = "writer" /\ result = "ok" => ~egErr
    /\ kind = "sorted" => wPC = "idle" /\ jobs = <<>>

\* Where the values are, as long as no write has failed: the first ones in
\* objects, the next ones in the buffer being written, the last ones in the
\* buffer being filled.
Flipped == nvals - Len(mem[filling])
Pending == IF Writing THEN mem[jobs[Len(jobs)].buf] ELSE <<>>

ValuesInv == ~closed =>
    /\ \A k \in DOMAIN mem[filling] : mem[filling][k] = Flipped + k
    /\ Len(Pending) <= Flipped
    /\ \A k \in DOMAIN Pending : Pending[k] = (Flipped - Len(Pending)) + k
    /\ Complete([i \in DOMAIN objects |-> objects[i].vals], Flipped - Len(Pending))
    /\ \A i \in DOMAIN objects : IF HasObject /\ i = Len(objects)
                                 THEN objects[i].vals = <<>>
                                 ELSE objects[i].done

SortedInv ==
    /\ Complete(sObjects, Len(keys))
    /\ \A a, b \in DOMAIN keys : a <= b => keys[a] <= keys[b]
    /\ \A i, j \in DOMAIN sObjects : i < j =>
          \A k \in DOMAIN sObjects[i], l \in DOMAIN sObjects[j] :
              keys[sObjects[i][k]] < keys[sObjects[j][l]]
    /\ \A i \in DOMAIN sObjects : sObjects[i] # <<>>
    /\ result = "none" => (open <=> sObjects # <<>>)

WriterInv == TypeOK /\ JobsInv /\ CallerInv /\ ValuesInv /\ SortedInv
============================================================================
