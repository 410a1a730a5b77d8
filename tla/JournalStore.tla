----------------------------- MODULE JournalStore -----------------------------
(***************************************************************************)
(* The transaction journal and the key-value store on top of it:           *)
(* lake/journal/queue.go, reader.go and store.go over the file engine of   *)
(* pkg/storage/file.go.  Every branch pointer of a pool and every pool of  *)
(* a lake lives in such a store.                                           *)
(*                                                                         *)
(* Persistent state: the entry files 1.bsup, 2.bsup, ... of the journal,   *)
(* the HEAD file, and the cached snapshot snap.bsup.  A process holds one  *)
(* Store object per journal (its table and position); several goroutines   *)
(* of a process (clients) share it, and several processes share the files. *)
(* Each file access and each critical section of Store.mu is one step.     *)
(*                                                                         *)
(* TAIL is the constant 1: MoveTail has no caller.  An entry file is only  *)
(* read at positions up to HEAD, so that PutIfNotExists (exclusive create, *)
(* then write) is one step: nobody reads a file that is still being        *)
(* written.  HEAD and snap.bsup are opened with O_TRUNC and then written:  *)
(* two steps, between which readers find the file empty.                   *)
(***************************************************************************)
EXTENDS StoreOps, Integers

CONSTANTS Clients,      \* goroutines that use a store
          Stores,       \* processes, each with its Store object
          StoreOf,      \* the process of a client
          WOps,         \* the updates clients may issue
          MaxRetries,   \* maxRetries: attempts of a commit (10 in the code)
          SnapGap,      \* a snapshot is due after more new entries (10)
          IDModulus,    \* journal IDs are unsigned: 2^64 in the code
          SnapFits,     \* a snapshot fits in one frame of its file
          MaxLog,       \* bound: entries in the journal
          MaxOps,       \* bound: updates begun
          MaxCrashes    \* bound: process crashes

ASSUME ClientsAssumption == StoreOf \in [Clients -> Stores]
ASSUME OpsAssumption == WOps \subseteq WriteOps
ASSUME BoundsAssumption ==
    /\ MaxRetries \in Nat \ {0}
    /\ SnapGap \in Nat
    /\ IDModulus \in Nat \ {0}
    /\ SnapFits \in BOOLEAN
    /\ MaxLog \in Nat
    /\ MaxOps \in Nat
    /\ MaxCrashes \in Nat

VARIABLES
    entry,      \* n.bsup for each n, or NoEntry
    head,       \* HEAD: valid unless truncated; id is its last value
    snap,       \* snap.bsup
    storeAt,    \* Store.at of each process
    storeTable, \* Store.table of each process
    pc,         \* where each client is
    op,         \* the operation it executes
    tries,      \* failed attempts of its commit
    rhead,      \* load: head
    stop,       \* journal.Reader: stop
    cursor,     \* journal.Reader: cursor
    snapAt,     \* load: at
    table,      \* load: table
    at,         \* commit: at
    begun,      \* number of updates begun (bound)
    crashes,    \* number of crashes (bound)
    tables,     \* history: the table after each entry
    acked,      \* history: the last entry whose commit has returned
    low         \* history: the position a client's read must not be older than

files   == <<entry, head, snap>>
caches  == <<storeAt, storeTable>>
locals  == <<op, tries, rhead, stop, cursor, snapAt, table, at>>
bounds  == <<begun, crashes>>
history == <<tables, acked, low>>
vars == <<files, caches, pc, locals, bounds, history>>
-------------------------------------------------------------------------------
Nil == 0                            \* the null journal ID
Slots == 1..MaxLog
NoEntry == [kind |-> "none"]
ReadOp == [kind |-> "all"]          \* Keys, Values and All

PCs == {"idle", "readHead", "compare", "getSnapshot", "reopen", "replay",
        "truncSnap", "frameSnap", "writeSnap", "check", "put", "truncHead",
        "writeHead", "reset"}

(* snap.bsup missing, or truncated and not yet written.  Both read as "no  *)
(* snapshot".                                                              *)
NoSnap == [at |-> Nil, table |-> EmptyTable]

Lowest(S) == CHOOSE n \in S : \A m \in S : n <= m

(* The subtraction of two journal IDs wraps around. *)
Minus(m, n) == (m - n) % IDModulus

End == IF head.id + 1 \in Slots /\ entry[head.id + 1] # NoEntry
       THEN head.id + 1 ELSE head.id
-------------------------------------------------------------------------------
Init ==
    /\ entry = [n \in Slots |-> NoEntry]
    /\ head = [valid |-> TRUE, id |-> Nil]
    /\ snap = NoSnap
    /\ storeAt = [s \in Stores |-> Nil]
    /\ storeTable = [s \in Stores |-> EmptyTable]
    /\ pc = [c \in Clients |-> "idle"]
    /\ op = [c \in Clients |-> ReadOp]
    /\ tries = [c \in Clients |-> 0]
    /\ rhead = [c \in Clients |-> Nil]
    /\ stop = [c \in Clients |-> Nil]
    /\ cursor = [c \in Clients |-> Nil]
    /\ snapAt = [c \in Clients |-> Nil]
    /\ table = [c \in Clients |-> EmptyTable]
    /\ at = [c \in Clients |-> Nil]
    /\ begun = 0
    /\ crashes = 0
    /\ tables = [n \in 0..MaxLog |-> EmptyTable]
    /\ acked = Nil
    /\ low = [c \in Clients |-> Nil]

Goto(c, label) == pc' = [pc EXCEPT ![c] = label]

(* The locals of load and of commit go out of scope.  (They are reset, so   *)
(* that states that differ only in dead locals are the same state.)         *)
LeaveLoad(c) ==
    /\ rhead' = [rhead EXCEPT ![c] = Nil]
    /\ stop' = [stop EXCEPT ![c] = Nil]
    /\ cursor' = [cursor EXCEPT ![c] = Nil]
    /\ snapAt' = [snapAt EXCEPT ![c] = Nil]
    /\ table' = [table EXCEPT ![c] = EmptyTable]

(* The client's operation returns. *)
Return(c) ==
    /\ Goto(c, "idle")
    /\ op' = [op EXCEPT ![c] = ReadOp]
    /\ tries' = [tries EXCEPT ![c] = 0]
    /\ at' = [at EXCEPT ![c] = Nil]
    /\ low' = [low EXCEPT ![c] = Nil]
    /\ LeaveLoad(c)

(***************************************************************************)
(* Insert, Move, Delete, Update (commit) and Keys, Values, All start by    *)
(* calling load.  A read may be given the table of any load of its process *)
(* that has read HEAD already: low is the lowest position it can be of.    *)
(***************************************************************************)
BeginUpdate(c, o) ==
    /\ pc[c] = "idle"
    /\ begun < MaxOps
    /\ begun' = begun + 1
    /\ op' = [op EXCEPT ![c] = o]
    /\ Goto(c, "readHead")
    /\ UNCHANGED <<files, caches, tries, rhead, stop, cursor, snapAt, table, at,
                   crashes, history>>

(* Where load has read HEAD and not yet put its table into the Store. *)
Pending == {"compare", "getSnapshot", "reopen", "replay"}

(* The positions that loads in progress in process s will label the table  *)
(* with that they put into the Store.                                      *)
Loading(s) == {rhead[d] : d \in {d \in Clients : StoreOf[d] = s /\ pc[d] \in Pending}}

BeginRead(c) ==
    /\ pc[c] = "idle"
    /\ low' = [low EXCEPT ![c] = Lowest({acked} \cup Loading(StoreOf[c]))]
    /\ Goto(c, "readHead")
    /\ UNCHANGED <<files, caches, locals, bounds, tables, acked>>

(* load: ReadHead.  readID retries while HEAD does not parse. *)
ReadHead(c) ==
    /\ pc[c] = "readHead"
    /\ head.valid
    /\ rhead' = [rhead EXCEPT ![c] = head.id]
    /\ Goto(c, "compare")
    /\ UNCHANGED <<files, caches, op, tries, stop, cursor, snapAt, table, at,
                   bounds, history>>

(* readID gives up after MaxReadRetry reads of an unparsable HEAD; how long *)
(* that takes against the writer is not modelled.  The operation fails.     *)
ReadHeadFails(c) ==
    /\ pc[c] \in {"readHead", "reopen"}
    /\ ~head.valid
    /\ Return(c)
    /\ UNCHANGED <<files, caches, bounds, tables, acked>>

(* Variant: a cached table is used whatever HEAD says. *)
CompareHead_TrustCache(c) ==
    /\ pc[c] = "compare"
    /\ Goto(c, IF rhead[c] = Nil \/ storeAt[StoreOf[c]] # Nil THEN "check" ELSE "getSnapshot")
    /\ UNCHANGED <<files, caches, locals, bounds, history>>

(* load: nothing to do when the store is at HEAD already. *)
CompareHead(c) ==
    /\ pc[c] = "compare"
    /\ Goto(c, IF rhead[c] = storeAt[StoreOf[c]] THEN "check" ELSE "getSnapshot")
    /\ UNCHANGED <<files, caches, locals, bounds, history>>

(* load: getSnapshot, then OpenAsBSUP(head, at).  Replay starts at the      *)
(* snapshot's own entry.  A head of Nil makes Queue.Open read HEAD again.   *)
GetSnapshot(c) ==
    /\ pc[c] = "getSnapshot"
    /\ snapAt' = [snapAt EXCEPT ![c] = snap.at]
    /\ table' = [table EXCEPT ![c] = snap.table]
    /\ cursor' = [cursor EXCEPT ![c] = IF snap.at = Nil THEN Nil ELSE snap.at - 1]
    /\ stop' = [stop EXCEPT ![c] = rhead[c]]
    /\ Goto(c, IF rhead[c] = Nil THEN "reopen" ELSE "replay")
    /\ UNCHANGED <<files, caches, op, tries, rhead, at, bounds, history>>

ReopenAtHead(c) ==
    /\ pc[c] = "reopen"
    /\ head.valid
    /\ stop' = [stop EXCEPT ![c] = head.id]
    /\ Goto(c, "replay")
    /\ UNCHANGED <<files, caches, op, tries, rhead, cursor, snapAt, table, at,
                   bounds, history>>

(* load: the loop over r.Read(), one journal entry per step.  A missing     *)
(* entry file, or an Update of a key the table lacks, makes load fail.      *)
ReplayEntry(c) ==
    LET n == cursor[c] + 1
        e == entry[n]
    IN  /\ pc[c] = "replay"
        /\ cursor[c] < stop[c]
        /\ IF e # NoEntry /\ Replayable(table[c], e)
           THEN /\ cursor' = [cursor EXCEPT ![c] = n]
                /\ table' = [table EXCEPT ![c] = Apply(@, e)]
                /\ UNCHANGED <<pc, op, tries, rhead, stop, snapAt, at, low>>
           ELSE Return(c)
        /\ UNCHANGED <<files, caches, bounds, tables, acked>>

(* Variant: the table is labelled with what HEAD says by now. *)
Publish_AtCurrentHead(c) ==
    /\ pc[c] = "replay"
    /\ cursor[c] >= stop[c]
    /\ storeTable' = [storeTable EXCEPT ![StoreOf[c]] = table[c]]
    /\ storeAt' = [storeAt EXCEPT ![StoreOf[c]] = head.id]
    /\ Goto(c, IF Minus(rhead[c], snapAt[c]) > SnapGap THEN "truncSnap" ELSE "check")
    /\ UNCHANGED <<files, locals, bounds, history>>

(* load: end of journal reached; publish the table and, when it is due,     *)
(* go on to store a snapshot.                                               *)
Publish(c) ==
    /\ pc[c] = "replay"
    /\ cursor[c] >= stop[c]
    /\ storeTable' = [storeTable EXCEPT ![StoreOf[c]] = table[c]]
    /\ storeAt' = [storeAt EXCEPT ![StoreOf[c]] = rhead[c]]
    /\ Goto(c, IF Minus(rhead[c], snapAt[c]) > SnapGap THEN "truncSnap" ELSE "check")
    /\ UNCHANGED <<files, locals, bounds, history>>

(* putSnapshot: engine.Put truncates the file. *)
TruncSnapshot(c) ==
    /\ pc[c] = "truncSnap"
    /\ snap' = NoSnap
    /\ Goto(c, IF SnapFits THEN "writeSnap" ELSE "frameSnap")
    /\ UNCHANGED <<entry, head, caches, locals, bounds, history>>

(* putSnapshot of a table larger than one frame: some of its entries, in    *)
(* map iteration order, are in the file before the rest.                    *)
WriteSnapshotFrame(c) ==
    /\ pc[c] = "frameSnap"
    /\ \E K \in SUBSET Keys :
         snap' = [at |-> rhead[c],
                  table |-> [k \in Keys |-> IF k \in K THEN table[c][k] ELSE Absent]]
    /\ Goto(c, "writeSnap")
    /\ UNCHANGED <<entry, head, caches, locals, bounds, history>>

WriteSnapshot(c) ==
    /\ pc[c] = "writeSnap"
    /\ snap' = [at |-> rhead[c], table |-> table[c]]
    /\ Goto(c, "check")
    /\ UNCHANGED <<entry, head, caches, locals, bounds, history>>

(* After load, under the read lock: a read returns the table; a commit      *)
(* notes the position and evaluates its condition.                          *)
ReturnTable(c) ==
    /\ pc[c] = "check"
    /\ op[c] = ReadOp
    /\ Return(c)
    /\ UNCHANGED <<files, caches, bounds, tables, acked>>

(* Variant: the commit goes to the position after HEAD (Queue.Commit)        *)
(* instead of the position its condition was evaluated at.                  *)
CheckCondition_CommitAtHead(c) ==
    LET s == StoreOf[c]
    IN  /\ pc[c] = "check"
        /\ op[c] # ReadOp
        /\ IF Admissible(storeTable[s], op[c])
           THEN /\ at' = [at EXCEPT ![c] = head.id]
                /\ Goto(c, "put")
                /\ LeaveLoad(c)
                /\ UNCHANGED <<op, tries, low>>
           ELSE Return(c)
        /\ UNCHANGED <<files, caches, bounds, tables, acked>>

CheckCondition(c) ==
    LET s == StoreOf[c]
    IN  /\ pc[c] = "check"
        /\ op[c] # ReadOp
        /\ IF Admissible(storeTable[s], op[c])
           THEN /\ at' = [at EXCEPT ![c] = storeAt[s]]
                /\ Goto(c, "put")
                /\ LeaveLoad(c)
                /\ UNCHANGED <<op, tries, low>>
           ELSE Return(c)
        /\ UNCHANGED <<files, caches, bounds, tables, acked>>

(* Variant: a plain Put, as on an engine without exclusive creation. *)
PutEntry_Overwrite(c) ==
    LET n == at[c] + 1
    IN  /\ pc[c] = "put"
        /\ n \in Slots
        /\ entry' = [entry EXCEPT ![n] = op[c]]
        /\ tables' = [tables EXCEPT ![n] = Apply(tables[at[c]], op[c])]
        /\ Goto(c, "truncHead")
        /\ UNCHANGED <<head, snap, caches, locals, bounds, acked, low>>

(* CommitAt: PutIfNotExists of the next entry. *)
PutEntry(c) ==
    LET n == at[c] + 1
    IN  /\ pc[c] = "put"
        /\ n \in Slots
        /\ entry[n] = NoEntry
        /\ entry' = [entry EXCEPT ![n] = op[c]]
        /\ tables' = [tables EXCEPT ![n] = Apply(tables[at[c]], op[c])]
        /\ Goto(c, "truncHead")
        /\ UNCHANGED <<head, snap, caches, locals, bounds, acked, low>>

(* Variant: the retries are not counted. *)
PutConflict_Forever(c) ==
    LET n == at[c] + 1
    IN  /\ pc[c] = "put"
        /\ n \in Slots
        /\ entry[n] # NoEntry
        /\ at' = [at EXCEPT ![c] = Nil]
        /\ Goto(c, "readHead")
        /\ UNCHANGED <<files, caches, op, tries, rhead, stop, cursor, snapAt, table,
                       bounds, history>>

(* The entry exists: commit sleeps and starts over, or gives up with        *)
(* ErrRetriesExceeded.                                                      *)
PutConflict(c) ==
    LET n == at[c] + 1
    IN  /\ pc[c] = "put"
        /\ n \in Slots
        /\ entry[n] # NoEntry
        /\ IF tries[c] + 1 < MaxRetries
           THEN /\ tries' = [tries EXCEPT ![c] = @ + 1]
                /\ at' = [at EXCEPT ![c] = Nil]
                /\ Goto(c, "readHead")
                /\ UNCHANGED <<op, rhead, stop, cursor, snapAt, table, low>>
           ELSE Return(c)
        /\ UNCHANGED <<files, caches, bounds, tables, acked>>

(* CommitAt: writeHead(at+1), which truncates and then writes. *)
TruncHead(c) ==
    /\ pc[c] = "truncHead"
    /\ head' = [head EXCEPT !.valid = FALSE]
    /\ Goto(c, "writeHead")
    /\ UNCHANGED <<entry, snap, caches, locals, bounds, history>>

(* Variant: HEAD is set to the position for the next commit. *)
WriteHead_NextPosition(c) ==
    /\ pc[c] = "writeHead"
    /\ head' = [valid |-> TRUE, id |-> at[c] + 2]
    /\ Goto(c, "reset")
    /\ UNCHANGED <<entry, snap, caches, locals, bounds, history>>

WriteHead(c) ==
    /\ pc[c] = "writeHead"
    /\ head' = [valid |-> TRUE, id |-> at[c] + 1]
    /\ Goto(c, "reset")
    /\ UNCHANGED <<entry, snap, caches, locals, bounds, history>>

(* commit: force a reload after a change, and return. *)
ResetAt(c) ==
    /\ pc[c] = "reset"
    /\ storeAt' = [storeAt EXCEPT ![StoreOf[c]] = Nil]
    /\ acked' = IF at[c] + 1 > acked THEN at[c] + 1 ELSE acked
    /\ Return(c)
    /\ UNCHANGED <<files, storeTable, bounds, tables>>

(* A process dies and is started again: its goroutines are gone and its     *)
(* Store is a new one (newStore).  The files stay as they are.              *)
Crash(s) ==
    /\ crashes < MaxCrashes
    /\ crashes' = crashes + 1
    /\ storeAt' = [storeAt EXCEPT ![s] = Nil]
    /\ storeTable' = [storeTable EXCEPT ![s] = EmptyTable]
    /\ pc' = [c \in Clients |-> IF StoreOf[c] = s THEN "idle" ELSE pc[c]]
    /\ op' = [c \in Clients |-> IF StoreOf[c] = s THEN ReadOp ELSE op[c]]
    /\ tries' = [c \in Clients |-> IF StoreOf[c] = s THEN 0 ELSE tries[c]]
    /\ rhead' = [c \in Clients |-> IF StoreOf[c] = s THEN Nil ELSE rhead[c]]
    /\ stop' = [c \in Clients |-> IF StoreOf[c] = s THEN Nil ELSE stop[c]]
    /\ cursor' = [c \in Clients |-> IF StoreOf[c] = s THEN Nil ELSE cursor[c]]
    /\ snapAt' = [c \in Clients |-> IF StoreOf[c] = s THEN Nil ELSE snapAt[c]]
    /\ table' = [c \in Clients |-> IF StoreOf[c] = s THEN EmptyTable ELSE table[c]]
    /\ at' = [c \in Clients |-> IF StoreOf[c] = s THEN Nil ELSE at[c]]
    /\ low' = [c \in Clients |-> IF StoreOf[c] = s THEN Nil ELSE low[c]]
    /\ UNCHANGED <<files, begun, tables, acked>>

Step(c) ==
    \/ ReadHead(c)
    \/ ReadHeadFails(c)
    \/ CompareHead(c)
    \/ GetSnapshot(c)
    \/ ReopenAtHead(c)
    \/ ReplayEntry(c)
    \/ Publish(c)
    \/ TruncSnapshot(c)
    \/ WriteSnapshotFrame(c)
    \/ WriteSnapshot(c)
    \/ ReturnTable(c)
    \/ CheckCondition(c)
    \/ PutEntry(c)
    \/ PutConflict(c)
    \/ TruncHead(c)
    \/ WriteHead(c)
    \/ ResetAt(c)

Next ==
    \/ \E c \in Clients : BeginRead(c)
    \/ \E c \in Clients, o \in WOps : BeginUpdate(c, o)
    \/ \E c \in Clients : Step(c)
    \/ \E s \in Stores : Crash(s)

Spec == Init /\ [][Next]_vars

(***************************************************************************)
(* Fairness.  A goroutine that is inside an operation is scheduled, its    *)
(* file operations complete and its lock is granted (each critical section *)
(* is one step), so its next step is eventually taken.  Clients keep       *)
(* issuing reads: the service opens branches for every request.            *)
(***************************************************************************)
Fairness == \A c \in Clients : WF_vars(Step(c)) /\ WF_vars(BeginRead(c))

FairSpec == Spec /\ Fairness
-------------------------------------------------------------------------------
(* Every variable has its type. *)
TypeOK ==
    /\ entry \in [Slots -> WOps \cup {NoEntry}]
    /\ head \in [valid : BOOLEAN, id : 0..MaxLog]
    /\ snap \in [at : 0..MaxLog, table : Table]
    /\ storeAt \in [Stores -> 0..MaxLog]
    /\ storeTable \in [Stores -> Table]
    /\ pc \in [Clients -> PCs]
    /\ op \in [Clients -> WOps \cup {ReadOp}]
    /\ tries \in [Clients -> 0..MaxRetries]
    /\ rhead \in [Clients -> 0..MaxLog]
    /\ stop \in [Clients -> 0..MaxLog]
    /\ cursor \in [Clients -> 0..MaxLog]
    /\ snapAt \in [Clients -> 0..MaxLog]
    /\ table \in [Clients -> Table]
    /\ at \in [Clients -> 0..MaxLog]
    /\ begun \in 0..MaxOps
    /\ crashes \in 0..MaxCrashes
    /\ tables \in [0..MaxLog -> Table]
    /\ acked \in 0..MaxLog
    /\ low \in [Clients -> 0..MaxLog]

(* The journal has no holes, HEAD never points past its end and the end is *)
(* at most one entry past HEAD (CommitAt of lake/journal/queue.go: the     *)
(* exclusive create of entry at+1 is followed by writeHead, and a next     *)
(* writer learns of at+1 only from HEAD).                                  *)
JournalDense ==
    \A n \in Slots : entry[n] # NoEntry <=> n <= End

(* Optimistic concurrency control is serializable: every entry in the      *)
(* journal met its condition (key absent, key present, constraint on the   *)
(* stored entry) on the table that all entries before it produce, although *)
(* commit evaluated it on a cached table that may have been stale.         *)
Serializable ==
    \A n \in 1..End : Admissible(tables[n-1], entry[n])

(* Table t holds for each key a value that the key had at one of the       *)
(* positions m to e of the history ts.                                     *)
NotOlder(t, m, e, ts) ==
    \A k \in Keys : \E j \in m..e : t[k] = ts[j][k]

(* A table labelled with position m holds for each key a value that the    *)
(* key had at m or later.                                                  *)
NotOlderThan(t, m) == NotOlder(t, m, End, tables)

(* What a process has cached and what snap.bsup holds is never older than  *)
(* its label says, so that a table labelled with the end of the journal is *)
(* exactly the table at the end (Store.load, getSnapshot, putSnapshot).    *)
CachesNotOlder ==
    /\ \A s \in Stores : NotOlderThan(storeTable[s], storeAt[s])
    /\ NotOlderThan(snap.table, snap.at)

(* The journal only grows: no step overwrites an entry, and HEAD never     *)
(* moves back (two writers never race in writeHead).                       *)
JournalGrows ==
    [][/\ head'.id >= head.id
       /\ \A n \in Slots : entry[n] # NoEntry => entry'[n] = entry[n]]_vars

Reads(c) == pc[c] = "check" /\ op[c] = ReadOp /\ pc'[c] = "idle"

(* A read that begins after a commit was acknowledged, by any process,     *)
(* sees that commit: for each key it returns a value the key had then or   *)
(* later (Store.All after load).  The exception are goroutines of its own  *)
(* process whose load had read an older HEAD before the read began: each   *)
(* may put its older table into the shared Store (store.go:114) before the *)
(* read returns what is there, and low takes that into account.  A process *)
(* with one goroutine has no exception.                                    *)
ReadsSeeAcked ==
    [][\A c \in Clients : Reads(c) /\ crashes' = crashes =>
          NotOlderThan(storeTable[StoreOf[c]], low[c])]_vars

(* "the snapshot at HEAD may be efficiently computed by locating the most  *)
(* recent cached snapshot and scanning forward to HEAD" (docs/lake/        *)
(* format.md): no load fails while it scans forward.                       *)
ReplaySucceeds ==
    [][\A c \in Clients : pc[c] = "replay" /\ crashes' = crashes
                             => pc'[c] # "idle"]_vars

(* HEAD always catches up with the journal: an entry that was created      *)
(* becomes visible.                                                        *)
HeadCatchesUp ==
    \A n \in Slots :
        entry[n] # NoEntry ~> (head.valid /\ head.id >= n)

(* Every operation returns: the retries of commit are bounded and nothing  *)
(* waits for another client.                                               *)
OperationsReturn ==
    \A c \in Clients : pc[c] # "idle" ~> pc[c] = "idle"

-------------------------------------------------------------------------------
(***************************************************************************)
(* The inductive invariant behind JournalDense, Serializable and           *)
(* CachesNotOlder, in named parts.                                         *)
(***************************************************************************)
Writing == {"truncHead", "writeHead"}

(* At most one client is between its exclusive create and writeHead, and   *)
(* it has created the entry right after HEAD.                              *)
WriterInv ==
    /\ \A c \in Clients : pc[c] \in Writing => at[c] = head.id /\ End = head.id + 1
    /\ \A c, d \in Clients : pc[c] \in Writing /\ pc[d] \in Writing => c = d
    /\ \A c \in Clients : pc[c] = "reset" => at[c] + 1 <= head.id
    /\ \A c \in Clients : pc[c] \in {"put"} \cup Writing => op[c] \in WOps

(* Every position anybody remembers was read from HEAD. *)
PositionInv ==
    /\ snap.at <= head.id
    /\ acked <= head.id
    /\ \A s \in Stores : storeAt[s] <= head.id
    /\ \A c \in Clients :
         /\ rhead[c] <= head.id
         /\ stop[c] <= head.id
         /\ at[c] <= head.id
         /\ pc[c] = "reopen" => rhead[c] = Nil
         /\ pc[c] = "replay" => rhead[c] <= stop[c]

(* tables is the replay of the entries. *)
ChainInv ==
    /\ tables[0] = EmptyTable
    /\ \A n \in 1..End : tables[n] = Apply(tables[n-1], entry[n])

(* The tables that loads in progress are building. *)
LoadInv ==
    \A c \in Clients :
        /\ pc[c] \in {"reopen", "replay"} => NotOlderThan(table[c], cursor[c])
        /\ pc[c] \in {"truncSnap", "frameSnap", "writeSnap"}
              => NotOlderThan(table[c], rhead[c])

(* A commit that can still succeed evaluated its condition on the table at *)
(* the end of the journal.                                                 *)
PutInv ==
    \A c \in Clients :
        pc[c] = "put" /\ at[c] = End => Admissible(tables[End], op[c])

Loaded == {"truncSnap", "frameSnap", "writeSnap", "check"}

(* A load that is under way cannot take the Store of a read's process back *)
(* to before what the read must see, and once the read's own load is done  *)
(* the Store is there.                                                     *)
ReadInv ==
    /\ \A c \in Clients : low[c] <= acked
    /\ \A c, d \in Clients :
         StoreOf[c] = StoreOf[d] /\ pc[d] \in Pending => low[c] <= rhead[d]
    /\ \A c \in Clients :
         pc[c] \in Loaded => NotOlderThan(storeTable[StoreOf[c]], low[c])

(* The part of the invariant about the journal itself. *)
JournalInv ==
    /\ TypeOK
    /\ JournalDense
    /\ WriterInv
    /\ PositionInv
    /\ ChainInv

(* The part about tables, for stores whose snapshots fit in one frame. *)
TablesInv ==
    /\ Serializable
    /\ CachesNotOlder
    /\ LoadInv
    /\ PutInv
    /\ \A c \in Clients : pc[c] # "frameSnap"

(* The inductive invariant: the journal is well formed, every table in the *)
(* caches, in the snapshot file and in the loads in progress is at least   *)
(* as new as its label, and a commit that can still succeed was checked    *)
(* against the last table (lake/journal/store.go, load and commit).        *)
IndInv == JournalInv /\ (SnapFits => TablesInv)
-------------------------------------------------------------------------------
(***************************************************************************)
(* The journal implements an atomic store whose table is the one at HEAD:  *)
(* an update takes effect when its writeHead completes.                    *)
(***************************************************************************)
KV == INSTANCE KVStore WITH Ops <- WOps, db <- tables[head.id]

(* All processes together behave as one table changed by atomic            *)
(* conditional updates, crashes of processes included (lake/journal as its *)
(* callers lake/branches and lake/pools see it).                           *)
ImplementsKV == KV!Spec
===============================================================================
