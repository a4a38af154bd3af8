---------------------------- MODULE AccessLogStore ----------------------------
(***************************************************************************)
(* SqliteAccessLogStore: the access log in one SQLite file, written by     *)
(* several processes.  write_entry holds the lock of its own store object; *)
(* connections are in autocommit, so each statement is a step of its own   *)
(* and another process may act between an INSERT, the COUNT and the        *)
(* DELETE.  Each process has one store object.                             *)
(***************************************************************************)
EXTENDS Integers, FiniteSets

CONSTANTS Process,     \* processes that opened the file
          Thread,      \* callers of write_entry
          ProcessOf,   \* the process, so the store object, of a thread
          Entry,       \* http.request.* entries to be written
          TsOf,        \* timestamp_utc of an entry, in ticks
          CidOf,       \* correlation_id of an entry; only its order matters
          TenantOf,    \* tenant of an entry
          Second,      \* ticks of a second
          MaxEntries,  \* self.max_entries
          MaxBytes,    \* self.max_bytes, in rows of the file and frames of the WAL
          Batch,       \* rows one byte-cap DELETE takes, 100 in the code
          MaxCuts      \* bound on processes killed and statements that raise

ASSUME ThreadsHaveProcess == ProcessOf \in [Thread -> Process]
ASSUME EntriesTyped == TsOf \in [Entry -> Nat] /\ CidOf \in [Entry -> Nat]
ASSUME SecondIsNat == Second \in Nat \ {0}
ASSUME CapsAreInts == MaxEntries \in Int /\ MaxBytes \in Int /\ MaxCuts \in Nat
ASSUME BatchIsNat == Batch \in Nat \ {0}
ASSUME ProcessFinite == IsFiniteSet(Process) /\ IsFiniteSet(Thread)

VARIABLES
  table,    \* the rows: a function from the entries stored to their id
  written,  \* history: every entry ever inserted; its size is the last id
  pc,       \* how far a thread is in write_entry
  excess,   \* rows a thread is about to delete
  slots,    \* rows the database file has room for, up to one past MaxBytes
  wal,      \* frames of the -wal file, up to one past MaxBytes
  cuts,     \* processes killed and writes ended by a statement that raised
  raced,    \* history: two prunes overlapped
  shrunk    \* history: the byte cap deleted rows

fileVars == <<slots, wal>>
storeVars == <<table, written, pc, excess, fileVars, cuts, raced, shrunk>>

rows == DOMAIN table

\* Program points of write_entry: before the COUNT, before the DELETE, before
\* the test of line 298, before the test and the DELETE of the loop, and
\* before the checkpoint.
Points == {"idle", "count", "delete", "size", "loop", "batch", "checkpoint"}

TypeOK ==
  /\ written \in SUBSET Entry /\ IsFiniteSet(written)
  /\ rows \in SUBSET written
  /\ table \in [rows -> 1..Cardinality(written)]
  /\ pc \in [Thread -> Points]
  /\ excess \in [Thread -> Nat]
  /\ slots \in Nat /\ wal \in Nat /\ cuts \in Nat
  /\ raced \in BOOLEAN /\ shrunk \in BOOLEAN

StoreInit ==
  /\ table = [e \in {} |-> 0] /\ written = {}
  /\ pc = [t \in Thread |-> "idle"]
  /\ excess = [t \in Thread |-> 0]
  /\ slots = 0 /\ wal = 0 /\ cuts = 0
  /\ raced = FALSE /\ shrunk = FALSE

-----------------------------------------------------------------------------
(* Order *)

\* isoformat() leaves out microseconds that are zero, and "Z" sorts after ".":
\* an exact second is the last instant of its second in the text's order.
TextOf(ts) ==
  LET second == ts \div Second
      fraction == ts % Second
  IN  second * Second + (IF fraction = 0 THEN Second - 1 ELSE fraction - 1)

Key(e) == TextOf(TsOf[e])

\* Mutant: ORDER BY id ASC, the order of arrival.
OlderById(e, f) == table[e] < table[f]

\* ORDER BY timestamp_utc ASC, id ASC
Older(e, f) == Key(e) < Key(f) \/ (Key(e) = Key(f) /\ table[e] < table[f])

\* The n oldest rows, or all of them.
IsOldest(D, n) ==
  /\ D \in SUBSET rows
  /\ Cardinality(D) = (IF n < Cardinality(rows) THEN n ELSE Cardinality(rows))
  /\ \A d \in D, k \in rows \ D : Older(d, k)

-----------------------------------------------------------------------------
(* The file *)

Larger(a, b) == IF a > b THEN a ELSE b

\* _sqlite_bytes: a DELETE frees pages inside the file, and the file and its
\* -wal only grow while statements run: the file is never vacuumed.
Bytes == slots + wal

OverSize == MaxBytes > 0 /\ Bytes > MaxBytes

FrameAdded == wal' = IF wal > MaxBytes THEN wal ELSE wal + 1

-----------------------------------------------------------------------------
(* write_entry *)

\* Rows inserted whose retention has not been enforced yet.
Pending == {t \in Thread : pc[t] \in {"count", "delete"}}

\* Mutant: the store has no lock.
NoLock(t) == pc[t] = "idle"

LockFree(t) ==
  \A u \in Thread : ProcessOf[u] = ProcessOf[t] => pc[u] = "idle"

Insert(t, e) ==
  /\ LockFree(t)
  /\ e \in Entry \ written
  /\ written' = written \union {e}
  /\ table' = [f \in rows \union {e} |->
                 IF f = e THEN Cardinality(written) + 1 ELSE table[f]]
  /\ pc' = [pc EXCEPT ![t] = "count"]
  /\ slots' = IF slots > MaxBytes THEN slots ELSE Larger(slots, Cardinality(rows) + 1)
  /\ FrameAdded
  /\ UNCHANGED <<excess, cuts, raced, shrunk>>

\* Mutant: the new row is not counted.
ExcessBeforeInsert == Cardinality(rows) - 1 - MaxEntries

Excess == Cardinality(rows) - MaxEntries

\* Mutant: a LIMIT that is negative reaches the DELETE.
CountRowsUnchecked(t) ==
  /\ pc[t] = "count"
  /\ excess' = [excess EXCEPT ![t] = Excess]
  /\ pc' = [pc EXCEPT ![t] = "delete"]
  /\ UNCHANGED <<table, written, fileVars, cuts, raced, shrunk>>

CountRows(t) ==
  /\ pc[t] = "count"
  /\ IF MaxEntries > 0 /\ Excess > 0
     THEN /\ excess' = [excess EXCEPT ![t] = Excess]
          /\ pc' = [pc EXCEPT ![t] = "delete"]
     ELSE /\ pc' = [pc EXCEPT ![t] = "size"]
          /\ UNCHANGED excess
  /\ UNCHANGED <<table, written, fileVars, cuts, raced, shrunk>>

Remove(D) ==
  /\ table' = [f \in rows \ D |-> table[f]]
  /\ IF D = {} THEN UNCHANGED wal ELSE FrameAdded

\* Another thread that has counted already counted the rows removed here.
Overlaps(t) == \E u \in Thread \ {t} : pc[u] = "delete"

DeleteExcess(t) ==
  /\ pc[t] = "delete"
  /\ \E D \in SUBSET rows : IsOldest(D, excess[t]) /\ Remove(D)
  /\ pc' = [pc EXCEPT ![t] = "size"]
  /\ excess' = [excess EXCEPT ![t] = 0]
  /\ raced' = (raced \/ Overlaps(t))
  /\ UNCHANGED <<written, slots, cuts, shrunk>>

\* Line 298: the write ends here unless the file is over its size.
CheckSize(t) ==
  /\ pc[t] = "size"
  /\ pc' = [pc EXCEPT ![t] = IF OverSize THEN "loop" ELSE "idle"]
  /\ UNCHANGED <<table, written, excess, fileVars, cuts, raced, shrunk>>

\* Line 299: the loop's own test.
CheckLoop(t) ==
  /\ pc[t] = "loop"
  /\ pc' = [pc EXCEPT ![t] = IF OverSize THEN "batch" ELSE "checkpoint"]
  /\ UNCHANGED <<table, written, excess, fileVars, cuts, raced, shrunk>>

\* Mutant: the loop does not stop at an empty table.
DeleteBatchForever(t) ==
  /\ pc[t] = "batch"
  /\ \E D \in SUBSET rows : IsOldest(D, Batch) /\ Remove(D)
  /\ pc' = [pc EXCEPT ![t] = "loop"]
  /\ shrunk' = TRUE
  /\ UNCHANGED <<written, excess, slots, cuts, raced>>

DeleteBatch(t) ==
  /\ pc[t] = "batch"
  /\ \E D \in SUBSET rows :
        /\ IsOldest(D, Batch)
        /\ Remove(D)
        /\ pc' = [pc EXCEPT ![t] = IF D = {} THEN "checkpoint" ELSE "loop"]
  /\ shrunk' = TRUE
  /\ UNCHANGED <<written, excess, slots, cuts, raced>>

\* PRAGMA wal_checkpoint(TRUNCATE), which another connection can keep from
\* truncating.
Checkpoint(t) ==
  /\ pc[t] = "checkpoint"
  /\ wal' \in {0, wal}
  /\ pc' = [pc EXCEPT ![t] = "idle"]
  /\ UNCHANGED <<table, written, excess, slots, cuts, raced, shrunk>>

WriteStep(t) ==
  \/ CountRows(t) \/ DeleteExcess(t) \/ CheckSize(t)
  \/ CheckLoop(t) \/ DeleteBatch(t) \/ Checkpoint(t)

-----------------------------------------------------------------------------
(* The processes *)

\* The process is killed: its lock is gone with it, the statements it ran stay.
Kill(p) ==
  LET mine == {t \in Thread : ProcessOf[t] = p}
  IN  /\ cuts < MaxCuts
      /\ pc' = [t \in Thread |-> IF t \in mine THEN "idle" ELSE pc[t]]
      /\ excess' = [t \in Thread |-> IF t \in mine THEN 0 ELSE excess[t]]
      /\ cuts' = cuts + 1
      /\ UNCHANGED <<table, written, fileVars, raced, shrunk>>

\* A statement of write_entry raises (locked for 30 s, disk full, a -wal file
\* gone between exists() and stat()) and emit_http_event swallows it: the
\* statements before it stay.  An INSERT that raises leaves nothing.
StatementFails(t) ==
  /\ pc[t] # "idle" /\ cuts < MaxCuts
  /\ pc' = [pc EXCEPT ![t] = "idle"]
  /\ excess' = [excess EXCEPT ![t] = 0]
  /\ cuts' = cuts + 1
  /\ UNCHANGED <<table, written, fileVars, raced, shrunk>>

\* No connection is closed explicitly; when the last one is collected SQLite
\* checkpoints and removes the -wal file.
LastClose ==
  /\ wal > 0
  /\ \A t \in Thread : pc[t] = "idle"
  /\ wal' = 0
  /\ UNCHANGED <<table, written, pc, excess, slots, cuts, raced, shrunk>>

StoreNext ==
  \/ \E t \in Thread, e \in Entry : Insert(t, e)
  \/ \E t \in Thread : WriteStep(t) \/ StatementFails(t)
  \/ \E p \in Process : Kill(p)
  \/ LastClose

StoreSpec == StoreInit /\ [][StoreNext]_storeVars

\* A thread inside write_entry runs on: SQLite makes it wait 30 s at most,
\* and then its statement raises.
FairStoreSpec == StoreSpec /\ \A t \in Thread : WF_storeVars(WriteStep(t))

-----------------------------------------------------------------------------
(* query *)

NoCursor == [key |-> -1, cid |-> -1]

CursorOf(e) == [key |-> Key(e), cid |-> CidOf[e]]

\* ORDER BY timestamp_utc DESC, correlation_id DESC
Above(e, f) == Key(e) > Key(f) \/ (Key(e) = Key(f) /\ CidOf[e] > CidOf[f])

\* Mutant: the row of the cursor matches again.
AtOrPastCursor(e, cursor) ==
  \/ cursor = NoCursor
  \/ Key(e) < cursor.key
  \/ Key(e) = cursor.key /\ CidOf[e] <= cursor.cid

PastCursor(e, cursor) ==
  \/ cursor = NoCursor
  \/ Key(e) < cursor.key
  \/ Key(e) = cursor.key /\ CidOf[e] < cursor.cid

\* Mutant: a window without a tenant.
MatchingAnyTenant(tenant, from, to) ==
  {e \in rows : TextOf(from) <= Key(e) /\ Key(e) <= TextOf(to)}

\* _filters: the tenant and the window.
Matching(tenant, from, to) ==
  {e \in rows : /\ TenantOf[e] = tenant
                /\ TextOf(from) <= Key(e)
                /\ Key(e) <= TextOf(to)}

\* The first n of S in page order; rows with the same key come in any order.
IsPage(P, S, n) ==
  /\ P \in SUBSET S
  /\ Cardinality(P) = (IF n < Cardinality(S) THEN n ELSE Cardinality(S))
  /\ \A e \in P, f \in S \ P : ~Above(f, e)

IsLastOf(e, P) == e \in P /\ \A f \in P : ~Above(e, f)

-----------------------------------------------------------------------------
(* What the store promises *)

\* The table holds at most max_entries rows and those whose writer has not
\* pruned yet or was cut short before it could, by a kill or by a statement
\* that raised: a writer's stale count may delete too much, never too little
\* (_enforce_retention).
RetentionBound ==
  MaxEntries > 0 => Cardinality(rows) <= MaxEntries + Cardinality(Pending) + cuts

\* The lock leaves one writer per process: the processes bound what is pending.
OneWriterPerProcess == Cardinality(Pending) <= Cardinality(Process)

\* Retention prunes the oldest rows (in the order of the text) and keeps the
\* newest max_entries, unless two processes pruned at once or the byte cap
\* was reached: a pruned row has that many rows at or above it.
KeepsNewest ==
  MaxEntries > 0 /\ ~raced /\ ~shrunk =>
    \A e \in written \ rows :
       Cardinality({f \in rows : Key(e) <= Key(f)}) >= MaxEntries

\* A log that has been written to is not empty once the writers are done.
LogIsKept ==
  written # {} /\ (\A t \in Thread : pc[t] = "idle") => rows # {}

\* Every write ends: no process waits for another one, and the byte cap's
\* loop, whose file does not shrink, stops when the table is empty.
WriteEnds == \A t \in Thread : pc[t] # "idle" ~> pc[t] = "idle"
=============================================================================
