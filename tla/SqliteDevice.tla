----------------------------- MODULE SqliteDevice ------------------------------
(***************************************************************************)
(* The transactional SQLITE device of crates/logger/db-sqlite: a user      *)
(* database and a rolling command log in the device home (LogSegments).    *)
(*                                                                         *)
(* Every call of the device is a sequence of steps, named by pc, and the   *)
(* process may crash between any two of them.  What survives a crash is    *)
(* home, stage, persisted and db; everything else is the memory of the     *)
(* process.  A user transaction that has not committed does not survive.   *)
(*                                                                         *)
(* Bounds: MaxSegment (segments), MaxCommitId (commit ids and clock        *)
(* values), MaxOps (logged statements of one transaction), MaxRows (change *)
(* number of a segment past which no statement is executed).               *)
(***************************************************************************)
EXTENDS LogSegments

CONSTANTS
  MaxCommitId, MaxOps, MaxRows,
  ClockMayLag,     \* the wall clock may stand behind a commit id already used
  MoverMayFail,    \* copying to stage or removing the source may fail
  PersistMayFail   \* storing log_segment_sequence_number may fail

ASSUME BoundsAssumption ==
  MaxSegment \in Nat /\ MaxCommitId \in Nat /\ MaxOps \in Nat /\ MaxRows \in Nat

ASSUME SwitchAssumption ==
  ClockMayLag \in BOOLEAN /\ MoverMayFail \in BOOLEAN /\ PersistMayFail \in BOOLEAN

VARIABLES
  stage,       \* the segments the mover delivered to the stage directory
  db,          \* user database: synclite_txn's commit_id, the commits it holds
               \*   and the logged statements whose effect it holds
  pc,          \* next step of the running call
  slot,        \* the slot claimed for the next segment
  nextCommit,  \* next_commit_id
  nextNum,     \* next_change_number
  queue,       \* TxnLogRuntime.pending
  rtOpen,      \* TxnLogRuntime.open
  userTxn,     \* user_txn_open and the logged statements it executed
  todo,        \* finalized segments still to be handed to on_segment_ready
  closing      \* the running call is close()

disk == <<home, stage, persisted, db>>
memory == <<pc, cur, slot, nextCommit, nextNum, queue, rtOpen, userTxn, buf, todo, closing>>
vars == <<disk, memory>>

NoUserTxn == [open |-> FALSE, effects |-> {}]

Opening   == {"open_create", "open_schema", "open_recover", "open_flush", "open_persist"}
Writing   == {"commit_drain", "commit_flush", "commit_db", "commit_row", "commit_done",
              "rollback_drain", "rollback_row", "rollback_done", "flush_drain"}
Switching == {"roll_drain", "roll_check", "roll_create", "roll_schema", "roll_persist",
              "close_drain", "finalize", "mark_ready", "deliver", "remove"}
Down      == {"down", "refused"}
PC        == Down \union {"idle"} \union Opening \union Writing \union Switching

TypeOK ==
  /\ home \in [Seg -> Segment]
  /\ stage \in [Seg -> Segment]
  /\ persisted \in -1 .. MaxSegment
  /\ db \in [commitId : Nat, done : SUBSET Nat, effects : SUBSET Row]
  /\ pc \in PC
  /\ cur \in Seg /\ slot \in Seg
  /\ nextCommit \in Nat /\ nextNum \in Nat
  /\ queue \in SUBSET Row /\ buf \in SUBSET Row
  /\ rtOpen \in BOOLEAN /\ closing \in BOOLEAN
  /\ userTxn \in [open : BOOLEAN, effects : SUBSET Row]
  /\ todo \in SUBSET Seg

--------------------------------------------------------------------------------
(* Process start and crash                                                     *)

Recorded ==
  {db.commitId} \union
  UNION { CommitIds(home[n].rows) \union CommitIds(stage[n].rows) : n \in Seg }

\* What the wall clock may read when the device opens.
ClockAtOpen ==
  { t \in 0 .. MaxCommitId : ClockMayLag \/ \A c \in Recorded : c < t }

InMemoryReset ==
  /\ cur' = 0 /\ slot' = 0 /\ nextCommit' = 0 /\ nextNum' = 0
  /\ queue' = {} /\ rtOpen' = FALSE /\ userTxn' = NoUserTxn
  /\ buf' = {} /\ todo' = {} /\ closing' = FALSE

Init ==
  /\ home = [n \in Seg |-> NoFile] /\ stage = [n \in Seg |-> NoFile]
  /\ persisted = -1
  /\ db = [commitId |-> 0, done |-> {}, effects |-> {}]
  /\ pc = "down" /\ cur = 0 /\ slot = 0 /\ nextCommit = 0 /\ nextNum = 0
  /\ queue = {} /\ rtOpen = FALSE /\ userTxn = NoUserTxn
  /\ buf = {} /\ todo = {} /\ closing = FALSE

\* The process dies: the writer's and the user database's open transactions are
\* rolled back by SQLite, memory is gone.
Crash ==
  /\ pc \notin Down
  /\ pc' = "down" /\ InMemoryReset
  /\ UNCHANGED disk

--------------------------------------------------------------------------------
(* open                                                                        *)

\* Otherwise open resumes the active segment or creates the next one.
OpenResolved ==
  /\ \E now \in ClockAtOpen :
       /\ NextMonotonic(now, ScanMaxCommitId) <= MaxCommitId
       /\ nextCommit' = NextMonotonic(now, ScanMaxCommitId)
  /\ IF ActiveSegment >= 0
     THEN /\ home' = Resolved
          /\ cur' = ActiveSegment /\ slot' = ActiveSegment
          /\ nextNum' = NextChangeNumber(Resolved[ActiveSegment].rows)
          /\ pc' = "open_recover"
     ELSE LET s == NextSegment(Resolved) IN
          /\ s <= MaxSegment
          /\ home' = Claimed(Resolved, s)
          /\ cur' = FreeSlot(Resolved, s) /\ slot' = FreeSlot(Resolved, s)
          /\ nextNum' = 0
          /\ pc' = "open_create"
  /\ UNCHANGED <<stage, persisted, db, queue, rtOpen, userTxn, buf, todo, closing>>

OpenDevice ==
  /\ pc \in Down
  /\ IF ScanFails
     THEN /\ pc' = "refused"
          /\ UNCHANGED <<disk, cur, slot, nextCommit, nextNum, queue, rtOpen, userTxn,
                         buf, todo, closing>>
     ELSE OpenResolved

(***************************************************************************)
(* LogSegmentWriter::create: the file appears first, then the schema and   *)
(* the status row are committed together.  During a roll the new writer    *)
(* replaces the old one.                                                   *)
(***************************************************************************)
CreateFile ==
  /\ pc \in {"open_create", "roll_create"}
  /\ home[slot].status = "absent"
  /\ home' = [home EXCEPT ![slot].status = "half"]
  /\ pc' = IF pc = "open_create" THEN "open_schema" ELSE "roll_schema"
  /\ UNCHANGED <<stage, persisted, db, cur, slot, nextCommit, nextNum, queue,
                 rtOpen, userTxn, buf, todo, closing>>

CreateSchema ==
  /\ pc \in {"open_schema", "roll_schema"}
  /\ home' = [home EXCEPT ![slot].status = "NEW"]
  /\ cur' = slot /\ nextNum' = 0
  /\ pc' = IF pc = "open_schema" THEN "open_recover" ELSE "roll_persist"
  /\ UNCHANGED <<stage, persisted, db, slot, nextCommit, queue, rtOpen, userTxn,
                 buf, todo, closing>>

(***************************************************************************)
(* resolve_in_doubt_txn_on_open: master is the last commit of the user     *)
(* database, slave the last one logged in the active segment.              *)
(***************************************************************************)
RecoveryOutcome_RollsBack(master, slave, fate) ==
  IF master = 0 \/ slave = 0 THEN "none"
  ELSE IF fate = "Unknown" THEN "ROLLBACK" ELSE "none"
RecoveryOutcome(master, slave, fate) ==
  IF master = 0 \/ slave = 0 THEN "none"
  ELSE IF slave < master THEN "refuse"
  ELSE IF slave > master
       THEN CASE fate = "Commit"   -> "refuse"
              [] fate = "Unknown"  -> "ROLLBACK"
              [] fate = "Rollback" -> "none"
       ELSE CASE fate = "Rollback" -> "refuse"
              [] fate = "Unknown"  -> "COMMIT"
              [] fate = "Commit"   -> "none"

RecoverInDoubtTxn ==
  LET slave   == LastCommitId(home[cur].rows)
      outcome == RecoveryOutcome(db.commitId, slave, FateOf(home[cur].rows, slave))
  IN
  /\ pc = "open_recover"
  /\ CASE outcome = "refuse" ->
            pc' = "refused" /\ InMemoryReset /\ UNCHANGED home
       [] outcome = "none" ->
            /\ pc' = "open_flush"
            /\ UNCHANGED <<home, cur, slot, nextCommit, nextNum, queue, rtOpen,
                           userTxn, buf, todo, closing>>
       [] OTHER ->
            /\ AppendRow(MakeRow(nextNum, slave, outcome))
            /\ nextNum' = nextNum + 1
            /\ pc' = "open_flush"
            /\ UNCHANGED <<cur, slot, nextCommit, queue, rtOpen, userTxn, todo, closing>>
  /\ UNCHANGED <<stage, persisted, db>>

OpenFlush ==
  /\ pc = "open_flush"
  /\ Flush
  /\ pc' = "open_persist"
  /\ UNCHANGED <<stage, persisted, db, cur, slot, nextCommit, nextNum, queue,
                 rtOpen, userTxn, todo, closing>>

\* on_active_segment_changed only warns when the metadata cannot be written.
PersistSequence_Next == persisted' = cur + 1
PersistSequence ==
  persisted' \in {cur} \union (IF PersistMayFail THEN {persisted} ELSE {})

OpenPersist ==
  /\ pc = "open_persist"
  /\ PersistSequence
  /\ todo' = FinalizedBelow(cur)
  /\ pc' = "deliver"
  /\ UNCHANGED <<home, stage, db, cur, slot, nextCommit, nextNum, queue, rtOpen,
                 userTxn, buf, closing>>

--------------------------------------------------------------------------------
(* execute, commit, rollback, flush_log                                        *)

BeginRow == MakeRow(nextNum, nextCommit, "BEGIN")
OpRow    == MakeRow(IF rtOpen THEN nextNum ELSE nextNum + 1, nextCommit, "OP")

\* A statement of the user runs in the user transaction and is queued for the log.
Execute ==
  /\ pc = "idle"
  /\ nextCommit < MaxCommitId /\ nextNum < MaxRows
  /\ Cardinality(userTxn.effects) < MaxOps
  /\ userTxn' = [open |-> TRUE, effects |-> userTxn.effects \union {OpRow}]
  /\ queue' = queue \union {OpRow} \union (IF rtOpen THEN {} ELSE {BeginRow})
  /\ rtOpen' = TRUE
  /\ nextNum' = OpRow.num + 1
  /\ UNCHANGED <<disk, pc, cur, slot, nextCommit, buf, todo, closing>>

\* A statement that fails in the user database, or execute_unlogged: the
\* transaction is opened and only its BEGIN is queued.
ExecuteUnlogged ==
  /\ pc = "idle" /\ ~ rtOpen
  /\ nextCommit < MaxCommitId /\ nextNum < MaxRows
  /\ userTxn' = [userTxn EXCEPT !.open = TRUE]
  /\ queue' = queue \union {BeginRow}
  /\ rtOpen' = TRUE
  /\ nextNum' = nextNum + 1
  /\ UNCHANGED <<disk, pc, cur, slot, nextCommit, buf, todo, closing>>

\* flush_txn_records: queued rows are appended one by one, in order.
Drain ==
  /\ pc \in {"flush_drain", "commit_drain", "rollback_drain", "roll_drain", "close_drain"}
  /\ \E r \in queue :
       /\ \A q \in queue : r.num <= q.num
       /\ AppendRow(r)
       /\ queue' = queue \ {r}
  /\ UNCHANGED <<stage, persisted, db, pc, cur, slot, nextCommit, nextNum, rtOpen,
                 userTxn, todo, closing>>

FlushLog ==
  /\ pc = "idle" /\ queue # {}
  /\ pc' = "flush_drain"
  /\ UNCHANGED <<disk, cur, slot, nextCommit, nextNum, queue, rtOpen, userTxn,
                 buf, todo, closing>>

FlushLogDone ==
  /\ pc = "flush_drain" /\ queue = {}
  /\ pc' = "idle"
  /\ UNCHANGED <<disk, cur, slot, nextCommit, nextNum, queue, rtOpen, userTxn,
                 buf, todo, closing>>

\* commit: synclite_txn is updated inside the user transaction; next step drains.
CommitStart ==
  /\ pc = "idle" /\ userTxn.open
  /\ rtOpen' = FALSE
  /\ pc' = "commit_drain"
  /\ UNCHANGED <<disk, cur, slot, nextCommit, nextNum, queue, userTxn, buf, todo, closing>>

\* The log must be durable before the user database commits.
CommitFlush ==
  /\ pc = "commit_drain" /\ queue = {}
  /\ Flush
  /\ pc' = "commit_db"
  /\ UNCHANGED <<stage, persisted, db, cur, slot, nextCommit, nextNum, queue,
                 rtOpen, userTxn, todo, closing>>

CommitDb ==
  /\ pc = "commit_db"
  /\ db' = [commitId |-> nextCommit,
            done     |-> db.done \union {nextCommit},
            effects  |-> db.effects \union userTxn.effects]
  /\ userTxn' = NoUserTxn
  /\ pc' = "commit_row"
  /\ UNCHANGED <<home, stage, persisted, cur, slot, nextCommit, nextNum, queue,
                 rtOpen, buf, todo, closing>>

\* COMMIT of the user database fails (busy): commit() returns the error and the
\* user transaction stays open, its rows logged without a fate.
CommitDbFails ==
  /\ pc = "commit_db"
  /\ pc' = "idle"
  /\ UNCHANGED <<disk, cur, slot, nextCommit, nextNum, queue, rtOpen, userTxn,
                 buf, todo, closing>>

FateRow(step, kind, next) ==
  /\ pc = step
  /\ AppendRow(MakeRow(nextNum, nextCommit, kind))
  /\ nextNum' = nextNum + 1
  /\ pc' = next
  /\ UNCHANGED <<stage, persisted, db, cur, slot, nextCommit, queue, rtOpen,
                 userTxn, todo, closing>>

CommitRow == FateRow("commit_row", "COMMIT", "commit_done")

\* The fate is flushed, the next commit id drawn, and the segment switched when
\* it has reached its size or age.
EndTxn(step, nexts) ==
  /\ pc = step
  /\ Flush
  /\ \E now \in 0 .. MaxCommitId :
       /\ NextMonotonic(now, nextCommit) <= MaxCommitId
       /\ nextCommit' = NextMonotonic(now, nextCommit)
  /\ pc' \in nexts
  /\ UNCHANGED <<stage, persisted, db, cur, slot, nextNum, queue, rtOpen, userTxn,
                 todo, closing>>

CommitDone ==
  EndTxn("commit_done", {"idle"} \union (IF cur < MaxSegment THEN {"roll_check"} ELSE {}))

RollbackStart ==
  /\ pc = "idle" /\ userTxn.open
  /\ rtOpen' = FALSE
  /\ pc' = "rollback_drain"
  /\ UNCHANGED <<disk, cur, slot, nextCommit, nextNum, queue, userTxn, buf, todo, closing>>

RollbackDb ==
  /\ pc = "rollback_drain" /\ queue = {}
  /\ userTxn' = NoUserTxn
  /\ pc' = "rollback_row"
  /\ UNCHANGED <<disk, cur, slot, nextCommit, nextNum, queue, rtOpen, buf, todo, closing>>

RollbackRow == FateRow("rollback_row", "ROLLBACK", "rollback_done")

RollbackDone == EndTxn("rollback_done", {"idle"})

--------------------------------------------------------------------------------
(* roll_segment and close                                                      *)

\* Logger::flush and the idle ticker: pending records are appended first.
RollRequested ==
  /\ pc = "idle" /\ cur < MaxSegment
  /\ pc' = "roll_drain"
  /\ UNCHANGED <<disk, cur, slot, nextCommit, nextNum, queue, rtOpen, userTxn,
                 buf, todo, closing>>

RollRefused ==
  /\ pc \in {"roll_drain", "roll_check"} /\ queue = {}
  /\ ~ AtCommitBoundary
  /\ pc' = "idle"
  /\ UNCHANGED <<disk, cur, slot, nextCommit, nextNum, queue, rtOpen, userTxn,
                 buf, todo, closing>>

RollClaim ==
  /\ pc \in {"roll_drain", "roll_check"} /\ queue = {}
  /\ AtCommitBoundary
  /\ home' = Claimed(home, cur + 1)
  /\ slot' = FreeSlot(home, cur + 1)
  /\ todo' = cur .. (slot' - 1)
  /\ pc' = "finalize"
  /\ UNCHANGED <<stage, persisted, db, cur, nextCommit, nextNum, queue, rtOpen,
                 userTxn, buf, closing>>

\* close: an open transaction gets a ROLLBACK tail, then the queue is drained.
CloseStart ==
  /\ pc = "idle" /\ cur < MaxSegment
  /\ IF rtOpen
     THEN /\ queue' = queue \union {MakeRow(nextNum, nextCommit, "ROLLBACK")}
          /\ nextNum' = nextNum + 1
     ELSE UNCHANGED <<queue, nextNum>>
  /\ rtOpen' = FALSE
  /\ closing' = TRUE
  /\ pc' = "close_drain"
  /\ UNCHANGED <<disk, cur, slot, nextCommit, userTxn, buf, todo>>

CloseShips ==
  /\ pc = "close_drain" /\ queue = {}
  /\ AtCommitBoundary
  /\ todo' = {cur}
  /\ pc' = "finalize"
  /\ UNCHANGED <<disk, cur, slot, nextCommit, nextNum, queue, rtOpen, userTxn,
                 buf, closing>>

\* An empty or in-doubt segment stays in the device home; unflushed rows are lost.
CloseKeeps ==
  /\ pc = "close_drain" /\ queue = {}
  /\ ~ AtCommitBoundary
  /\ pc' = "down" /\ InMemoryReset
  /\ UNCHANGED disk

\* finalize: the rows are committed, then the status flips in a step of its own.
FinalizeRows ==
  /\ pc = "finalize"
  /\ Flush
  /\ pc' = "mark_ready"
  /\ UNCHANGED <<stage, persisted, db, cur, slot, nextCommit, nextNum, queue,
                 rtOpen, userTxn, todo, closing>>

MarkReady ==
  /\ pc = "mark_ready"
  /\ home' = [home EXCEPT ![cur].status = "READY"]
  /\ pc' = IF closing THEN "deliver" ELSE "roll_create"
  /\ UNCHANGED <<stage, persisted, db, cur, slot, nextCommit, nextNum, queue,
                 rtOpen, userTxn, buf, todo, closing>>

RollPersist ==
  /\ pc = "roll_persist"
  /\ PersistSequence
  /\ pc' = "deliver"
  /\ UNCHANGED <<home, stage, db, cur, slot, nextCommit, nextNum, queue, rtOpen,
                 userTxn, buf, todo, closing>>

--------------------------------------------------------------------------------
(* on_segment_ready: the mover, in sequence order                               *)

NextToDeliver(n) == n \in todo /\ \A m \in todo : n <= m

MoverCopies ==
  /\ pc = "deliver"
  /\ \E n \in todo :
       /\ NextToDeliver(n)
       /\ stage' = [stage EXCEPT ![n] = home[n]]
  /\ pc' = "remove"
  /\ UNCHANGED <<home, persisted, db, cur, slot, nextCommit, nextNum, queue,
                 rtOpen, userTxn, buf, todo, closing>>

\* A failing copy is logged and the segment stays in the device home.
MoverCopyFails ==
  /\ pc = "deliver" /\ MoverMayFail
  /\ \E n \in todo : NextToDeliver(n) /\ todo' = todo \ {n}
  /\ UNCHANGED <<disk, pc, cur, slot, nextCommit, nextNum, queue, rtOpen, userTxn,
                 buf, closing>>

MoverRemoves ==
  /\ pc = "remove"
  /\ \E n \in todo :
       /\ NextToDeliver(n)
       /\ todo' = todo \ {n}
       /\ home' \in {[home EXCEPT ![n] = NoFile]} \union (IF MoverMayFail THEN {home} ELSE {})
  /\ pc' = "deliver"
  /\ UNCHANGED <<stage, persisted, db, cur, slot, nextCommit, nextNum, queue,
                 rtOpen, userTxn, buf, closing>>

Delivered ==
  /\ pc = "deliver" /\ todo = {}
  /\ IF closing
     THEN pc' = "down" /\ InMemoryReset
     ELSE /\ pc' = "idle"
          /\ UNCHANGED <<cur, slot, nextCommit, nextNum, queue, rtOpen, userTxn,
                         buf, todo, closing>>
  /\ UNCHANGED disk

--------------------------------------------------------------------------------

Open  == OpenDevice \/ RecoverInDoubtTxn \/ OpenFlush \/ OpenPersist
Create == CreateFile \/ CreateSchema
Txn   == Execute \/ ExecuteUnlogged \/ Drain \/ FlushLog \/ FlushLogDone
Commit == CommitStart \/ CommitFlush \/ CommitDb \/ CommitDbFails \/ CommitRow \/ CommitDone
Rollback == RollbackStart \/ RollbackDb \/ RollbackRow \/ RollbackDone
Roll  == RollRequested \/ RollRefused \/ RollClaim \/ RollPersist
Close == CloseStart \/ CloseShips \/ CloseKeeps
Finalize == FinalizeRows \/ MarkReady
Mover == MoverCopies \/ MoverCopyFails \/ MoverRemoves \/ Delivered

Next == Crash \/ Open \/ Create \/ Txn \/ Commit \/ Rollback \/ Roll \/ Close \/ Finalize \/ Mover

Spec == Init /\ [][Next]_vars

--------------------------------------------------------------------------------
(* Correctness                                                                 *)

OnStage == { n \in Seg : stage[n].status # "absent" }

\* Everything the log holds durably, wherever the segment is now.
DurableRows == UNION { home[n].rows \union stage[n].rows : n \in Seg }

\* The log is never behind the user database: whatever statement took effect in
\* the user database has its row in a segment, before, during and after a crash.
LogCoversDb == db.effects \subseteq DurableRows

\* A COMMIT in the log means the user database committed, a ROLLBACK that it did
\* not: recovery never decides an in-doubt transaction against the database.  And it
\* resolves whatever a crash left behind: the device never refuses to open.
FateMatchesDb ==
  /\ pc # "refused"
  /\ \A r \in DurableRows \union buf :
       /\ r.kind = "COMMIT" => r.cid \in db.done
       /\ r.kind = "ROLLBACK" => r.cid \notin db.done

\* A finalized segment is whole: it has all statements of a committed transaction it
\* has a row of, and its COMMIT; and the fate of its last transaction is decided, so
\* that the consolidator does not hold its queue at it for ever.
ReadyIsWhole ==
  \A n \in Seg : \A seg \in {home[n], stage[n]} :
    seg.status = "READY" =>
      /\ LastTxnFateDecided(seg.rows, {})
      /\ \A c \in CommitIds(seg.rows) \intersect db.done :
           /\ Has(seg.rows, c, "COMMIT")
           /\ \A e \in db.effects : e.cid = c => e \in seg.rows

\* Commit ids grow from segment to segment, so no transaction spans two segments
\* and a consumer may resume after the highest commit id it has applied.
CommitIdsGrow ==
  \A m, n \in Seg : m < n =>
    \A c \in CommitIds(home[m].rows \union stage[m].rows),
       d \in CommitIds(home[n].rows \union stage[n].rows) : c < d

\* Segments reach stage without gaps, except where a failed copy still holds the
\* finalized segment in the device home.
GapIsHeldAtHome ==
  \A n \in OnStage : \A m \in 0 .. (n - 1) :
    m \in OnStage \/ home[m].status = "READY"

\* The numbers of the segments give the order of the history, at home, in stage and
\* across restarts.
SegmentsInOrder == CommitIdsGrow /\ GapIsHeldAtHome

\* What a reader that takes the segments by number, and waits for one that is missing,
\* has been given: a growing prefix of the committed history.
Readable == { n \in Seg : \A m \in 0 .. n : m \in OnStage }
Published == UNION { CommittedIds(stage[n].rows) : n \in Readable }

Stream == INSTANCE CommitStream
  WITH CommitId <- 1 .. MaxCommitId, committed <- db.done, published <- Published

StreamSpec == Stream!StreamSpec

================================================================================
