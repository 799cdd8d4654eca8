------------------------------ MODULE DuckDbDevice ------------------------------
(***************************************************************************)
(* The transactional DUCKDB device of crates/logger/db-duckdb.  It shares  *)
(* segments, recovery and commit ids with the SQLITE device (LogSegments)  *)
(* but keeps the statements of a transaction out of the segment: they are  *)
(* spilled to a stage file of their own, which commit renames to the       *)
(* sidecar `<N>.sqllog.<commit>.txn'; the segment holds the markers BEGIN, *)
(* REPLAY_TXN, COMMIT and ROLLBACK.                                        *)
(*                                                                         *)
(* A stage file that was not published is deleted by the next open, so it  *)
(* is part of the memory of the process.  A statement is identified by its *)
(* commit id and its position in the transaction.                          *)
(*                                                                         *)
(* Usage names what an application does although the device is not         *)
(* prepared for it; the model contains it all, and a configuration says    *)
(* which of it happens:                                                    *)
(*   "flush_in_txn"   Logger::flush inside a transaction                   *)
(*   "unlogged_txn"   committing a transaction without logged statements   *)
(*   "close_in_txn"   closing the device inside a transaction              *)
(*                                                                         *)
(* Bounds: as in SqliteDevice.                                             *)
(***************************************************************************)
EXTENDS LogSegments

CONSTANTS
  MaxCommitId, MaxOps, MaxRows,
  Usage,
  MoverMayFail    \* removing a source file may fail

ASSUME BoundsAssumption ==
  MaxSegment \in Nat /\ MaxCommitId \in Nat /\ MaxOps \in Nat /\ MaxRows \in Nat

ASSUME UsageAssumption ==
  /\ Usage \subseteq {"flush_in_txn", "unlogged_txn", "close_in_txn"}
  /\ MoverMayFail \in BOOLEAN

VARIABLES
  homeTxn,     \* the statements in the published sidecars of each segment
  stage,       \* the segments the mover delivered to the stage directory
  stageTxn,    \* the statements in the sidecars it delivered
  db,          \* user database: synclite_txn's commit_id, the commits it holds
               \*   and the logged statements whose effect it holds
  pc,          \* next step of the running call
  slot,        \* the slot claimed for the next segment
  nextCommit,  \* next_commit_id
  nextNum,     \* next_change_number
  queue,       \* TxnLogRuntime.pending
  rtOpen,      \* TxnLogRuntime.open
  spilled,     \* the statements in txn_stage, which exists if there are any
  userTxn,     \* user_txn_open and the logged statements it executed
  todo,        \* finalized segments still to be handed to on_segment_ready
  closing      \* the running call is close()

disk == <<home, homeTxn, stage, stageTxn, persisted, db>>
txn == <<queue, rtOpen, spilled, userTxn>>
memory == <<pc, cur, slot, nextCommit, nextNum, txn, buf, todo, closing>>
vars == <<disk, memory>>

NoUserTxn == [open |-> FALSE, effects |-> {}]

Opening   == {"open_create", "open_schema", "open_recover", "open_discard", "open_persist"}
Writing   == {"commit_flush", "commit_publish", "commit_db", "commit_failed",
              "commit_row", "commit_done", "rollback_row", "rollback_done"}
Switching == {"roll_check", "roll_create", "roll_schema", "roll_persist",
              "close_check", "finalize", "mark_ready", "deliver", "remove"}
Down      == {"down", "refused"}
PC        == Down \union {"idle"} \union Opening \union Writing \union Switching

TypeOK ==
  /\ home \in [Seg -> Segment] /\ stage \in [Seg -> Segment]
  /\ homeTxn \in [Seg -> SUBSET Row] /\ stageTxn \in [Seg -> SUBSET Row]
  /\ persisted \in -1 .. MaxSegment
  /\ db \in [commitId : Nat, done : SUBSET Nat, effects : SUBSET Row]
  /\ pc \in PC
  /\ cur \in Seg /\ slot \in Seg
  /\ nextCommit \in Nat /\ nextNum \in Nat
  /\ queue \in SUBSET Row /\ spilled \in SUBSET Row /\ buf \in SUBSET Row
  /\ rtOpen \in BOOLEAN /\ closing \in BOOLEAN
  /\ userTxn \in [open : BOOLEAN, effects : SUBSET Row]
  /\ todo \in SUBSET Seg

OfCommit(rows, c) == { r \in rows : r.cid = c }

\* txn_published_path names a sidecar by segment and commit id: writing it replaces
\* the one of that name.
Overwrite_BySegment(old, new) == IF new = {} THEN old ELSE new
Overwrite(old, new) == { r \in old : r.cid \notin CommitIds(new) } \union new

--------------------------------------------------------------------------------
(* Process start and crash                                                     *)

InMemoryReset ==
  /\ cur' = 0 /\ slot' = 0 /\ nextCommit' = 0 /\ nextNum' = 0
  /\ queue' = {} /\ rtOpen' = FALSE /\ spilled' = {} /\ userTxn' = NoUserTxn
  /\ buf' = {} /\ todo' = {} /\ closing' = FALSE

Init ==
  /\ home = [n \in Seg |-> NoFile] /\ stage = [n \in Seg |-> NoFile]
  /\ homeTxn = [n \in Seg |-> {}] /\ stageTxn = [n \in Seg |-> {}]
  /\ persisted = -1
  /\ db = [commitId |-> 0, done |-> {}, effects |-> {}]
  /\ pc = "down" /\ cur = 0 /\ slot = 0 /\ nextCommit = 0 /\ nextNum = 0
  /\ queue = {} /\ rtOpen = FALSE /\ spilled = {} /\ userTxn = NoUserTxn
  /\ buf = {} /\ todo = {} /\ closing = FALSE

Crash ==
  /\ pc \notin Down
  /\ pc' = "down" /\ InMemoryReset
  /\ UNCHANGED disk

--------------------------------------------------------------------------------
(* open                                                                        *)

\* The wall clock is ahead of every commit id in use.
Recorded ==
  {db.commitId} \union
  UNION { CommitIds(home[n].rows) \union CommitIds(stage[n].rows) : n \in Seg }

OpenResolved ==
  /\ \E now \in 0 .. MaxCommitId :
       /\ \A c \in Recorded : c < now
       /\ nextCommit' = NextMonotonic(now, ScanMaxCommitId)
  /\ IF ActiveSegment >= 0
     THEN /\ home' = Resolved
          /\ cur' = ActiveSegment /\ slot' = ActiveSegment
          /\ nextNum' = NextChangeNumber(Resolved[ActiveSegment].rows)
          /\ pc' = "open_recover"
     ELSE LET s == NextSegment(Resolved) IN
          /\ s <= MaxSegment
          /\ home' = Claimed(Resolved, s)
          /\ cur' = FreeSlot(Resolved, s) /\ slot' = FreeSlot(Resolved, s)
          /\ nextNum' = 0
          /\ pc' = "open_create"
  /\ UNCHANGED <<homeTxn, stage, stageTxn, persisted, db, txn, buf, todo, closing>>

OpenDevice ==
  /\ pc \in Down
  /\ IF ScanFails
     THEN /\ pc' = "refused"
          /\ UNCHANGED <<disk, cur, slot, nextCommit, nextNum, txn, buf, todo, closing>>
     ELSE OpenResolved

\* As in the SQLITE device: the file, then the schema with the status row.
CreateFile ==
  /\ pc \in {"open_create", "roll_create"}
  /\ home[slot].status = "absent"
  /\ home' = [home EXCEPT ![slot].status = "half"]
  /\ pc' = IF pc = "open_create" THEN "open_schema" ELSE "roll_schema"
  /\ UNCHANGED <<homeTxn, stage, stageTxn, persisted, db, cur, slot, nextCommit,
                 nextNum, txn, buf, todo, closing>>

CreateSchema ==
  /\ pc \in {"open_schema", "roll_schema"}
  /\ home' = [home EXCEPT ![slot].status = "NEW"]
  /\ cur' = slot /\ nextNum' = 0
  /\ pc' = IF pc = "open_schema" THEN "open_recover" ELSE "roll_persist"
  /\ UNCHANGED <<homeTxn, stage, stageTxn, persisted, db, slot, nextCommit, txn, buf,
                 todo, closing>>

(***************************************************************************)
(* resolve_in_doubt_txn_on_open: unlike the SQLITE device, an undecided    *)
(* transaction the database does not have is erased from the segment.      *)
(***************************************************************************)
RecoveryOutcome_Commits(master, slave, fate) ==
  IF master = 0 \/ slave = 0 THEN "none"
  ELSE IF fate = "Unknown" THEN "COMMIT" ELSE "none"
RecoveryOutcome(master, slave, fate) ==
  IF master = 0 \/ slave = 0 THEN "none"
  ELSE IF slave < master THEN "refuse"
  ELSE IF slave > master
       THEN CASE fate = "Commit"   -> "refuse"
              [] fate = "Unknown"  -> "discard"
              [] fate = "Rollback" -> "none"
       ELSE CASE fate = "Rollback" -> "refuse"
              [] fate = "Unknown"  -> "COMMIT"
              [] fate = "Commit"   -> "none"

Slave == LastCommitId(home[cur].rows)

RecoverInDoubtTxn ==
  LET outcome == RecoveryOutcome(db.commitId, Slave, FateOf(home[cur].rows, Slave)) IN
  /\ pc = "open_recover"
  /\ CASE outcome = "refuse" ->
            pc' = "refused" /\ InMemoryReset /\ UNCHANGED <<home, homeTxn>>
       [] outcome = "discard" ->
            /\ homeTxn' = [homeTxn EXCEPT ![cur] = @ \ OfCommit(@, Slave)]
            /\ pc' = "open_discard"
            /\ UNCHANGED <<home, cur, slot, nextCommit, nextNum, txn, buf, todo, closing>>
       [] outcome = "COMMIT" ->
            /\ home' = WithRows(home, cur, {MakeRow(nextNum, Slave, "COMMIT")})
            /\ nextNum' = nextNum + 1
            /\ pc' = "open_persist"
            /\ UNCHANGED <<homeTxn, cur, slot, nextCommit, txn, buf, todo, closing>>
       [] OTHER ->
            /\ pc' = "open_persist"
            /\ UNCHANGED <<home, homeTxn, cur, slot, nextCommit, nextNum, txn, buf,
                           todo, closing>>
  /\ UNCHANGED <<stage, stageTxn, persisted, db>>

\* remove_recovery_commit and its flush.
DiscardInDoubtTxn ==
  /\ pc = "open_discard"
  /\ home' = [home EXCEPT ![cur].rows = @ \ OfCommit(@, Slave)]
  /\ pc' = "open_persist"
  /\ UNCHANGED <<homeTxn, stage, stageTxn, persisted, db, cur, slot, nextCommit,
                 nextNum, txn, buf, todo, closing>>

\* on_active_segment_changed
PersistSequence == persisted' = cur

OpenPersist ==
  /\ pc = "open_persist"
  /\ PersistSequence
  /\ todo' = FinalizedBelow(cur)
  /\ pc' = "deliver"
  /\ UNCHANGED <<home, homeTxn, stage, stageTxn, db, cur, slot, nextCommit, nextNum,
                 txn, buf, closing>>

--------------------------------------------------------------------------------
(* execute, flush_log, commit, rollback                                        *)

\* A staged statement is numbered by its position (TxnStage.next_change_number).
Statement_FromLast == MakeRow(Cardinality(userTxn.effects) - 1, nextCommit, "OP")
Statement == MakeRow(Cardinality(userTxn.effects), nextCommit, "OP")

\* BEGIN goes straight to the segment.
BeginRow == AppendRow(MakeRow(nextNum, nextCommit, "BEGIN"))

Execute ==
  /\ pc = "idle"
  /\ nextCommit < MaxCommitId /\ nextNum < MaxRows
  /\ Cardinality(userTxn.effects) < MaxOps
  /\ IF rtOpen
     THEN nextNum' = nextNum + 1 /\ UNCHANGED <<home, buf>>
     ELSE nextNum' = nextNum + 2 /\ BeginRow
  /\ rtOpen' = TRUE
  /\ queue' = queue \union {Statement}
  /\ userTxn' = [open |-> TRUE, effects |-> userTxn.effects \union {Statement}]
  /\ UNCHANGED <<homeTxn, stage, stageTxn, persisted, db, pc, cur, slot, nextCommit,
                 spilled, todo, closing>>

\* A statement that fails in the user database, or execute_unlogged.
ExecuteUnlogged ==
  /\ pc = "idle" /\ ~ rtOpen
  /\ nextCommit < MaxCommitId /\ nextNum < MaxRows
  /\ BeginRow
  /\ nextNum' = nextNum + 1
  /\ rtOpen' = TRUE
  /\ userTxn' = [userTxn EXCEPT !.open = TRUE]
  /\ UNCHANGED <<homeTxn, stage, stageTxn, persisted, db, pc, cur, slot, nextCommit,
                 queue, spilled, todo, closing>>

\* Spilled statements give their change numbers back.
NumAfterSpill ==
  IF nextNum > Cardinality(queue) THEN nextNum - Cardinality(queue) ELSE 0

\* flush_log: spill_pending_to_stage.
FlushLog ==
  /\ pc = "idle" /\ queue # {}
  /\ spilled' = spilled \union queue /\ queue' = {}
  /\ nextNum' = NumAfterSpill
  /\ UNCHANGED <<disk, pc, cur, slot, nextCommit, rtOpen, userTxn, buf, todo, closing>>

\* flush_txn_records without publishing: the stage file is deleted.
DropStatements ==
  queue' = {} /\ spilled' = {} /\ nextNum' = NumAfterSpill

\* commit: with statements REPLAY_TXN is logged, without any the log is left alone.
CommitStart ==
  /\ pc = "idle" /\ userTxn.open
  /\ "unlogged_txn" \in Usage \/ userTxn.effects # {}
  /\ rtOpen' = FALSE
  /\ spilled' = spilled \union queue /\ queue' = {}
  /\ IF spilled' = {}
     THEN /\ nextNum' = NumAfterSpill
          /\ pc' = "commit_db"
          /\ UNCHANGED <<home, buf>>
     ELSE /\ AppendRow(MakeRow(NumAfterSpill, nextCommit, "REPLAY"))
          /\ nextNum' = NumAfterSpill + 1
          /\ pc' = "commit_flush"
  /\ UNCHANGED <<homeTxn, stage, stageTxn, persisted, db, cur, slot, nextCommit,
                 userTxn, todo, closing>>

CommitFlush ==
  /\ pc = "commit_flush"
  /\ Flush
  /\ pc' = "commit_publish"
  /\ UNCHANGED <<homeTxn, stage, stageTxn, persisted, db, cur, slot, nextCommit,
                 nextNum, txn, todo, closing>>

\* publish: the stage file becomes the sidecar of the active segment.
CommitPublish ==
  /\ pc = "commit_publish"
  /\ homeTxn' = [homeTxn EXCEPT ![cur] = Overwrite(@, spilled)]
  /\ spilled' = {}
  /\ pc' = "commit_db"
  /\ UNCHANGED <<home, stage, stageTxn, persisted, db, cur, slot, nextCommit, nextNum,
                 queue, rtOpen, userTxn, buf, todo, closing>>

CommitDb ==
  /\ pc = "commit_db"
  /\ db' = [commitId |-> nextCommit,
            done     |-> db.done \union {nextCommit},
            effects  |-> db.effects \union userTxn.effects]
  /\ userTxn' = NoUserTxn
  /\ pc' = "commit_row"
  /\ UNCHANGED <<home, homeTxn, stage, stageTxn, persisted, cur, slot, nextCommit,
                 nextNum, queue, rtOpen, spilled, buf, todo, closing>>

\* COMMIT fails: commit() returns the error with the sidecar published.  What the
\* application then does with the device is close it or end.
CommitDbFails ==
  /\ pc = "commit_db"
  /\ pc' = "commit_failed"
  /\ UNCHANGED <<disk, cur, slot, nextCommit, nextNum, txn, buf, todo, closing>>

FateRow(step, kind, next) ==
  /\ pc = step
  /\ AppendRow(MakeRow(nextNum, nextCommit, kind))
  /\ nextNum' = nextNum + 1
  /\ pc' = next
  /\ UNCHANGED <<homeTxn, stage, stageTxn, persisted, db, cur, slot, nextCommit, txn,
                 todo, closing>>

EndTxn(step, nexts) ==
  /\ pc = step
  /\ Flush
  /\ \E now \in 0 .. MaxCommitId :
       /\ NextMonotonic(now, nextCommit) <= MaxCommitId
       /\ nextCommit' = NextMonotonic(now, nextCommit)
  /\ pc' \in nexts
  /\ UNCHANGED <<homeTxn, stage, stageTxn, persisted, db, cur, slot, nextNum, txn,
                 todo, closing>>

CommitRow == FateRow("commit_row", "COMMIT", "commit_done")

CommitDone ==
  EndTxn("commit_done", {"idle"} \union (IF cur < MaxSegment THEN {"roll_check"} ELSE {}))

\* rollback: the statements are dropped before the database rolls back.
RollbackStart ==
  /\ pc = "idle" /\ userTxn.open
  /\ rtOpen' = FALSE /\ DropStatements
  /\ userTxn' = NoUserTxn
  /\ pc' = "rollback_row"
  /\ UNCHANGED <<disk, cur, slot, nextCommit, buf, todo, closing>>

RollbackRow == FateRow("rollback_row", "ROLLBACK", "rollback_done")

RollbackDone == EndTxn("rollback_done", {"idle"})

--------------------------------------------------------------------------------
(* roll_segment and close                                                      *)

\* Logger::flush calls roll_segment whether or not a transaction is open; the
\* idle ticker only between transactions.
RollRequested ==
  /\ pc = "idle" /\ cur < MaxSegment
  /\ "flush_in_txn" \in Usage \/ ~ userTxn.open
  /\ DropStatements
  /\ pc' = "roll_check"
  /\ UNCHANGED <<disk, cur, slot, nextCommit, rtOpen, userTxn, buf, todo, closing>>

RollRefused ==
  /\ pc = "roll_check"
  /\ ~ AtCommitBoundary
  /\ pc' = "idle"
  /\ UNCHANGED <<disk, cur, slot, nextCommit, nextNum, txn, buf, todo, closing>>

RollClaim ==
  /\ pc = "roll_check"
  /\ AtCommitBoundary
  /\ home' = Claimed(home, cur + 1)
  /\ slot' = FreeSlot(home, cur + 1)
  /\ todo' = cur .. (slot' - 1)
  /\ pc' = "finalize"
  /\ UNCHANGED <<homeTxn, stage, stageTxn, persisted, db, cur, nextCommit, nextNum,
                 txn, buf, closing>>

\* close: an open transaction loses its statements and gets a COMMIT row.
CloseStart ==
  /\ pc \in {"idle", "commit_failed"} /\ cur < MaxSegment
  /\ "close_in_txn" \in Usage \/ ~ userTxn.open
  /\ IF userTxn.open /\ FateOf(LogRows, nextCommit) = "Unknown"
     THEN AppendRow(MakeRow(NumAfterSpill, nextCommit, "COMMIT"))
     ELSE UNCHANGED <<home, buf>>
  /\ DropStatements
  /\ rtOpen' = FALSE /\ userTxn' = NoUserTxn
  /\ closing' = TRUE
  /\ pc' = "close_check"
  /\ UNCHANGED <<homeTxn, stage, stageTxn, persisted, db, cur, slot, nextCommit, todo>>

CloseShips ==
  /\ pc = "close_check"
  /\ AtCommitBoundary
  /\ todo' = {cur}
  /\ pc' = "finalize"
  /\ UNCHANGED <<disk, cur, slot, nextCommit, nextNum, txn, buf, closing>>

CloseKeeps ==
  /\ pc = "close_check"
  /\ ~ AtCommitBoundary
  /\ pc' = "down" /\ InMemoryReset
  /\ UNCHANGED disk

FinalizeRows ==
  /\ pc = "finalize"
  /\ Flush
  /\ pc' = "mark_ready"
  /\ UNCHANGED <<homeTxn, stage, stageTxn, persisted, db, cur, slot, nextCommit,
                 nextNum, txn, todo, closing>>

MarkReady ==
  /\ pc = "mark_ready"
  /\ home' = [home EXCEPT ![cur].status = "READY"]
  /\ pc' = IF closing THEN "deliver" ELSE "roll_create"
  /\ UNCHANGED <<homeTxn, stage, stageTxn, persisted, db, cur, slot, nextCommit,
                 nextNum, txn, buf, todo, closing>>

RollPersist ==
  /\ pc = "roll_persist"
  /\ PersistSequence
  /\ pc' = "deliver"
  /\ UNCHANGED <<home, homeTxn, stage, stageTxn, db, cur, slot, nextCommit, nextNum,
                 txn, buf, todo, closing>>

--------------------------------------------------------------------------------
(* on_segment_ready: the mover takes a segment together with its sidecars       *)

NextToDeliver(n) == n \in todo /\ \A m \in todo : n <= m

Faulty(faults) == IF MoverMayFail THEN faults ELSE {}

CopySidecars_Nothing(n) == UNCHANGED stageTxn
CopySidecars(n) == stageTxn' = [stageTxn EXCEPT ![n] = Overwrite(@, homeTxn[n])]

MoverCopies ==
  /\ pc = "deliver"
  /\ \E n \in todo :
       /\ NextToDeliver(n)
       /\ stage' = [stage EXCEPT ![n] = home[n]]
       /\ CopySidecars(n)
  /\ pc' = "remove"
  /\ UNCHANGED <<home, homeTxn, persisted, db, cur, slot, nextCommit, nextNum, txn,
                 buf, todo, closing>>

\* Some sidecars may have been copied when a copy fails.
MoverCopyFails ==
  /\ pc = "deliver" /\ MoverMayFail
  /\ \E n \in todo :
       /\ NextToDeliver(n) /\ todo' = todo \ {n}
       /\ CopySidecars(n) \/ UNCHANGED stageTxn
  /\ UNCHANGED <<home, homeTxn, stage, persisted, db, pc, cur, slot, nextCommit,
                 nextNum, txn, buf, closing>>

\* The sidecars are removed first; what cannot be removed stays behind.
MoverRemoves ==
  /\ pc = "remove"
  /\ \E n \in todo :
       /\ NextToDeliver(n)
       /\ todo' = todo \ {n}
       /\ homeTxn' \in {[homeTxn EXCEPT ![n] = {}]} \union Faulty({homeTxn})
       /\ home' \in {[home EXCEPT ![n] = NoFile]} \union Faulty({home})
  /\ pc' = "deliver"
  /\ UNCHANGED <<stage, stageTxn, persisted, db, cur, slot, nextCommit, nextNum, txn,
                 buf, closing>>

Delivered ==
  /\ pc = "deliver" /\ todo = {}
  /\ IF closing
     THEN pc' = "down" /\ InMemoryReset
     ELSE /\ pc' = "idle"
          /\ UNCHANGED <<cur, slot, nextCommit, nextNum, txn, buf, todo, closing>>
  /\ UNCHANGED disk

--------------------------------------------------------------------------------

Open == OpenDevice \/ RecoverInDoubtTxn \/ DiscardInDoubtTxn \/ OpenPersist
Create == CreateFile \/ CreateSchema
Txn == Execute \/ ExecuteUnlogged \/ FlushLog
Commit ==
  CommitStart \/ CommitFlush \/ CommitPublish \/ CommitDb \/ CommitDbFails \/ CommitRow \/ CommitDone
Rollback == RollbackStart \/ RollbackRow \/ RollbackDone
Roll == RollRequested \/ RollRefused \/ RollClaim \/ RollPersist
Close == CloseStart \/ CloseShips \/ CloseKeeps
Finalize == FinalizeRows \/ MarkReady
Mover == MoverCopies \/ MoverCopyFails \/ MoverRemoves \/ Delivered

Next == Crash \/ Open \/ Create \/ Txn \/ Commit \/ Rollback \/ Roll \/ Close \/ Finalize \/ Mover

Spec == Init /\ [][Next]_vars

--------------------------------------------------------------------------------
(* Correctness                                                                 *)

\* The statements replay would find for a segment: REPLAY_TXN of commit c leads to
\* its sidecar, next to the segment or already in stage.
Replayed(n) ==
  { s \in homeTxn[n] \union stageTxn[n] :
      Has(home[n].rows \union stage[n].rows, s.cid, "REPLAY") }

\* Every statement that took effect in the user database can be replayed from a
\* segment and its sidecar, before, during and after a crash: commit makes
\* REPLAY_TXN durable and publishes the stage file before the database commits.
LogCoversDb == db.effects \subseteq UNION { Replayed(n) : n \in Seg }

DurableRows == UNION { home[n].rows \union stage[n].rows : n \in Seg }

\* A COMMIT in the log means the user database committed, a ROLLBACK that it did not:
\* commit writes its marker last, and recovery decides as synclite_txn says. Nor is
\* open ever left with a combination for which resolve_in_doubt_txn_on_open returns an
\* error.
FateMatchesDb ==
  /\ pc # "refused"
  /\ \A r \in DurableRows \union buf :
       /\ r.kind = "COMMIT" => r.cid \in db.done
       /\ r.kind = "ROLLBACK" => r.cid \notin db.done

\* A staged segment is whole, although the mover copies file by file: the fate of its
\* last transaction is decided, and replay makes exactly the statements of each
\* transaction of it that the user database committed, out of REPLAY_TXN and the sidecar.
StagedIsWhole ==
  \A n \in Seg : stage[n].status = "READY" =>
    /\ LastTxnFateDecided(stage[n].rows, CommitIds(stageTxn[n]))
    /\ \A c \in CommitIds(stage[n].rows) \intersect db.done :
         /\ Has(stage[n].rows, c, "COMMIT")
         /\ { s \in OfCommit(Expanded(stage[n].rows, stageTxn[n]), c) : s.kind = "OP" }
              = OfCommit(db.effects, c)

OnStage == { n \in Seg : stage[n].status # "absent" }

\* Commit ids grow from segment to segment: no transaction spans two segments.
CommitIdsGrow ==
  \A m, n \in Seg : m < n =>
    \A c \in CommitIds(home[m].rows \union stage[m].rows),
       d \in CommitIds(home[n].rows \union stage[n].rows) : c < d

\* Segments reach stage without gaps, except where a failed copy still holds the
\* finalized segment in the device home.
GapIsHeldAtHome ==
  \A n \in OnStage : \A m \in 0 .. (n - 1) :
    m \in OnStage \/ home[m].status = "READY"

\* The numbers of the segments give the order of the history, at home, in stage and
\* across restarts.
SegmentsInOrder == CommitIdsGrow /\ GapIsHeldAtHome

\* What a reader that takes the segments by number, and waits for one that is missing,
\* has been given: a growing prefix of the committed history.
Readable == { n \in Seg : \A m \in 0 .. n : m \in OnStage }
Published == UNION { CommittedIds(stage[n].rows) : n \in Readable }

Stream == INSTANCE CommitStream
  WITH CommitId <- 1 .. MaxCommitId, committed <- db.done, published <- Published

\* Every step of the device, a crash and the recovery from it included, is a step of the
\* stream or a stutter: that reader is never given a transaction that did not commit, nor
\* one before an earlier one, and nothing it was given is taken back.
StreamSpec == Stream!StreamSpec

================================================================================
