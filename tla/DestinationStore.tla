--------------------------- MODULE DestinationStore ---------------------------
(***************************************************************************)
(* What a destination database keeps for one device, and what is done to   *)
(* it in one transaction: the copy of the first backup                     *)
(* (crates/consolidator/runtime/src/snapshot.rs), the checkpoint, and the  *)
(* properties of the device and of its tables                              *)
(* (crates/consolidator/state).  A destination is a record:                *)
(*                                                                         *)
(*   rows     how often each row of the device is there                    *)
(*   others   how often the row that another device sent to the same table *)
(*   ckpt     the row of synclite_checkpoint: a commit, how many segments  *)
(*            it covers, and whether the device is initialized; or NoRow   *)
(*   marker   {the backup that was copied}, runtime_snapshot_applied       *)
(*   table    initialization_status of the table                           *)
(*   complete whether the property of the device says COMPLETED              *)
(***************************************************************************)
EXTENDS Naturals, Sequences, FiniteSets, InitMode

CONSTANT Rows      \* bound: the rows that an application writes

NoRow == [commit |-> 0, upto |-> 0, init |-> FALSE, there |-> FALSE]

--------------------------------------------------------------------------------
(* The checkpoint                                                              *)

\* ensure_*_metadata_seeded: the row of a device that has none
Seeded(d) ==
  IF d.ckpt.there THEN d ELSE [d EXCEPT !.ckpt = [NoRow EXCEPT !.there = TRUE]]

\* PostgreSQL gets the row in a transaction of its own, before the snapshot's.
SeededApart(layout, d) == IF layout.backend = "postgres" THEN Seeded(d) ELSE d

\* sync_*_destination_metadata, after a segment
Synced(d) == [d EXCEPT !.ckpt.init = TRUE]

SnapshotCompleted(d, baseline) == d.ckpt.there /\ d.ckpt.init /\ d.ckpt.commit >= baseline

\* should_skip_segment_by_destination_checkpoint
Covers(d, n) == d.ckpt.there /\ n < d.ckpt.upto

--------------------------------------------------------------------------------
(* The snapshot                                                                *)

\* SnapshotDestination::insert: a key that the table has, and idempotent ingestion,
\* replace what an earlier copy left.
InsertRow(layout, copies) == IF layout.keyed THEN 1 ELSE copies + 1

\* What is left of the table before the rows are copied
Dropped(d) == [d EXCEPT !.rows = [r \in Rows |-> 0], !.others = 0]

DeviceRowsDeleted(layout, d) ==
  IF layout.mode = "consolidation" THEN [d EXCEPT !.rows = [r \in Rows |-> 0]]
  ELSE Dropped(d)

Cleared(layout, mode, d) ==
  IF EmitsTruncate(mode) THEN DeviceRowsDeleted(layout, d) ELSE d

RowsCopied(layout, d, backup) ==
  [d EXCEPT !.rows = [r \in Rows |-> IF r \in backup.rows THEN InsertRow(layout, @[r]) ELSE @[r]]]

TableMarked(d, status) == [d EXCEPT !.table = status]

\* One round of the loop over the tables of the backup
TableCopied(layout, mode, d, backup) ==
  LET cleared == Cleared(layout, mode, TableMarked(d, "INITIALIZING"))
  IN  TableMarked(RowsCopied(layout, cleared, backup), "INITIALIZED")

\* A file without a byte is, to SQLite, a database without tables.
HasTable(backup) == backup.is # "empty"

\* copy_snapshot: all of it, or nothing when the marker is there.  What is cleared is
\* cleared table by table of the backup, so that a backup without tables clears nothing.
CopySnapshot(layout, mode, d, backup) ==
  IF backup.base \in d.marker THEN d
  ELSE LET copied == IF HasTable(backup) THEN TableCopied(layout, mode, Seeded(d), backup)
                     ELSE Seeded(d)
       IN  [copied EXCEPT
              !.ckpt = [commit |-> backup.base, upto |-> 0, init |-> TRUE, there |-> TRUE],
              !.marker = {backup.base}]

\* Mutant of Initialized: a retry copies the snapshot again.
Initialized_Again(layout, mode, d, backup) ==
  CopySnapshot(layout, mode, [d EXCEPT !.marker = {}], backup)

\* initialize_snapshot, after apply_bootstrap_snapshot found nothing to recover
Initialized(layout, mode, d, backup) ==
  IF SnapshotCompleted(d, backup.base) THEN d ELSE CopySnapshot(layout, mode, d, backup)

--------------------------------------------------------------------------------
(* A segment, and the end of a device                                          *)

\* A transaction with the row of segment n and its checkpoint
SegmentApplied(layout, d, n, seg) ==
  LET seeded == Seeded(d)
  IN  Synced([seeded EXCEPT !.rows[seg.row] = InsertRow(layout, @),
                            !.ckpt.commit = seg.commit, !.ckpt.upto = n + 1])

\* clean_sqlite, clean_duckdb, clean_postgres: the rows of the device in the tables of
\* the consolidator; its user rows stay.
DeviceForgotten(d) ==
  [d EXCEPT !.ckpt = NoRow, !.marker = {}, !.table = "none", !.complete = FALSE]

NewDestination(layout) ==
  [rows |-> [r \in Rows |-> 0], others |-> IF layout.mode = "consolidation" THEN 1 ELSE 0,
   ckpt |-> NoRow, marker |-> {}, table |-> "none", complete |-> FALSE]
================================================================================
