------------------------------ MODULE LogSegments ------------------------------
(***************************************************************************)
(* The segments of a device home and their writer, as both devices use     *)
(* them: crates/logger/log (segment.rs, recovery.rs, scan.rs) and the rule *)
(* by which commit ids are drawn.                                          *)
(*                                                                         *)
(* Bound: MaxSegment (segments).                                           *)
(***************************************************************************)
EXTENDS CommandLog

CONSTANTS
  MaxSegment,
  FlushBatch    \* log_segment_flush_batch_size

ASSUME MaxSegmentAssumption == MaxSegment \in Nat

ASSUME FlushBatchAssumption == FlushBatch \in Nat \ {0}

VARIABLES
  home,        \* the segments in the device home: their durable rows and status
  persisted,   \* log_segment_sequence_number in the device metadata, -1 for none
  cur,         \* current_segment_seq, whose file the writer has open
  buf          \* rows of the writer's open transaction (pending_since_commit)

Seg == 0 .. MaxSegment

\* next_monotonic_commit_id: the clock when it is ahead, else prior + 1.
NextMonotonic_ClockOnly(now, prior) == IF now > prior THEN now ELSE prior
NextMonotonic(now, prior) == IF now > prior THEN now ELSE prior + 1

--------------------------------------------------------------------------------
(* The segment writer                                                          *)

WithRows(h, n, rows) == [h EXCEPT ![n].rows = @ \union rows]

\* append: the row joins the open transaction, which commits at the batch size.
AppendRow(r) ==
  LET pending == buf \union {r} IN
  IF Cardinality(pending) >= FlushBatch
  THEN home' = WithRows(home, cur, pending) /\ buf' = {}
  ELSE buf' = pending /\ UNCHANGED home

\* flush: what is pending becomes durable.
Flush_Skipped == UNCHANGED <<home, buf>>
Flush == home' = WithRows(home, cur, buf) /\ buf' = {}

LogRows == home[cur].rows \union buf

--------------------------------------------------------------------------------
(* Finding and claiming segments (log/src/recovery.rs)                          *)

OnDisk(h) == { n \in Seg : h[n].status # "absent" }

Highest(S) == IF S = {} THEN -1 ELSE CHOOSE n \in S : \A m \in S : m <= n

Writable(h) == { n \in Seg : h[n].status = "NEW" }

PersistedIsWritable == persisted \in Writable(home)

\* Half-created files are removed on the way to the highest writable segment.
Sweep(h) == [n \in Seg |-> IF h[n].status = "half" THEN NoFile ELSE h[n]]

Resolved == IF PersistedIsWritable THEN home ELSE Sweep(home)

\* resolve_active_segment, -1 for None.
ActiveSegment ==
  IF PersistedIsWritable THEN persisted ELSE Highest(Writable(Resolved))

\* next_segment_sequence
NextSegment_DiskOnly(h) == Highest(OnDisk(h)) + 1
NextSegment(h) ==
  LET afterDisk == Highest(OnDisk(h)) + 1
      afterPersisted == persisted + 1
  IN IF afterDisk > afterPersisted THEN afterDisk ELSE afterPersisted

(***************************************************************************)
(* claim_segment_slot: occupied slots from s on are kept and finalized, the *)
(* first one without log records is emptied and used.                      *)
(***************************************************************************)
FreeSlot(h, s) ==
  CHOOSE k \in s .. MaxSegment :
    h[k].rows = {} /\ \A j \in s .. (k - 1) : h[j].rows # {}

Claimed(h, s) ==
  [n \in Seg |-> IF n = FreeSlot(h, s) THEN NoFile
                 ELSE IF n \in s .. (FreeSlot(h, s) - 1) THEN [h[n] EXCEPT !.status = "READY"]
                 ELSE h[n]]

\* finalized_segments_below
FinalizedBelow(n) == { m \in Seg : m < n /\ home[m].status = "READY" }

\* scan_segment_dir reads the highest numbered file, which must hold a commandlog.
ScanFails == LET top == Highest(OnDisk(Resolved)) IN top >= 0 /\ Resolved[top].status = "half"

ScanMaxCommitId ==
  LET top == Highest(OnDisk(Resolved)) IN
  IF top < 0 THEN 0 ELSE LastCommitId(Resolved[top].rows)

\* Only a segment with rows that sits at a commit boundary is switched or shipped.
AtCommitBoundary_AnyRows == LogRows # {}
AtCommitBoundary == LogRows # {} /\ LastFateDecided(LogRows)

================================================================================
