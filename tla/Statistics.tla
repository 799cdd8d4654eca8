------------------------------- MODULE Statistics -------------------------------
(***************************************************************************)
(* What the workers of several devices count (crates/consolidator/state)   *)
(* and what sync_statistics tells an application                           *)
(* (crates/synclite/src/status.rs), between the commit of a segment at the *)
(* destination and the mark on it that keeps it from being processed again *)
(* (crates/consolidator/runtime).  Each device has a database of its own   *)
(* for its counters; the dashboard and the rows of the devices are in one  *)
(* database for all that share a work directory, which they do by default. *)
(* No statement of theirs is in a transaction with another.                *)
(*                                                                         *)
(*   layout   one of Layouts                                               *)
(*   pc, at   of a worker: its place, and the segment its drain has come   *)
(*            to, 0 before the first                                       *)
(*   sent     the operations it has sent of that segment, left: the rows   *)
(*            it has yet to count, plan: the totals it has computed and    *)
(*            those it has yet to write                                    *)
(*   ckpt     the commit of the local checkpoint                           *)
(*   initialized  whether the worker has published the device              *)
(*   dstck    the segment of the checkpoint at the destination             *)
(*   marked   the segments whose work copies are marked APPLIED            *)
(*   cleaned  the segments that are cleaned up, 1 .. cleaned               *)
(*   own      the counters of the device's database; tables: its counts of *)
(*            inserted, updated and deleted rows, for all tables together  *)
(*   dash     the totals of the dashboard                                  *)
(*   row      {} or {the device_status row of a device}                    *)
(*   times    how often each segment was sent; passes: how often it got to *)
(*            be counted; opers: its operations, 0 before it is sent       *)
(*   cut      the faults that came after the segment was committed at the  *)
(*            destination and before anything kept it from being sent      *)
(*            again                                                        *)
(*   redo     the faults that came after its local checkpoint was stored   *)
(*            and before its mark                                          *)
(*                                                                         *)
(* Commit ids are the numbers of the segments; a segment has size 1.  Its  *)
(* operations are committed statements of tables, which both counts take:  *)
(* table_statistics takes those rolled back too, and none of a sidecar.  A *)
(* device is of a store or streaming type and has one destination; how its *)
(* segments get to the worker, and the change log of a SQL device, are in  *)
(* module Consolidator.                                                    *)
(***************************************************************************)
EXTENDS Integers, Sequences, FiniteSets, FiniteSetsExt, TLC

CONSTANTS
  Device,
  Layouts,     \* where each device keeps its checkpoint (MetadataStore), and the bounds
               \* segments, of each device, and faults (failing statements and deaths)
  MaxSegment,  \* bound: the segments of a device are among 1..MaxSegment
  MaxOpers     \* bound: the operations of a segment

ASSUME StatisticsAssumption ==
  /\ MaxSegment \in Nat \ {0} /\ MaxOpers \in Nat \ {0}
  /\ Layouts \subseteq [store : [Device -> {"local", "destination"}],
                        segments : [Device -> 0 .. MaxSegment], faults : Nat]

VARIABLES layout, pc, at, sent, left, plan, ckpt, initialized, dstck, marked, cleaned,
          own, tables, dash, row, times, passes, opers, cut, redo, faults

worker   == <<pc, at, sent, left, plan>>
progress == <<ckpt, initialized, dstck, marked, cleaned>>
counts   == <<own, tables, dash, row>>
history  == <<times, passes, opers>>
env      == <<layout, cut, redo, faults>>
vars == <<worker, progress, counts, history, env>>

Seg == 1 .. MaxSegment
Zero == [segs |-> 0, oper |-> 0, txn |-> 0, size |-> 0]
BackupSize == 1
Totals == <<"segs", "oper", "txn", "size">>
NoPlan == [read |-> Zero, todo |-> << >>]
NewRow == [segs |-> 0, oper |-> 0, txn |-> 0, size |-> 0, commit |-> 0]

AtDestination == {d \in Device : layout.store[d] = "destination"}

Init ==
  /\ layout \in Layouts
  /\ pc = [d \in Device |-> "off"] /\ at = [d \in Device |-> 0]
  /\ sent = [d \in Device |-> 0] /\ left = [d \in Device |-> 0]
  /\ plan = [d \in Device |-> NoPlan]
  /\ ckpt = [d \in Device |-> 0] /\ initialized = [d \in Device |-> FALSE]
  /\ dstck = [d \in Device |-> 0]
  /\ marked = [d \in Device |-> {}] /\ cleaned = [d \in Device |-> 0]
  /\ own = [d \in Device |-> Zero] /\ tables = [d \in Device |-> 0]
  /\ dash = Zero
  /\ row = [d \in Device |-> {}]
  /\ times = [d \in Device |-> [n \in Seg |-> 0]]
  /\ passes = [d \in Device |-> [n \in Seg |-> 0]]
  /\ opers = [d \in Device |-> [n \in Seg |-> 0]]
  /\ cut = [d \in Device |-> [n \in Seg |-> 0]]
  /\ redo = [d \in Device |-> [n \in Seg |-> 0]]
  /\ faults = 0

At(d, place) == pc[d] = place
Goto(d, place) == pc' = [pc EXCEPT ![d] = place] /\ UNCHANGED <<at, sent, left, plan>>

\* The worker is at a place where it has nothing to count, at segment n of its drain.
Rest(d, place, n) ==
  /\ pc' = [pc EXCEPT ![d] = place] /\ at' = [at EXCEPT ![d] = n]
  /\ sent' = [sent EXCEPT ![d] = 0] /\ left' = [left EXCEPT ![d] = 0]
  /\ plan' = [plan EXCEPT ![d] = NoPlan]

--------------------------------------------------------------------------------
(* Faults                                                                       *)

Counting == {"tables", "read", "write"}

\* The destination has committed the segment, which would be sent again: the checkpoint
\* there is yet to be written, or else, with a local one only, the mark.
InDoubt(d) ==
  IF d \in AtDestination THEN At(d, "destination")
  ELSE pc[d] \in {"checkpoint", "mark"} \union Counting

\* Its rows are being counted, or are, and would be again.
Unmarked(d) == pc[d] \in {"mark"} \union Counting

\* A fault that interrupts these workers
Interrupts(ds) ==
  /\ faults < layout.faults /\ faults' = faults + 1 /\ UNCHANGED layout
  /\ cut' = [d \in Device |-> IF d \in ds /\ InDoubt(d) THEN [cut[d] EXCEPT ![at[d]] = @ + 1]
                                                        ELSE cut[d]]
  /\ redo' = [d \in Device |-> IF d \in ds /\ Unmarked(d) THEN [redo[d] EXCEPT ![at[d]] = @ + 1]
                                                          ELSE redo[d]]

--------------------------------------------------------------------------------
(* A worker starts                                                              *)

\* initialize_consolidator_stats_db; upsert_device_status keeps the counts of a row.
Spawn(d) ==
  /\ At(d, "off") /\ Goto(d, IF initialized[d] THEN "idle" ELSE "publish")
  /\ row' = [row EXCEPT ![d] = IF @ = {} THEN {NewRow} ELSE @]
  /\ UNCHANGED <<progress, own, tables, dash, history, env>>

\* update_device_status_commit: the segments are those of the dashboard.
StatusRow(d) ==
  { [segs |-> dash.segs, oper |-> own[d].oper, txn |-> own[d].txn, size |-> own[d].size,
     commit |-> ckpt[d]] }

\* initialize_from_backup; its size takes the place of what all devices have processed.
Publish(d) ==
  /\ At(d, "publish") /\ Goto(d, "idle")
  /\ row' = [row EXCEPT ![d] = StatusRow(d)]
  /\ dash' = [dash EXCEPT !.size = BackupSize]
  /\ initialized' = [initialized EXCEPT ![d] = TRUE]
  /\ UNCHANGED <<ckpt, dstck, marked, cleaned, own, tables, history, env>>

\* A failure, or a death, after the row is written; the worker publishes again.
PublishFails(d) ==
  /\ At(d, "publish") /\ Interrupts({d})
  /\ Rest(d, "off", 0)
  /\ row' = [row EXCEPT ![d] = StatusRow(d)]
  /\ UNCHANGED <<progress, own, tables, dash, history>>

--------------------------------------------------------------------------------
(* A segment                                                                    *)

\* A drain takes the segments in their order, from the first that there is.
Current(d) == at[d] + 1

\* should_skip_segment_by_destination_checkpoint
CoveredAt(d, n) == d \in AtDestination /\ dstck[d] > n

Passed(d, n) == n <= cleaned[d] \/ n \in marked[d] \/ CoveredAt(d, n)

\* process_stage_path_ready: what is cleaned up is done, and what is marked or covered
\* goes to the cleaner.  The local checkpoint is not asked.
Skip(d) ==
  /\ At(d, "idle") /\ Current(d) <= layout.segments[d] /\ Passed(d, Current(d))
  /\ Rest(d, IF Current(d) <= cleaned[d] THEN "idle" ELSE "clean", Current(d))
  /\ UNCHANGED <<progress, counts, history, env>>

\* apply_segment: the transaction of the destination
Apply(d) ==
  /\ At(d, "idle") /\ Current(d) <= layout.segments[d] /\ ~ Passed(d, Current(d))
  /\ d \in AtDestination => dstck[d] # Current(d)
  /\ \E k \in IF times[d][Current(d)] = 0 THEN 0 .. MaxOpers ELSE {opers[d][Current(d)]} :
       /\ sent' = [sent EXCEPT ![d] = k]
       /\ opers' = [opers EXCEPT ![d][Current(d)] = k]
  /\ pc' = [pc EXCEPT ![d] = IF d \in AtDestination THEN "destination" ELSE "checkpoint"]
  /\ at' = [at EXCEPT ![d] = Current(d)]
  /\ times' = [times EXCEPT ![d][Current(d)] = @ + 1]
  /\ UNCHANGED <<left, plan, progress, counts, passes, env>>

\* apply_resume_filter: the checkpoint at the destination is of this segment, which has
\* nothing left to send; it is counted as any other.
Filter(d) ==
  /\ At(d, "idle") /\ Current(d) <= layout.segments[d] /\ ~ Passed(d, Current(d))
  /\ d \in AtDestination /\ dstck[d] = Current(d)
  /\ Rest(d, "checkpoint", Current(d))
  /\ UNCHANGED <<progress, counts, history, env>>

\* map_destination_checkpoint, on a connection of its own
StoreAtDestination(d) ==
  /\ At(d, "destination") /\ Goto(d, "checkpoint")
  /\ dstck' = [dstck EXCEPT ![d] = IF @ < at[d] THEN at[d] ELSE @]
  /\ UNCHANGED <<ckpt, initialized, marked, cleaned, counts, history, env>>

\* record_stage_path: the local checkpoint comes before everything that is counted.
\* Every segment holds a committed transaction, be it one without rows.
StoreCheckpoint(d) ==
  /\ At(d, "checkpoint")
  /\ pc' = [pc EXCEPT ![d] = "tables"] /\ left' = [left EXCEPT ![d] = opers[d][at[d]]]
  /\ ckpt' = [ckpt EXCEPT ![d] = at[d]]
  /\ passes' = [passes EXCEPT ![d][at[d]] = @ + 1]
  /\ UNCHANGED <<at, sent, plan, initialized, dstck, marked, cleaned, counts, times, opers, env>>

\* mark_segment_applied_best_effort, once everything is counted
Mark(d) ==
  /\ At(d, "mark") /\ Goto(d, "clean")
  /\ marked' = [marked EXCEPT ![d] = @ \union {at[d]}]
  /\ UNCHANGED <<ckpt, initialized, dstck, cleaned, counts, history, env>>

\* The drain goes on with the next segment all the same.
MarkFails(d) ==
  /\ At(d, "mark") /\ Goto(d, "clean") /\ Interrupts({d})
  /\ UNCHANGED <<progress, counts, history>>

\* CleanupProgress, cleanup_processed_sqllog: what is before the segment may go.
Clean(d) ==
  /\ At(d, "clean") /\ Goto(d, "idle")
  /\ cleaned' = [cleaned EXCEPT ![d] = IF @ < at[d] - 1 THEN at[d] - 1 ELSE @]
  /\ UNCHANGED <<ckpt, initialized, dstck, marked, counts, history, env>>

\* Nothing more is staged; the next drain starts over.
EndDrain(d) ==
  /\ At(d, "idle") /\ at[d] > 0 /\ Rest(d, "idle", 0)
  /\ UNCHANGED <<progress, counts, history, env>>

\* A checkpoint that cannot be stored, or a cleanup that fails, ends the drain.
StepFails(d) ==
  /\ pc[d] \in {"destination", "checkpoint", "clean"} /\ Interrupts({d})
  /\ Rest(d, "idle", 0)
  /\ UNCHANGED <<progress, counts, history>>

--------------------------------------------------------------------------------
(* What is counted                                                              *)

\* What the segment adds; one of several transactions still counts as one.
Added(d) ==
  [segs |-> 1, oper |-> sent[d], txn |-> IF sent[d] > 0 THEN 1 ELSE 0, size |-> 1]

Plus(a, b) == [c \in DOMAIN a |-> a[c] + b[c]]

\* update_table_statistics_from_segment: each row of the segment is counted by itself.
CountRow(d) ==
  /\ At(d, "tables") /\ left[d] > 0
  /\ left' = [left EXCEPT ![d] = @ - 1]
  /\ tables' = [tables EXCEPT ![d] = @ + 1]
  /\ UNCHANGED <<pc, at, sent, plan, progress, own, dash, row, history, env>>

\* The device's own counters: one UPDATE adds to what is there.
CountOwn(d) ==
  /\ At(d, "tables") /\ left[d] = 0 /\ Goto(d, "read")
  /\ own' = [own EXCEPT ![d] = Plus(@, [Added(d) EXCEPT !.segs = 0])]
  /\ UNCHANGED <<progress, tables, dash, row, history, env>>

\* get_dashboard_counter and update_dashboard: a total is read, and written later.
ReadTotals(d) ==
  /\ At(d, "read")
  /\ pc' = [pc EXCEPT ![d] = "write"]
  /\ plan' = [plan EXCEPT ![d] = [read |-> Plus(dash, Added(d)), todo |-> Totals]]
  /\ UNCHANGED <<at, sent, left, progress, counts, history, env>>

WriteTotal(d) ==
  /\ At(d, "write") /\ plan[d].todo # << >>
  /\ plan' = [plan EXCEPT ![d].todo = Tail(@)]
  /\ LET total == Head(plan[d].todo) IN dash' = [dash EXCEPT ![total] = plan[d].read[total]]
  /\ UNCHANGED <<pc, at, sent, left, progress, own, tables, row, history, env>>

\* Mutant of WriteRow: the operations are those of the dashboard, like the segments.
WriteRow_Totals(d) ==
  /\ At(d, "write") /\ plan[d].todo = << >>
  /\ Rest(d, "mark", at[d])
  /\ row' = [row EXCEPT ![d] = {dash @@ [commit |-> ckpt[d]]}]
  /\ UNCHANGED <<progress, own, tables, dash, history, env>>

WriteRow(d) ==
  /\ At(d, "write") /\ plan[d].todo = << >>
  /\ Rest(d, "mark", at[d])
  /\ row' = [row EXCEPT ![d] = StatusRow(d)]
  /\ UNCHANGED <<progress, own, tables, dash, history, env>>

\* Mutant of CountFails: the caller takes it for the failure of the segment, which is
\* left without its mark.
CountFails_Retried(d) ==
  /\ pc[d] \in Counting /\ faults < layout.faults
  /\ Rest(d, "idle", 0)
  /\ faults' = faults + 1
  /\ UNCHANGED <<progress, counts, history, cut, redo, layout>>

\* The rest is left out, with a warning; the segment gets its mark.
CountFails(d) ==
  /\ pc[d] \in Counting /\ faults < layout.faults
  /\ Rest(d, "mark", at[d])
  /\ faults' = faults + 1
  /\ UNCHANGED <<progress, counts, history, cut, redo, layout>>

\* The process of all workers dies.
Die ==
  /\ Interrupts(Device)
  /\ pc' = [d \in Device |-> "off"] /\ at' = [d \in Device |-> 0]
  /\ sent' = [d \in Device |-> 0] /\ left' = [d \in Device |-> 0]
  /\ plan' = [d \in Device |-> NoPlan]
  /\ UNCHANGED <<progress, counts, history>>

Next ==
  \/ Die
  \/ \E d \in Device :
       \/ Spawn(d) \/ Publish(d) \/ PublishFails(d)
       \/ Skip(d) \/ Apply(d) \/ Filter(d) \/ StoreAtDestination(d) \/ StoreCheckpoint(d)
       \/ Mark(d) \/ MarkFails(d) \/ Clean(d) \/ EndDrain(d) \/ StepFails(d)
       \/ CountRow(d) \/ CountOwn(d) \/ ReadTotals(d) \/ WriteTotal(d) \/ WriteRow(d)
       \/ CountFails(d)

Spec == Init /\ [][Next]_vars

--------------------------------------------------------------------------------
(* Properties                                                                   *)

\* sync_statistics: the row of the device, or zeros
SyncStatistics(d) == IF row[d] = {} THEN NewRow ELSE CHOOSE r \in row[d] : TRUE

AppliedTo(d) == {n \in Seg : times[d][n] > 0}

\* The operations of the device's segments, each segment taken as often as f says
Taken(d, f) == [n \in Seg |-> f[n] * opers[d][n]]
Operations(d, f) == MapThenSumSet(LAMBDA n : Taken(d, f)[n], Seg)

\* NeverReplayed: each time a segment is sent again there was a fault of its own, after the
\* destination had committed it: before the checkpoint at the destination, or, for a device
\* that keeps its checkpoint locally, before the segment's mark, the checkpoint being of no
\* help.  A counter that fails is not such a fault (state/src/lib.rs: "a statistics
\* failure must not make the caller replay data").
NeverReplayed == \A d \in Device, n \in Seg : times[d][n] <= 1 + cut[d][n]

\* StatusIsTrue: whatever fails and whatever the workers of other devices write to the
\* same database, sync_statistics tells of no operation that was not sent, no commit
\* before which one is missing, and no operation twice, nor do the counts of the tables,
\* but for a fault between the local checkpoint of its segment and the mark; and when
\* nothing has failed they tell of all that was applied.
StatusIsTrue ==
  \A d \in Device : LET told == SyncStatistics(d) IN
    /\ told.oper <= Operations(d, times[d]) /\ 1 .. told.commit \subseteq AppliedTo(d)
    /\ told.oper <= Operations(d, passes[d]) /\ tables[d] <= Operations(d, passes[d])
    /\ \A n \in Seg : passes[d][n] <= 1 + redo[d][n]
    /\ At(d, "idle") /\ faults = 0 =>
         /\ told.oper = Operations(d, times[d]) /\ tables[d] = Operations(d, times[d])
         /\ AppliedTo(d) = 1 .. told.commit

\* SegmentsOfDevice: the number of segments that sync_statistics tells is the device's
\* (status.rs: "Return per-device consolidator counters").
SegmentsOfDevice ==
  \A d \in Device : At(d, "idle") => SyncStatistics(d).segs <= Cardinality(AppliedTo(d))
================================================================================
