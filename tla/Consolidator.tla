----------------------------- MODULE Consolidator ------------------------------
(***************************************************************************)
(* The consolidator of crates/consolidator/runtime: one worker for each    *)
(* destination of a device.  A worker is told of staged segments, copies   *)
(* them into its work directory, for a SQL device replays them on a        *)
(* replica to obtain a change log, applies them to the destination and     *)
(* cleans up what every destination has.  Several destinations share the   *)
(* stage directory and, in memory, their progress; each has a work         *)
(* directory and a state database of its own.                              *)
(*                                                                         *)
(* Memory (mem) goes with the process; the work directory with the state   *)
(* database (disk) and the destination (db) stay.  A segment holds the     *)
(* transactions 1 .. Txns, those in RolledBack end with ROLLBACK.          *)
(*                                                                         *)
(* Bounds: MaxSegment (segments); of a layout, faults (crashes and failing *)
(* steps) and calls (pause_sync and shutdown).                             *)
(***************************************************************************)
EXTENDS Integers, Sequences, FiniteSets, FiniteSetsExt, Functions

CONSTANTS
  MaxSegment,
  Layouts,         \* the devices: records of the kind described below
  MaxDestinations, \* the destinations of a device, at most
  Txns,            \* transactions of a segment
  RolledBack,      \* the commit ids of those rolled back
  MarkMayFail,     \* the mark on an applied segment may not get written
  PausePushOnly,   \* pause_sync is called where workers do not know the stage directory
  ReplayMayStop    \* a fault may hit a replay that has committed on the replica

ASSUME CountAssumption ==
  MaxSegment \in Nat /\ MaxDestinations \in Nat \ {0} /\ Txns \in Nat \ {0}

\* The kind of device, where the metadata is (MetadataStore), whether the workers know
\* the stage directory, how many destinations there are, and the bounds.
ASSUME LayoutAssumption ==
  /\ \A l \in Layouts :
       /\ l.device \in {"sql", "store"} /\ l.store \in {"local", "destination"}
       /\ l.stageDir \in BOOLEAN /\ l.destinations \in 1 .. MaxDestinations
       /\ l.faults \in Nat /\ l.calls \in Nat
  /\ ReplayMayStop \in BOOLEAN /\ PausePushOnly \in BOOLEAN /\ MarkMayFail \in BOOLEAN

Seg == 0 .. MaxSegment
Txn == 1 .. Txns

ASSUME RolledBackAssumption == RolledBack \subseteq Nat

VARIABLES
  layout,    \* one of Layouts
  produced,  \* how many segments were staged and shipped
  stage,     \* the segments in the stage directory
  due,       \* shipped segments the workers are still to be told of
  paused,    \* the sentinel of pause_sync exists
  faults,    \* crashes and failing steps so far
  calls,     \* pause_sync and shutdown calls so far
  mem,       \* each worker's memory
  disk,      \* its work directory and state database
  db         \* its destination

env  == <<layout, produced, paused, calls>>
vars == <<env, stage, due, faults, mem, disk, db>>

Dst == 1 .. layout.destinations
SqlDevice == layout.device = "sql"
OwnCheckpoint == layout.store = "destination"

Commit(n, k) == n * Txns + k
Committed(n) == { k \in Txn : Commit(n, k) \notin RolledBack }

PC == {"off", "recv", "boot", "boot_local", "head", "replay",
       "apply", "checkpoint", "local", "mark", "authorize", "clean_work", "clean_stage"}

Off == [pc |-> "off", stop |-> "no", inbox |-> <<>>, pending |-> [n \in Seg |-> "no"],
        progress |-> -1, tmp |-> {}, sent |-> {}, commit |-> 0, target |-> -1]

Fresh == [resume |-> <<-1, 0>>, init |-> FALSE, commit |-> 0,
          authorized |-> -1, cleaned |-> -1, stageCleaned |-> -1,
          work |-> [n \in Seg |-> "none"], cdc |-> [n \in Seg |-> {}]]

TypeOK ==
  /\ layout \in Layouts
  /\ produced \in 0 .. MaxSegment + 1
  /\ stage \subseteq 0 .. produced - 1 /\ due \subseteq 0 .. produced - 1
  /\ paused \in BOOLEAN /\ faults \in 0 .. layout.faults /\ calls \in 0 .. layout.calls
  /\ mem \in [Dst -> [pc : PC, stop : {"no", "asked", "boot", "last"}, inbox : Seq(Seg),
                      pending : [Seg -> {"no", "stage", "work"}], progress : -1 .. MaxSegment,
                      tmp : SUBSET Txn, sent : SUBSET Txn, commit : Nat,
                      target : -1 .. MaxSegment]]
  /\ disk \in [Dst -> [resume : (-1 .. MaxSegment) \X (0 .. Txns),
                       init : BOOLEAN, commit : Nat, authorized : -1 .. MaxSegment,
                       cleaned : -1 .. MaxSegment, stageCleaned : -1 .. MaxSegment,
                       work : [Seg -> {"none", "copy", "applied"}],
                       cdc : [Seg -> SUBSET Txn]]]
  /\ \A d \in Dst :
       /\ db[d].log \in Seq([seg : -1 .. MaxSegment, txns : SUBSET Txn])
       /\ db[d].ck \in [seg : Seg, change : -1 .. Txns, commit : Nat]

Init ==
  /\ layout \in Layouts
  /\ produced = 0 /\ stage = {} /\ due = {}
  /\ paused = FALSE /\ faults = 0 /\ calls = 0
  /\ mem = [d \in Dst |-> Off]
  /\ disk = [d \in Dst |-> Fresh]
  /\ db = [d \in Dst |-> [log |-> <<>>, ck |-> [seg |-> 0, change |-> -1, commit |-> 0]]]

--------------------------------------------------------------------------------
(* The device, the shipper and the application                                  *)

Running(d) == mem[d].pc # "off"

ShipSegment ==
  /\ produced <= MaxSegment
  /\ produced' = produced + 1
  /\ stage' = stage \union {produced} /\ due' = due \union {produced}
  /\ UNCHANGED <<layout, paused, calls, faults, mem, disk, db>>

\* on_shipped tells every worker; one that has exited does not hear it.  A hint that
\* is still in the channel is not put there twice.
Queued(inbox, n) == IF n \in Range(inbox) THEN inbox ELSE Append(inbox, n)

Notify ==
  /\ due # {}
  /\ due' = due \ {Min(due)}
  /\ mem' = [d \in Dst |-> IF Running(d)
                           THEN [mem[d] EXCEPT !.inbox = Queued(@, Min(due))]
                           ELSE mem[d]]
  /\ UNCHANGED <<env, stage, faults, disk, db>>

Open_OneTooMany ==
  /\ \E d \in Dst : ~ Running(d)
  /\ mem' = [d \in Dst |-> IF Running(d) THEN mem[d] ELSE [Off EXCEPT !.pc = "recv"]]
  /\ due' = 0 .. produced
  /\ UNCHANGED <<env, stage, faults, disk, db>>

Open_Quiet ==
  /\ \E d \in Dst : ~ Running(d)
  /\ mem' = [d \in Dst |-> IF Running(d) THEN mem[d] ELSE [Off EXCEPT !.pc = "recv"]]
  /\ UNCHANGED <<env, stage, due, faults, disk, db>>

\* Opening the device spawns the workers that are not running, announces the
\* initial backup, and everything staged is shipped and notified again.
Open ==
  /\ \E d \in Dst : ~ Running(d)
  /\ mem' = [d \in Dst |-> IF Running(d) THEN mem[d] ELSE [Off EXCEPT !.pc = "recv"]]
  /\ due' = stage
  /\ UNCHANGED <<env, stage, faults, disk, db>>

PauseSync ==
  /\ ~ paused /\ calls < layout.calls
  /\ ~ PausePushOnly => layout.stageDir
  /\ paused' = TRUE /\ calls' = calls + 1
  /\ UNCHANGED <<layout, produced, stage, due, faults, mem, disk, db>>

ResumeSync ==
  /\ paused
  /\ paused' = FALSE
  /\ UNCHANGED <<layout, produced, stage, due, calls, faults, mem, disk, db>>

Shutdown(d) ==
  /\ Running(d) /\ mem[d].stop = "no" /\ calls < layout.calls
  /\ mem' = [mem EXCEPT ![d].stop = "asked"] /\ calls' = calls + 1
  /\ UNCHANGED <<layout, produced, paused, stage, due, faults, disk, db>>

--------------------------------------------------------------------------------
(* Faults                                                                      *)

Fault == faults < layout.faults /\ faults' = faults + 1

MayStop(d) == mem[d].tmp # {} => ReplayMayStop

Crash ==
  /\ Fault
  /\ \E d \in Dst : Running(d)
  /\ \A d \in Dst : MayStop(d)
  /\ mem' = [d \in Dst |-> Off] /\ due' = {}
  /\ UNCHANGED <<env, stage, disk, db>>

\* With the checkpoint in the destination the state database lives in the
\* temporary directory of the system.
TempDirCleared(d) ==
  /\ Fault
  /\ OwnCheckpoint /\ \A e \in Dst : ~ Running(e)
  /\ disk' = [disk EXCEPT ![d].init = FALSE, ![d].commit = 0, ![d].authorized = -1,
                          ![d].stageCleaned = -1]
  /\ UNCHANGED <<env, stage, due, mem, db>>

\* The worker goes back to its loop, or exits after its last flush.
Rest(m) ==
  IF m.stop = "last" THEN Off
  ELSE [m EXCEPT !.pc = "recv", !.tmp = {}, !.sent = {}, !.commit = 0, !.target = -1]

\* Any step may fail: the drain ends, the head and what follows it stay pending.
StepFails(d) ==
  /\ Fault
  /\ mem[d].pc \notin {"off", "recv"} /\ MayStop(d)
  /\ mem' = [mem EXCEPT ![d] = Rest(@)]
  /\ UNCHANGED <<env, stage, due, disk, db>>

--------------------------------------------------------------------------------
(* The worker's loop                                                            *)

Worker(d, pc, m) == mem[d].pc = pc /\ mem' = [mem EXCEPT ![d] = m]

(***************************************************************************)
(* discover_pending_stage_paths: the hints, everything in stage (when its  *)
(* directory is known, else only what is older than a hint) and everything *)
(* retained in the work directory.                                         *)
(***************************************************************************)
ReadableStage(pending) ==
  IF layout.stageDir THEN stage
  ELSE { n \in stage : \E h \in Seg : pending[h] = "stage" /\ n <= h }

Discovered(d, pending) ==
  [n \in Seg |->
     IF pending[n] = "stage" \/ n \in ReadableStage(pending) THEN "stage"
     ELSE IF disk[d].work[n] # "none" THEN (IF layout.stageDir THEN "stage" ELSE "work")
     ELSE pending[n]]

Waiting(m) == { n \in Seg : m.pending[n] # "no" }

\* flush_pending_stage_paths
Flushed(d, m) ==
  LET found == [m EXCEPT !.pending = Discovered(d, m.pending)] IN
  IF paused THEN Rest(m)
  ELSE IF Waiting(found) = {} THEN Rest(found)
  ELSE [found EXCEPT !.pc = "head"]

\* mirror_stage_artifact_to_work, as far as the work copy's state goes.
Mirrored(d, n) ==
  IF n \in stage /\ disk[d].work[n] # "applied" THEN "copy" ELSE disk[d].work[n]

\* A hint is queued.  A worker that is not initialized may try its bootstrap again
\* (only so often); a paused one saves the segment from being cleaned up.
Receive(d) ==
  /\ mem[d].stop \in {"no", "asked"}
  /\ mem[d].inbox # <<>>
  /\ LET n == Head(mem[d].inbox)
         m == [mem[d] EXCEPT !.inbox = Tail(@), !.pending[n] = "stage"]
     IN
     /\ \/ disk[d].init /\ Worker(d, "recv", Flushed(d, m))
        \/ ~ disk[d].init /\ Worker(d, "recv", m)
        \/ ~ disk[d].init /\ ~ paused /\ Worker(d, "recv", [m EXCEPT !.pc = "boot"])
     /\ \/ /\ disk' = IF disk[d].init /\ paused
                      THEN [disk EXCEPT ![d].work[n] = Mirrored(d, n)]
                      ELSE disk
           /\ UNCHANGED faults
        \/ /\ disk[d].init /\ paused /\ Fault
           /\ UNCHANGED disk
  /\ UNCHANGED <<env, stage, due, db>>

\* The periodic tick.
Tick(d) ==
  /\ mem[d].inbox = <<>> /\ mem[d].stop = "no" /\ ~ paused
  /\ Worker(d, "recv", IF disk[d].init THEN Flushed(d, mem[d])
                                       ELSE [mem[d] EXCEPT !.pc = "boot"])
  /\ UNCHANGED <<env, stage, due, faults, disk, db>>

\* Shutdown: a last flush, with the hint being received if the worker came too late
\* to see the message before the stop flag.  A worker that was never initialized
\* bootstraps first, once, when it comes in time and can see the backup in stage.
LastFlush(d) ==
  /\ mem[d].stop \in {"asked", "boot"}
  /\ \E late \in BOOLEAN :
       LET hint == IF late /\ mem[d].inbox # <<>> THEN {Head(mem[d].inbox)} ELSE {}
           m == [mem[d] EXCEPT !.pending = [n \in Seg |-> IF n \in hint THEN "stage" ELSE @[n]]]
       IN Worker(d, "recv",
            IF disk[d].init THEN Flushed(d, [m EXCEPT !.stop = "last"])
            ELSE IF m.stop = "asked" /\ ~ late /\ layout.stageDir /\ ~ paused
                 THEN [m EXCEPT !.stop = "boot", !.pc = "boot"]
                 ELSE Off)
  /\ UNCHANGED <<env, stage, due, faults, disk, db>>

--------------------------------------------------------------------------------
(* Bootstrap                                                                    *)

\* destination_snapshot_completed, or the marker the snapshot's transaction wrote.
SnapshotCompleted_ByCheckpoint(d) == db[d].ck.commit > 0
SnapshotCompleted(d) == db[d].log # <<>>

\* The snapshot and its marker are one transaction of the destination.
BootSnapshot(d) ==
  /\ Worker(d, "boot", [mem[d] EXCEPT !.pc = "boot_local"])
  /\ db' = IF SnapshotCompleted(d) THEN db
           ELSE [db EXCEPT ![d].log = Append(@, [seg |-> -1, txns |-> {}])]
  /\ UNCHANGED <<env, stage, due, faults, disk>>

BootLocal(d) ==
  /\ Worker(d, "boot_local", Flushed(d, mem[d]))
  /\ disk' = [disk EXCEPT ![d].init = TRUE]
  /\ UNCHANGED <<env, stage, due, faults, db>>

--------------------------------------------------------------------------------
(* Processing the head of the queue                                             *)

Front(d) == Min(Waiting(mem[d]))

\* The head is done; the drain goes on with the next.
Completed(d, m, n) ==
  LET rest == [m EXCEPT !.pending[n] = "no"] IN
  IF Waiting(rest) = {} THEN Rest(rest) ELSE [rest EXCEPT !.pc = "head"]

\* should_skip_segment_by_destination_checkpoint.  A checkpoint on the segment itself
\* names a row of data, which the marker that ends its transaction follows.
Covered(d, n) == OwnCheckpoint /\ db[d].ck.seg > n

\* CleanupProgress::record
Recorded(m, n) == [m EXCEPT !.progress = n, !.pc = "authorize", !.sent = {}, !.commit = 0]

ProcessHead(d) ==
  LET n    == Front(d)
      copy == Mirrored(d, n)
      m    == mem[d]
      past == n <= disk[d].authorized \/ n <= disk[d].cleaned
  IN
  /\ Worker(d, "head",
       IF past THEN Completed(d, m, n)
       ELSE IF copy = "none" THEN Rest(m)
       ELSE IF copy = "applied" \/ (~ SqlDevice /\ Covered(d, n)) THEN Recorded(m, n)
       ELSE [m EXCEPT !.pc = IF SqlDevice THEN "replay" ELSE "apply"])
  /\ disk' = IF past THEN disk ELSE [disk EXCEPT ![d].work[n] = copy]
  /\ UNCHANGED <<env, stage, due, faults, db>>

(***************************************************************************)
(* run_device_replicator: committed transactions run on the replica, which *)
(* remembers segment and commit id of the last one, and are collected in   *)
(* a temporary change log that is renamed at the end.  A change log with   *)
(* rows is not produced again.                                             *)
(***************************************************************************)
ReplicaResume(d) == disk[d].resume

ToReplay(d, n) ==
  LET resume == ReplicaResume(d) IN
  { k \in Committed(n) : resume[1] < n \/ (resume[1] = n /\ k > resume[2]) }

ReplayTxn(d) ==
  LET n == Front(d) IN
  /\ mem[d].pc = "replay" /\ disk[d].cdc[n] = {} /\ ToReplay(d, n) # {}
  /\ LET k == Min(ToReplay(d, n)) IN
     /\ Worker(d, "replay", [mem[d] EXCEPT !.tmp = @ \union {k}])
     /\ disk' = [disk EXCEPT ![d].resume = <<n, k>>]
  /\ UNCHANGED <<env, stage, due, faults, db>>

ReplayEnds(d) ==
  LET n == Front(d) IN
  /\ mem[d].pc = "replay"
  /\ disk[d].cdc[n] = {} => ToReplay(d, n) = {}
  /\ Worker(d, "replay", [mem[d] EXCEPT !.pc = "apply", !.tmp = {}])
  /\ disk' = IF disk[d].cdc[n] = {} THEN [disk EXCEPT ![d].cdc[n] = mem[d].tmp] ELSE disk
  /\ UNCHANGED <<env, stage, due, faults, db>>

--------------------------------------------------------------------------------
(* Applying the segment to the destination                                      *)

\* The transactions a destination gets from the segment: a SQL device's change log;
\* for the others every logged statement, as it has no undo at the source either.
Content(d, n) == IF SqlDevice THEN disk[d].cdc[n] ELSE Txn

Filtered_AnySegment(d, n) == (OwnCheckpoint \/ SqlDevice) /\ db[d].ck.change >= 0

\* apply_resume_filter: rows up to the destination's checkpoint on this segment are
\* left out; of the last transaction sent only its marker is left.
Filtered(d, n) ==
  (OwnCheckpoint \/ SqlDevice) /\ db[d].ck.seg = n /\ db[d].ck.change >= 0

ToSend(d, n) == { k \in Content(d, n) : Filtered(d, n) => k > db[d].ck.change }

Markers(d, n) ==
  { k \in Content(d, n) \intersect Committed(n) : Filtered(d, n) => k >= db[d].ck.change }

\* The commit id the checkpoints get: that of the last row applied or, when greater,
\* of the last marker; the first one of the segment, or 0, when there is neither.
AppliedCommit(d, n) ==
  LET first == IF Content(d, n) = {} THEN 0 ELSE Commit(n, Min(Content(d, n)))
  IN  Max({first} \union { Commit(n, k) : k \in ToSend(d, n) \union Markers(d, n) })

\* One transaction of the destination takes all of it.
Apply(d) ==
  LET n == Front(d)
      rows == ToSend(d, n)
      past == SqlDevice /\ Covered(d, n)
      m == [mem[d] EXCEPT !.sent = rows, !.commit = AppliedCommit(d, n)]
  IN
  /\ Worker(d, "apply",
       IF past THEN [mem[d] EXCEPT !.pc = "mark"]
       ELSE [m EXCEPT !.pc = IF OwnCheckpoint THEN "checkpoint" ELSE "local"])
  /\ db' = IF past \/ rows = {} THEN db
           ELSE [db EXCEPT ![d].log = Append(@, [seg |-> n, txns |-> rows])]
  /\ UNCHANGED <<env, stage, due, faults, disk>>

\* map_destination_checkpoint, on a connection of its own after the data.
Checkpoint(d) ==
  LET n == Front(d) IN
  /\ Worker(d, "checkpoint", [mem[d] EXCEPT !.pc = "local"])
  /\ db' = [db EXCEPT ![d].ck =
              [seg    |-> Max({@.seg, n}),
               change |-> IF mem[d].sent = {} THEN @.change ELSE Max(mem[d].sent),
               commit |-> mem[d].commit]]
  /\ UNCHANGED <<env, stage, due, faults, disk>>

\* When that fails the whole attempt is retried.
CheckpointFails(d) ==
  /\ Fault
  /\ Worker(d, "checkpoint", [mem[d] EXCEPT !.pc = "apply"])
  /\ UNCHANGED <<env, stage, due, disk, db>>

\* map_local_checkpoint
LocalCheckpoint(d) ==
  /\ Worker(d, "local", [mem[d] EXCEPT !.pc = "mark"])
  /\ disk' = [disk EXCEPT ![d].commit = mem[d].commit]
  /\ UNCHANGED <<env, stage, due, faults, db>>

\* mark_segment_applied_best_effort
Mark(d) ==
  LET n == Front(d) IN
  /\ Worker(d, "mark", Recorded(mem[d], n))
  /\ \E written \in BOOLEAN :
       /\ written \/ MarkMayFail
       /\ IF written THEN UNCHANGED faults ELSE Fault
       /\ disk' = IF written THEN [disk EXCEPT ![d].work[n] = "applied"] ELSE disk
  /\ UNCHANGED <<env, stage, due, db>>

--------------------------------------------------------------------------------
(* Cleaning up                                                                  *)

CleanTarget_OfFastest ==
  LET most == Max({ mem[d].progress : d \in Dst })
  IN  IF most > 0 THEN most - 1 ELSE -1

\* compute_min_applied_target: one below what every destination has been seen to
\* have; nothing while one of them has no worker or no progress.
CleanTarget ==
  LET least == Min({ mem[d].progress : d \in Dst })
  IN  IF least > 0 THEN least - 1 ELSE -1

Authorize(d) ==
  LET n == Front(d)
      target == IF n = 0 THEN -1 ELSE CleanTarget
  IN
  /\ Worker(d, "authorize",
            IF target = -1 THEN Completed(d, mem[d], n)
            ELSE [mem[d] EXCEPT !.target = target, !.pc = "clean_work"])
  /\ disk' = [disk EXCEPT ![d].authorized = Max({@, target})]
  /\ UNCHANGED <<env, stage, due, faults, db>>

\* The watermark is written after the files are gone, best effort.
CleanWork(d) ==
  LET target == mem[d].target
      gone == disk[d].cleaned + 1 .. target
  IN
  \E written \in BOOLEAN :
    /\ IF written THEN UNCHANGED faults ELSE Fault
    /\ Worker(d, "clean_work", [mem[d] EXCEPT !.pc = "clean_stage"])
    /\ disk' = [disk EXCEPT
                  ![d].work    = [n \in Seg |-> IF n \in gone THEN "none" ELSE @[n]],
                  ![d].cdc     = [n \in Seg |-> IF n \in gone THEN {} ELSE @[n]],
                  ![d].cleaned = IF written THEN Max({@, target}) ELSE @]
    /\ UNCHANGED <<env, stage, due, db>>

CleanStage_WatermarkFirst(d) ==
  LET n == Front(d)
      target == mem[d].target
      known == mem[d].pending[n] = "stage"
  IN
  /\ Worker(d, "clean_stage", Completed(d, [mem[d] EXCEPT !.target = -1], n))
  /\ stage' = IF known THEN stage \ (disk[d].stageCleaned + 1 .. target) ELSE stage
  /\ disk' = [disk EXCEPT ![d].stageCleaned = Max({@, target})]
  /\ UNCHANGED <<env, due, faults, db>>

\* Only a path in stage leads to stage.
CleanStage(d) ==
  LET n == Front(d)
      target == mem[d].target
      known == mem[d].pending[n] = "stage"
  IN
  /\ Worker(d, "clean_stage", Completed(d, [mem[d] EXCEPT !.target = -1], n))
  /\ stage' = IF known THEN stage \ (disk[d].stageCleaned + 1 .. target) ELSE stage
  /\ disk' = [disk EXCEPT ![d].stageCleaned = IF known THEN Max({@, target}) ELSE @]
  /\ UNCHANGED <<env, due, faults, db>>

--------------------------------------------------------------------------------
(* The system                                                                   *)

Bootstrap(d) == BootSnapshot(d) \/ BootLocal(d)
Replay(d)    == ReplayTxn(d) \/ ReplayEnds(d)
Clean(d)     == Authorize(d) \/ CleanWork(d) \/ CleanStage(d)

Step(d) ==
  \/ Receive(d) \/ Tick(d) \/ LastFlush(d)
  \/ Bootstrap(d) \/ ProcessHead(d) \/ Replay(d)
  \/ Apply(d) \/ Checkpoint(d) \/ LocalCheckpoint(d) \/ Mark(d) \/ Clean(d)

Next ==
  \/ ShipSegment \/ Notify \/ Open \/ PauseSync \/ ResumeSync \/ Crash
  \/ \E d \in Dst : Step(d) \/ Shutdown(d) \/ StepFails(d) \/ CheckpointFails(d)
                    \/ TempDirCleared(d)

\* The application opens the device again and ends a pause; the shipper goes on; a
\* worker's thread runs.
Fairness ==
  /\ WF_vars(Notify) /\ WF_vars(Open) /\ WF_vars(ResumeSync)
  /\ \A d \in 1 .. MaxDestinations : WF_vars(d \in Dst /\ Step(d))

Spec == Init /\ [][Next]_vars /\ Fairness

--------------------------------------------------------------------------------
(* Properties                                                                   *)

Shipped == 0 .. produced - 1

Wanted(n) == IF SqlDevice THEN Committed(n) ELSE Txn

Delivered(d, n) ==
  UNION { db[d].log[i].txns : i \in { i \in DOMAIN db[d].log : db[d].log[i].seg = n } }

Owed(d, n) == Wanted(n) \ Delivered(d, n)

\* What a destination still lacks of a shipped segment can still reach it: a copy of
\* the segment is in stage or work, no mark, watermark or checkpoint passes over it,
\* and what the replica has of it is in a change log (cleanup, idempotency checks and
\* resume points of process_stage_path_ready and run_device_replicator).
UndeliveredIsReadable ==
  \A d \in Dst, n \in Shipped : Owed(d, n) # {} =>
    /\ n \in stage \/ disk[d].work[n] = "copy"
    /\ disk[d].work[n] # "applied"
    /\ n > disk[d].authorized /\ n > disk[d].cleaned /\ ~ Covered(d, n)
    /\ SqlDevice => Owed(d, n) \subseteq
         IF disk[d].cdc[n] # {} THEN disk[d].cdc[n] ELSE ToReplay(d, n) \union mem[d].tmp

\* A destination gets the snapshot first and once, then the segments in order with
\* none passed over (bootstrap and drain_ordered_stage_paths).
DestinationInOrder ==
  \A d \in Dst : LET log == db[d].log IN
    \A i \in DOMAIN log :
      /\ log[i].seg = -1 <=> i = 1
      /\ \A j \in 1 .. i : log[j].seg <= log[i].seg
      /\ \A n \in Shipped : n < log[i].seg => Owed(d, n) = {}

\* Only a fault makes a destination get something again: neither notifications that
\* repeat, a pause, a shutdown nor a reopening does.
RepeatsAreFaults ==
  \A d \in Dst : LET log == db[d].log IN
    Cardinality({ i \in DOMAIN log :
                    \E j \in 1 .. i - 1 : log[j].seg = log[i].seg
                                          /\ log[j].txns \intersect log[i].txns # {} }) <= faults

\* What the log of a destination may be.
DeliveredInOrder == DestinationInOrder /\ RepeatsAreFaults

\* The checkpoint await_sync reads.
Seen(d) == IF OwnCheckpoint THEN db[d].ck.commit ELSE disk[d].commit

\* When await_sync returns, the destination has every commit up to the one waited for.
SyncedMeansApplied ==
  \A d \in Dst, n \in Shipped : \A k \in Owed(d, n) \intersect Committed(n) :
    Seen(d) < Commit(n, k)

\* When the worker is through with all that was shipped, await_sync returns.
AppliedIsSeen ==
  \A d \in Dst : produced > 0 /\ mem[d].progress = produced - 1 =>
    \A n \in Shipped, k \in Txn : k \in Committed(n) => Seen(d) >= Commit(n, k)

\* await_sync waits for exactly what is missing.
AwaitIsExact == SyncedMeansApplied /\ AppliedIsSeen

\* Every destination gets every shipped segment, whatever fails on the way.
EventuallyApplied ==
  \A n \in Seg : n \in Shipped ~> \A d \in Dst : Owed(d, n) = {}

\* The stage directory of a device with one destination does not fill up: all but the
\* last segment are removed.  Workers of several destinations that revisit what they
\* retain each lower the mark the others clean up to, and may miss each other for ever.
StageIsCleaned ==
  \A n \in 0 .. MaxSegment - 1 : (n + 1 \in Shipped /\ layout.destinations = 1) ~> n \notin stage

================================================================================
