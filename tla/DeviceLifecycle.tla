---------------------------- MODULE DeviceLifecycle ----------------------------
(***************************************************************************)
(* The life of one device and of the worker that serves its destination:   *)
(* the first backup and its copy in the stage directory                    *)
(* (crates/synclite/src/logger/backup.rs, lib.rs), the bootstrap of the    *)
(* worker from it (crates/consolidator/runtime, worker_loop), the segments *)
(* that follow, pause and resume (pause.rs), the end of the process at any *)
(* point, and reinitialize (reinitialize.rs), which takes the device back  *)
(* to a first backup without losing its identity.                          *)
(*                                                                         *)
(* A transaction writes one row and is shipped as one segment; how that    *)
(* comes about is in SqliteDevice, DuckDbDevice and Shipping, and what can *)
(* befall a segment on its way in is in Consolidator.                      *)
(***************************************************************************)
EXTENDS DestinationStore

CONSTANTS Layouts,     \* the device types and settings to choose from
          MaxInbox     \* bound: messages that wait for the worker

\* Rows are numbered as they are written, and the first of them are there before.
ASSUME LifecycleAssumption ==
  /\ MaxInbox \in Nat /\ IsFiniteSet(Rows) /\ Rows = 1 .. Cardinality(Rows)
  /\ \A l \in Layouts : /\ l.before \subseteq Rows /\ l.before = 1 .. Cardinality(l.before)
                         /\ l.reinits \in Nat

VARIABLES layout,      \* the device type and the settings of the destination
          src,         \* the source database: its rows, and the last commit id
          home,        \* the device home: metadata, backup and sentinels
          stage,       \* the stage directory: backup, metadata, segments by number
          state,       \* the worker's own database: initialized, segments cleaned
          work,        \* the work directory: replica, table metadata, properties, marks
          dst,         \* the destination
          worker,      \* the worker thread
          inbox,       \* its channel
          app,         \* what the application is doing with the device
          deaths       \* how often the process has ended

vars == <<layout, src, home, stage, state, work, dst, worker, inbox, app, deaths>>

NoBackup == [is |-> "none", rows |-> {}, base |-> 0]
EmptyFile == [is |-> "empty", rows |-> {}, base |-> 0]
NewHome == [meta |-> FALSE, taken |-> FALSE, backup |-> NoBackup, sentinel |-> FALSE, paused |-> FALSE]
NewStage == [backup |-> NoBackup, meta |-> FALSE, segs |-> <<>>]
NewState == [init |-> FALSE, cleaned |-> 0]
NewWork == [replica |-> "none", table |-> "none", complete |-> FALSE, next |-> 0]
Off == [pc |-> "off", boot |-> FALSE, mode |-> "none", asked |-> "none", later |-> "none",
        pending |-> FALSE, final |-> FALSE, stopping |-> FALSE, retiring |-> FALSE]

Local == layout.store = "local"

Init ==
  /\ layout \in Layouts
  /\ src = [rows |-> layout.before, commit |-> 0]
  /\ home = NewHome /\ stage = NewStage /\ state = NewState /\ work = NewWork
  /\ dst = NewDestination(layout)
  /\ worker = Off /\ inbox = <<>>
  /\ app = [pc |-> "closed", kind |-> "none", mode |-> "none", reinits |-> 0, half |-> FALSE]
  /\ deaths = 0

--------------------------------------------------------------------------------
(* The application opens the device                                             *)

Goto(pc) == app' = [app EXCEPT !.pc = pc]

\* initialize: the sentinel of a reinitialize asks for OVERWRITE_OBJECT, once.
Initialize ==
  /\ app.pc = "closed" /\ Len(inbox) + 2 <= MaxInbox
  /\ app' = [app EXCEPT !.pc = "backup", !.kind = "initialize",
                        !.mode = IF home.sentinel THEN "OVERWRITE_OBJECT" ELSE layout.init]
  /\ home' = [home EXCEPT !.meta = TRUE, !.sentinel = FALSE]
  /\ UNCHANGED <<layout, src, stage, state, work, dst, worker, inbox, deaths>>

\* Connection::open, on a device that was initialized
Connect ==
  /\ app.pc = "closed" /\ home.taken /\ Len(inbox) + 2 <= MaxInbox
  /\ app' = [app EXCEPT !.pc = "backup", !.kind = "session", !.mode = layout.init]
  /\ UNCHANGED <<layout, src, home, stage, state, work, dst, worker, inbox, deaths>>

\* The copy of a SQLite database leaves synclite_txn out, that of DuckDB does not.
TakeBackup ==
  /\ app.pc = "backup" /\ Goto("stage")
  /\ home' = IF home.taken /\ home.backup.is # "none" THEN home
             ELSE [home EXCEPT !.taken = TRUE,
                               !.backup = [is |-> "whole", rows |-> src.rows,
                                           base |-> IF layout.engine = "duckdb" THEN src.commit ELSE 0]]
  /\ UNCHANGED <<layout, src, stage, state, work, dst, worker, inbox, deaths>>

StageBackup ==
  /\ app.pc = "stage" /\ Goto("spawn")
  /\ stage' = [stage EXCEPT !.backup = IF @.is = "none" THEN home.backup ELSE @, !.meta = TRUE]
  /\ UNCHANGED <<layout, src, home, state, work, dst, worker, inbox, deaths>>

\* The logger that initialize opens is closed at once.
Opened == IF app.kind = "session" THEN "session" ELSE "closed"

Started(mode) == [Off EXCEPT !.pc = "start", !.mode = mode, !.asked = mode]
Boot == [to |-> "boot"]
Update(mode) == [to |-> "update", mode |-> mode]
Shutdown == [to |-> "shutdown"]

\* Consolidator::spawn_or_reuse and notify_bootstrap_ready; a worker on its way out is
\* an error.
Spawn ==
  /\ app.pc = "spawn"
  /\ IF worker.retiring THEN Goto("closed") /\ UNCHANGED <<worker, inbox>>
     ELSE /\ Goto(Opened)
          /\ worker' = IF worker.pc = "off" THEN Started(app.mode)
                       ELSE [worker EXCEPT !.asked = app.mode]
          /\ inbox' = IF worker.pc = "off" \/ worker.asked = app.mode THEN Append(inbox, Boot)
                      ELSE inbox \o <<Update(app.mode), Boot>>
  /\ UNCHANGED <<layout, src, home, stage, state, work, dst, deaths>>

NextRow == Cardinality(src.rows) + 1

Commit ==
  /\ app.pc = "session" /\ NextRow \in Rows
  /\ src' = [rows |-> src.rows \union {NextRow}, commit |-> src.commit + 1]
  /\ stage' = [stage EXCEPT !.segs = Append(@, [row |-> NextRow, commit |-> src.commit + 1])]
  /\ UNCHANGED <<layout, home, state, work, dst, worker, inbox, app, deaths>>

\* The worker lives on in the process.
Close ==
  /\ app.pc = "session" /\ Goto("closed")
  /\ UNCHANGED <<layout, src, home, stage, state, work, dst, worker, inbox, deaths>>

PauseSync ==
  /\ layout.pausing /\ home.meta /\ home' = [home EXCEPT !.paused = TRUE]
  /\ UNCHANGED <<layout, src, stage, state, work, dst, worker, inbox, app, deaths>>

ResumeSync ==
  /\ home.paused /\ home' = [home EXCEPT !.paused = FALSE]
  /\ UNCHANGED <<layout, src, stage, state, work, dst, worker, inbox, app, deaths>>

--------------------------------------------------------------------------------
(* Reinitialize.  app.half: something is gone already; a call that did not get to   *)
(* its end is to be made again.                                                     *)

\* Consolidator::shutdown_device
ReinitStart ==
  /\ app.pc = "closed" /\ home.taken /\ app.reinits < layout.reinits
  /\ app' = [app EXCEPT !.pc = "stopping", !.reinits = @ + 1]
  /\ IF worker.pc = "off" THEN UNCHANGED <<worker, inbox>>
     ELSE worker' = [worker EXCEPT !.retiring = TRUE] /\ inbox' = Append(inbox, Shutdown)
  /\ UNCHANGED <<layout, src, home, stage, state, work, dst, deaths>>

ReinitStopped ==
  /\ app.pc = "stopping" /\ worker.pc = "off" /\ Goto("cleaning")
  /\ UNCHANGED <<layout, src, home, stage, state, work, dst, worker, inbox, deaths>>

\* Two seconds are over.
ReinitGivesUp ==
  /\ app.pc = "stopping" /\ worker.pc # "off" /\ Goto("closed")
  /\ worker' = [worker EXCEPT !.stopping = TRUE]
  /\ UNCHANGED <<layout, src, home, stage, state, work, dst, inbox, deaths>>

CleanDestination ==
  /\ app.pc = "cleaning" /\ dst' = DeviceForgotten(dst)
  /\ app' = [app EXCEPT !.pc = "unstaging", !.half = TRUE]
  /\ UNCHANGED <<layout, src, home, stage, state, work, worker, inbox, deaths>>

CleanFails ==
  /\ app.pc = "cleaning" /\ Goto("closed")
  /\ UNCHANGED <<layout, src, home, stage, state, work, dst, worker, inbox, deaths>>

Unstage ==
  /\ app.pc = "unstaging" /\ Goto("unworking") /\ stage' = NewStage
  /\ UNCHANGED <<layout, src, home, state, work, dst, worker, inbox, deaths>>

\* The worker's database is in the work directory only when the metadata is local.
Unwork ==
  /\ app.pc = "unworking" /\ Goto("unhoming") /\ work' = NewWork
  /\ state' = IF Local THEN NewState ELSE state
  /\ UNCHANGED <<layout, src, home, stage, dst, worker, inbox, deaths>>

\* The home is removed, and made again with the identity and the sentinel.
Rehome ==
  /\ app.pc = "unhoming" /\ app' = [app EXCEPT !.pc = "closed", !.half = FALSE]
  /\ home' = [NewHome EXCEPT !.meta = TRUE, !.sentinel = TRUE]
  /\ UNCHANGED <<layout, src, stage, state, work, dst, worker, inbox, deaths>>

--------------------------------------------------------------------------------
(* The worker: messages                                                         *)

Idle == worker.pc = "idle"
Staged == stage.backup.is # "none" /\ stage.meta

\* SQLite opens the file that there is, and takes an empty one for a new database; it
\* refuses one that is shorter than its header says.
Readable == stage.backup.is \in {"empty", "whole"}

\* find_stage_bootstrap_pair looks only where the layout names a stage directory; the
\* layouts of Logger::open_with do not, and their workers know what they are told.
Paired == layout.scans /\ Staged
Attempt(w) == [w EXCEPT !.pc = "mirror"]

\* Up to the loop: bootstrap_destination_metadata, the state database
WorkerStarts ==
  /\ worker.pc = "start"
  /\ worker' = IF worker.stopping THEN [worker EXCEPT !.pc = "exit"]
               ELSE [worker EXCEPT !.pc = "idle", !.boot = state.init]
  /\ UNCHANGED <<layout, src, home, stage, state, work, dst, inbox, app, deaths>>

\* Mutant of ReceiveUpdate: the new mode holds at once.
ReceiveUpdate_AtOnce ==
  /\ Idle /\ inbox # <<>> /\ Head(inbox).to = "update" /\ ~ worker.stopping
  /\ worker' = [worker EXCEPT !.mode = Head(inbox).mode]
  /\ inbox' = Tail(inbox)
  /\ UNCHANGED <<layout, src, home, stage, state, work, dst, app, deaths>>

\* A new configuration keeps the mode that the snapshot is to be copied in.
ReceiveUpdate ==
  /\ Idle /\ inbox # <<>> /\ Head(inbox).to = "update" /\ ~ worker.stopping
  /\ worker' = IF worker.boot THEN [worker EXCEPT !.mode = Head(inbox).mode]
               ELSE [worker EXCEPT !.later = Head(inbox).mode]
  /\ inbox' = Tail(inbox)
  /\ UNCHANGED <<layout, src, home, stage, state, work, dst, app, deaths>>

ReceiveBoot ==
  /\ Idle /\ inbox # <<>> /\ Head(inbox).to = "boot" /\ ~ worker.stopping
  /\ worker' = LET heard == [worker EXCEPT !.pending = TRUE]
               IN  IF home.paused THEN heard ELSE Attempt(heard)
  /\ inbox' = Tail(inbox)
  /\ UNCHANGED <<layout, src, home, stage, state, work, dst, app, deaths>>

\* The last chance of a snapshot that was staged and never looked at
ReceiveShutdown ==
  /\ Idle /\ inbox # <<>> /\ Head(inbox).to = "shutdown" /\ ~ worker.stopping
  /\ worker' = IF ~ worker.boot /\ Paired
               THEN LET last == [worker EXCEPT !.final = TRUE, !.pending = TRUE]
                    IN  IF home.paused THEN last ELSE Attempt(last)
               ELSE [worker EXCEPT !.pc = "exit"]
  /\ inbox' = Tail(inbox)
  /\ UNCHANGED <<layout, src, home, stage, state, work, dst, app, deaths>>

\* After a stop was asked for, or after the last chance
Leave ==
  /\ Idle /\ (worker.stopping \/ (worker.final /\ inbox = <<>>))
  /\ worker' = [worker EXCEPT !.pc = "exit"]
  /\ UNCHANGED <<layout, src, home, stage, state, work, dst, inbox, app, deaths>>

\* Mutant of Tick: an attempt that failed is not made again.
Tick_Once ==
  /\ Idle /\ inbox = <<>> /\ ~ worker.stopping /\ ~ worker.final
  /\ ~ worker.boot /\ ~ home.paused /\ ~ worker.pending /\ Paired
  /\ worker' = Attempt([worker EXCEPT !.pending = TRUE])
  /\ UNCHANGED <<layout, src, home, stage, state, work, dst, inbox, app, deaths>>

\* A poll of the stage directory, with nothing in the channel
Tick ==
  /\ Idle /\ inbox = <<>> /\ ~ worker.stopping /\ ~ worker.final
  /\ ~ worker.boot /\ ~ home.paused /\ (worker.pending \/ Paired)
  /\ worker' = Attempt([worker EXCEPT !.pending = TRUE])
  /\ UNCHANGED <<layout, src, home, stage, state, work, dst, inbox, app, deaths>>

\* Mutant of WorkerExits: the next worker would take over what this one knew.
WorkerExits_Kept ==
  /\ worker.pc = "exit" /\ worker' = [worker EXCEPT !.pc = "off"] /\ inbox' = <<>>
  /\ UNCHANGED <<layout, src, home, stage, state, work, dst, app, deaths>>

WorkerExits ==
  /\ worker.pc = "exit" /\ worker' = Off /\ inbox' = <<>>
  /\ UNCHANGED <<layout, src, home, stage, state, work, dst, app, deaths>>

--------------------------------------------------------------------------------
(* The worker: bootstrap                                                        *)

ToLoop(w) == [w EXCEPT !.pc = "idle"]

\* The replica is copied when there is none; a device that was initialized needs no more.
Mirror ==
  /\ worker.pc = "mirror" /\ Staged
  /\ work' = IF work.replica = "none" THEN [work EXCEPT !.replica = stage.backup.is] ELSE work
  /\ worker' = IF worker.boot THEN ToLoop(worker)
               ELSE [worker EXCEPT !.pc = IF Local THEN "mark" ELSE "seed"]
  /\ UNCHANGED <<layout, src, home, stage, state, dst, inbox, app, deaths>>

MarkInitializing ==
  /\ worker.pc = "mark" /\ Readable /\ worker' = [worker EXCEPT !.pc = "seed"]
  /\ work' = IF HasTable(stage.backup) /\ work.table # "INITIALIZED"
             THEN [work EXCEPT !.table = "INITIALIZING"] ELSE work
  /\ UNCHANGED <<layout, src, home, stage, state, dst, inbox, app, deaths>>

\* apply_bootstrap_snapshot, from whatever file is the backup in the stage directory
Seed ==
  /\ worker.pc = "seed" /\ Readable
  /\ dst' = Initialized(layout, worker.mode, SeededApart(layout, dst), stage.backup)
  /\ worker' = [worker EXCEPT !.pc = "record"]
  /\ UNCHANGED <<layout, src, home, stage, state, work, inbox, app, deaths>>

\* The error of a transaction that was rolled back, or that was committed and whose
\* answer was lost
SeedFails ==
  /\ worker.pc = "seed" /\ worker' = ToLoop(worker)
  /\ \/ dst' = SeededApart(layout, dst)
     \/ /\ Readable
        /\ dst' = Initialized(layout, worker.mode, SeededApart(layout, dst), stage.backup)
  /\ UNCHANGED <<layout, src, home, stage, state, work, inbox, app, deaths>>

\* record_initial_table_schemas and record_initial_table_stats, of local metadata
Record ==
  /\ worker.pc = "record" /\ worker' = [worker EXCEPT !.pc = "complete"]
  /\ work' = IF Local /\ HasTable(stage.backup) THEN [work EXCEPT !.table = "INITIALIZED"]
             ELSE work
  /\ UNCHANGED <<layout, src, home, stage, state, dst, inbox, app, deaths>>

\* Mutant of Complete: the property is left to a later start.
Complete_Later ==
  /\ worker.pc = "complete" /\ worker' = [worker EXCEPT !.pc = "publish"]
  /\ UNCHANGED <<layout, src, home, stage, state, work, dst, inbox, app, deaths>>

\* mark_initialization_complete, where the properties of the device are kept
Complete ==
  /\ worker.pc = "complete" /\ worker' = [worker EXCEPT !.pc = "publish"]
  /\ work' = IF Local THEN [work EXCEPT !.complete = TRUE] ELSE work
  /\ dst' = IF Local THEN dst ELSE [dst EXCEPT !.complete = TRUE]
  /\ UNCHANGED <<layout, src, home, stage, state, inbox, app, deaths>>

\* initialize_from_backup; the mode that was asked for meanwhile holds from now on
Publish ==
  /\ worker.pc = "publish" /\ state' = [state EXCEPT !.init = TRUE]
  /\ worker' = [ToLoop(worker) EXCEPT !.boot = TRUE, !.pending = FALSE, !.later = "none",
                                      !.mode = IF worker.later = "none" THEN @ ELSE worker.later]
  /\ UNCHANGED <<layout, src, home, stage, work, dst, inbox, app, deaths>>

BootstrapFails ==
  /\ worker.pc \in {"mirror", "mark", "record", "complete", "publish"}
  /\ worker' = ToLoop(worker)
  /\ UNCHANGED <<layout, src, home, stage, state, work, dst, inbox, app, deaths>>

--------------------------------------------------------------------------------
(* The worker: segments                                                         *)

\* process_stage_path_ready drops what was cleaned, and skips what is applied: by the
\* checkpoint of the destination, or by the mark on the work copy.
Handled(n) ==
  \/ n < state.cleaned
  \/ IF Local /\ layout.device = "store" THEN n < work.next ELSE Covers(dst, n)

Unhandled == {n \in 0 .. Len(stage.segs) - 1 : ~ Handled(n)}

\* The changes of a SQL device are read off a replica.  A replica and a destination that
\* the snapshot left without the table get it from a segment that creates it; until one
\* does, applying fails, and the step is not taken.
Apply ==
  /\ worker.pc \in {"idle", "exit"} /\ worker.boot /\ ~ home.paused
  /\ layout.device = "sql" => work.replica \in {"empty", "whole"}
  /\ \E n \in Unhandled :
       /\ \A o \in Unhandled : n <= o
       /\ dst' = SegmentApplied(layout, dst, n, stage.segs[n + 1])
       /\ work' = [work EXCEPT !.next = n + 1]
       /\ state' = [state EXCEPT !.cleaned = IF n > @ THEN n ELSE @]
  /\ UNCHANGED <<layout, src, home, stage, worker, inbox, app, deaths>>

--------------------------------------------------------------------------------
(* The process                                                                  *)

\* What a copy that the process did not see the end of leaves: fs::copy makes the file
\* and then fills it, and nobody copies again to a name that exists.
CutShort(file) == IF file = "empty" THEN {"empty"} ELSE {"empty", "torn", file}

\* The process ends, in the middle of a copy perhaps.  Between the removal of the home
\* and the return of the identity it does not: the device would be another one.
Die ==
  /\ deaths < layout.deaths /\ deaths' = deaths + 1
  /\ app' = [app EXCEPT !.pc = "closed"] /\ worker' = Off /\ inbox' = <<>>
  /\ \/ stage' = stage
     \/ /\ app.pc = "stage" /\ stage.backup.is = "none"
        /\ \E copy \in CutShort(home.backup.is) :
             stage' = [stage EXCEPT !.backup = IF copy = "empty" THEN EmptyFile
                                               ELSE [home.backup EXCEPT !.is = copy]]
  /\ \/ work' = work
     \/ /\ worker.pc = "mirror" /\ Staged /\ work.replica = "none"
        /\ \E copy \in CutShort(stage.backup.is) : work' = [work EXCEPT !.replica = copy]
  /\ UNCHANGED <<layout, src, home, state, dst>>

\* The worker's database of a destination-side layout is in a temporary directory, and
\* a reboot may leave that empty.
LoseTemp ==
  /\ ~ Local /\ worker.pc = "off" /\ app.pc = "closed" /\ deaths < layout.deaths
  /\ deaths' = deaths + 1 /\ state' = NewState
  /\ UNCHANGED <<layout, src, home, stage, work, dst, worker, inbox, app>>

--------------------------------------------------------------------------------

WorkerNext ==
  \/ WorkerStarts \/ ReceiveUpdate \/ ReceiveBoot \/ ReceiveShutdown
  \/ Leave \/ Tick \/ WorkerExits
  \/ Mirror \/ MarkInitializing \/ Seed \/ SeedFails \/ Record \/ Complete
  \/ Publish \/ BootstrapFails \/ Apply

AppNext ==
  \/ Initialize \/ Connect \/ TakeBackup \/ StageBackup \/ Spawn
  \/ Commit \/ Close \/ PauseSync \/ ResumeSync
  \/ ReinitStart \/ ReinitStopped \/ ReinitGivesUp
  \/ CleanDestination \/ CleanFails \/ Unstage \/ Unwork \/ Rehome

Next == WorkerNext \/ AppNext \/ Die \/ LoseTemp

Spec == Init /\ [][Next]_vars

\* The worker is a thread of its own; what it tries again and again works in the end.
Fairness ==
  /\ WF_vars(WorkerStarts \/ ReceiveUpdate \/ ReceiveBoot \/ ReceiveShutdown
               \/ Leave \/ Tick \/ WorkerExits)
  /\ WF_vars(BootstrapFails \/ SeedFails)
  /\ SF_vars(Mirror) /\ SF_vars(MarkInitializing) /\ SF_vars(Seed)
  /\ SF_vars(Record) /\ SF_vars(Complete) /\ SF_vars(Publish)

LiveSpec == Spec /\ Fairness

--------------------------------------------------------------------------------
(* Properties                                                                   *)

Statuses == {"none", "INITIALIZING", "INITIALIZED"}
Copies == {"none", "empty", "torn", "whole"}

TypeOK ==
  /\ src.rows \subseteq Rows /\ src.commit \in 0 .. Cardinality(Rows)
  /\ home.backup.rows \subseteq src.rows /\ home.backup.is \in {"none", "whole"}
  /\ stage.backup.rows \subseteq src.rows /\ stage.backup.is \in Copies
  /\ state.init \in BOOLEAN /\ state.cleaned \in 0 .. Cardinality(Rows)
  /\ work.replica \in Copies /\ work.table \in Statuses
  /\ dst.table \in Statuses /\ dst.ckpt.upto \in 0 .. Cardinality(Rows)
  /\ Len(inbox) <= MaxInbox + layout.reinits
  /\ worker.boot => worker.pc # "off"

\* The worker has heard all there is to hear, and has nothing to do.
Settled ==
  /\ worker.pc = "idle" /\ worker.boot /\ inbox = <<>> /\ Unhandled = {}
  /\ app.pc \in {"closed", "session"} /\ ~ app.half

\* SourceSeeded: when nothing is left to apply, no row of the source is missing at the
\* destination.  It is so unless the process ends while it copies the backup into the
\* stage directory (backup.rs): a file without a byte may be left there, which no later
\* open replaces, and the worker seeds the destination from it and publishes the device.
SourceSeeded == Settled => \A r \in src.rows : dst.rows[r] >= 1

\* RowsOnce: when nothing is left to apply, and the copy of the backup that the worker
\* was given is whole, the destination has each row of the backup and of the segments
\* since, once, and no other row of the device: whatever the order of opens, retries,
\* deaths and reinitializations (reinitialize.rs: "so the re-seed never duplicates
\* data"; snapshot.rs: a retry is a no-op).  From an empty copy the code seeds nothing:
\* see SourceSeeded.
RowsOnce ==
  Settled /\ stage.backup.is = "whole" =>
    LET sent == stage.backup.rows \union {stage.segs[i].row : i \in DOMAIN stage.segs}
    IN  \A r \in Rows : dst.rows[r] = IF r \in sent THEN 1 ELSE 0

\* OthersKept: seeding or seeding again leaves the rows of another device alone.
OthersKept == layout.mode = "consolidation" => dst.others = 1

\* SeededOnce: however often a device with a whole backup in the stage directory is
\* opened, interrupted and seeded again, the destination table is as if it had been
\* seeded once; the rows of another device are untouched whatever the backup.
SeededOnce == RowsOnce /\ OthersKept

\* NoRewind: while the destination knows the device, its checkpoint never goes back, and
\* never over a segment that was not applied.
NoRewind ==
  [][dst.ckpt.there /\ dst'.ckpt.there =>
       /\ dst'.ckpt.commit >= dst.ckpt.commit
       /\ dst'.ckpt.upto \in {dst.ckpt.upto, dst.ckpt.upto + 1}]_vars

\* PublishedIsBacked: a worker that takes the device to be initialized finds the snapshot
\* at the destination, with its marker, the properties of each table that the backup
\* has and the property that it is complete: these are written apart, and the first of
\* them that fails stops the rest.
PublishedIsBacked ==
  state.init /\ ~ app.half =>
    /\ dst.ckpt.init /\ dst.marker # {}
    /\ IF Local THEN work.complete ELSE dst.complete
    /\ HasTable(stage.backup) => /\ dst.table = "INITIALIZED"
                                 /\ Local => work.table = "INITIALIZED"

\* EventuallySeeded: a worker that is not paused or stopped copies a staged snapshot
\* that SQLite can open, however often an attempt fails.
EventuallySeeded ==
  (worker.pc = "idle" /\ Staged /\ Readable)
    ~> (worker.boot \/ worker.pc = "off" \/ home.paused)
================================================================================
