------------------------------ MODULE MCLifecycle ------------------------------
(***************************************************************************)
(* Layouts for the runs of DeviceLifecycle: where the metadata is kept,    *)
(* the kind of device and of destination, and what befalls the device.     *)
(***************************************************************************)
EXTENDS DeviceLifecycle

Base ==
  [store |-> "local", mode |-> "replication", init |-> "TRY_CREATE_APPEND_DATA",
   backend |-> "sqlite", engine |-> "sqlite", device |-> "store", keyed |-> FALSE, scans |-> FALSE,
   before |-> {}, pausing |-> FALSE, deaths |-> 0, reinits |-> 0]

\* Seeded a second time, in the life of one process
Again == [Base EXCEPT !.reinits = 1]
AgainShared == [Again EXCEPT !.mode = "consolidation", !.device = "sql"]
AgainDuck == [Again EXCEPT !.scans = TRUE, !.engine = "duckdb", !.backend = "duckdb", !.before = {1}]

\* Interrupted
Dying == [Base EXCEPT !.deaths = 2, !.device = "sql", !.before = {1}]
DyingPg == [Base EXCEPT !.deaths = 2, !.backend = "postgres", !.mode = "consolidation",
                        !.init = "TRY_CREATE_DELETE_DATA", !.before = {1}]
DyingRemote == [Dying EXCEPT !.store = "destination", !.backend = "duckdb", !.engine = "duckdb",
                             !.device = "store", !.mode = "consolidation", !.before = {1}]
Paused == [Base EXCEPT !.scans = TRUE, !.pausing = TRUE, !.store = "destination", !.deaths = 1, !.keyed = TRUE]

MCLayouts == {Again, AgainShared, AgainDuck, Dying, DyingPg, DyingRemote, Paused}

\* Metadata kept at the destination, which is the default, and a device seeded again
RemoteAgain == {[Again EXCEPT !.store = "destination"]}

\* The process ends while it copies a backup with a row in it to the stage directory.
CutShortOnce == {[Base EXCEPT !.deaths = 1, !.before = {1}]}

\* The process ends between the sentinel and the snapshot.
InterruptedAgain == {[Again EXCEPT !.deaths = 1]}
================================================================================
