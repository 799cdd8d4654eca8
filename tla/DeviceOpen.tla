------------------------------- MODULE DeviceOpen -------------------------------
(***************************************************************************)
(* Opening and closing a device (crates/synclite/src/lib.rs, open_with and *)
(* close): the lock, the identity, the worker of every destination, the    *)
(* configuration that later opens and the status functions read back, and  *)
(* the commit id a waiter compares with.  Several threads open the device; *)
(* each step below is one the others, or the end of the process, can come  *)
(* between.                                                                *)
(***************************************************************************)
EXTENDS WorkerRegistry

CONSTANTS Openers,     \* threads that open the device
          Layouts      \* engine, front end, configurations, what may befall

Nobody == "nobody"

ASSUME OpenAssumption ==
  /\ Nobody \notin Openers
  /\ \A l \in Layouts : l.keys \subseteq Setting /\ l.commits \in Nat

VARIABLES layout, lock, meta, db, tracker, cell, ses, deaths

openVars == <<layout, lock, meta, db, tracker, cell, ses, deaths>>

Closed == [pc |-> "closed", kind |-> "none", type |-> "none", keys |-> NoSettings, left |-> {}, made |-> {},
           before |-> {}, cell |-> Nobody]
NewMeta == [type |-> "none", keys |-> NoSettings, marker |-> FALSE, inits |-> 0, opens |-> 0]

OpenInit ==
  /\ layout \in Layouts
  /\ lock = Nobody /\ meta = NewMeta
  /\ db = [commit |-> 0, told |-> 0]       \* committed; of those, returned to the caller
  /\ tracker = Nobody /\ cell = [o \in Openers |-> 0]
  /\ ses = [o \in Openers |-> Closed] /\ deaths = 0

To(o, pc) == ses' = [ses EXCEPT ![o].pc = pc]
Conf(o) == Configured(ses[o].keys)      \* what o opens the device with
MetaConf == Configured(meta.keys)       \* what the metadata say
RunningSet == {d \in Dests : Running(d)}

--------------------------------------------------------------------------------
(* Opening.  Every early return drops what was opened before it.               *)

Request(o, kind, type, keys) ==
  ses' = [ses EXCEPT ![o] = [Closed EXCEPT !.pc = "requested", !.kind = kind, !.type = type,
                                           !.keys = Hydrated(keys, meta.keys)]]

RequestInitialize(o) ==
  /\ layout.front = "rust" /\ o \in layout.openers /\ ses[o].pc = "closed" /\ meta.inits < layout.inits
  /\ \E keys \in layout.keys, type \in layout.types : Request(o, "initialize", type, keys)
  /\ meta' = [meta EXCEPT !.inits = @ + 1]
  /\ UNCHANGED <<layout, lock, db, tracker, cell, deaths, registryVars>>

\* Connection::open.  Both read the configuration back before they have the lock.
RequestOpen(o) ==
  /\ layout.front = "rust" /\ o \in layout.openers /\ ses[o].pc = "closed"
  /\ meta.type # "none" /\ meta.opens < layout.opens
  /\ Request(o, "open", meta.type, NoSettings)
  /\ meta' = [meta EXCEPT !.opens = @ + 1]
  /\ UNCHANGED <<layout, lock, db, tracker, cell, deaths, registryVars>>

\* Calls of initialize wait for each other, from here to the end of their close.
Initializing(o) == ses[o].kind = "initialize" /\ ses[o].pc \notin {"closed", "requested"}

TryLock(o) ==
  /\ ses[o].pc = "requested"
  /\ ses[o].kind = "initialize" => \A p \in Openers : ~Initializing(p)
  /\ IF lock = Nobody THEN lock' = o /\ To(o, "locked")
     ELSE UNCHANGED lock /\ ses' = [ses EXCEPT ![o] = Closed]
  /\ UNCHANGED <<layout, meta, db, tracker, cell, deaths, registryVars>>

Release(o) == lock' = Nobody /\ ses' = [ses EXCEPT ![o] = Closed]

\* The type is fixed when the device is first opened.
Identify(o) ==
  /\ ses[o].pc = "locked"
  /\ IF meta.type \in {"none", ses[o].type}
     THEN /\ meta' = [meta EXCEPT !.type = ses[o].type] /\ UNCHANGED lock
          /\ ses' = [ses EXCEPT ![o].pc = IF Conf(o) = NoConfig THEN "device" ELSE "spawn",
                                ![o].left = DOMAIN Conf(o), ![o].before = RunningSet]
     ELSE Release(o) /\ UNCHANGED meta
  /\ UNCHANGED <<layout, db, tracker, cell, deaths, registryVars>>

Next1(D) == CHOOSE d \in D : \A e \in D : d <= e

\* One destination after the other
SpawnWorker(o) ==
  /\ ses[o].pc = "spawn" /\ ses[o].left # {}
  /\ LET d == Next1(ses[o].left) IN
       /\ CanSpawn(d, Conf(o)) /\ Spawned(d, Conf(o))
       /\ ses' = [ses EXCEPT ![o].left = @ \ {d},
                             ![o].made = IF Created(d) THEN @ \union {d} ELSE @]
  /\ UNCHANGED <<layout, lock, meta, db, tracker, cell, deaths, ckpt, staged>>

\* A bug: stops the workers it has found running, too
SpawnFails_All(o) ==
  /\ ses[o].pc = "spawn" /\ ses[o].left # {}
  /\ LET d == Next1(ses[o].left) IN ~CanSpawn(d, Conf(o)) \/ layout.failing
  /\ worker' = Stopping(DOMAIN Conf(o)) /\ To(o, "failed")
  /\ UNCHANGED <<layout, lock, meta, db, tracker, cell, deaths, ckpt, staged>>

\* ConsolidatorStartupGuard stops the workers this call has created; the lock is held.
SpawnFails(o) ==
  /\ ses[o].pc = "spawn" /\ ses[o].left # {}
  /\ LET d == Next1(ses[o].left) IN ~CanSpawn(d, Conf(o)) \/ layout.failing
  /\ worker' = Stopping(ses[o].made) /\ To(o, "failed")
  /\ UNCHANGED <<layout, lock, meta, db, tracker, cell, deaths, ckpt, staged>>

GiveUp(o) ==
  /\ ses[o].pc = "failed" /\ Release(o)
  /\ UNCHANGED <<layout, meta, db, tracker, cell, deaths, registryVars>>

\* One transaction replaces the destinations of the call before.
PersistConfig(o) ==
  /\ ses[o].pc = "spawn" /\ ses[o].left = {}
  /\ meta' = [meta EXCEPT !.keys = ses[o].keys, !.marker = TRUE] /\ To(o, "device")
  /\ UNCHANGED <<layout, lock, db, tracker, cell, deaths, registryVars>>

\* When the device does not open, the configuration and the workers stay.
OpenDevice(o) ==
  /\ ses[o].pc = "device"
  /\ \/ To(o, "notify") /\ UNCHANGED lock
     \/ layout.failing /\ Release(o)
  /\ UNCHANGED <<layout, meta, db, tracker, cell, deaths, registryVars>>

\* A bug: those found running are taken to know
NotifyWorkers_Created(o) ==
  /\ ses[o].pc = "notify" /\ To(o, "register")
  /\ worker' = Notified(ses[o].made)
  /\ UNCHANGED <<layout, lock, meta, db, tracker, cell, deaths, ckpt, staged>>

NotifyWorkers(o) ==
  /\ ses[o].pc = "notify" /\ To(o, "register")
  /\ worker' = Notified(DOMAIN Conf(o))
  /\ UNCHANGED <<layout, lock, meta, db, tracker, cell, deaths, ckpt, staged>>

\* An entry that is there already is shared.
RegisterTracker(o) ==
  /\ ses[o].pc = "register"
  /\ IF tracker = Nobody
     THEN /\ tracker' = o /\ cell' = [cell EXCEPT ![o] = 0]
          /\ ses' = [ses EXCEPT ![o].pc = "seed", ![o].cell = o]
     ELSE /\ ses' = [ses EXCEPT ![o].pc = "seed", ![o].cell = tracker]
          /\ UNCHANGED <<tracker, cell>>
  /\ UNCHANGED <<layout, lock, meta, db, deaths, registryVars>>

SeedTracker(o) ==
  /\ ses[o].pc = "seed" /\ To(o, "open")
  /\ cell' = [cell EXCEPT ![ses[o].cell] = IF @ < db.commit THEN db.commit ELSE @]
  /\ UNCHANGED <<layout, lock, meta, db, tracker, deaths, registryVars>>

--------------------------------------------------------------------------------
(* The session                                                                 *)

\* The database has the commit before the tracker does.
CommitDevice(o) ==
  /\ ses[o].pc = "open" /\ ses[o].kind = "open" /\ db.commit < layout.commits
  /\ db' = [db EXCEPT !.commit = @ + 1] /\ To(o, "publish")
  /\ UNCHANGED <<layout, lock, meta, tracker, cell, deaths, registryVars>>

PublishCommit(o) ==
  /\ ses[o].pc = "publish" /\ To(o, "open")
  /\ cell' = [cell EXCEPT ![ses[o].cell] = db.commit]
  /\ db' = [db EXCEPT !.told = db.commit]
  /\ UNCHANGED <<layout, lock, meta, tracker, deaths, registryVars>>

\* The segment is rolled and moved.
Roll(o) ==
  /\ ses[o].pc = "open" /\ staged < db.commit
  /\ staged' = db.commit
  /\ UNCHANGED <<openVars, worker, ckpt>>

\* A bug: the last segment stays at home
CloseDevice_Unstaged(o) ==
  /\ ses[o].pc = "open" /\ To(o, "unlock")
  /\ UNCHANGED <<layout, lock, meta, db, tracker, cell, deaths, registryVars>>

CloseDevice(o) ==
  /\ ses[o].pc = "open" /\ staged' = db.commit /\ To(o, "unlock")
  /\ UNCHANGED <<layout, lock, meta, db, tracker, cell, deaths, worker, ckpt>>

Unlock(o) ==
  /\ ses[o].pc = "unlock" /\ lock' = Nobody /\ To(o, "unregister")
  /\ UNCHANGED <<layout, meta, db, tracker, cell, deaths, registryVars>>

\* Whoever's entry it is by now
UnregisterTracker(o) ==
  /\ ses[o].pc = "unregister" /\ tracker' = Nobody /\ ses' = [ses EXCEPT ![o] = Closed]
  /\ UNCHANGED <<layout, lock, meta, db, cell, deaths, registryVars>>

Restarted ==
  /\ lock' = Nobody /\ tracker' = Nobody /\ cell' = [o \in Openers |-> 0]
  /\ ses' = [o \in Openers |-> Closed] /\ worker' = [d \in Dests |-> NoWorker]

\* What was not staged is staged after the restart.
Die ==
  /\ deaths < layout.deaths /\ deaths' = deaths + 1
  /\ Restarted /\ UNCHANGED <<layout, meta, db, ckpt, staged>>

OpenSteps(o) ==
  \/ TryLock(o) \/ Identify(o) \/ SpawnWorker(o) \/ SpawnFails(o) \/ GiveUp(o)
  \/ OpenDevice(o) \/ NotifyWorkers(o) \/ RegisterTracker(o) \/ SeedTracker(o)
CloseSteps(o) == CloseDevice(o) \/ Unlock(o) \/ UnregisterTracker(o)

--------------------------------------------------------------------------------

OpeningPcs == {"requested", "locked", "spawn", "failed", "device", "notify", "register", "seed"}

\* An open that fails leaves the workers of earlier opens running, and none of its own:
\* ConsolidatorStartupGuard.
FailedOpenUndone ==
  \A o \in Openers : ses[o].pc = "failed" => RunningSet = ses[o].before

\* The destinations that the metadata names are the ones somebody works for, unless the
\* process has just started: a waiter waits for the destinations of the metadata, so one
\* that no worker serves would hold it up for ever.
ConfiguredIsServed ==
  (layout.front = "rust" /\ deaths = 0) =>
     \A d \in DOMAIN MetaConf : Running(d) /\ worker[d].conf[d] = MetaConf[d]

\* While a session is open its own destinations have workers, and they were told of the
\* backup: no failed open, close or replaced configuration of another thread ends one.
SessionIsServed ==
  \A o \in Openers : ses[o].pc \in {"register", "seed", "open", "publish", "unlock"} =>
     /\ lock = o
     /\ \A d \in DOMAIN Conf(o) :
          Running(d) /\ worker[d].boot /\ worker[d].conf[d] = Conf(o)[d]

\* Every destination that a waiter or a session counts on has a worker.
DestinationsServed == ConfiguredIsServed /\ SessionIsServed
================================================================================
