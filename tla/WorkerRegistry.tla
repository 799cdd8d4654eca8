----------------------------- MODULE WorkerRegistry -----------------------------
(***************************************************************************)
(* The consolidator workers of one process (crates/consolidator/runtime):  *)
(* at most one for each destination of a device, shared by everyone who    *)
(* opens the device, outliving them, and stopped only when somebody says   *)
(* so.  What a worker does with a segment is in Consolidator; here it only *)
(* moves the checkpoint of its destination over what has been staged.      *)
(***************************************************************************)
EXTENDS Settings

VARIABLES worker,      \* of each destination: its worker
          ckpt,        \* the checkpoint in a place, of each destination; Unseeded
          staged       \* how many commits are in stage

registryVars == <<worker, ckpt, staged>>

Unseeded == -1
NoWorker == [pc |-> "off", conf |-> NoConfig, boot |-> FALSE]

RegistryInit ==
  /\ worker = [d \in Dests |-> NoWorker]
  /\ ckpt = [d \in Dests |-> [p \in Places |-> Unseeded]]
  /\ staged = 0

Running(d) == worker[d].pc = "run"

\* spawn_or_reuse: a worker that is stopping is an error, and so is one of another
\* configuration: its database, or the numbers of all destinations, on which the
\* directory of its work depends.
SameWork(d, conf) == worker[d].conf[d] = conf[d] /\ DOMAIN worker[d].conf = DOMAIN conf
CanSpawn(d, conf) == worker[d].pc = "off" \/ (Running(d) /\ SameWork(d, conf))
Created(d) == worker[d].pc = "off"
Spawned(d, conf) ==
  worker' = [worker EXCEPT ![d] = IF Created(d) THEN [pc |-> "run", conf |-> conf, boot |-> FALSE] ELSE @]

Stopping(D) == [d \in Dests |-> IF d \in D /\ Running(d) THEN [worker[d] EXCEPT !.pc = "stop"]
                                ELSE worker[d]]
Notified(D) == [d \in Dests |-> [worker[d] EXCEPT !.boot = @ \/ d \in D]]

Checkpoint(d) == ckpt[d][worker[d].conf[d]]

\* Bootstrap, or a checkpoint that an earlier worker has left
SeedCheckpoint(d) ==
  /\ Running(d) /\ worker[d].boot /\ Checkpoint(d) = Unseeded
  /\ ckpt' = [ckpt EXCEPT ![d][worker[d].conf[d]] = 0]
  /\ UNCHANGED <<worker, staged>>

\* A bug: one more than is staged
ApplyNext_PastEnd(d) ==
  /\ worker[d].pc # "off" /\ worker[d].boot /\ Checkpoint(d) \in 0..staged
  /\ ckpt' = [ckpt EXCEPT ![d][worker[d].conf[d]] = @ + 1]
  /\ UNCHANGED <<worker, staged>>

\* A worker that is to stop works off what is queued.
ApplyNext(d) ==
  /\ worker[d].pc # "off" /\ worker[d].boot /\ Checkpoint(d) \in 0..(staged - 1)
  /\ ckpt' = [ckpt EXCEPT ![d][worker[d].conf[d]] = @ + 1]
  /\ UNCHANGED <<worker, staged>>

WorkerStops(d) ==
  /\ worker[d].pc = "stop" /\ worker' = [worker EXCEPT ![d] = NoWorker]
  /\ UNCHANGED <<ckpt, staged>>
================================================================================
