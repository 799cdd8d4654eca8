-------------------------------- MODULE AwaitSync --------------------------------
(***************************************************************************)
(* Waiting until the destinations have what was committed: await_sync,     *)
(* await_applied_commit and the wait of the Java front end                 *)
(* (crates/synclite/src/lib.rs, status.rs), by threads that poll while     *)
(* others open, configure, commit to and close the device.  A poll reads   *)
(* one thing after the other: the commit id to wait for, the               *)
(* configuration, and the checkpoint of each destination.                  *)
(***************************************************************************)
EXTENDS DestinationRegistry

CONSTANT Waiters       \* threads that wait

ASSUME WaitAssumption == \A l \in Layouts : l.timed \subseteq BOOLEAN

VARIABLE wait          \* of each waiter: where it is, and what it has read

vars == <<openVars, registryVars, javaVars, wait>>

NotWaiting ==
  [pc |-> "idle", kind |-> "none", target |-> 0, conf |-> NoConfig, left |-> {}, least |-> -1,
   timed |-> FALSE, calls |-> 0, failed |-> 0,
   due |-> 0, all |-> NoConfig]  \* history: what it has to wait for, and where

Init == OpenInit /\ RegistryInit /\ JavaInit /\ wait = [w \in Waiters |-> NotWaiting]

Unmoved == UNCHANGED <<openVars, registryVars, javaVars>>
Move(w, pc) == wait' = [wait EXCEPT ![w].pc = pc]

JavaConfig == [d \in DOMAIN registry.active.toks |-> DefaultPlace]
SyncConfigured == MetaConf # NoConfig \/ meta.marker

\* A commit id read back from the database of a device that is closed: status.rs opens
\* it with SQLite whatever it is, and takes a failure for nothing committed.
ReadSourceCommitId == IF layout.engine = "duckdb" THEN 0 ELSE db.commit

Called(w, kind, target, conf, pc) ==
  \E timed \in layout.timed :
    wait' = [wait EXCEPT ![w] = [NotWaiting EXCEPT
               !.pc = pc, !.kind = kind, !.target = target, !.conf = conf, !.left = DOMAIN conf,
               !.timed = timed, !.calls = wait[w].calls + 1, !.due = IF kind = "sync" THEN db.told ELSE target,
               !.all = conf]]

MayCall(w) == wait[w].pc = "idle" /\ wait[w].calls < layout.waits

\* layout.alone: nobody opens the device while await_sync is called or running.
NobodyOpens == layout.alone => \A o \in Openers : ses[o].pc \notin OpeningPcs
NobodySyncs == layout.alone => \A w \in Waiters : wait[w].kind # "sync"

\* await_sync; without destinations, there is nothing to wait for.
CallAwaitSync(w) ==
  /\ MayCall(w) /\ "sync" \in layout.kinds /\ meta.type # "none" /\ NobodyOpens
  /\ Called(w, "sync", 0, MetaConf, IF SyncConfigured THEN "tracker" ELSE "ok")
  /\ Unmoved

\* await_applied_commit, for a commit the caller has seen
CallAwaitApplied(w) ==
  /\ MayCall(w) /\ "target" \in layout.kinds /\ meta.type # "none" /\ db.told > 0
  /\ Called(w, "target", db.told, MetaConf, IF SyncConfigured THEN "conf" ELSE "ok")
  /\ Unmoved

\* nativeAwaitAppliedCommit: no set, or one being built, is an error.
CallJavaAwait(w) ==
  /\ MayCall(w) /\ Front /\ db.told > 0
  /\ LET refused == registry.pending.gen # 0 \/ registry.active.gen = 0 IN
     Called(w, "java", db.told, JavaConfig, IF refused THEN "error" ELSE "read")
  /\ Unmoved

\* The tracker of the live logger, or, if there is none, the database
ReadTracker(w) ==
  /\ wait[w].pc = "tracker"
  /\ IF tracker = Nobody THEN Move(w, "source")
     ELSE wait' = [wait EXCEPT ![w].target = cell[tracker],
                               ![w].pc = IF cell[tracker] = 0 THEN "ok" ELSE "conf"]
  /\ Unmoved

ReadSource(w) ==
  /\ wait[w].pc = "source"
  /\ wait' = [wait EXCEPT ![w].target = ReadSourceCommitId,
                          ![w].pc = IF ReadSourceCommitId = 0 THEN "ok" ELSE "conf"]
  /\ Unmoved

\* read_applied_commit_id_before: the configuration is read again for every poll.
ReadConfig(w) ==
  /\ wait[w].pc = "conf"
  /\ wait' = [wait EXCEPT ![w].conf = MetaConf, ![w].left = DOMAIN MetaConf, ![w].least = -1,
                          ![w].pc = IF MetaConf = NoConfig THEN "decide" ELSE "read"]
  /\ Unmoved

\* A bug: the last one read
Least_Last(w, value) == value

Least(w, value) == IF wait[w].least = -1 THEN value ELSE IF value < wait[w].least THEN value ELSE wait[w].least

\* The least of the checkpoints; one that cannot be read ends the poll.
ReadCheckpoint(w) ==
  /\ wait[w].pc = "read"
  /\ LET d == Next1(wait[w].left)  value == ckpt[d][wait[w].conf[d]]  left == wait[w].left \ {d} IN
     wait' = [wait EXCEPT ![w].left = left,
                ![w].least = IF value = Unseeded THEN -1 ELSE Least(w, value),
                ![w].pc = IF value = Unseeded \/ left = {} THEN "decide" ELSE "read"]
  /\ Unmoved

Unreachable(w) ==
  /\ wait[w].pc = "read" /\ wait[w].failed < layout.flaky
  /\ wait' = [wait EXCEPT ![w].least = -1, ![w].pc = "decide", ![w].failed = @ + 1]
  /\ Unmoved

Caught(w) == wait[w].least >= wait[w].target

\* Java keeps asking the set it was given.
Poll(w) ==
  /\ wait[w].pc = "decide" /\ ~Caught(w)
  /\ wait' = [wait EXCEPT ![w].pc = CASE wait[w].kind = "sync" -> "tracker"
                                      [] wait[w].kind = "target" -> "conf"
                                      [] OTHER -> "read",
                          ![w].left = DOMAIN wait[w].conf, ![w].least = -1]
  /\ Unmoved

Decide(w) == wait[w].pc = "decide" /\ Caught(w) /\ Move(w, "ok") /\ Unmoved

TimeOut(w) == wait[w].pc = "decide" /\ ~Caught(w) /\ wait[w].timed /\ Move(w, "error") /\ Unmoved

Return(w) ==
  /\ wait[w].pc \in {"ok", "error"}
  /\ wait' = [wait EXCEPT ![w] = [NotWaiting EXCEPT !.calls = wait[w].calls]]
  /\ Unmoved

PollSteps(w) ==
  \/ ReadTracker(w) \/ ReadSource(w) \/ ReadConfig(w) \/ ReadCheckpoint(w) \/ Poll(w) \/ Decide(w)
  \/ Return(w)

--------------------------------------------------------------------------------
(* The composition                                                             *)

Still == UNCHANGED <<javaVars, wait>>

\* What is configured anew is no longer what the waiters were promised.
Promised(conf) ==
  wait' = [w \in Waiters |-> [wait[w] EXCEPT !.all =
             Restrict(@, {d \in DOMAIN @ : d \in DOMAIN conf /\ conf[d] = @[d]})]]

Opening ==
  \/ \E o \in Openers : NobodySyncs /\ RequestInitialize(o) /\ Still
  \/ \E o \in Openers : NobodySyncs /\ RequestOpen(o) /\ Still
  \/ \E o \in Openers : OpenSteps(o) /\ Still
  \/ \E o \in Openers : PersistConfig(o) /\ UNCHANGED javaVars /\ Promised(Conf(o))

Working ==
  \/ \E o \in Openers : CommitDevice(o) /\ Still
  \/ \E o \in Openers : PublishCommit(o) /\ Still
  \/ \E o \in Openers : Roll(o) /\ Still
  \/ \E o \in Openers : CloseSteps(o) /\ Still
  \/ \E d \in Dests : SeedCheckpoint(d) /\ UNCHANGED openVars /\ Still
  \/ \E d \in Dests : ApplyNext(d) /\ UNCHANGED openVars /\ Still
  \/ \E d \in Dests : WorkerStops(d) /\ UNCHANGED openVars /\ Still

Java ==
  \/ \E o \in Openers : JavaSteps(o) /\ UNCHANGED wait
  \/ JavaCommits /\ UNCHANGED wait

Waiting ==
  \E w \in Waiters :
    \/ CallAwaitSync(w) \/ CallAwaitApplied(w) \/ CallJavaAwait(w)
    \/ PollSteps(w) \/ Unreachable(w) \/ TimeOut(w)

Crash == Die /\ UNCHANGED javaVars /\ wait' = [w \in Waiters |-> [NotWaiting EXCEPT !.calls = wait[w].calls]]

Next == Opening \/ Working \/ Java \/ Waiting \/ Crash

Spec == Init /\ [][Next]_vars

\* Every call of the library goes on to its end, workers apply what is staged, an idle
\* session rolls its segment, and a destination
\* is out of reach only so often.
LiveSpec ==
  /\ Spec
  /\ \A o \in Openers : WF_vars(OpenSteps(o) /\ Still)
  /\ \A o \in Openers : WF_vars(PersistConfig(o) /\ UNCHANGED javaVars /\ Promised(Conf(o)))
  /\ \A o \in Openers : WF_vars((PublishCommit(o) \/ Roll(o)) /\ Still)
  /\ \A d \in Dests : WF_vars((SeedCheckpoint(d) \/ ApplyNext(d)) /\ UNCHANGED openVars /\ Still)
  /\ \A w \in Waiters : WF_vars(PollSteps(w))

--------------------------------------------------------------------------------

WaiterOK(w) ==
  /\ w.pc \in {"idle", "tracker", "source", "conf", "read", "decide", "ok", "error"}
  /\ w.target \in 0..layout.commits
  /\ w.left \subseteq DOMAIN w.conf /\ w.least \in -1..layout.commits
  /\ w.pc = "read" => w.left # {}

TypeOK ==
  /\ \A d \in Dests : worker[d].pc \in {"off", "run", "stop"} 
  /\ \A d \in Dests, p \in Places : ckpt[d][p] \in Unseeded..staged
  /\ staged <= db.commit /\ db.told <= db.commit
  /\ lock \in Openers \union {Nobody} /\ tracker \in Openers \union {Nobody}
  /\ \A o \in Openers : cell[o] \in 0..db.commit
  /\ \A w \in Waiters : WaiterOK(wait[w])

\* A wait that returns Ok: every destination that was configured all the time has every
\* commit that had returned to its caller before the wait was called, whatever was
\* opened, closed, committed or configured in between.
OkMeansApplied ==
  \A w \in Waiters : (wait[w].pc = "ok" /\ wait[w].due > 0) =>
     \A d \in DOMAIN wait[w].all : ckpt[d][wait[w].all[d]] >= wait[w].due

\* Without a deadline, a wait comes to its end: no destination is left in the
\* configuration that nobody works for.
WaitEnds ==
  \A w \in Waiters : (wait[w].pc # "idle" /\ ~wait[w].timed) ~> wait[w].pc = "idle"
================================================================================
