---------------------------- MODULE AwaitSyncProofs ----------------------------
(***************************************************************************)
(* Opening a device and waiting for its destinations: a failed open leaves *)
(* no worker behind, whoever is configured is served, the Java front end   *)
(* publishes the set of its last open, and an Ok is true.                  *)
(*                                                                         *)
(* The invariant has a part for each component, all of them on top of the  *)
(* types (TypeInv) and of the lock, which is what makes at most one        *)
(* session's steps count at a time (LockInv).  ServedInv follows an open   *)
(* from worker to worker, JavaInv the generations of the registry,         *)
(* CountInv and TrackerInv the commit ids on their way from the database   *)
(* to tracker, stage and checkpoints.  WaitInv says of each waiter what    *)
(* its reads still mean later: the checkpoints it has read only grow       *)
(* (Grown), and what it was promised can only get less.                    *)
(***************************************************************************)
EXTENDS AwaitSync, WellFoundedInduction, TLAPS

--------------------------------------------------------------------------------
(* Settings and configurations                                                 *)

Config == UNION {[D -> Places] : D \in SUBSET Dests}

LEMMA ConfigIs ==
  ASSUME NEW c
  PROVE  c \in Config <=> /\ DOMAIN c \subseteq Dests /\ c = [d \in DOMAIN c |-> c[d]]
                          /\ \A d \in DOMAIN c : c[d] \in Places
<1>1. ASSUME c \in Config
      PROVE  /\ DOMAIN c \subseteq Dests /\ c = [d \in DOMAIN c |-> c[d]]
             /\ \A d \in DOMAIN c : c[d] \in Places
  BY <1>1 DEF Config
<1>2. ASSUME DOMAIN c \subseteq Dests, c = [d \in DOMAIN c |-> c[d]],
             \A d \in DOMAIN c : c[d] \in Places
      PROVE  c \in Config
  <2>1. c \in [DOMAIN c -> Places]
    BY <1>2
  <2> QED BY <1>2, <2>1 DEF Config
<1> QED BY <1>1, <1>2

LEMMA SettingIs ==
  ASSUME NEW s
  PROVE  s \in Setting <=> /\ DOMAIN s \subseteq Counted \X (0..NDest)
                           /\ s = [k \in DOMAIN s |-> s[k]]
                           /\ \A k \in DOMAIN s : s[k] \in Places
<1>1. ASSUME s \in Setting
      PROVE  /\ DOMAIN s \subseteq Counted \X (0..NDest) /\ s = [k \in DOMAIN s |-> s[k]]
             /\ \A k \in DOMAIN s : s[k] \in Places
  BY <1>1 DEF Setting
<1>2. ASSUME DOMAIN s \subseteq Counted \X (0..NDest), s = [k \in DOMAIN s |-> s[k]],
             \A k \in DOMAIN s : s[k] \in Places
      PROVE  s \in Setting
  <2>1. s \in [DOMAIN s -> Places]
    BY <1>2
  <2> QED BY <1>2, <2>1 DEF Setting
<1> QED BY <1>1, <1>2

LEMMA NoSettingsTyped == NoSettings \in Setting /\ NoConfig \in Config
BY SettingIs, ConfigIs DEF NoSettings, NoConfig

\* A configuration has a destination unless nothing names one.
LEMMA ConfiguredTyped ==
  ASSUME NEW s \in Setting
  PROVE  /\ Configured(s) \in Config
         /\ Configured(s) # NoConfig => DOMAIN Configured(s) # {}
<1>1. Indices(s) \subseteq Dests /\ Indices(s) # {}
  BY SettingsAssumption DEF Indices, Dests
<1>2. ASSUME NEW i \in Dests PROVE PlaceOf(s, i) \in Places
  BY SettingIs, SettingsAssumption DEF PlaceOf
<1>3. CASE HasDestination(s)
  <2>1. Configured(s) = [i \in Indices(s) |-> PlaceOf(s, i)]
    BY <1>3 DEF Configured
  <2>2. Configured(s) \in [Indices(s) -> Places]
    BY <1>1, <1>2, <2>1
  <2> QED BY <1>1, <2>1, <2>2 DEF Config
<1>4. CASE ~ HasDestination(s)
  BY <1>4, NoSettingsTyped DEF Configured
<1> QED BY <1>3, <1>4

LEMMA HydratedTyped ==
  ASSUME NEW s \in Setting, NEW before \in Setting
  PROVE  Hydrated(s, before) \in Setting
<1> DEFINE D == DOMAIN s \union DOMAIN before
           h == [k \in D |-> IF k \in DOMAIN s THEN s[k] ELSE before[k]]
<1>1. D \subseteq Counted \X (0..NDest) /\ \A k \in D : h[k] \in Places
  BY SettingIs
<1>2. h \in [D -> Places]
  BY <1>1
<1>3. h \in Setting
  BY <1>1, <1>2 DEF Setting
<1> QED BY <1>3 DEF Hydrated

\* A set of natural numbers has a least one.
LEMMA LeastNat == ASSUME NEW S \in SUBSET Nat, S # {} PROVE \E n \in S : \A m \in S : n <= m
<1>1. PICK n \in S : \A m \in S : <<m, n>> \notin OpToRel(<, Nat)
  BY WFMin, NatLessThanWellFounded, Zenon
<1>2. \A m \in S : ~ (m < n)
  BY <1>1, Zenon DEF OpToRel
<1> QED BY <1>2

LEMMA Next1IsIn == ASSUME NEW D \in SUBSET Dests, D # {} PROVE Next1(D) \in D
<1>1. D \in SUBSET Nat
  BY SettingsAssumption DEF Dests
<1>2. \E d \in D : \A e \in D : d <= e
  BY <1>1, LeastNat
<1> QED BY <1>2 DEF Next1

--------------------------------------------------------------------------------
(* Types                                                                       *)

SessionPc == {"closed", "requested", "locked", "spawn", "failed", "device", "notify",
              "register", "seed", "open", "publish", "unlock", "unregister"}
Someone == Openers \union {Nobody}
Type == {"none"} \union (UNION {l.types : l \in Layouts})
Session ==
  [pc : SessionPc, kind : {"none", "initialize", "open"}, type : Type, keys : Setting, left : SUBSET Dests,
   made : SUBSET Dests, before : SUBSET Dests, cell : Someone]

OpenTypes ==
  /\ layout \in Layouts
  /\ lock \in Someone /\ tracker \in Someone
  /\ meta \in [type : Type, keys : Setting, marker : BOOLEAN, inits : Nat, opens : Nat]
  /\ db \in [commit : Nat, told : Nat] /\ cell \in [Openers -> Nat]
  /\ ses \in [Openers -> Session] /\ deaths \in Nat

WorkerRecord == [pc : {"off", "run", "stop"}, conf : Config, boot : BOOLEAN]

WorkerTypes ==
  /\ worker \in [Dests -> WorkerRecord]
  /\ \A d \in Dests : worker[d].pc # "off" => d \in DOMAIN worker[d].conf
  /\ ckpt \in [Dests -> [Places -> Int]] /\ staged \in Nat

Generation == [gen : Nat, count : Nat, toks : UNION {[D -> Nat] : D \in SUBSET Dests}]

\* Where the Java front end is
CallTypes ==
  /\ calls \in [Openers -> [pc : {"idle", "spawn", "register", "abort", "stop", "shutdown"}, at : Nat]]
  /\ \A o \in Openers : calls[o].pc \in {"spawn", "register", "stop", "shutdown"} =>
                          calls[o].at \in Dests

JavaTypes ==
  /\ registry \in [active : Generation, pending : Generation, next : Nat, opens : Nat, last : Nat]
  /\ handles \in [Openers -> [Dests -> [gen : Nat, tok : Nat]]]
  /\ CallTypes

Wait ==
  [pc : {"idle", "tracker", "source", "conf", "read", "decide", "ok", "error"},
   kind : {"none", "sync", "target", "java"}, target : Nat, conf : Config, left : SUBSET Dests, least : Int, timed : BOOLEAN, calls : Nat,
   failed : Nat, due : Nat, all : Config]

WaitTypes == wait \in [Waiters -> Wait]

TypeInv == OpenTypes /\ WorkerTypes /\ JavaTypes /\ WaitTypes

LEMMA ClosedTyped == Closed \in Session /\ NoWorker \in WorkerRecord
BY NoSettingsTyped DEF Closed, Session, SessionPc, Someone, Type, NoWorker, WorkerRecord

LEMMA ConfTyped ==
  ASSUME OpenTypes
  PROVE  /\ MetaConf \in Config /\ (MetaConf # NoConfig => DOMAIN MetaConf # {})
         /\ \A o \in Openers : Conf(o) \in Config /\ (Conf(o) # NoConfig => DOMAIN Conf(o) # {})
<1>1. meta.keys \in Setting /\ \A o \in Openers : ses[o].keys \in Setting
  BY DEF OpenTypes, Session
<1> QED BY <1>1, ConfiguredTyped DEF MetaConf, Conf

LEMMA InitTypes == Init => TypeInv
<1> SUFFICES ASSUME Init PROVE TypeInv
  OBVIOUS
<1> USE DEF Init
<1>1. OpenTypes
  BY ClosedTyped, NoSettingsTyped DEF OpenInit, OpenTypes, Someone, Type, NewMeta
<1>2. WorkerTypes
  BY ClosedTyped DEF RegistryInit, WorkerTypes, NoWorker, Unseeded
<1>3. JavaTypes
  <2>1. NoGeneration \in Generation
    <3>1. [d \in {} |-> 0] \in [{} -> Nat]
      OBVIOUS
    <3> QED BY <3>1 DEF NoGeneration, Generation
  <2> QED BY <2>1 DEF JavaInit, JavaTypes, CallTypes, NoHandle
<1>4. WaitTypes
  <2>1. NotWaiting \in Wait
    BY NoSettingsTyped DEF NotWaiting, Wait
  <2> QED BY <2>1 DEF WaitTypes
<1> QED BY <1>1, <1>2, <1>3, <1>4 DEF TypeInv

LEMMA SesGoes ==
  ASSUME OpenTypes, NEW o \in Openers, NEW pc \in SessionPc, To(o, pc)
  PROVE  /\ ses' \in [Openers -> Session] /\ ses'[o].pc = pc
         /\ \A p \in Openers : p # o => ses'[p] = ses[p]
BY DEF OpenTypes, Session, To

LEMMA SesCloses ==
  ASSUME OpenTypes, NEW o \in Openers, ses' = [ses EXCEPT ![o] = Closed]
  PROVE  /\ ses' \in [Openers -> Session] /\ ses'[o] = Closed
         /\ \A p \in Openers : p # o => ses'[p] = ses[p]
BY ClosedTyped DEF OpenTypes

LEMMA SesSpawns ==
  ASSUME OpenTypes, NEW o \in Openers, SpawnWorker(o)
  PROVE  /\ ses' \in [Openers -> Session]
         /\ \A p \in Openers : p # o => ses'[p] = ses[p]
         /\ \E d \in ses[o].left :
              /\ d \in Dests /\ CanSpawn(d, Conf(o)) /\ Spawned(d, Conf(o))
              /\ ses'[o] = [ses[o] EXCEPT !.left = @ \ {d},
                                         !.made = IF Created(d) THEN @ \union {d} ELSE @]
<1>1. PICK d \in ses[o].left : d = Next1(ses[o].left) /\ d \in Dests
  BY Next1IsIn DEF SpawnWorker, OpenTypes, Session
<1> DEFINE left == ses[o].left \ {d}
           made == IF Created(d) THEN ses[o].made \union {d} ELSE ses[o].made
           r == [ses[o] EXCEPT !.left = left, !.made = made]
<1>2. /\ CanSpawn(d, Conf(o)) /\ Spawned(d, Conf(o))
      /\ ses' = [ses EXCEPT ![o].left = @ \ {d},
                           ![o].made = IF Created(d) THEN @ \union {d} ELSE @]
  BY <1>1, Zenon DEF SpawnWorker
<1>3. ses' = [ses EXCEPT ![o] = r]
  BY <1>2 DEF OpenTypes
<1>4. left \in SUBSET Dests /\ made \in SUBSET Dests /\ ses[o] \in Session
  BY <1>1 DEF OpenTypes, Session
<1> HIDE DEF left, made
<1>5. r \in Session
  BY <1>4 DEF Session
<1> HIDE DEF r
<1>6. ses' \in [Openers -> Session] /\ ses'[o] = r /\ \A p \in Openers : p # o => ses'[p] = ses[p]
  BY <1>3, <1>5 DEF OpenTypes
<1> QED BY <1>1, <1>2, <1>6 DEF r, left, made

LEMMA RequestTypes ==
  ASSUME OpenTypes, NEW o \in Openers, RequestInitialize(o) \/ RequestOpen(o)
  PROVE  /\ OpenTypes'
         /\ ses'[o].pc = "requested" /\ ses[o].pc = "closed"
         /\ \A p \in Openers : p # o => ses'[p] = ses[p]
<1>1. \E kind \in {"initialize", "open"}, type \in Type, keys \in Setting :
        Request(o, kind, type, keys)
  <2>1. CASE RequestInitialize(o)
    <3>1. layout.types \subseteq Type /\ layout.keys \subseteq Setting
      BY OpenAssumption DEF OpenTypes, Type
    <3> QED BY <2>1, <3>1 DEF RequestInitialize
  <2>2. CASE RequestOpen(o)
    <3>1. meta.type \in Type
      BY DEF OpenTypes
    <3> QED BY <2>2, <3>1, NoSettingsTyped DEF RequestOpen
  <2> QED BY <2>1, <2>2
<1>2. PICK kind \in {"initialize", "open"}, type \in Type, keys \in Setting :
        Request(o, kind, type, keys)
  BY <1>1
<1> DEFINE r == [Closed EXCEPT !.pc = "requested", !.kind = kind, !.type = type,
                               !.keys = Hydrated(keys, meta.keys)]
<1>3. r \in Session /\ r.pc = "requested"
  <2>1. Hydrated(keys, meta.keys) \in Setting
    BY HydratedTyped DEF OpenTypes
  <2> QED BY <2>1, ClosedTyped DEF Session, SessionPc
<1>4. ses' = [ses EXCEPT ![o] = r]
  BY <1>2 DEF Request
<1> HIDE DEF r
<1>5. ses' \in [Openers -> Session]
  BY <1>3, <1>4 DEF OpenTypes
<1>6. /\ meta' \in [type : Type, keys : Setting, marker : BOOLEAN, inits : Nat, opens : Nat]
      /\ UNCHANGED <<layout, lock, tracker, db, cell, deaths>> /\ ses[o].pc = "closed"
  BY DEF RequestInitialize, RequestOpen, OpenTypes
<1> QED BY <1>3, <1>4, <1>5, <1>6 DEF OpenTypes

\* What a step may do to the device; it leaves openVars alone otherwise.
DeviceSteps ==
  \/ \E o \in Openers : RequestInitialize(o) \/ RequestOpen(o)
  \/ \E o \in Openers : OpenSteps(o) \/ PersistConfig(o)
  \/ \E o \in Openers : CommitDevice(o) \/ PublishCommit(o) \/ Roll(o) \/ CloseSteps(o)
  \/ JavaCommits \/ Die

LEMMA NextCases == [Next]_vars => UNCHANGED openVars \/ DeviceSteps
<1>1. ASSUME NEW o \in Openers, JavaSteps(o) PROVE UNCHANGED openVars
  BY <1>1 DEF JavaSteps, JavaOpens, JavaSpawns, JavaRegisters, JavaAborts, JavaStops, Unregister,
     ShutdownWorker
<1>2. ASSUME Waiting PROVE UNCHANGED openVars
  BY <1>2 DEF Waiting, CallAwaitSync, CallAwaitApplied, CallJavaAwait, PollSteps, Unreachable, TimeOut,
     ReadTracker, ReadSource, ReadConfig, ReadCheckpoint, Poll, Decide, Return, Unmoved
<1>3. ASSUME UNCHANGED vars PROVE UNCHANGED openVars
  BY <1>3 DEF vars
<1> QED BY <1>1, <1>2, <1>3 DEF Next, Opening, Working, Java, Crash, DeviceSteps

LEMMA OpenTypesStep == TypeInv /\ [Next]_vars => OpenTypes'
<1> SUFFICES ASSUME TypeInv, [Next]_vars PROVE OpenTypes'
  OBVIOUS
<1> USE DEF TypeInv
<1>1. ASSUME NEW o \in Openers, RequestInitialize(o) \/ RequestOpen(o) PROVE OpenTypes'
  BY <1>1, RequestTypes
<1>2. ASSUME NEW o \in Openers, TryLock(o) PROVE OpenTypes'
  <2>1. ses' \in [Openers -> Session]
    BY <1>2, SesGoes, SesCloses DEF TryLock, SessionPc
  <2> QED BY <1>2, <2>1 DEF TryLock, OpenTypes, Someone
<1>3. ASSUME NEW o \in Openers, Identify(o) PROVE OpenTypes'
  <2>1. CASE meta.type \in {"none", ses[o].type}
    <3>1. Conf(o) \in Config /\ RunningSet \subseteq Dests /\ DOMAIN Conf(o) \subseteq Dests
      BY ConfTyped, ConfigIs DEF RunningSet
    <3>2. ses' \in [Openers -> Session]
      BY <1>3, <2>1, <3>1 DEF Identify, OpenTypes, Session, SessionPc
    <3> QED BY <1>3, <2>1, <3>2 DEF Identify, OpenTypes, Session
  <2>2. CASE meta.type \notin {"none", ses[o].type}
    BY <1>3, <2>2, SesCloses DEF Identify, Release, OpenTypes, Someone
  <2> QED BY <2>1, <2>2
<1>4. ASSUME NEW o \in Openers, SpawnWorker(o) PROVE OpenTypes'
  BY <1>4, SesSpawns DEF SpawnWorker, OpenTypes
<1>5. ASSUME NEW o \in Openers, SpawnFails(o) PROVE OpenTypes'
  BY <1>5, SesGoes DEF SpawnFails, OpenTypes, SessionPc
<1>6. ASSUME NEW o \in Openers, GiveUp(o) PROVE OpenTypes'
  BY <1>6, SesCloses DEF GiveUp, Release, OpenTypes, Someone
<1>7. ASSUME NEW o \in Openers, PersistConfig(o) PROVE OpenTypes'
  BY <1>7, SesGoes DEF PersistConfig, OpenTypes, SessionPc, Session
<1>8. ASSUME NEW o \in Openers, OpenDevice(o) PROVE OpenTypes'
  BY <1>8, SesGoes, SesCloses DEF OpenDevice, Release, OpenTypes, SessionPc, Someone
<1>9. ASSUME NEW o \in Openers, NotifyWorkers(o) PROVE OpenTypes'
  BY <1>9, SesGoes DEF NotifyWorkers, OpenTypes, SessionPc
<1>10. ASSUME NEW o \in Openers, RegisterTracker(o) PROVE OpenTypes'
  BY <1>10 DEF RegisterTracker, OpenTypes, SessionPc, Session, Someone
<1>11. ASSUME NEW o \in Openers, SeedTracker(o) PROVE OpenTypes'
  BY <1>11, SesGoes DEF SeedTracker, OpenTypes, SessionPc
<1>12. ASSUME NEW o \in Openers, CommitDevice(o) PROVE OpenTypes'
  BY <1>12, SesGoes DEF CommitDevice, OpenTypes, SessionPc
<1>13. ASSUME NEW o \in Openers, PublishCommit(o) PROVE OpenTypes'
  BY <1>13, SesGoes DEF PublishCommit, OpenTypes, SessionPc
<1>0. ASSUME NEW o \in Openers, Roll(o) PROVE OpenTypes'
  BY <1>0 DEF Roll, OpenTypes, openVars
<1>15. ASSUME NEW o \in Openers, CloseDevice(o) \/ Unlock(o) PROVE OpenTypes'
  BY <1>15, SesGoes DEF CloseDevice, Unlock, OpenTypes, SessionPc, Someone
<1>16. ASSUME NEW o \in Openers, UnregisterTracker(o) PROVE OpenTypes'
  BY <1>16, SesCloses DEF UnregisterTracker, OpenTypes, Someone
<1>17. ASSUME JavaCommits PROVE OpenTypes'
  BY <1>17 DEF JavaCommits, OpenTypes
<1>18. ASSUME Die PROVE OpenTypes'
  <2>1. ses' \in [Openers -> Session]
    BY <1>18, ClosedTyped DEF Die, Restarted
  <2> QED BY <1>18, <2>1 DEF Die, Restarted, OpenTypes, Someone
<1>19. ASSUME UNCHANGED openVars PROVE OpenTypes'
  BY <1>19 DEF openVars, OpenTypes
<1> QED BY <1>1, <1>2, <1>3, <1>4, <1>5, <1>6, <1>7, <1>8, <1>9, <1>10, <1>11, <1>12, <1>13, <1>0,
           <1>15, <1>16, <1>17, <1>18, <1>19, NextCases
        DEF DeviceSteps, OpenSteps, CloseSteps

--------------------------------------------------------------------------------
(* The lock                                                                    *)

Holding == {"locked", "spawn", "failed", "device", "notify", "register", "seed", "open",
            "publish", "unlock"}

\* Whoever is at work in the device has the lock, and nobody else; with the Java front end
\* there are no sessions.
LockInv ==
  /\ \A o \in Openers : lock = o <=> ses[o].pc \in Holding
  /\ \A o \in Openers : ses[o].pc = "spawn" => ses[o].left \subseteq DOMAIN Conf(o)
  /\ layout.front # "rust" => \A o \in Openers : ses[o].pc = "closed"

LEMMA InitLock == Init => LockInv
BY OpenAssumption DEF Init, OpenInit, LockInv, Holding, Closed

\* One session goes on, and the others stay as they are.
Others(o) == \A p \in Openers : p # o => ses'[p] = ses[p]

LEMMA LockFrame ==
  ASSUME OpenTypes, OpenTypes', LockInv, NEW o \in Openers, Others(o), UNCHANGED layout,
         ses[o].pc # "closed" \/ layout.front = "rust",
         \/ lock' = lock /\ (ses[o].pc \in Holding <=> ses'[o].pc \in Holding)
         \/ lock = Nobody /\ lock' = o /\ ses'[o].pc \in Holding
         \/ lock = o /\ lock' = Nobody /\ ses'[o].pc \notin Holding,
         ses'[o].pc = "spawn" =>
           \/ ses'[o].left \subseteq DOMAIN Conf(o)'
           \/ ses[o].pc = "spawn" /\ ses'[o].keys = ses[o].keys /\ ses'[o].left \subseteq ses[o].left
  PROVE  LockInv'
<1>1. \A p \in Openers : lock' = p <=> ses'[p].pc \in Holding
  BY OpenAssumption DEF LockInv, Others, OpenTypes, Someone
<1>2. \A p \in Openers : ses'[p].pc = "spawn" => ses'[p].left \subseteq DOMAIN Conf(p)'
  BY DEF LockInv, Others, Conf
<1>3. layout'.front # "rust" => \A p \in Openers : ses'[p].pc = "closed"
  BY DEF LockInv, Others
<1> QED BY <1>1, <1>2, <1>3 DEF LockInv

LEMMA LockStep == OpenTypes /\ OpenTypes' /\ LockInv /\ [Next]_vars => LockInv'
<1> SUFFICES ASSUME OpenTypes, OpenTypes', LockInv, [Next]_vars PROVE LockInv'
  OBVIOUS
<1> USE DEF Holding, SessionPc
<1>1. ASSUME NEW o \in Openers, RequestInitialize(o) \/ RequestOpen(o) PROVE LockInv'
  BY <1>1, RequestTypes, LockFrame DEF RequestInitialize, RequestOpen, Others
<1>2. ASSUME NEW o \in Openers, TryLock(o) PROVE LockInv'
  BY <1>2, SesGoes, SesCloses, LockFrame DEF TryLock, Others, Closed
<1>3. ASSUME NEW o \in Openers, Identify(o) PROVE LockInv'
  <2>1. CASE meta.type \in {"none", ses[o].type}
    <3>1. /\ ses'[o].pc \in {"device", "spawn"} /\ ses'[o].left = DOMAIN Conf(o)
          /\ ses'[o].keys = ses[o].keys /\ Others(o)
      BY <1>3, <2>1 DEF Identify, OpenTypes, Session, Others
    <3>2. Conf(o)' = Conf(o)
      BY <3>1 DEF Conf
    <3> QED BY <1>3, <2>1, <3>1, <3>2, LockFrame DEF Identify
  <2>2. CASE meta.type \notin {"none", ses[o].type}
    <3>1. lock = o
      BY <1>3 DEF Identify, LockInv
    <3> QED BY <1>3, <2>2, <3>1, SesCloses, LockFrame DEF Identify, Release, Others, Closed
  <2> QED BY <2>1, <2>2
<1>4. ASSUME NEW o \in Openers, SpawnWorker(o) PROVE LockInv'
  <2>1. /\ Others(o) /\ ses[o] \in Session
        /\ \E d \in ses[o].left, made \in SUBSET Dests :
             ses'[o] = [ses[o] EXCEPT !.left = @ \ {d}, !.made = made]
    <3>1. PICK d \in ses[o].left : d \in Dests /\
             ses'[o] = [ses[o] EXCEPT !.left = @ \ {d},
                                      !.made = IF Created(d) THEN @ \union {d} ELSE @]
      BY <1>4, SesSpawns
    <3>2. ses[o] \in Session
      BY DEF OpenTypes
    <3> DEFINE made == IF Created(d) THEN ses[o].made \union {d} ELSE ses[o].made
    <3>3. made \in SUBSET Dests /\ ses'[o] = [ses[o] EXCEPT !.left = @ \ {d}, !.made = made]
      BY <3>1, <3>2 DEF Session
    <3> QED BY <1>4, <3>2, <3>3, SesSpawns DEF Others
  <2>2. ses'[o].pc = ses[o].pc /\ ses'[o].keys = ses[o].keys /\ ses'[o].left \subseteq ses[o].left
    BY <2>1 DEF Session
  <2> QED BY <1>4, <2>1, <2>2, LockFrame DEF SpawnWorker
<1>5. ASSUME NEW o \in Openers, SpawnFails(o) PROVE LockInv'
  BY <1>5, SesGoes, LockFrame DEF SpawnFails, Others
<1>6. ASSUME NEW o \in Openers, GiveUp(o) PROVE LockInv'
  <2>1. lock = o
    BY <1>6 DEF GiveUp, LockInv
  <2> QED BY <1>6, <2>1, SesCloses, LockFrame DEF GiveUp, Release, Others, Closed
<1>7. ASSUME NEW o \in Openers, PersistConfig(o) PROVE LockInv'
  BY <1>7, SesGoes, LockFrame DEF PersistConfig, Others
<1>8. ASSUME NEW o \in Openers, OpenDevice(o) PROVE LockInv'
  <2>1. lock = o
    BY <1>8 DEF OpenDevice, LockInv
  <2>2. CASE To(o, "notify") /\ UNCHANGED lock
    BY <1>8, <2>2, SesGoes, LockFrame DEF OpenDevice, Others
  <2>3. CASE Release(o)
    BY <1>8, <2>1, <2>3, SesCloses, LockFrame DEF OpenDevice, Release, Others, Closed
  <2> QED BY <1>8, <2>2, <2>3 DEF OpenDevice
<1>9. ASSUME NEW o \in Openers, NotifyWorkers(o) PROVE LockInv'
  BY <1>9, SesGoes, LockFrame DEF NotifyWorkers, Others
<1>10. ASSUME NEW o \in Openers, RegisterTracker(o) PROVE LockInv'
  <2>1. ses'[o].pc = "seed" /\ Others(o) /\ UNCHANGED <<lock, layout>> /\ ses[o].pc = "register"
    BY <1>10 DEF RegisterTracker, OpenTypes, Session, Others
  <2> QED BY <2>1, LockFrame
<1>11. ASSUME NEW o \in Openers, SeedTracker(o) PROVE LockInv'
  BY <1>11, SesGoes, LockFrame DEF SeedTracker, Others
<1>12. ASSUME NEW o \in Openers, CommitDevice(o) PROVE LockInv'
  BY <1>12, SesGoes, LockFrame DEF CommitDevice, Others
<1>13. ASSUME NEW o \in Openers, PublishCommit(o) PROVE LockInv'
  BY <1>13, SesGoes, LockFrame DEF PublishCommit, Others
<1>0. ASSUME NEW o \in Openers, CloseDevice(o) PROVE LockInv'
  BY <1>0, SesGoes, LockFrame DEF CloseDevice, Others
<1>15. ASSUME NEW o \in Openers, Unlock(o) PROVE LockInv'
  <2>1. lock = o
    BY <1>15 DEF Unlock, LockInv
  <2> QED BY <1>15, <2>1, SesGoes, LockFrame DEF Unlock, Others
<1>16. ASSUME NEW o \in Openers, UnregisterTracker(o) PROVE LockInv'
  BY <1>16, SesCloses, LockFrame DEF UnregisterTracker, Others, Closed
<1>17. ASSUME Die PROVE LockInv'
  BY <1>17, OpenAssumption DEF Die, Restarted, LockInv, Closed
<1>18. ASSUME UNCHANGED <<layout, lock, ses>> PROVE LockInv'
  BY <1>18 DEF LockInv, Conf
<1>19. ASSUME JavaCommits PROVE UNCHANGED <<layout, lock, ses>>
  BY <1>19 DEF JavaCommits
<1>20. ASSUME NEW o \in Openers, Roll(o) PROVE UNCHANGED <<layout, lock, ses>>
  BY <1>20 DEF Roll, openVars
<1>21. ASSUME UNCHANGED openVars PROVE UNCHANGED <<layout, lock, ses>>
  BY <1>21 DEF openVars
<1> QED BY <1>1, <1>2, <1>3, <1>4, <1>5, <1>6, <1>7, <1>8, <1>9, <1>10, <1>11, <1>12, <1>13, <1>0,
           <1>15, <1>16, <1>17, <1>18, <1>19, <1>20, <1>21, NextCases
        DEF DeviceSteps, OpenSteps, CloseSteps

--------------------------------------------------------------------------------
(* The workers                                                                 *)

LEMMA SpawnedTyped ==
  ASSUME WorkerTypes, NEW d \in Dests, NEW conf \in Config, d \in DOMAIN conf,
         CanSpawn(d, conf), Spawned(d, conf)
  PROVE  /\ worker' \in [Dests -> WorkerRecord]
         /\ \A e \in Dests : worker'[e].pc # "off" => e \in DOMAIN worker'[e].conf
         /\ \A e \in Dests : e # d => worker'[e] = worker[e]
         /\ worker[d].pc # "off" => worker'[d] = worker[d]
         /\ worker[d].pc = "off" => worker'[d] = [pc |-> "run", conf |-> conf, boot |-> FALSE]
         /\ worker'[d].pc = "run" /\ worker'[d].conf[d] = conf[d]
<1> DEFINE r == IF Created(d) THEN [pc |-> "run", conf |-> conf, boot |-> FALSE] ELSE worker[d]
<1>1. worker' = [worker EXCEPT ![d] = r]
  BY DEF Spawned, WorkerTypes
<1>2. r \in WorkerRecord /\ d \in DOMAIN r.conf /\ r.pc = "run" /\ r.conf[d] = conf[d]
  BY DEF WorkerTypes, WorkerRecord, Created, CanSpawn, Running, SameWork
<1>3. worker[d].pc # "off" => r = worker[d]
  BY DEF Created
<1>4. worker[d].pc = "off" => r = [pc |-> "run", conf |-> conf, boot |-> FALSE]
  BY DEF Created
<1> HIDE DEF r
<1> QED BY <1>1, <1>2, <1>3, <1>4 DEF WorkerTypes

LEMMA StoppingTyped ==
  ASSUME WorkerTypes, NEW D, worker' = Stopping(D)
  PROVE  /\ worker' \in [Dests -> WorkerRecord]
         /\ \A e \in Dests : worker'[e].pc # "off" => e \in DOMAIN worker'[e].conf
         /\ \A e \in Dests : e \notin D \/ worker[e].pc # "run" => worker'[e] = worker[e]
         /\ \A e \in D : e \in Dests => worker'[e].pc # "run"
         /\ \A e \in Dests : worker'[e].conf = worker[e].conf /\ worker'[e].boot = worker[e].boot
                             /\ (worker'[e].pc = "off" <=> worker[e].pc = "off")
<1>1. \A e \in Dests : worker'[e] = IF e \in D /\ Running(e) THEN [worker[e] EXCEPT !.pc = "stop"]
                                    ELSE worker[e]
  BY DEF Stopping
<1>2. worker' \in [Dests -> WorkerRecord]
  <2>1. \A e \in Dests : [worker[e] EXCEPT !.pc = "stop"] \in WorkerRecord /\ worker[e] \in WorkerRecord
    BY DEF WorkerTypes, WorkerRecord
  <2> QED BY <2>1 DEF Stopping
<1> QED BY <1>1, <1>2 DEF WorkerTypes, WorkerRecord, Running

LEMMA NotifiedTyped ==
  ASSUME WorkerTypes, NEW D, worker' = Notified(D)
  PROVE  /\ worker' \in [Dests -> WorkerRecord]
         /\ \A e \in Dests : /\ worker'[e].pc = worker[e].pc /\ worker'[e].conf = worker[e].conf
                             /\ worker'[e].boot <=> worker[e].boot \/ e \in D
<1>1. \A e \in Dests : worker'[e] = [worker[e] EXCEPT !.boot = @ \/ e \in D]
  BY DEF Notified
<1>2. \A e \in Dests : [worker[e] EXCEPT !.boot = @ \/ e \in D] \in WorkerRecord
  BY DEF WorkerTypes, WorkerRecord
<1>3. worker' \in [Dests -> WorkerRecord]
  BY <1>2 DEF Notified
<1> QED BY <1>1, <1>3 DEF WorkerTypes, WorkerRecord

\* Where a worker keeps its checkpoint
LEMMA PlaceTyped ==
  ASSUME WorkerTypes, NEW d \in Dests, worker[d].pc # "off"
  PROVE  worker[d].conf[d] \in Places
BY ConfigIs DEF WorkerTypes, WorkerRecord

LEMMA JavaConfTyped == JavaConf \in Config /\ DOMAIN JavaConf = Dests /\ 1 \in Dests
<1>1. 1 \in Dests /\ DefaultPlace \in Places
  BY SettingsAssumption DEF Dests
<1> QED BY <1>1, ConfigIs DEF JavaConf

\* What a step may do to the workers; it leaves registryVars alone otherwise.
WorkerSteps ==
  \/ \E o \in Openers : \/ SpawnWorker(o) \/ SpawnFails(o) \/ NotifyWorkers(o) \/ Roll(o)
                        \/ CloseDevice(o) \/ JavaSpawns(o) \/ JavaRegisters(o) \/ ShutdownWorker(o)
  \/ \E d \in Dests : SeedCheckpoint(d) \/ ApplyNext(d) \/ WorkerStops(d)
  \/ JavaCommits \/ Die

LEMMA WorkerCases == [Next]_vars => UNCHANGED registryVars \/ WorkerSteps
<1>1. ASSUME NEW o \in Openers, OpenSteps(o) PROVE UNCHANGED registryVars \/ WorkerSteps
  BY <1>1 DEF OpenSteps, TryLock, Identify, GiveUp, OpenDevice, RegisterTracker, SeedTracker, WorkerSteps
<1>2. ASSUME NEW o \in Openers, CloseSteps(o) PROVE UNCHANGED registryVars \/ WorkerSteps
  BY <1>2 DEF CloseSteps, Unlock, UnregisterTracker, WorkerSteps
<1>3. ASSUME NEW o \in Openers, JavaSteps(o) PROVE UNCHANGED registryVars \/ WorkerSteps
  BY <1>3 DEF JavaSteps, JavaOpens, JavaAborts, JavaStops, Unregister, WorkerSteps
<1>4. ASSUME NEW o \in Openers,
             \/ RequestInitialize(o) \/ RequestOpen(o) \/ PersistConfig(o) \/ CommitDevice(o)
             \/ PublishCommit(o)
      PROVE UNCHANGED registryVars
  BY <1>4 DEF RequestInitialize, RequestOpen, PersistConfig, CommitDevice, PublishCommit
<1>5. ASSUME Waiting PROVE UNCHANGED registryVars
  BY <1>5 DEF Waiting, CallAwaitSync, CallAwaitApplied, CallJavaAwait, PollSteps, Unreachable, TimeOut,
     ReadTracker, ReadSource, ReadConfig, ReadCheckpoint, Poll, Decide, Return, Unmoved
<1>6. ASSUME UNCHANGED vars PROVE UNCHANGED registryVars
  BY <1>6 DEF vars
<1>7. ASSUME NEW o \in Openers, Roll(o) PROVE WorkerSteps
  BY <1>7 DEF WorkerSteps
<1> QED BY <1>1, <1>2, <1>3, <1>4, <1>5, <1>6, <1>7 DEF Next, Opening, Working, Java, Crash, WorkerSteps

LEMMA WorkerTypesStep ==
  OpenTypes /\ LockInv /\ CallTypes /\ WorkerTypes /\ [Next]_vars => WorkerTypes'
<1> SUFFICES ASSUME OpenTypes, LockInv, CallTypes, WorkerTypes, [Next]_vars PROVE WorkerTypes'
  OBVIOUS
<1>1. ASSUME NEW o \in Openers, SpawnWorker(o) PROVE WorkerTypes'
  <2>1. PICK d \in ses[o].left : d \in Dests /\ CanSpawn(d, Conf(o)) /\ Spawned(d, Conf(o))
    BY <1>1, SesSpawns
  <2>2. Conf(o) \in Config /\ d \in DOMAIN Conf(o)
    BY <1>1, ConfTyped DEF LockInv, SpawnWorker
  <2> QED BY <1>1, <2>1, <2>2, SpawnedTyped DEF SpawnWorker, WorkerTypes
<1>2. ASSUME NEW o \in Openers, SpawnFails(o) PROVE WorkerTypes'
  BY <1>2, StoppingTyped DEF SpawnFails, WorkerTypes
<1>3. ASSUME NEW o \in Openers, NotifyWorkers(o) PROVE WorkerTypes'
  BY <1>3, NotifiedTyped DEF NotifyWorkers, WorkerTypes
<1>4. ASSUME NEW o \in Openers, Roll(o) \/ CloseDevice(o) PROVE WorkerTypes'
  BY <1>4 DEF Roll, CloseDevice, WorkerTypes, OpenTypes
<1>5. ASSUME NEW o \in Openers, JavaSpawns(o) PROVE WorkerTypes'
  <2>1. calls[o].at \in Dests
    BY <1>5 DEF JavaSpawns, CallTypes
  <2>2. CASE CanSpawn(calls[o].at, JavaConf)
    BY <1>5, <2>1, <2>2, JavaConfTyped, SpawnedTyped DEF JavaSpawns, WorkerTypes
  <2>3. CASE ~ CanSpawn(calls[o].at, JavaConf)
    BY <1>5, <2>3 DEF JavaSpawns, WorkerTypes
  <2> QED BY <2>2, <2>3
<1>6. ASSUME NEW o \in Openers, JavaRegisters(o) PROVE WorkerTypes'
  <2>1. UNCHANGED <<ckpt, staged>> /\ \E D : worker' = Notified(D) \/ worker' = Stopping(D)
    BY <1>6 DEF JavaRegisters
  <2> QED BY <2>1, NotifiedTyped, StoppingTyped DEF WorkerTypes
<1>7. ASSUME NEW o \in Openers, ShutdownWorker(o) PROVE WorkerTypes'
  BY <1>7, StoppingTyped DEF ShutdownWorker, WorkerTypes
<1>8. ASSUME NEW d \in Dests, SeedCheckpoint(d) PROVE WorkerTypes'
  BY <1>8, PlaceTyped DEF SeedCheckpoint, WorkerTypes, Running
<1>9. ASSUME NEW d \in Dests, ApplyNext(d) PROVE WorkerTypes'
  BY <1>9, PlaceTyped DEF ApplyNext, WorkerTypes
<1>10. ASSUME NEW d \in Dests, WorkerStops(d) PROVE WorkerTypes'
  BY <1>10, ClosedTyped DEF WorkerStops, WorkerTypes, NoWorker
<1>11. ASSUME JavaCommits PROVE WorkerTypes'
  BY <1>11 DEF JavaCommits, WorkerTypes, OpenTypes
<1>12. ASSUME Die PROVE WorkerTypes'
  BY <1>12, ClosedTyped DEF Die, Restarted, WorkerTypes, NoWorker
<1>13. ASSUME UNCHANGED registryVars PROVE WorkerTypes'
  BY <1>13 DEF registryVars, WorkerTypes
<1> QED BY <1>1, <1>2, <1>3, <1>4, <1>5, <1>6, <1>7, <1>8, <1>9, <1>10, <1>11, <1>12, <1>13, WorkerCases
        DEF WorkerSteps

--------------------------------------------------------------------------------
(* The registry of the Java front end                                          *)

LEMMA GenerationIs ==
  ASSUME NEW g
  PROVE  g \in Generation <=>
           /\ g = [gen |-> g.gen, count |-> g.count, toks |-> g.toks] /\ g.gen \in Nat /\ g.count \in Nat
           /\ DOMAIN g.toks \subseteq Dests /\ g.toks = [d \in DOMAIN g.toks |-> g.toks[d]]
           /\ \A d \in DOMAIN g.toks : g.toks[d] \in Nat
<1> DEFINE T == UNION {[D -> Nat] : D \in SUBSET Dests}
<1>1. ASSUME NEW t
      PROVE  t \in T <=> /\ DOMAIN t \subseteq Dests /\ t = [d \in DOMAIN t |-> t[d]]
                         /\ \A d \in DOMAIN t : t[d] \in Nat
  <2>1. ASSUME DOMAIN t \subseteq Dests, t = [d \in DOMAIN t |-> t[d]],
               \A d \in DOMAIN t : t[d] \in Nat
        PROVE  t \in T
    <3>1. t \in [DOMAIN t -> Nat]
      BY <2>1
    <3> QED BY <2>1, <3>1
  <2> QED BY <2>1
<1> HIDE DEF T
<1>2. Generation = [gen : Nat, count : Nat, toks : T]
  BY DEF Generation, T
<1> QED BY <1>1, <1>2

LEMMA NoGenerationTyped == NoGeneration \in Generation /\ NoGeneration.gen = 0
BY GenerationIs DEF NoGeneration

\* Java's calls, and the registry they work on.  Of the set that is built, a part is
\* registered, by the one opener that is still at it, or left by one that has given up.
Registering(o) == calls[o].pc \in {"spawn", "register"}
Holds(o, g) == \A d \in DOMAIN g.toks : handles[o][d] = [gen |-> g.gen, tok |-> g.toks[d]]

OneRegisters == \A o, p \in Openers : Registering(o) /\ Registering(p) => o = p
Unregistered1 ==
  \A o \in Openers : Registering(o) => \A d \in Dests : d >= calls[o].at => handles[o][d] = NoHandle
GenerationsGrow ==
  /\ registry.last < registry.next /\ registry.active.gen < registry.next
  /\ registry.pending.gen < registry.next
  /\ \A o \in Openers, d \in Dests : handles[o][d].gen < registry.next
HandlesAreOwn ==
  /\ \A o \in Openers, d \in Dests : handles[o][d] # NoHandle => handles[o][d].gen # 0
  /\ \A o, p \in Openers, d, e \in Dests :
       o # p /\ handles[o][d].gen # 0 => handles[o][d].gen # handles[p][e].gen
PendingIsHeld ==
  LET g == registry.pending IN
  g.gen # 0 =>
    /\ g.count = NDest /\ 1 \in DOMAIN g.toks /\ g.gen # registry.last
    /\ \E o \in Openers : Holds(o, g)
    /\ \A o \in Openers : Registering(o) /\ calls[o].at # 1 => Holds(o, g)

JavaInv ==
  /\ OneRegisters /\ Unregistered1 /\ GenerationsGrow /\ HandlesAreOwn /\ PendingIsHeld
  /\ PublishedSetIsWhole /\ LastSetIsPublished

LEMMA InitJava == Init => JavaInv
<1> SUFFICES ASSUME Init PROVE JavaInv
  OBVIOUS
<1>1. /\ registry.active = NoGeneration /\ registry.pending = NoGeneration /\ registry.next = 1
      /\ registry.last = 0 /\ \A o \in Openers, d \in Dests : handles[o][d] = NoHandle
      /\ \A o \in Openers : calls[o].pc = "idle"
  BY DEF Init, JavaInit
<1>2. NoGeneration.gen = 0 /\ NoHandle.gen = 0
  BY DEF NoGeneration, NoHandle
<1> QED BY <1>1, <1>2, JavaConfTyped
        DEF JavaInv, OneRegisters, Unregistered1, GenerationsGrow, HandlesAreOwn, PendingIsHeld,
            PublishedSetIsWhole, LastSetIsPublished, Registering

\* What a call does to where it is
LEMMA CallGoes ==
  ASSUME JavaTypes, NEW o \in Openers, NEW pc, NEW d, At(o, pc, d),
         pc \in {"idle", "spawn", "register", "abort", "stop", "shutdown"},
         IF pc \in {"idle", "abort"} THEN d = 0 ELSE d \in Dests
  PROVE  /\ CallTypes' /\ calls'[o].pc = pc /\ calls'[o].at = d
         /\ \A p \in Openers : p # o => calls'[p] = calls[p]
<1>1. d \in Nat
  BY SettingsAssumption DEF Dests
<1> QED BY <1>1 DEF At, JavaTypes, CallTypes

\* One that does not touch the registry
LEMMA JavaFrame ==
  ASSUME JavaInv, CallTypes', UNCHANGED <<handles, registry.active, registry.pending, registry.next,
                                          registry.last>>,
         OneRegisters',
         \A o \in Openers : Registering(o)' =>
           \/ Registering(o) /\ calls'[o].at = calls[o].at
           \/ calls'[o].at = 1 /\ \A d \in Dests : handles[o][d] = NoHandle
  PROVE  JavaInv'
<1>1. Unregistered1'
  BY DEF JavaInv, Unregistered1
<1>2. PendingIsHeld'
  BY DEF JavaInv, PendingIsHeld, Holds
<1>3. (GenerationsGrow /\ HandlesAreOwn)'
  BY DEF JavaInv, GenerationsGrow, HandlesAreOwn
<1>4. (PublishedSetIsWhole /\ LastSetIsPublished)'
  BY DEF JavaInv, PublishedSetIsWhole, LastSetIsPublished
<1> QED BY <1>1, <1>2, <1>3, <1>4 DEF JavaInv

JavaStep == JavaTypes' /\ JavaInv'

LEMMA JavaOpensStep == ASSUME JavaTypes, JavaInv, NEW o \in Openers, JavaOpens(o) PROVE JavaStep
<1>1. /\ CallTypes' /\ calls'[o].pc = "spawn" /\ calls'[o].at = 1
      /\ \A p \in Openers : p # o => calls'[p] = calls[p]
  BY JavaConfTyped, CallGoes DEF JavaOpens
<1>2. /\ UNCHANGED <<handles, registry.active, registry.pending, registry.next, registry.last>>
      /\ registry' \in [active : Generation, pending : Generation, next : Nat, opens : Nat, last : Nat]
  BY DEF JavaOpens, JavaTypes
<1>3. OneRegisters'
  BY <1>1 DEF JavaOpens, JavaInv, OneRegisters, Registering
<1>4. JavaInv'
  BY <1>1, <1>2, <1>3, JavaFrame DEF JavaOpens, Registering
<1> QED BY <1>1, <1>2, <1>4 DEF JavaStep, JavaTypes

LEMMA JavaSpawnsStep == ASSUME JavaTypes, JavaInv, NEW o \in Openers, JavaSpawns(o) PROVE JavaStep
<1>1. /\ CallTypes' /\ calls'[o].pc \in {"register", "abort"} /\ calls[o].pc = "spawn"
      /\ (calls'[o].pc = "register" => calls'[o].at = calls[o].at)
      /\ \A p \in Openers : p # o => calls'[p] = calls[p]
  <2> DEFINE d == calls[o].at
  <2>1. d \in Dests /\ calls[o].pc = "spawn"
    BY DEF JavaSpawns, JavaTypes, CallTypes
  <2>2. At(o, "register", d) \/ At(o, "abort", d)
    BY DEF JavaSpawns
  <2> HIDE DEF d
  <2>3. d \in Nat
    BY <2>1, SettingsAssumption DEF Dests
  <2>4. CASE At(o, "register", d)
    BY <2>1, <2>4, CallGoes DEF d
  <2>5. CASE At(o, "abort", d)
    BY <2>1, <2>3, <2>5 DEF At, JavaTypes, CallTypes
  <2> QED BY <2>2, <2>4, <2>5
<1>2. UNCHANGED <<handles, registry>>
  BY DEF JavaSpawns
<1>3. OneRegisters'
  BY <1>1 DEF JavaInv, OneRegisters, Registering
<1>4. JavaInv'
  BY <1>1, <1>2, <1>3, JavaFrame DEF Registering
<1> QED BY <1>1, <1>2, <1>4 DEF JavaStep, JavaTypes

\* One that has nothing more to register
LEMMA CallEnds ==
  ASSUME JavaTypes, JavaInv, NEW o \in Openers, NEW pc \in {"idle", "abort", "stop", "shutdown"},
         NEW d \in Nat, At(o, pc, d), pc \in {"stop", "shutdown"} => d \in Dests,
         UNCHANGED <<handles, registry>>
  PROVE  JavaStep
<1>1. /\ CallTypes' /\ calls'[o].pc = pc
      /\ \A p \in Openers : p # o => calls'[p] = calls[p]
  BY DEF At, JavaTypes, CallTypes
<1>2. OneRegisters'
  BY <1>1 DEF JavaInv, OneRegisters, Registering
<1>3. JavaInv'
  BY <1>1, <1>2, JavaFrame DEF Registering
<1> QED BY <1>1, <1>3 DEF JavaStep, JavaTypes

LEMMA JavaAbortsStep == ASSUME JavaTypes, JavaInv, NEW o \in Openers, JavaAborts(o) PROVE JavaStep
<1>1. CASE \E d \in Dests : handles[o][d] # NoHandle
  <2>1. PICK d \in Dests : At(o, "stop", d)
    BY <1>1 DEF JavaAborts
  <2> QED BY <2>1, CallEnds, SettingsAssumption DEF JavaAborts, Dests
<1>2. CASE ~ \E d \in Dests : handles[o][d] # NoHandle
  BY <1>2, CallEnds DEF JavaAborts
<1> QED BY <1>1, <1>2

LEMMA JavaStopsStep == ASSUME JavaTypes, JavaInv, NEW o \in Openers, JavaStops(o) PROVE JavaStep
<1>1. PICK d \in Dests : At(o, "stop", d)
  BY DEF JavaStops
<1> QED BY <1>1, CallEnds, SettingsAssumption DEF JavaStops, Dests

LEMMA ShutdownStep == ASSUME JavaTypes, JavaInv, NEW o \in Openers, ShutdownWorker(o) PROVE JavaStep
BY CallEnds DEF ShutdownWorker

LEMMA HandleParts ==
  ASSUME NEW h, NEW n, NEW t, h = [gen |-> n, tok |-> t] PROVE h.gen = n /\ h.tok = t
OBVIOUS

\* What is in a set, and how one comes to be
LEMMA GenerationParts ==
  ASSUME NEW g \in Generation
  PROVE  /\ g.gen \in Nat /\ g.count \in Nat /\ DOMAIN g.toks \subseteq Dests
         /\ \A d \in DOMAIN g.toks : g.toks[d] \in Nat
BY GenerationIs

LEMMA GenerationMade ==
  ASSUME NEW n \in Nat, NEW count \in Nat, NEW t, DOMAIN t \subseteq Dests, t = [d \in DOMAIN t |-> t[d]],
         \A d \in DOMAIN t : t[d] \in Nat
  PROVE  [gen |-> n, count |-> count, toks |-> t] \in Generation
<1> DEFINE g == [gen |-> n, count |-> count, toks |-> t]
<1>1. g = [gen |-> g.gen, count |-> g.count, toks |-> g.toks] /\ g.gen = n /\ g.count = count /\ g.toks = t
  OBVIOUS
<1> HIDE DEF g
<1>2. g \in Generation
  BY <1>1, GenerationIs
<1> QED BY <1>2 DEF g

LEMMA GenerationAdds ==
  ASSUME NEW g \in Generation, NEW t, DOMAIN t \subseteq Dests, t = [d \in DOMAIN t |-> t[d]],
         \A d \in DOMAIN t : t[d] \in Nat
  PROVE  LET G == [g EXCEPT !.toks = t] IN
         G \in Generation /\ G.gen = g.gen /\ G.count = g.count /\ G.toks = t
<1>1. PICK n \in Nat, count \in Nat : g = [gen |-> n, count |-> count, toks |-> g.toks]
  BY GenerationIs
<1>2. [g EXCEPT !.toks = t] = [gen |-> n, count |-> count, toks |-> t] /\ g.gen = n /\ g.count = count
  BY <1>1
<1> QED BY <1>2, GenerationMade

\* What is being built, when destination d may be added to it: nothing of it is anybody
\* else's.
LEMMA BuildingIsOwn ==
  ASSUME JavaTypes, JavaInv, NEW o \in Openers, Registering(o), CanRegister(calls[o].at)
  PROVE  LET d == calls[o].at  g == Building(d) IN
         /\ d \in Dests /\ g \in Generation /\ g.gen # 0 /\ g.count = NDest /\ d \notin DOMAIN g.toks
         /\ 1 \in DOMAIN g.toks \union {d} /\ Holds(o, g)
         /\ g.gen # registry.last /\ g.gen < registry.next + 1 /\ (d # 1 => g.gen < registry.next)
         /\ handles[o][d] = NoHandle
         /\ \A p \in Openers, e \in Dests : p # o => handles[p][e].gen # g.gen
<1> DEFINE d == calls[o].at  g == Building(d)
<1>1. d \in Dests /\ handles[o][d] = NoHandle /\ d \notin DOMAIN g.toks /\ g.gen # 0
  <2>1. d \in Dests
    BY DEF Registering, JavaTypes, CallTypes
  <2> QED BY <2>1, SettingsAssumption DEF JavaInv, Unregistered1, CanRegister, Dests
<1>2. /\ GenerationsGrow /\ HandlesAreOwn /\ PendingIsHeld /\ registry.next \in Nat
      /\ registry.last \in Nat /\ registry.pending \in Generation /\ 1 \in Dests
      /\ handles \in [Openers -> [Dests -> [gen : Nat, tok : Nat]]]
  BY JavaConfTyped DEF JavaInv, JavaTypes
<1>3. CASE d = 1
  <2> DEFINE none == [e \in {} |-> 0]
  <2>1. g = [gen |-> registry.next, count |-> NDest, toks |-> none] /\ DOMAIN none = {}
    BY <1>3 DEF Building
  <2>2. g \in Generation
    <3>1. NDest \in Nat /\ none = [e \in DOMAIN none |-> none[e]]
      BY SettingsAssumption
    <3> HIDE DEF none, g
    <3> QED BY <1>2, <2>1, <3>1, GenerationMade
  <2>3. \A p \in Openers, e \in Dests : handles[p][e].gen # g.gen
    BY <1>2, <2>1 DEF GenerationsGrow
  <2> QED BY <1>1, <1>2, <1>3, <2>1, <2>2, <2>3 DEF GenerationsGrow, Holds
<1>4. CASE d # 1
  <2>1. g = registry.pending
    BY <1>4 DEF Building
  <2>2. g.count = NDest /\ 1 \in DOMAIN g.toks /\ g.gen # registry.last /\ Holds(o, g)
    BY <1>1, <1>2, <1>4, <2>1 DEF PendingIsHeld
  <2>3. handles[o][1].gen = g.gen /\ g.gen \in Nat
    <3>1. g.gen \in Nat
      BY <1>2, <2>1, GenerationParts
    <3> HIDE DEF g
    <3>2. handles[o][1] = [gen |-> g.gen, tok |-> g.toks[1]]
      BY <2>2 DEF Holds
    <3> QED BY <3>1, <3>2, HandleParts
  <2>4. \A p \in Openers, e \in Dests : p # o => handles[p][e].gen # g.gen
    BY <1>1, <1>2, <2>3 DEF HandlesAreOwn
  <2> QED BY <1>1, <1>2, <1>4, <2>1, <2>2, <2>3, <2>4 DEF GenerationsGrow
<1> QED BY <1>3, <1>4

LEMMA JavaRegistersStep == ASSUME JavaTypes, JavaInv, NEW o \in Openers, JavaRegisters(o) PROVE JavaStep
<1> DEFINE d == calls[o].at
           g == Building(d)
           tok == registry.next + (IF d = 1 THEN 1 ELSE 0)
           toks == [e \in DOMAIN g.toks \union {d} |-> IF e = d THEN tok ELSE g.toks[e]]
           G == [g EXCEPT !.toks = toks]
           h == [gen |-> g.gen, tok |-> tok]
           whole == DOMAIN toks = 1..g.count
<1>1. Registering(o) /\ d \in Dests /\ d \in Nat
  BY SettingsAssumption DEF JavaRegisters, Registering, JavaTypes, CallTypes, Dests
<1>2. CASE ~ CanRegister(d)
  BY <1>1, <1>2, CallEnds DEF JavaRegisters
<1>3. CASE CanRegister(d)
  <2>1. /\ g \in Generation /\ g.gen # 0 /\ g.count = NDest /\ d \notin DOMAIN g.toks
        /\ 1 \in DOMAIN g.toks \union {d} /\ Holds(o, g)
        /\ g.gen # registry.last /\ g.gen < registry.next + 1 /\ (d # 1 => g.gen < registry.next)
        /\ handles[o][d] = NoHandle
        /\ \A p \in Openers, e \in Dests : p # o => handles[p][e].gen # g.gen
    BY <1>1, <1>3, BuildingIsOwn
  <2>2. /\ registry' = [registry EXCEPT
                    !.next = tok + 1,
                    !.pending = IF whole THEN NoGeneration ELSE G,
                    !.active = IF whole THEN G ELSE @,
                    !.last = IF whole THEN g.gen ELSE @]
        /\ handles' = [handles EXCEPT ![o][d] = h]
        /\ IF d = NDest THEN At(o, "idle", 0) ELSE At(o, "spawn", d + 1)
    BY <1>3 DEF JavaRegisters, Registered
  <2>3. /\ tok \in Nat /\ tok >= registry.next /\ registry.next \in Nat /\ (d = 1 => tok > registry.next)
        /\ registry.last \in Nat /\ registry.active \in Generation
        /\ g.gen \in Nat /\ DOMAIN toks = DOMAIN g.toks \union {d} /\ DOMAIN g.toks \subseteq Dests
        /\ \A e \in DOMAIN g.toks : g.toks[e] \in Nat
    <3>1. registry.next \in Nat /\ registry.last \in Nat /\ registry.active \in Generation
      BY DEF JavaTypes
    <3>2. g.gen \in Nat /\ DOMAIN g.toks \subseteq Dests /\ \A e \in DOMAIN g.toks : g.toks[e] \in Nat
      BY <2>1, GenerationParts
    <3> HIDE DEF g, d
    <3> QED BY <3>1, <3>2
  <2>4. G.toks = toks /\ G.gen = g.gen /\ G.count = NDest /\ G \in Generation
    <3>1. toks \in [DOMAIN toks -> Nat]
      <4> HIDE DEF g, d, tok
      <4> QED BY <2>3
    <3> HIDE DEF toks, g
    <3>2. DOMAIN toks \subseteq Dests /\ toks = [e \in DOMAIN toks |-> toks[e]]
          /\ \A e \in DOMAIN toks : toks[e] \in Nat
      BY <1>1, <2>3, <3>1
    <3> QED BY <2>1, <3>2, GenerationAdds
  <2>5. /\ registry'.next = tok + 1 /\ registry'.pending = (IF whole THEN NoGeneration ELSE G)
        /\ registry'.active = (IF whole THEN G ELSE registry.active)
        /\ registry'.last = (IF whole THEN g.gen ELSE registry.last)
        /\ registry' \in [active : Generation, pending : Generation, next : Nat, opens : Nat, last : Nat]
    <3> HIDE DEF toks, g, G, tok, d, whole
    <3> DEFINE R == [active : Generation, pending : Generation, next : Nat, opens : Nat, last : Nat]
               P == IF whole THEN NoGeneration ELSE G
               A == IF whole THEN G ELSE registry.active
               L == IF whole THEN g.gen ELSE registry.last
    <3>1. registry \in R
      BY DEF JavaTypes
    <3>2. P \in Generation /\ A \in Generation /\ L \in Nat /\ tok + 1 \in Nat
      BY <2>3, <2>4, NoGenerationTyped
    <3>3. registry' = [registry EXCEPT !.next = tok + 1, !.pending = P, !.active = A, !.last = L]
      BY <2>2, <3>1
    <3>4. registry' \in R /\ registry'.next = tok + 1 /\ registry'.pending = P /\ registry'.active = A
          /\ registry'.last = L
      <4> HIDE DEF P, A, L
      <4> QED BY <3>1, <3>2, <3>3
    <3> QED BY <3>4
  <2>6. /\ handles' \in [Openers -> [Dests -> [gen : Nat, tok : Nat]]]
        /\ handles'[o][d] = h
        /\ \A p \in Openers, e \in Dests : p # o \/ e # d => handles'[p][e] = handles[p][e]
    <3>1. h \in [gen : Nat, tok : Nat]
      BY <2>3
    <3> HIDE DEF h
    <3> QED BY <1>1, <2>2, <3>1 DEF JavaTypes
  <2>7. /\ CallTypes' /\ \A p \in Openers : p # o => calls'[p] = calls[p]
        /\ \/ calls'[o].pc = "idle"
           \/ calls'[o].pc = "spawn" /\ calls'[o].at = d + 1
    <3>1. CASE d = NDest
      BY <2>2, <3>1, CallGoes
    <3>2. CASE d # NDest
      <4>1. d + 1 \in Dests
        BY <1>1, <3>2, SettingsAssumption DEF Dests
      <4> QED BY <2>2, <3>2, <4>1, CallGoes
    <3> QED BY <3>1, <3>2
  <2>8. \A e \in DOMAIN G.toks : handles'[o][e] = [gen |-> G.gen, tok |-> G.toks[e]]
    <3>1. ASSUME NEW e \in DOMAIN toks PROVE handles'[o][e] = [gen |-> g.gen, tok |-> toks[e]]
      <4>1. CASE e = d
        BY <2>3, <2>6, <4>1
      <4>2. CASE e # d
        <5>1. e \in DOMAIN g.toks /\ e \in Dests /\ toks[e] = g.toks[e]
          BY <2>3, <3>1, <4>2
        <5> QED BY <2>1, <2>6, <4>2, <5>1 DEF Holds
      <4> QED BY <4>1, <4>2
    <3> QED BY <2>4, <3>1
  <2>9. /\ DOMAIN G.toks = DOMAIN g.toks \union {d} /\ 1 \in DOMAIN G.toks /\ G.gen # 0
        /\ G.gen # registry.last /\ G.gen < registry'.next /\ h.gen = G.gen /\ h.tok = tok
        /\ \A p \in Openers, e \in Dests : p # o => handles'[p][e].gen # G.gen
    <3>1. h.gen = g.gen /\ h.tok = tok
      OBVIOUS
    <3>2. \A p \in Openers, e \in Dests : p # o => handles'[p][e].gen # g.gen
      BY <2>1, <2>6
    <3> HIDE DEF toks, g, G, tok, h, d
    <3> QED BY <2>1, <2>3, <2>4, <2>5, <3>1, <3>2
  <2>10. whole <=> DOMAIN G.toks = Dests
    BY <2>1, <2>4 DEF Dests
  <2> HIDE DEF toks, g, G, tok, h, whole, d
  <2>11. OneRegisters'
    BY <1>1, <2>7 DEF JavaInv, OneRegisters, Registering
  <2>12. \A p \in Openers : Registering(p)' => p = o /\ calls'[o].at = d + 1
    BY <1>1, <2>7 DEF JavaInv, OneRegisters, Registering
  <2>13. Unregistered1'
    <3>1. \A e \in Dests : e >= d => handles[o][e] = NoHandle
      BY <1>1 DEF JavaInv, Unregistered1, d
    <3>2. \A e \in Dests : e >= d + 1 => handles'[o][e] = NoHandle
      BY <1>1, <2>6, <3>1, SettingsAssumption DEF Dests
    <3> QED BY <2>12, <3>2 DEF Unregistered1
  <2>14. GenerationsGrow'
    <3>1. \A p \in Openers, e \in Dests : handles'[p][e].gen < registry'.next
      <4>1. \A p \in Openers, e \in Dests : handles[p][e].gen < tok + 1 /\ handles[p][e].gen \in Nat
        BY <2>3 DEF JavaInv, GenerationsGrow, JavaTypes
      <4> QED BY <1>1, <2>5, <2>6, <2>9, <4>1
    <3>2. /\ registry.active.gen < tok + 1 /\ registry.last < tok + 1 /\ registry.active.gen \in Nat
      BY <2>3, GenerationParts DEF JavaInv, GenerationsGrow
    <3>3. registry'.next \in Nat /\ NoGeneration.gen < registry'.next
      BY <2>3, <2>5, NoGenerationTyped
    <3>4. g.gen = G.gen
      BY <2>4
    <3> QED BY <2>5, <2>9, <3>1, <3>2, <3>3, <3>4 DEF GenerationsGrow
  <2>15. HandlesAreOwn'
    <3>1. \A p \in Openers, e \in Dests : handles'[p][e] # NoHandle => handles'[p][e].gen # 0
      BY <2>6, <2>9 DEF JavaInv, HandlesAreOwn
    <3>2. \A p, q \in Openers, e, f \in Dests :
            p # q /\ handles'[p][e].gen # 0 => handles'[p][e].gen # handles'[q][f].gen
      <4> TAKE p, q \in Openers, e, f \in Dests
      <4>1. p # q /\ handles[p][e].gen # 0 => handles[p][e].gen # handles[q][f].gen
        BY DEF JavaInv, HandlesAreOwn
      <4>2. CASE p = o /\ e = d
        BY <2>6, <2>9, <4>2
      <4>3. CASE q = o /\ f = d
        BY <2>6, <2>9, <4>3
      <4>4. CASE ~ (p = o /\ e = d) /\ ~ (q = o /\ f = d)
        BY <2>6, <4>1, <4>4
      <4> QED BY <4>2, <4>3, <4>4
    <3> QED BY <3>1, <3>2 DEF HandlesAreOwn
  <2>16. CASE whole
    <3>1. /\ registry'.active = G /\ registry'.pending = NoGeneration /\ registry'.last = G.gen
      BY <2>4, <2>5, <2>16
    <3>2. PendingIsHeld'
      BY <3>1, NoGenerationTyped DEF PendingIsHeld
    <3>3. PublishedSetIsWhole'
      BY <2>8, <2>10, <2>16, <3>1 DEF PublishedSetIsWhole
    <3>4. LastSetIsPublished'
      BY <3>1 DEF LastSetIsPublished
    <3>5. JavaInv'
      BY <2>11, <2>13, <2>14, <2>15, <3>2, <3>3, <3>4 DEF JavaInv
    <3> QED BY <2>5, <2>6, <2>7, <3>5 DEF JavaStep, JavaTypes
  <2>17. CASE ~ whole
    <3>1. /\ registry'.active = registry.active /\ registry'.pending = G
          /\ registry'.last = registry.last
      BY <2>5, <2>17
    <3>2. PendingIsHeld'
      BY <2>4, <2>8, <2>9, <2>12, <3>1 DEF PendingIsHeld, Holds
    <3>3. PublishedSetIsWhole'
      <4>1. SUFFICES ASSUME registry.active.gen # 0
                     PROVE  /\ DOMAIN registry.active.toks = Dests
                            /\ \E p \in Openers : \A e \in Dests :
                                 handles'[p][e] = [gen |-> registry.active.gen,
                                                   tok |-> registry.active.toks[e]]
        BY <3>1 DEF PublishedSetIsWhole
      <4>2. PICK p \in Openers : \A e \in Dests :
              handles[p][e] = [gen |-> registry.active.gen, tok |-> registry.active.toks[e]]
        BY <4>1 DEF JavaInv, PublishedSetIsWhole
      <4>3. p # o
        <5>1. handles[p][d].gen = registry.active.gen
          <6>1. handles[p][d] = [gen |-> registry.active.gen, tok |-> registry.active.toks[d]]
            BY <1>1, <4>2
          <6> QED BY <6>1, HandleParts
        <5> QED BY <2>1, <4>1, <5>1 DEF NoHandle
      <4>4. \A e \in Dests : handles'[p][e] = handles[p][e]
        BY <2>6, <4>3
      <4> QED BY <4>1, <4>2, <4>4 DEF JavaInv, PublishedSetIsWhole
    <3>4. LastSetIsPublished'
      <4> SUFFICES ASSUME NEW p \in Openers,
                          \A e \in Dests : handles'[p][e] # NoHandle /\ handles'[p][e].gen = registry.last
                   PROVE  registry.active.gen = registry.last
        BY <3>1 DEF LastSetIsPublished
      <4>1. p # o
        BY <1>1, <2>6, <2>9
      <4> QED BY <2>6, <4>1 DEF JavaInv, LastSetIsPublished
    <3>5. JavaInv'
      BY <2>11, <2>13, <2>14, <2>15, <3>2, <3>3, <3>4 DEF JavaInv
    <3> QED BY <2>5, <2>6, <2>7, <3>5 DEF JavaStep, JavaTypes
  <2> QED BY <2>16, <2>17
<1> QED BY <1>2, <1>3

\* A registration goes, and with it the set it is of.
LEMMA UnregisterStep == ASSUME JavaTypes, JavaInv, NEW o \in Openers, Unregister(o) PROVE JavaStep
<1> DEFINE d == calls[o].at
           h == handles[o][d]
           P == IF ContainsToken(registry.pending, d, h) THEN NoGeneration ELSE registry.pending
           A == IF ContainsToken(registry.active, d, h) THEN NoGeneration ELSE registry.active
           R == [active : Generation, pending : Generation, next : Nat, opens : Nat, last : Nat]
<1>1. d \in Dests /\ calls[o].pc = "stop"
  BY DEF Unregister, JavaTypes, CallTypes
<1>2. registry \in R /\ registry' = [registry EXCEPT !.pending = P, !.active = A]
      /\ handles' = [handles EXCEPT ![o][d] = NoHandle] /\ At(o, "shutdown", d)
  BY DEF Unregister, Unregistered, JavaTypes
<1>3. P \in Generation /\ A \in Generation
  BY NoGenerationTyped DEF JavaTypes
<1>4. registry' \in R /\ registry'.pending = P /\ registry'.active = A
      /\ UNCHANGED <<registry.next, registry.last>>
  <2> HIDE DEF P, A
  <2> QED BY <1>2, <1>3
<1>5. /\ handles' \in [Openers -> [Dests -> [gen : Nat, tok : Nat]]] /\ handles'[o][d] = NoHandle
      /\ \A p \in Openers, e \in Dests : p # o \/ e # d => handles'[p][e] = handles[p][e]
      /\ NoHandle.gen = 0
  <2>1. NoHandle \in [gen : Nat, tok : Nat] /\ NoHandle.gen = 0
    BY DEF NoHandle
  <2> HIDE DEF d
  <2> QED BY <1>1, <1>2, <2>1 DEF JavaTypes
<1>6. CallTypes' /\ calls'[o].pc = "shutdown" /\ \A p \in Openers : p # o => calls'[p] = calls[p]
  BY <1>1, <1>2, CallGoes
<1> HIDE DEF d, P, A, R
<1>7. \A p \in Openers : Registering(p)' => Registering(p) /\ p # o /\ calls'[p] = calls[p]
  BY <1>6 DEF Registering
<1>8. OneRegisters' /\ Unregistered1'
  BY <1>5, <1>7 DEF JavaInv, OneRegisters, Unregistered1
<1>9. GenerationsGrow'
  <2>1. registry'.next \in Nat /\ registry'.next = registry.next /\ registry.last < registry.next
        /\ \A p \in Openers, e \in Dests : handles[p][e].gen < registry.next
    BY <1>4 DEF JavaInv, GenerationsGrow, R
  <2>2. registry.next > 0
    BY <2>1 DEF JavaTypes
  <2>3. P.gen < registry.next /\ A.gen < registry.next
    BY <2>2, NoGenerationTyped DEF JavaInv, GenerationsGrow, P, A
  <2>4. \A p \in Openers, e \in Dests : handles'[p][e].gen < registry'.next
    BY <1>1, <1>5, <2>1, <2>2
  <2> QED BY <1>4, <2>1, <2>3, <2>4 DEF GenerationsGrow
<1>10. HandlesAreOwn'
  <2>1. \A p \in Openers, e \in Dests : handles'[p][e] # NoHandle =>
           handles'[p][e] = handles[p][e]
    BY <1>1, <1>5
  <2>2. \A p \in Openers, e \in Dests : handles'[p][e].gen # 0 =>
           handles'[p][e] = handles[p][e]
    BY <1>5, <2>1
  <2>3. \A p, q \in Openers, e, f \in Dests :
          p # q /\ handles'[p][e].gen # 0 => handles'[p][e].gen # handles'[q][f].gen
    <3> SUFFICES ASSUME NEW p \in Openers, NEW q \in Openers, NEW e \in Dests, NEW f \in Dests,
                        p # q, handles'[p][e].gen # 0
                 PROVE  handles'[p][e].gen # handles'[q][f].gen
      OBVIOUS
    <3>1. handles'[p][e] = handles[p][e] /\ handles[p][e].gen # handles[q][f].gen
      BY <2>2 DEF JavaInv, HandlesAreOwn
    <3> QED BY <2>2, <3>1
  <2> QED BY <2>1, <2>3 DEF JavaInv, HandlesAreOwn
<1>11. PendingIsHeld'
  <2> SUFFICES ASSUME P = registry.pending, P.gen # 0, ~ ContainsToken(P, d, h) PROVE PendingIsHeld'
    BY <1>4, NoGenerationTyped DEF PendingIsHeld, P
  <2>1. ASSUME NEW p \in Openers, Holds(p, P)
        PROVE  \A e \in DOMAIN P.toks : handles'[p][e] = [gen |-> P.gen, tok |-> P.toks[e]]
    <3>1. ~ (p = o /\ d \in DOMAIN P.toks)
      <4> SUFFICES ASSUME p = o, d \in DOMAIN P.toks PROVE ContainsToken(P, d, h)
        BY DEF P
      <4>1. h = [gen |-> P.gen, tok |-> P.toks[d]]
        BY <2>1 DEF Holds
      <4> QED BY <4>1, HandleParts DEF ContainsToken
    <3>2. DOMAIN P.toks \subseteq Dests
      BY <1>3, GenerationParts
    <3> QED BY <1>5, <2>1, <3>1, <3>2 DEF Holds
  <2>2. /\ P.count = NDest /\ 1 \in DOMAIN P.toks /\ P.gen # registry.last
        /\ \E p \in Openers : Holds(p, P)
        /\ \A p \in Openers : Registering(p) /\ calls[p].at # 1 => Holds(p, P)
    BY DEF JavaInv, PendingIsHeld
  <2>3. registry'.pending = P /\ registry'.last = registry.last
    BY <1>4
  <2>4. \A p \in Openers : (Registering(p) /\ calls[p].at # 1)' =>
          \A e \in DOMAIN P.toks : handles'[p][e] = [gen |-> P.gen, tok |-> P.toks[e]]
    BY <1>7, <2>1, <2>2
  <2>5. \E p \in Openers : \A e \in DOMAIN P.toks :
          handles'[p][e] = [gen |-> P.gen, tok |-> P.toks[e]]
    BY <2>1, <2>2
  <2> HIDE DEF h
  <2> QED BY <2>2, <2>3, <2>4, <2>5 DEF PendingIsHeld, Holds
<1>12. PublishedSetIsWhole' /\ (registry'.active # registry.active =>
            \E e \in Dests : handles[o][e].gen = registry.active.gen /\ handles'[o][e] = NoHandle)
  <2>1. CASE ContainsToken(registry.active, d, h)
    BY <1>1, <1>4, <1>5, <2>1, NoGenerationTyped DEF ContainsToken, A, PublishedSetIsWhole
  <2>2. CASE ~ ContainsToken(registry.active, d, h)
    <3>1. registry'.active = registry.active
      BY <1>4, <2>2 DEF A
    <3> SUFFICES ASSUME registry.active.gen # 0 PROVE PublishedSetIsWhole'
      BY <3>1 DEF PublishedSetIsWhole
    <3>2. PICK p \in Openers : \A e \in Dests :
            handles[p][e] = [gen |-> registry.active.gen, tok |-> registry.active.toks[e]]
      BY DEF JavaInv, PublishedSetIsWhole
    <3>3. DOMAIN registry.active.toks = Dests
      BY DEF JavaInv, PublishedSetIsWhole
    <3>4. p # o
      <4> SUFFICES ASSUME p = o PROVE ContainsToken(registry.active, d, h)
        BY <2>2
      <4>1. h = [gen |-> registry.active.gen, tok |-> registry.active.toks[d]]
        BY <1>1, <3>2
      <4> QED BY <1>1, <3>3, <4>1, HandleParts DEF ContainsToken
    <3>5. \A e \in Dests : handles'[p][e] = handles[p][e]
      BY <1>5, <3>4
    <3> QED BY <3>1, <3>2, <3>3, <3>5 DEF PublishedSetIsWhole
  <2> QED BY <2>1, <2>2
<1>13. LastSetIsPublished'
  <2> SUFFICES ASSUME NEW p \in Openers,
                      \A e \in Dests : handles'[p][e] # NoHandle /\ handles'[p][e].gen = registry.last
               PROVE  registry'.active.gen = registry.last
    BY <1>4 DEF LastSetIsPublished
  <2>1. p # o
    BY <1>1, <1>5
  <2>2. \A e \in Dests : handles[p][e] # NoHandle /\ handles[p][e].gen = registry.last
    BY <1>5, <2>1
  <2>3. registry.active.gen = registry.last
    BY <2>2 DEF JavaInv, LastSetIsPublished
  <2>4. registry'.active = registry.active
    <3> SUFFICES ASSUME NEW e \in Dests, handles[o][e].gen = registry.active.gen PROVE FALSE
      BY <1>12
    <3>1. handles[p][1].gen = registry.last /\ handles[p][1].gen # 0 /\ 1 \in Dests
      BY <2>2, JavaConfTyped DEF JavaInv, HandlesAreOwn
    <3> QED BY <2>1, <2>3, <3>1 DEF JavaInv, HandlesAreOwn
  <2> QED BY <2>3, <2>4
<1>0. JavaInv'
  BY <1>8, <1>9, <1>10, <1>11, <1>12, <1>13 DEF JavaInv
<1> QED BY <1>4, <1>5, <1>6, <1>0 DEF JavaStep, JavaTypes, R

LEMMA JavaInvStep == JavaTypes /\ JavaInv /\ [Next]_vars => JavaTypes' /\ JavaInv'
<1> SUFFICES ASSUME JavaTypes, JavaInv, [Next]_vars PROVE JavaTypes' /\ JavaInv'
  OBVIOUS
<1>1. ASSUME NEW o \in Openers, JavaSteps(o) PROVE JavaStep
  BY <1>1, JavaOpensStep, JavaSpawnsStep, JavaRegistersStep, JavaAbortsStep, JavaStopsStep, UnregisterStep,
     ShutdownStep DEF JavaSteps
<1>2. ASSUME UNCHANGED javaVars PROVE JavaStep
  <2>1. UNCHANGED <<handles, registry.active, registry.pending, registry.next, registry.last>>
        /\ UNCHANGED <<registry, handles, calls>>
    BY <1>2 DEF javaVars
  <2>2. JavaTypes'
    BY <2>1 DEF JavaTypes, CallTypes
  <2>3. OneRegisters' /\ \A o \in Openers : Registering(o)' => Registering(o) /\ calls'[o].at = calls[o].at
    BY <2>1 DEF JavaInv, OneRegisters, Registering
  <2> QED BY <2>1, <2>2, <2>3, JavaFrame DEF JavaStep, JavaTypes
<1>3. CASE Waiting
  BY <1>2, <1>3 DEF Waiting, CallAwaitSync, CallAwaitApplied, CallJavaAwait, PollSteps, Unreachable, TimeOut,
     ReadTracker, ReadSource, ReadConfig, ReadCheckpoint, Poll, Decide, Return, Unmoved, JavaStep
<1>4. CASE Opening \/ Working \/ Crash \/ UNCHANGED vars
  BY <1>2, <1>4 DEF Opening, Working, Crash, vars, Still, JavaStep
<1>5. CASE Java
  BY <1>1, <1>2, <1>5 DEF Java, JavaCommits, JavaStep
<1> QED BY <1>3, <1>4, <1>5 DEF Next

--------------------------------------------------------------------------------
(* The workers of the destinations                                             *)

\* One front end or the other is at work.
FrontInv ==
  /\ ~ Front => \A o \in Openers : calls[o].pc = "idle"
  /\ layout.front # "rust" => meta.type = "none"

LEMMA FrontStep == OpenTypes /\ LockInv /\ CallTypes /\ FrontInv /\ [Next]_vars => FrontInv' /\ layout' = layout
<1> SUFFICES ASSUME OpenTypes, LockInv, CallTypes, FrontInv, [Next]_vars PROVE FrontInv' /\ layout' = layout
  OBVIOUS
<1>1. layout' = layout /\ (layout.front # "rust" => UNCHANGED meta)
  <2>1. ASSUME NEW o \in Openers,
               \/ RequestInitialize(o) \/ RequestOpen(o) \/ OpenSteps(o) \/ PersistConfig(o) \/ CommitDevice(o)
               \/ PublishCommit(o) \/ CloseSteps(o)
        PROVE  layout' = layout /\ layout.front = "rust"
    BY <2>1 DEF RequestInitialize, RequestOpen, OpenSteps, TryLock, Identify, SpawnWorker, SpawnFails, GiveUp,
       OpenDevice, NotifyWorkers, RegisterTracker, SeedTracker, PersistConfig, CommitDevice, PublishCommit,
       CloseSteps, CloseDevice, Unlock, UnregisterTracker, LockInv
  <2>2. ASSUME NEW o \in Openers, Roll(o) PROVE UNCHANGED <<layout, meta>>
    BY <2>2 DEF Roll, openVars
  <2>3. ASSUME JavaCommits \/ Die PROVE UNCHANGED <<layout, meta>>
    BY <2>3 DEF JavaCommits, Die
  <2>4. ASSUME UNCHANGED openVars PROVE UNCHANGED <<layout, meta>>
    BY <2>4 DEF openVars
  <2> QED BY <2>1, <2>2, <2>3, <2>4, NextCases DEF DeviceSteps
<1>2. ~ Front => UNCHANGED calls
  <2>1. ASSUME NEW o \in Openers, JavaSteps(o) PROVE Front
    BY <2>1 DEF JavaSteps, JavaOpens, JavaSpawns, JavaRegisters, JavaAborts, JavaStops, Unregister,
       ShutdownWorker, FrontInv
  <2>2. ASSUME Waiting PROVE UNCHANGED calls
    BY <2>2 DEF Waiting, CallAwaitSync, CallAwaitApplied, CallJavaAwait, PollSteps, Unreachable, TimeOut,
       ReadTracker, ReadSource, ReadConfig, ReadCheckpoint, Poll, Decide, Return, Unmoved, javaVars
  <2>3. ASSUME Opening \/ Working \/ Crash \/ UNCHANGED vars \/ JavaCommits PROVE UNCHANGED calls
    BY <2>3 DEF Opening, Working, Crash, vars, Still, JavaCommits, javaVars
  <2> QED BY <2>1, <2>2, <2>3 DEF Next, Java
<1> QED BY <1>1, <1>2 DEF FrontInv, Front

Serves(conf, d) == Running(d) /\ worker[d].conf[d] = conf[d]
Serving == {"device", "notify", "register", "seed", "open", "publish", "unlock"}

\* What a session may count on where it is.  Before an open fails it has to know which
\* workers it has made, and the ones it has found are those of the metadata, too.
Sound(o) ==
  LET s == ses[o] IN
  /\ s.pc \in {"requested", "locked"} => s.made = {}
  /\ s.pc = "spawn" =>
       /\ RunningSet = s.before \union s.made /\ s.made \intersect s.before = {}
       /\ \A d \in DOMAIN Conf(o) : d \in s.left \/ Serves(Conf(o), d)
  /\ s.pc \in {"spawn", "failed"} /\ layout.front = "rust" /\ deaths = 0 => DOMAIN MetaConf \subseteq s.before
  /\ s.pc = "failed" => RunningSet = s.before
  /\ s.pc \in Serving => \A d \in DOMAIN Conf(o) : Serves(Conf(o), d)
  /\ s.pc \in Serving \ {"device", "notify"} => \A d \in DOMAIN Conf(o) : worker[d].boot

ServedInv == ConfiguredIsServed /\ \A o \in Openers : Sound(o)

LEMMA ServedImplies == LockInv /\ ServedInv => FailedOpenUndone /\ DestinationsServed
BY DEF LockInv, ServedInv, Sound, Serves, FailedOpenUndone, DestinationsServed, SessionIsServed, Serving, Holding

LEMMA InitServed == Init => ServedInv /\ FrontInv
<1> SUFFICES ASSUME Init PROVE ServedInv /\ FrontInv
  OBVIOUS
<1>1. /\ meta = NewMeta /\ \A o \in Openers : ses[o] = Closed /\ calls[o].pc = "idle"
  BY DEF Init, OpenInit, JavaInit
<1>2. DOMAIN MetaConf = {}
  BY <1>1 DEF MetaConf, NewMeta, Configured, HasDestination, NoSettings, NoConfig
<1>3. \A o \in Openers : Sound(o)
  BY <1>1 DEF Closed, Sound, Serving
<1>4. FrontInv
  BY <1>1 DEF FrontInv, NewMeta
<1> QED BY <1>2, <1>3, <1>4 DEF ServedInv, ConfiguredIsServed

\* A worker that runs goes on, for the same destinations.
Kept == \A d \in Dests : /\ Running(d) <=> Running(d)'
                         /\ Running(d) => /\ worker'[d].conf[d] = worker[d].conf[d]
                                          /\ worker[d].boot => worker'[d].boot

LEMMA ServesKept ==
  ASSUME Kept, NEW c \in Config, NEW d \in DOMAIN c, Serves(c, d)
  PROVE  Serves(c, d)' /\ (worker[d].boot => worker'[d].boot)
BY ConfigIs DEF Kept, Serves, Running

LEMMA ConfiguredKept ==
  ASSUME OpenTypes, ConfiguredIsServed, UNCHANGED <<layout, meta.keys, deaths>>,
         \A d \in Dests : Serves(MetaConf, d) => Serves(MetaConf, d)'
  PROVE  ConfiguredIsServed'
<1>1. MetaConf' = MetaConf /\ DOMAIN MetaConf \subseteq Dests
  BY ConfTyped, ConfigIs DEF MetaConf
<1> QED BY <1>1 DEF ConfiguredIsServed, Serves, Running

\* Sessions that the step is not of
LEMMA SoundKept ==
  ASSUME OpenTypes, Kept, UNCHANGED <<layout, meta.keys, deaths>>, NEW o \in Openers, Sound(o),
         ses'[o] = ses[o]
  PROVE  Sound(o)'
<1>1. /\ MetaConf' = MetaConf /\ Conf(o)' = Conf(o) /\ RunningSet' = RunningSet /\ Conf(o) \in Config
  BY ConfTyped DEF MetaConf, Conf, Kept, RunningSet
<1>2. \A d \in DOMAIN Conf(o) : Serves(Conf(o), d) =>
         (Running(d) /\ worker[d].conf[d] = Conf(o)[d])' /\ (worker[d].boot => worker'[d].boot)
  BY <1>1, ServesKept DEF Serves
<1> QED BY <1>1, <1>2 DEF Sound, Serves, Serving

LEMMA SoundAside ==
  ASSUME NEW o \in Openers, Sound(o), ses'[o] = ses[o], ses[o].pc \notin Holding \/ ses[o].pc = "locked"
  PROVE  Sound(o)'
BY DEF Sound, Serving, Holding

\* The step of a session that has the lock: the others have to be nowhere.
LEMMA HolderSteps ==
  ASSUME LockInv, ServedInv, NEW o \in Openers, ses[o].pc \in Holding, Others(o), Sound(o)'
  PROVE  \A p \in Openers : Sound(p)'
<1> SUFFICES ASSUME NEW p \in Openers, p # o PROVE Sound(p)'
  OBVIOUS
<1>1. ses[p].pc \notin Holding /\ ses'[p] = ses[p]
  BY DEF LockInv, Others
<1> QED BY <1>1, SoundAside DEF ServedInv

\* Workers that are new, told or stopped, apart from those that somebody counts on
LEMMA ConfigSub ==
  ASSUME OpenTypes, NEW o \in Openers PROVE DOMAIN Conf(o) \subseteq Dests /\ DOMAIN MetaConf \subseteq Dests
BY ConfTyped, ConfigIs

LEMMA SpawnServes ==
  ASSUME TypeInv, LockInv, ServedInv, NEW o \in Openers, SpawnWorker(o)
  PROVE  ServedInv'
<1>1. PICK d \in ses[o].left :
           /\ d \in Dests /\ CanSpawn(d, Conf(o)) /\ Spawned(d, Conf(o))
           /\ ses'[o] = [ses[o] EXCEPT !.left = @ \ {d},
                                      !.made = IF Created(d) THEN @ \union {d} ELSE @]
  BY SesSpawns DEF TypeInv
<1>2. ses[o].pc = "spawn" /\ UNCHANGED <<layout, meta, deaths>> /\ Others(o)
  BY SesSpawns DEF SpawnWorker, TypeInv, Others
<1>3. Conf(o) \in Config /\ d \in DOMAIN Conf(o) /\ ses[o] \in Session
  BY <1>2, ConfTyped DEF LockInv, TypeInv, OpenTypes
<1>4. /\ \A e \in Dests : e # d => worker'[e] = worker[e]
      /\ worker[d].pc # "off" => worker'[d] = worker[d]
      /\ worker'[d].pc = "run" /\ worker'[d].conf[d] = Conf(o)[d]
  BY <1>1, <1>3, SpawnedTyped DEF TypeInv
<1>5. \A c \in Config, e \in Dests : Serves(c, e) => worker'[e] = worker[e]
  BY <1>4 DEF Serves, Running
<1>6. ConfiguredIsServed'
  <2>1. \A e \in Dests : Serves(MetaConf, e) => Serves(MetaConf, e)'
    <3>1. MetaConf \in Config /\ MetaConf' = MetaConf
      BY <1>2, ConfTyped DEF TypeInv, MetaConf
    <3> QED BY <1>5, <3>1 DEF Serves, Running
  <2> QED BY <1>2, <2>1, ConfiguredKept DEF TypeInv, ServedInv
<1>7. ses'[o].pc = "spawn" /\ ses'[o].before = ses[o].before /\ ses'[o].left = ses[o].left \ {d}
      /\ ses'[o].made = (IF Created(d) THEN ses[o].made \union {d} ELSE ses[o].made)
      /\ ses'[o].keys = ses[o].keys
  BY <1>1, <1>2, <1>3 DEF Session
<1>8. Conf(o)' = Conf(o) /\ MetaConf' = MetaConf
  BY <1>2, <1>7 DEF Conf, MetaConf
<1>9. RunningSet' = RunningSet \union {d}
  BY <1>1, <1>4 DEF RunningSet, Running, CanSpawn
<1>10. Sound(o)
  BY DEF ServedInv
<1>11. RunningSet' = ses'[o].before \union ses'[o].made /\ ses'[o].made \intersect ses'[o].before = {}
  <2>1. RunningSet = ses[o].before \union ses[o].made /\ ses[o].made \intersect ses[o].before = {}
    BY <1>2, <1>10 DEF Sound
  <2>2. CASE Created(d)
    <3>1. d \notin RunningSet
      BY <2>2 DEF Created, RunningSet, Running
    <3> QED BY <1>7, <1>9, <2>1, <2>2, <3>1
  <2>3. CASE ~ Created(d)
    <3>1. d \in RunningSet
      BY <1>1, <2>3 DEF CanSpawn, Created, RunningSet
    <3> QED BY <1>7, <1>9, <2>1, <2>3, <3>1
  <2> QED BY <2>2, <2>3
<1>12. \A e \in DOMAIN Conf(o) : e \in ses'[o].left \/ (Running(e)' /\ worker'[e].conf[e] = Conf(o)[e])
  <2> SUFFICES ASSUME NEW e \in DOMAIN Conf(o), e # d, e \notin ses[o].left
               PROVE  Running(e)' /\ worker'[e].conf[e] = Conf(o)[e]
    BY <1>4, <1>7 DEF Running
  <2>1. Serves(Conf(o), e) /\ e \in Dests
    BY <1>2, <1>10, ConfigSub DEF Sound, TypeInv
  <2> QED BY <1>4, <2>1 DEF Serves, Running
<1>13. Sound(o)'
  BY <1>2, <1>7, <1>8, <1>10, <1>11, <1>12 DEF Sound, Serves, Serving
<1> QED BY <1>2, <1>6, <1>13, HolderSteps DEF ServedInv, Holding

LEMMA SpawnFailsServes ==
  ASSUME TypeInv, LockInv, ServedInv, NEW o \in Openers, SpawnFails(o)
  PROVE  ServedInv'
<1>1. /\ ses[o].pc = "spawn" /\ UNCHANGED <<layout, meta, deaths>> /\ Others(o) /\ ses'[o].pc = "failed"
      /\ ses'[o] = [ses[o] EXCEPT !.pc = "failed"] /\ ses[o] \in Session
  BY SesGoes DEF SpawnFails, TypeInv, OpenTypes, SessionPc, Others, To
<1>2. ses'[o].before = ses[o].before
  BY <1>1 DEF Session
<1>3. /\ \A e \in Dests : e \notin ses[o].made \/ worker[e].pc # "run" => worker'[e] = worker[e]
      /\ \A e \in ses[o].made : e \in Dests => worker'[e].pc # "run"
  BY StoppingTyped DEF SpawnFails, TypeInv
<1>4. /\ RunningSet = ses[o].before \union ses[o].made /\ ses[o].made \intersect ses[o].before = {}
      /\ layout.front = "rust" /\ deaths = 0 => DOMAIN MetaConf \subseteq ses[o].before
  BY <1>1 DEF ServedInv, Sound
<1>5. RunningSet' = ses[o].before
  <2>1. \A e \in Dests : e \in RunningSet' <=> e \in RunningSet /\ e \notin ses[o].made
    BY <1>3 DEF RunningSet, Running
  <2>2. RunningSet \subseteq Dests /\ RunningSet' \subseteq Dests
    BY DEF RunningSet
  <2> QED BY <1>4, <2>1, <2>2
<1>6. MetaConf' = MetaConf
  BY <1>1 DEF MetaConf
<1>7. ConfiguredIsServed'
  <2> SUFFICES ASSUME layout.front = "rust" /\ deaths = 0, NEW d \in DOMAIN MetaConf
               PROVE  Running(d)' /\ worker'[d].conf[d] = MetaConf[d]
    BY <1>1, <1>6 DEF ConfiguredIsServed
  <2>1. Running(d) /\ worker[d].conf[d] = MetaConf[d] /\ d \in Dests
    BY ConfigSub DEF ServedInv, ConfiguredIsServed, TypeInv
  <2>2. d \notin ses[o].made
    BY <1>4
  <2> QED BY <1>3, <2>1, <2>2 DEF Running
<1>8. Sound(o)'
  BY <1>1, <1>2, <1>4, <1>5, <1>6 DEF Sound, Serving
<1> QED BY <1>1, <1>7, <1>8, HolderSteps DEF ServedInv, Holding

\* What NotifyWorkers has told stays told.
LEMMA NotifyServes ==
  ASSUME TypeInv, LockInv, ServedInv, NEW o \in Openers, NotifyWorkers(o)
  PROVE  ServedInv'
<1>1. /\ ses[o].pc = "notify" /\ UNCHANGED <<layout, meta, deaths>> /\ Others(o) /\ ses'[o].pc = "register"
      /\ ses'[o] = [ses[o] EXCEPT !.pc = "register"] /\ ses[o] \in Session
  BY SesGoes DEF NotifyWorkers, TypeInv, OpenTypes, SessionPc, Others, To
<1>2. \A e \in Dests : /\ worker'[e].pc = worker[e].pc /\ worker'[e].conf = worker[e].conf
                       /\ worker'[e].boot <=> worker[e].boot \/ e \in DOMAIN Conf(o)
  BY NotifiedTyped DEF NotifyWorkers, TypeInv
<1>3. Kept
  BY <1>2 DEF Kept, Running
<1>4. Conf(o)' = Conf(o) /\ MetaConf' = MetaConf /\ DOMAIN Conf(o) \subseteq Dests
  BY <1>1, ConfigSub DEF Conf, MetaConf, TypeInv, Session
<1>5. ConfiguredIsServed'
  BY <1>1, <1>2, ConfiguredKept DEF Serves, Running, TypeInv, ServedInv, MetaConf
<1>6. \A d \in DOMAIN Conf(o) : Serves(Conf(o), d)
  BY <1>1 DEF ServedInv, Sound, Serving
<1>7. \A d \in DOMAIN Conf(o) : Running(d)' /\ worker'[d].conf[d] = Conf(o)[d] /\ worker'[d].boot
  BY <1>2, <1>4, <1>6 DEF Serves, Running
<1>8. Sound(o)'
  BY <1>1, <1>4, <1>7 DEF Sound, Serves, Serving
<1> QED BY <1>1, <1>5, <1>8, HolderSteps DEF ServedInv, Holding

\* A session that goes on without a change of the workers
LEMMA SessionGoesOn ==
  ASSUME TypeInv, ServedInv, NEW o \in Openers, Others(o), UNCHANGED <<worker, layout, meta.keys, deaths>>,
         \/ /\ ses'[o].pc \in Serving => ses[o].pc \in Serving
            /\ ses'[o].pc \in Serving \ {"device", "notify"} => ses[o].pc \in Serving \ {"device", "notify"}
            /\ ses'[o].pc \notin {"requested", "locked", "spawn", "failed"}
            /\ ses'[o].keys = ses[o].keys \/ ses'[o].pc \notin Serving
         \/ ses'[o].pc = "requested" /\ ses'[o].made = {}
         \/ ses'[o].pc = "locked" /\ ses[o].pc = "requested" /\ ses'[o].made = ses[o].made
  PROVE  ServedInv'
<1>1. Kept
  BY DEF Kept, Running
<1>2. \A p \in Openers : p # o => Sound(p)'
  BY <1>1, SoundKept DEF TypeInv, Others, ServedInv
<1>3. ConfiguredIsServed'
  BY ConfiguredKept DEF TypeInv, ServedInv, Serves, Running, MetaConf
<1>4. Sound(o)
  BY DEF ServedInv
<1>5. ses'[o].pc \in Serving => Conf(o)' = Conf(o)
  BY DEF Conf, Serving
<1>6. Sound(o)'
  <2>1. (ses'[o].pc \in Serving => \A d \in DOMAIN Conf(o) : Running(d)' /\ worker'[d].conf[d] = Conf(o)[d])
        /\ (ses'[o].pc \in Serving \ {"device", "notify"} => \A d \in DOMAIN Conf(o) : worker'[d].boot)
    BY <1>4 DEF Sound, Serves, Serving, Running
  <2> QED BY <1>4, <1>5, <2>1 DEF Sound, Serves, Serving
<1> QED BY <1>2, <1>3, <1>6 DEF ServedInv

\* From here on a session knows which workers were there before it.
LEMMA IdentifyServes ==
  ASSUME TypeInv, LockInv, ServedInv, NEW o \in Openers, Identify(o)
  PROVE  ServedInv'
<1>1. ses[o].pc = "locked" /\ UNCHANGED <<layout, deaths, worker>>
  BY DEF Identify, registryVars
<1>2. CASE meta.type \notin {"none", ses[o].type}
  <2>1. ses'[o] = Closed /\ Others(o) /\ UNCHANGED meta
    BY <1>2, SesCloses DEF Identify, Release, TypeInv, Others
  <2> QED BY <1>1, <2>1, SessionGoesOn DEF Closed, Serving
<1>3. CASE meta.type \in {"none", ses[o].type}
  <2>1. /\ ses'[o].pc = (IF Conf(o) = NoConfig THEN "device" ELSE "spawn")
        /\ ses'[o].left = DOMAIN Conf(o) /\ ses'[o].before = RunningSet /\ ses'[o].made = ses[o].made
        /\ ses'[o].keys = ses[o].keys /\ Others(o) /\ meta'.keys = meta.keys
    BY <1>3 DEF Identify, TypeInv, OpenTypes, Session, Others
  <2>2. Conf(o)' = Conf(o) /\ MetaConf' = MetaConf /\ RunningSet' = RunningSet
    BY <1>1, <2>1 DEF Conf, MetaConf, RunningSet, Running
  <2>3. ConfiguredIsServed'
    BY <1>1, <2>1, ConfiguredKept DEF TypeInv, ServedInv, Serves, Running, MetaConf
  <2>4. ses[o].made = {}
    BY <1>1 DEF ServedInv, Sound
  <2>5. layout.front = "rust" /\ deaths = 0 => DOMAIN MetaConf \subseteq RunningSet
    <3>1. DOMAIN MetaConf \subseteq Dests
      BY ConfigSub DEF TypeInv
    <3> QED BY <3>1 DEF ServedInv, ConfiguredIsServed, RunningSet
  <2>6. Conf(o) = NoConfig => DOMAIN Conf(o) = {}
    BY DEF NoConfig
  <2>7. Sound(o)'
    BY <1>1, <2>1, <2>2, <2>4, <2>5, <2>6 DEF Sound, Serving
  <2> QED BY <1>1, <2>1, <2>3, <2>7, HolderSteps DEF ServedInv, Holding
<1> QED BY <1>2, <1>3

\* The configuration that is written has a worker for each of its destinations.
LEMMA PersistServes ==
  ASSUME TypeInv, LockInv, ServedInv, NEW o \in Openers, PersistConfig(o)
  PROVE  ServedInv' /\ MetaConf' = Conf(o)
<1>1. /\ ses[o].pc = "spawn" /\ ses[o].left = {} /\ UNCHANGED <<layout, deaths, worker>> /\ Others(o)
      /\ ses'[o].pc = "device" /\ ses'[o].keys = ses[o].keys /\ meta'.keys = ses[o].keys
  BY SesGoes DEF PersistConfig, TypeInv, OpenTypes, SessionPc, Session, Others, To, registryVars
<1>2. Conf(o)' = Conf(o) /\ MetaConf' = Conf(o)
  BY <1>1 DEF Conf, MetaConf
<1>3. \A d \in DOMAIN Conf(o) : Running(d)' /\ worker'[d].conf[d] = Conf(o)[d]
  BY <1>1 DEF ServedInv, Sound, Serves, Running
<1>4. ConfiguredIsServed'
  BY <1>2, <1>3 DEF ConfiguredIsServed
<1>5. Sound(o)'
  BY <1>1, <1>2, <1>3 DEF Sound, Serves, Serving
<1> QED BY <1>1, <1>2, <1>4, <1>5, HolderSteps DEF ServedInv, Holding

\* A step of the workers, of Java, or of nobody
LEMMA WorkersServe ==
  ASSUME TypeInv, LockInv, ServedInv, UNCHANGED <<ses, layout, meta, deaths>>,
         Kept \/ layout.front # "rust"
  PROVE  ServedInv'
<1>1. CASE layout.front # "rust"
  BY <1>1 DEF LockInv, ServedInv, ConfiguredIsServed, Sound, Serving
<1>2. CASE Kept
  <2>1. \A o \in Openers : Sound(o)'
    BY <1>2, SoundKept DEF TypeInv, ServedInv
  <2>2. MetaConf \in Config /\ MetaConf' = MetaConf
    BY ConfTyped DEF TypeInv, MetaConf
  <2>3. ConfiguredIsServed'
    <3>1. \A d \in DOMAIN MetaConf : Serves(MetaConf, d) => Serves(MetaConf, d)'
      BY <1>2, <2>2, ServesKept DEF Serves, Running
    <3> QED BY <2>2, <3>1 DEF ServedInv, ConfiguredIsServed, Serves, Running
  <2> QED BY <2>1, <2>3 DEF ServedInv
<1> QED BY <1>1, <1>2

LEMMA DieServes == ASSUME TypeInv, Die PROVE ServedInv'
<1>1. deaths' # 0 /\ \A o \in Openers : ses'[o] = Closed
  BY DEF Die, Restarted, TypeInv, OpenTypes
<1> QED BY <1>1 DEF ServedInv, ConfiguredIsServed, Sound, Closed, Serving

LEMMA ServedStep ==
  TypeInv /\ LockInv /\ FrontInv /\ ServedInv /\ [Next]_vars => ServedInv'
<1> SUFFICES ASSUME TypeInv, LockInv, FrontInv, ServedInv, [Next]_vars PROVE ServedInv'
  OBVIOUS
<1> USE DEF SessionPc
<1>1. ASSUME NEW o \in Openers, RequestInitialize(o) \/ RequestOpen(o) PROVE ServedInv'
  <2>1. ses'[o].pc = "requested" /\ ses'[o].made = {} /\ Others(o)
    <3>1. \E kind, type, keys : Request(o, kind, type, keys)
      BY <1>1 DEF RequestInitialize, RequestOpen
    <3> QED BY <3>1 DEF Request, Closed, TypeInv, OpenTypes, Others
  <2>2. UNCHANGED <<worker, layout, meta.keys, deaths>>
    BY <1>1 DEF RequestInitialize, RequestOpen, registryVars, TypeInv, OpenTypes
  <2> QED BY <2>1, <2>2, SessionGoesOn
<1>2. ASSUME NEW o \in Openers, TryLock(o) PROVE ServedInv'
  <2>1. UNCHANGED <<worker, layout, meta, deaths>> /\ ses[o].pc = "requested"
    BY <1>2 DEF TryLock, registryVars
  <2>2. CASE To(o, "locked")
    <3>1. ses'[o].pc = "locked" /\ ses'[o].made = ses[o].made /\ Others(o)
      BY <2>2 DEF To, TypeInv, OpenTypes, Session, Others
    <3> QED BY <2>1, <3>1, SessionGoesOn
  <2>3. CASE ses' = [ses EXCEPT ![o] = Closed]
    BY <2>1, <2>3, SesCloses, SessionGoesOn DEF TypeInv, Others, Closed, Serving
  <2> QED BY <1>2, <2>2, <2>3 DEF TryLock
<1>3. ASSUME NEW o \in Openers,
             \/ GiveUp(o) \/ OpenDevice(o) \/ RegisterTracker(o) \/ SeedTracker(o)
             \/ CommitDevice(o) \/ PublishCommit(o) \/ CloseDevice(o) \/ Unlock(o) \/ UnregisterTracker(o)
      PROVE ServedInv'
  <2>1. UNCHANGED <<worker, layout, meta, deaths>>
    BY <1>3 DEF GiveUp, OpenDevice, RegisterTracker, SeedTracker, CommitDevice, PublishCommit, CloseDevice,
       Unlock, UnregisterTracker, registryVars
  <2>2. CASE ses' = [ses EXCEPT ![o] = Closed]
    BY <2>1, <2>2, SesCloses, SessionGoesOn DEF TypeInv, Others, Closed, Serving
  <2>3. ASSUME NEW pc \in {"notify", "seed", "open", "publish", "unlock", "unregister"}, To(o, pc),
               ses[o].pc \in Serving, pc # "notify" => ses[o].pc \notin {"device", "notify"}
        PROVE  ServedInv'
    <3>1. ses'[o].pc = pc /\ ses'[o].keys = ses[o].keys /\ Others(o)
      BY <2>3 DEF To, TypeInv, OpenTypes, Session, Others
    <3> QED BY <2>1, <2>3, <3>1, SessionGoesOn DEF Serving
  <2>4. CASE RegisterTracker(o)
    <3>1. /\ ses[o].pc = "register" /\ ses'[o].pc = "seed" /\ ses'[o].keys = ses[o].keys /\ Others(o)
      BY <2>4 DEF RegisterTracker, TypeInv, OpenTypes, Session, Others
    <3> QED BY <2>1, <3>1, SessionGoesOn DEF Serving
  <2> QED BY <1>3, <2>2, <2>3, <2>4
          DEF GiveUp, Release, OpenDevice, SeedTracker, CommitDevice, PublishCommit, CloseDevice, Unlock,
              UnregisterTracker, Serving
<1>4. ASSUME NEW o \in Openers, SpawnWorker(o) \/ SpawnFails(o) \/ NotifyWorkers(o) \/ Identify(o)
                                \/ PersistConfig(o)
      PROVE ServedInv'
  BY <1>4, SpawnServes, SpawnFailsServes, NotifyServes, IdentifyServes, PersistServes
<1>5. ASSUME UNCHANGED worker, UNCHANGED <<ses, layout, meta, deaths>> PROVE ServedInv'
  BY <1>5, WorkersServe DEF Kept, Running
<1>6. ASSUME NEW o \in Openers, Roll(o) PROVE ServedInv'
  BY <1>5, <1>6 DEF Roll, openVars
<1>7. ASSUME NEW d \in Dests, SeedCheckpoint(d) \/ ApplyNext(d), UNCHANGED openVars PROVE ServedInv'
  BY <1>5, <1>7 DEF SeedCheckpoint, ApplyNext, openVars
<1>8. ASSUME NEW d \in Dests, WorkerStops(d), UNCHANGED openVars PROVE ServedInv'
  <2>1. Kept
    BY <1>8 DEF WorkerStops, Kept, Running, NoWorker, TypeInv, WorkerTypes
  <2> QED BY <1>8, <2>1, WorkersServe DEF openVars
<1>9. ASSUME NEW o \in Openers, JavaSteps(o) PROVE ServedInv'
  <2>1. UNCHANGED openVars /\ layout.front # "rust"
    BY <1>9 DEF JavaSteps, JavaOpens, JavaSpawns, JavaRegisters, JavaAborts, JavaStops, Unregister,
       ShutdownWorker, FrontInv, Front
  <2> QED BY <2>1, WorkersServe DEF openVars
<1>10. ASSUME JavaCommits PROVE ServedInv'
  BY <1>5, <1>10 DEF JavaCommits
<1>11. ASSUME Waiting \/ UNCHANGED vars PROVE ServedInv'
  <2>1. UNCHANGED <<openVars, registryVars>>
    BY <1>11 DEF Waiting, CallAwaitSync, CallAwaitApplied, CallJavaAwait, PollSteps, Unreachable, TimeOut,
       ReadTracker, ReadSource, ReadConfig, ReadCheckpoint, Poll, Decide, Return, Unmoved, vars
  <2> QED BY <1>5, <2>1 DEF openVars, registryVars
<1>12. ASSUME Die PROVE ServedInv'
  BY <1>12, DieServes
<1> QED BY <1>1, <1>2, <1>3, <1>4, <1>6, <1>7, <1>8, <1>9, <1>10, <1>11, <1>12
        DEF Next, Opening, Working, Java, Crash, OpenSteps, CloseSteps

--------------------------------------------------------------------------------
(* Commits, checkpoints and the tracker                                        *)

CountInv ==
  /\ \A d \in Dests, p \in Places : ckpt[d][p] \in -1..staged
  /\ staged <= db.commit /\ db.commit <= layout.commits /\ db.told <= db.commit
  /\ \A o \in Openers : cell[o] <= db.commit

LEMMA InitCount == Init => CountInv
BY OpenAssumption DEF Init, OpenInit, RegistryInit, CountInv, Unseeded

\* Nothing that was committed, told or applied is taken back.
Grown ==
  /\ db.commit <= db'.commit /\ db.told <= db'.told
  /\ \A d \in Dests, p \in Places : ckpt[d][p] <= ckpt'[d][p]

LEMMA CountFrame ==
  ASSUME OpenTypes, WorkerTypes, CountInv, UNCHANGED <<layout, db, ckpt, staged>>,
         UNCHANGED cell \/ \A o \in Openers : cell'[o] \in {cell[o], 0, db.commit}
  PROVE  CountInv' /\ Grown
<1>1. db.commit \in Nat /\ db.told \in Nat /\ \A o \in Openers : cell[o] \in Nat
  BY DEF OpenTypes
<1>2. \A d \in Dests, p \in Places : ckpt[d][p] \in Int
  BY DEF WorkerTypes
<1>3. Grown
  BY <1>1, <1>2 DEF Grown
<1>4. \A o \in Openers : cell'[o] <= db.commit
  BY <1>1 DEF CountInv
<1> QED BY <1>3, <1>4 DEF CountInv

LEMMA CountApplies ==
  ASSUME OpenTypes, WorkerTypes, CountInv, NEW d \in Dests, SeedCheckpoint(d) \/ ApplyNext(d), UNCHANGED openVars
  PROVE  CountInv' /\ Grown
<1> DEFINE p == worker[d].conf[d]
<1>1. p \in Places
  BY PlaceTyped DEF SeedCheckpoint, ApplyNext, Running
<1>2. UNCHANGED <<staged, layout, db, cell>>
  BY DEF SeedCheckpoint, ApplyNext, openVars
<1>3. PICK n \in Int : /\ ckpt' = [ckpt EXCEPT ![d][p] = n]
                       /\ n >= ckpt[d][p] /\ n \in -1..staged
  <2>1. CASE SeedCheckpoint(d)
    <3>1. ckpt' = [ckpt EXCEPT ![d][p] = 0] /\ ckpt[d][p] = -1 /\ 0 \in -1..staged
      BY <2>1 DEF SeedCheckpoint, Checkpoint, Unseeded, WorkerTypes
    <3> HIDE DEF p
    <3>2. 0 \in Int /\ 0 >= ckpt[d][p]
      BY <3>1
    <3> QED BY <3>1, <3>2
  <2>2. CASE ApplyNext(d)
    <3>1. ckpt' = [ckpt EXCEPT ![d][p] = ckpt[d][p] + 1] /\ ckpt[d][p] \in 0..(staged - 1)
      BY <2>2 DEF ApplyNext, Checkpoint, WorkerTypes
    <3> HIDE DEF p
    <3>2. ckpt[d][p] + 1 \in Int /\ ckpt[d][p] + 1 >= ckpt[d][p] /\ ckpt[d][p] + 1 \in -1..staged
      BY <3>1 DEF WorkerTypes
    <3> QED BY <3>1, <3>2
  <2> QED BY <2>1, <2>2
<1> HIDE DEF p
<1>4. \A e \in Dests, q \in Places : ckpt'[e][q] = IF e = d /\ q = p THEN n ELSE ckpt[e][q]
  BY <1>1, <1>3 DEF WorkerTypes
<1>5. \A e \in Dests, q \in Places : ckpt'[e][q] \in -1..staged /\ ckpt[e][q] <= ckpt'[e][q]
  BY <1>3, <1>4 DEF CountInv
<1> QED BY <1>2, <1>5 DEF CountInv, Grown, OpenTypes

LEMMA CountStep ==
  OpenTypes /\ WorkerTypes /\ CountInv /\ [Next]_vars => CountInv' /\ Grown
<1> SUFFICES ASSUME OpenTypes, WorkerTypes, CountInv, [Next]_vars PROVE CountInv' /\ Grown
  OBVIOUS
<1> DEFINE Good == CountInv' /\ Grown
<1>1. /\ db.commit \in Nat /\ db.told \in Nat /\ staged \in Nat /\ layout.commits \in Nat
      /\ \A d \in Dests, p \in Places : ckpt[d][p] \in Int
      /\ \A o \in Openers : cell[o] \in Nat
  BY OpenAssumption DEF OpenTypes, WorkerTypes
<1>0. \A o \in Openers : cell[o] <= db.commit + 1
  BY <1>1 DEF CountInv
<1>2. ASSUME UNCHANGED <<layout, db, cell, ckpt, staged>> PROVE Good
  BY <1>2, CountFrame
<1>3. ASSUME NEW o \in Openers, OpenSteps(o) PROVE Good
  <2>1. UNCHANGED <<layout, db, ckpt, staged>>
    BY <1>3 DEF OpenSteps, TryLock, Identify, SpawnWorker, SpawnFails, GiveUp, OpenDevice, NotifyWorkers,
       RegisterTracker, SeedTracker, registryVars
  <2>2. CASE RegisterTracker(o)
    <3>1. \A p \in Openers : cell'[p] \in {cell[p], 0}
      BY <2>2 DEF RegisterTracker, OpenTypes
    <3> QED BY <2>1, <3>1, CountFrame
  <2>3. CASE SeedTracker(o)
    <3>1. \A p \in Openers : cell'[p] \in {cell[p], db.commit}
      BY <2>3 DEF SeedTracker, OpenTypes
    <3> QED BY <2>1, <3>1, CountFrame
  <2>4. CASE UNCHANGED cell
    BY <2>1, <2>4, <1>2
  <2> QED BY <1>3, <2>2, <2>3, <2>4
          DEF OpenSteps, TryLock, Identify, SpawnWorker, SpawnFails, GiveUp, OpenDevice, NotifyWorkers
<1>4. ASSUME NEW o \in Openers, CommitDevice(o) PROVE Good
  <2>1. db' = [db EXCEPT !.commit = db.commit + 1] /\ db.commit < layout.commits
        /\ UNCHANGED <<layout, cell, ckpt, staged>>
    BY <1>4 DEF CommitDevice, registryVars
  <2>2. db'.commit = db.commit + 1 /\ db'.told = db.told
    BY <2>1 DEF OpenTypes
  <2>3. CountInv'
    BY <1>1, <1>0, <2>1, <2>2 DEF CountInv
  <2>4. Grown
    BY <1>1, <2>1, <2>2 DEF Grown, CountInv
  <2> QED BY <2>3, <2>4
<1>5. ASSUME NEW o \in Openers, PublishCommit(o) PROVE Good
  <2>1. db' = [db EXCEPT !.told = db.commit] /\ UNCHANGED <<layout, ckpt, staged>>
        /\ \A p \in Openers : cell'[p] \in {cell[p], db.commit}
    BY <1>5 DEF PublishCommit, registryVars, OpenTypes
  <2>2. db'.commit = db.commit /\ db'.told = db.commit
    BY <2>1 DEF OpenTypes
  <2>3. \A p \in Openers : cell'[p] <= db.commit
    BY <1>1, <2>1 DEF CountInv
  <2>4. CountInv'
    BY <1>1, <2>1, <2>2, <2>3 DEF CountInv
  <2>5. Grown
    BY <1>1, <2>1, <2>2 DEF Grown, CountInv
  <2> QED BY <2>4, <2>5
<1>6. ASSUME NEW o \in Openers, Roll(o) \/ CloseDevice(o) PROVE Good
  <2>1. staged' = db.commit /\ UNCHANGED <<layout, db, cell, ckpt>>
    BY <1>6 DEF Roll, CloseDevice, openVars
  <2>2. \A d \in Dests, p \in Places : ckpt[d][p] \in -1..db.commit
    BY <1>1 DEF CountInv
  <2>3. CountInv'
    BY <1>1, <2>1, <2>2 DEF CountInv
  <2>4. Grown
    BY <1>1, <2>1 DEF Grown
  <2> QED BY <2>3, <2>4
<1>7. ASSUME JavaCommits PROVE Good
  <2>1. /\ db'.commit = db.commit + 1 /\ db'.told = db.commit + 1 /\ staged' = db.commit + 1
        /\ db.commit < layout.commits /\ UNCHANGED <<layout, cell, ckpt>>
    BY <1>7 DEF JavaCommits
  <2>2. \A d \in Dests, p \in Places : ckpt[d][p] \in -1..(db.commit + 1)
    BY <1>1 DEF CountInv
  <2>3. staged' <= db'.commit /\ db'.commit <= layout'.commits /\ db'.told <= db'.commit
    BY <1>1, <2>1
  <2>4. \A o \in Openers : cell'[o] <= db'.commit
    BY <1>1, <2>1, <1>0
  <2>5. CountInv'
    BY <2>1, <2>2, <2>3, <2>4 DEF CountInv
  <2>6. Grown
    BY <1>1, <2>1 DEF Grown, CountInv
  <2> QED BY <2>5, <2>6
<1>8. ASSUME Die PROVE Good
  <2>1. UNCHANGED <<layout, db, ckpt, staged>> /\ \A p \in Openers : cell'[p] = 0
    BY <1>8 DEF Die, Restarted
  <2> QED BY <2>1, CountFrame
<1>9. ASSUME NEW o \in Openers,
             RequestInitialize(o) \/ RequestOpen(o) \/ PersistConfig(o) \/ Unlock(o) \/ UnregisterTracker(o)
      PROVE Good
  BY <1>2, <1>9 DEF RequestInitialize, RequestOpen, PersistConfig, Unlock, UnregisterTracker, registryVars
<1>10. ASSUME NEW d \in Dests, SeedCheckpoint(d) \/ ApplyNext(d), UNCHANGED openVars PROVE Good
  BY <1>10, CountApplies
<1>11. ASSUME NEW d \in Dests, WorkerStops(d), UNCHANGED openVars PROVE Good
  BY <1>2, <1>11 DEF WorkerStops, openVars
<1>12. ASSUME NEW o \in Openers, JavaSteps(o) PROVE Good
  <2>1. UNCHANGED <<openVars, ckpt, staged>>
    BY <1>12 DEF JavaSteps, JavaOpens, JavaSpawns, JavaRegisters, JavaAborts, JavaStops, Unregister,
       ShutdownWorker, registryVars
  <2> QED BY <1>2, <2>1 DEF openVars
<1>13. ASSUME Waiting \/ UNCHANGED vars PROVE Good
  <2>1. UNCHANGED <<openVars, registryVars>>
    BY <1>13 DEF Waiting, CallAwaitSync, CallAwaitApplied, CallJavaAwait, PollSteps, Unreachable, TimeOut,
       ReadTracker, ReadSource, ReadConfig, ReadCheckpoint, Poll, Decide, Return, Unmoved, vars
  <2> QED BY <1>2, <2>1 DEF openVars, registryVars
<1> QED BY <1>3, <1>4, <1>5, <1>6, <1>7, <1>8, <1>9, <1>10, <1>11, <1>12, <1>13
        DEF Next, Opening, Working, Java, Crash, CloseSteps

\* The tracker of a session that is open is its own, or gone.  It has what was told to a
\* caller, unless somebody is about to seed it.
TrackerInv ==
  /\ \A o \in Openers : ses[o].pc \in {"seed", "open", "publish", "unlock"} => tracker \in {Nobody, ses[o].cell}
  /\ tracker # Nobody => cell[tracker] >= db.told \/ \E o \in Openers : ses[o].pc = "seed"
  /\ layout.front # "rust" => tracker = Nobody

LEMMA InitTracker == Init => TrackerInv
BY DEF Init, OpenInit, TrackerInv, Closed

LEMMA TrackerStep ==
  OpenTypes /\ LockInv /\ CountInv /\ TrackerInv /\ [Next]_vars => TrackerInv'
<1> SUFFICES ASSUME OpenTypes, LockInv, CountInv, TrackerInv, [Next]_vars PROVE TrackerInv'
  OBVIOUS
<1> DEFINE Has == {"seed", "open", "publish", "unlock"}
<1>0. /\ db.commit \in Nat /\ db.told \in Nat /\ \A o \in Openers : cell[o] \in Nat
      /\ db.told <= db.commit /\ \A o \in Openers : cell[o] <= db.commit
      /\ tracker \in Someone
  BY DEF OpenTypes, CountInv
<1>1. ASSUME UNCHANGED <<layout, tracker, cell, db>>, NEW o \in Openers, Others(o), layout.front = "rust",
             ses[o].pc # "seed",
             ses'[o].pc \in Has => ses[o].pc \in Has /\ ses'[o].cell = ses[o].cell
      PROVE TrackerInv'
  <2>1. \A p \in Openers : ses[p].pc = "seed" => ses'[p].pc = "seed"
    BY <1>1 DEF Others
  <2>2. \A p \in Openers : ses'[p].pc \in Has => tracker \in {Nobody, ses'[p].cell}
    BY <1>1 DEF Others, TrackerInv
  <2> QED BY <1>1, <2>1, <2>2 DEF TrackerInv
<1>2. ASSUME NEW o \in Openers,
             \/ RequestInitialize(o) \/ RequestOpen(o) \/ TryLock(o) \/ Identify(o) \/ SpawnWorker(o)
             \/ SpawnFails(o) \/ GiveUp(o) \/ PersistConfig(o) \/ OpenDevice(o) \/ NotifyWorkers(o)
             \/ CloseDevice(o) \/ Unlock(o)
      PROVE TrackerInv'
  <2>1. UNCHANGED <<layout, tracker, cell, db>> /\ layout.front = "rust" /\ ses[o].pc # "seed"
    BY <1>2 DEF RequestInitialize, RequestOpen, TryLock, Identify, SpawnWorker, SpawnFails, GiveUp,
       PersistConfig, OpenDevice, NotifyWorkers, CloseDevice, Unlock, LockInv
  <2>2. CASE RequestInitialize(o) \/ RequestOpen(o)
    BY <1>1, <2>1, <2>2, RequestTypes DEF Others
  <2>3. CASE SpawnWorker(o)
    <3>1. Others(o) /\ ses'[o].pc = ses[o].pc /\ ses[o].pc = "spawn"
      <4>1. PICK d \in ses[o].left :
              ses'[o] = [ses[o] EXCEPT !.left = @ \ {d},
                                       !.made = IF Created(d) THEN @ \union {d} ELSE @]
        BY <2>3, SesSpawns
      <4>2. ses[o] \in Session
        BY DEF OpenTypes
      <4>3. ses'[o].pc = ses[o].pc
        BY <4>1, <4>2 DEF Session
      <4> QED BY <2>3, <4>3, SesSpawns DEF Others, SpawnWorker
    <3> QED BY <1>1, <2>1, <3>1
  <2>4. CASE Identify(o)
    <3>1. Others(o) /\ ses'[o].pc \in {"device", "spawn", "closed"}
      BY <2>4 DEF Identify, Release, Closed, OpenTypes, Session, Others
    <3> QED BY <1>1, <2>1, <3>1
  <2>5. CASE ses' = [ses EXCEPT ![o] = Closed]
    BY <1>1, <2>1, <2>5, SesCloses DEF Others, Closed
  <2>6. ASSUME NEW pc \in SessionPc, To(o, pc), pc \in Has => ses[o].pc \in Has PROVE TrackerInv'
    <3>1. ses'[o].pc = pc /\ ses'[o].cell = ses[o].cell /\ Others(o)
      BY <2>6 DEF To, OpenTypes, Session, Others
    <3> QED BY <1>1, <2>1, <2>6, <3>1
  <2> QED BY <1>2, <2>2, <2>3, <2>4, <2>5, <2>6
          DEF TryLock, SpawnFails, GiveUp, Release, PersistConfig, OpenDevice, NotifyWorkers, CloseDevice,
              Unlock, SessionPc
<1>3. ASSUME NEW o \in Openers, RegisterTracker(o) PROVE TrackerInv'
  <2>1. ses[o].pc = "register" /\ UNCHANGED <<layout, db>> /\ layout.front = "rust"
    BY <1>3 DEF RegisterTracker, LockInv
  <2>2. ses'[o].pc = "seed" /\ ses'[o].cell = tracker' /\ Others(o)
    BY <1>3 DEF RegisterTracker, OpenTypes, Session, Others
  <2>3. \A p \in Openers : p # o => ses'[p].pc \notin Has
    BY <2>1, <2>2 DEF LockInv, Holding, Others
  <2> QED BY <2>1, <2>2, <2>3 DEF TrackerInv
<1>4. ASSUME NEW o \in Openers, SeedTracker(o) PROVE TrackerInv'
  <2>1. /\ ses[o].pc = "seed" /\ UNCHANGED <<layout, db, tracker>> /\ layout.front = "rust"
        /\ tracker \in {Nobody, ses[o].cell}
    BY <1>4 DEF SeedTracker, LockInv, TrackerInv
  <2>2. ses'[o].pc = "open" /\ ses'[o].cell = ses[o].cell /\ Others(o)
    BY <1>4 DEF SeedTracker, To, OpenTypes, Session, Others
  <2>3. \A p \in Openers : p # o => ses'[p].pc \notin Has
    BY <2>1, <2>2 DEF LockInv, Holding, Others
  <2>4. tracker # Nobody => cell'[tracker] >= db.told
    <3> SUFFICES ASSUME tracker # Nobody PROVE cell'[tracker] >= db.told
      OBVIOUS
    <3>1. tracker \in Openers /\ tracker = ses[o].cell
      BY <1>0, <2>1 DEF Someone
    <3>2. cell'[tracker] = IF cell[tracker] < db.commit THEN db.commit ELSE cell[tracker]
      BY <1>4, <3>1 DEF SeedTracker, OpenTypes
    <3> QED BY <1>0, <3>1, <3>2
  <2> QED BY <2>1, <2>2, <2>3, <2>4 DEF TrackerInv
<1>5. ASSUME NEW o \in Openers, PublishCommit(o) PROVE TrackerInv'
  <2>1. /\ ses[o].pc = "publish" /\ UNCHANGED <<layout, tracker>> /\ layout.front = "rust"
        /\ tracker \in {Nobody, ses[o].cell} /\ db'.told = db.commit
    BY <1>5 DEF PublishCommit, LockInv, TrackerInv, OpenTypes
  <2>2. ses'[o].pc = "open" /\ ses'[o].cell = ses[o].cell /\ Others(o)
    BY <1>5 DEF PublishCommit, To, OpenTypes, Session, Others
  <2>3. \A p \in Openers : p # o => ses'[p].pc \notin Has
    BY <2>1, <2>2 DEF LockInv, Holding, Others
  <2>4. tracker # Nobody => cell'[tracker] = db.commit
    BY <1>0, <1>5, <2>1 DEF PublishCommit, OpenTypes, Someone
  <2> QED BY <1>0, <2>1, <2>2, <2>3, <2>4 DEF TrackerInv
<1>6. ASSUME NEW o \in Openers, CommitDevice(o) PROVE TrackerInv'
  <2>1. /\ ses[o].pc = "open" /\ UNCHANGED <<layout, tracker, cell>> /\ layout.front = "rust"
        /\ db'.told = db.told
    BY <1>6 DEF CommitDevice, LockInv, OpenTypes
  <2>2. ses'[o].pc = "publish" /\ ses'[o].cell = ses[o].cell /\ Others(o)
    BY <1>6 DEF CommitDevice, To, OpenTypes, Session, Others
  <2>3. \A p \in Openers : p # o => ses'[p].pc \notin Has /\ ses[p].pc # "seed"
    BY <2>1, <2>2 DEF LockInv, Holding, Others
  <2> QED BY <2>1, <2>2, <2>3 DEF TrackerInv
<1>7. ASSUME NEW o \in Openers, UnregisterTracker(o) PROVE TrackerInv'
  BY <1>7, SesCloses DEF UnregisterTracker, TrackerInv, Closed
<1>8. ASSUME Die PROVE TrackerInv'
  BY <1>8 DEF Die, Restarted, TrackerInv, Closed
<1>9. ASSUME JavaCommits PROVE TrackerInv'
  BY <1>9 DEF JavaCommits, TrackerInv, Front
<1>10. ASSUME UNCHANGED openVars PROVE TrackerInv'
  BY <1>10 DEF openVars, TrackerInv
<1>11. ASSUME NEW o \in Openers, Roll(o) PROVE TrackerInv'
  BY <1>10, <1>11 DEF Roll
<1> QED BY <1>2, <1>3, <1>4, <1>5, <1>6, <1>7, <1>8, <1>9, <1>10, <1>11, NextCases
        DEF DeviceSteps, OpenSteps, CloseSteps

--------------------------------------------------------------------------------
(* Waiting                                                                     *)

\* A configuration has all of another.
Agrees(all, conf) == \A d \in DOMAIN all : d \in DOMAIN conf /\ conf[d] = all[d]

\* The destinations D of a configuration have the first n commits.
Have(conf, D, n) == \A d \in D : n <= ckpt[d][conf[d]]

\* What a waiter has read, whatever has happened since: what it has to wait for is in the
\* configuration it has read and in that of the metadata, and none of the destinations it
\* has asked has less than the least it has seen.
Reading(s) ==
  /\ s.pc # "idle" => s.kind # "none"
  /\ s.pc \in {"tracker", "source"} => s.kind = "sync"
  /\ s.kind = "sync" => "sync" \in layout.kinds
  /\ s.pc = "conf" => s.kind # "java"
  /\ s.pc \in {"conf", "read", "decide"} => s.target > 0
  /\ s.target <= layout.commits /\ s.least \in -1..layout.commits /\ s.due <= db.told
  /\ s.left \subseteq DOMAIN s.conf /\ (s.pc = "read" => s.left # {})
  /\ s.kind = "java" /\ s.pc \in {"read", "decide"} => DOMAIN s.conf # {}
  /\ s.pc # "idle" /\ s.kind # "java" => Agrees(s.all, MetaConf)
  /\ s.pc \in {"read", "decide"} => Agrees(s.all, s.conf)
  /\ s.pc = "read" => \/ s.least = -1 /\ s.left = DOMAIN s.conf
                      \/ s.least >= 0 /\ Have(s.conf, DOMAIN s.conf \ s.left, s.least)
  /\ s.pc = "decide" => s.least = -1 \/ Have(s.conf, DOMAIN s.conf, s.least)

\* What makes the answer right
Keeping(s) ==
  /\ s.pc \in {"conf", "read", "decide"} => s.due <= s.target
  /\ s.pc = "ok" /\ s.due > 0 => Have(s.all, DOMAIN s.all, s.due)

\* The condition for it: await_sync is called neither while another thread opens the
\* device nor for a DuckDB database, whose last commit id cannot be read once it is closed.
Careful == "sync" \in layout.kinds => layout.alone /\ layout.engine # "duckdb"

NobodyOpening == \A o \in Openers : ses[o].pc \notin OpeningPcs
AloneInv == layout.alone => NobodySyncs \/ NobodyOpening

WaitInv ==
  /\ \A w \in Waiters : Reading(wait[w])
  /\ Careful => \A w \in Waiters : Keeping(wait[w])

LEMMA WaitImplies ==
  ASSUME TypeInv, CountInv, LockInv, WaitInv PROVE TypeOK /\ (Careful => OkMeansApplied)
<1>1. /\ lock \in Openers \union {Nobody} /\ tracker \in Openers \union {Nobody}
      /\ \A o \in Openers : cell[o] \in 0..db.commit
      /\ staged <= db.commit /\ db.told <= db.commit
  BY DEF TypeInv, OpenTypes, Someone, CountInv
<1>2. /\ \A d \in Dests : worker[d].pc \in {"off", "run", "stop"}
      /\ \A d \in Dests, p \in Places : ckpt[d][p] \in Unseeded..staged
  BY DEF TypeInv, WorkerTypes, WorkerRecord, CountInv, Unseeded
<1>3. ASSUME NEW w \in Waiters PROVE WaiterOK(wait[w])
  <2>1. wait[w] \in Wait /\ Reading(wait[w]) /\ layout.commits \in Nat
    BY OpenAssumption DEF TypeInv, WaitTypes, WaitInv, OpenTypes
  <2> QED BY <2>1 DEF Wait, Reading, WaiterOK
<1>4. ASSUME Careful PROVE OkMeansApplied
  <2> SUFFICES ASSUME NEW w \in Waiters, wait[w].pc = "ok", wait[w].due > 0, NEW d \in DOMAIN wait[w].all
               PROVE  ckpt[d][wait[w].all[d]] >= wait[w].due
    BY DEF OkMeansApplied
  <2>1. wait[w].due <= ckpt[d][wait[w].all[d]]
    BY <1>4 DEF WaitInv, Keeping, Have
  <2>2. wait[w].due \in Int /\ wait[w].all \in Config
    BY DEF TypeInv, WaitTypes, Wait
  <2>3. ckpt[d][wait[w].all[d]] \in Int
    BY <2>2, ConfigIs DEF TypeInv, WorkerTypes
  <2> QED BY <2>1, <2>2, <2>3
<1> QED BY <1>1, <1>2, <1>3, <1>4 DEF TypeOK

LEMMA InitWait == Init => WaitInv /\ AloneInv
<1> SUFFICES ASSUME Init PROVE WaitInv /\ AloneInv
  OBVIOUS
<1>1. layout.commits \in Nat /\ db.told = 0 /\ \A w \in Waiters : wait[w] = NotWaiting
  BY OpenAssumption DEF Init, OpenInit
<1>2. WaitInv
  BY <1>1 DEF WaitInv, Reading, Keeping, NotWaiting, NoConfig
<1>3. AloneInv
  BY <1>1 DEF AloneInv, NobodySyncs, NotWaiting
<1> QED BY <1>2, <1>3

\* Checkpoints only grow.
LEMMA HaveGrows ==
  ASSUME TypeInv, TypeInv', Grown, NEW conf \in Config, NEW D \in SUBSET (DOMAIN conf), NEW n \in Int,
         Have(conf, D, n)
  PROVE  Have(conf, D, n)'
<1> SUFFICES ASSUME NEW d \in D PROVE n <= ckpt'[d][conf[d]]
  BY DEF Have
<1>1. d \in Dests /\ conf[d] \in Places
  BY ConfigIs
<1>2. ckpt[d][conf[d]] \in Int /\ ckpt'[d][conf[d]] \in Int
  BY <1>1 DEF TypeInv, WorkerTypes
<1>3. ckpt[d][conf[d]] <= ckpt'[d][conf[d]] /\ n <= ckpt[d][conf[d]]
  BY <1>1 DEF Grown, Have
<1> QED BY <1>2, <1>3

\* A waiter that does not move, when the others do; what it was promised may get less.
LEMMA WaiterKept ==
  ASSUME TypeInv, TypeInv', Grown, UNCHANGED layout, NEW s \in Wait, NEW all \in Config,
         Reading(s), Agrees(all, s.all), MetaConf' = MetaConf \/ Agrees(all, MetaConf'),
         Careful => Keeping(s)
  PROVE  Reading([s EXCEPT !.all = all])' /\ (Careful' => Keeping([s EXCEPT !.all = all])')
<1> DEFINE r == [s EXCEPT !.all = all]
<1>1. /\ r.pc = s.pc /\ r.kind = s.kind /\ r.target = s.target /\ r.least = s.least /\ r.due = s.due
      /\ r.left = s.left /\ r.conf = s.conf /\ r.all = all
  BY DEF Wait
<1>2. s.conf \in Config /\ s.all \in Config /\ s.least \in Int /\ s.due \in Int /\ s.target \in Int
  BY DEF Wait
<1>3. ASSUME NEW conf, Agrees(s.all, conf) PROVE Agrees(all, conf)
  BY <1>3 DEF Agrees
<1>4. s.pc = "read" => \/ s.least = -1 /\ s.left = DOMAIN s.conf
                       \/ s.least >= 0 /\ Have(s.conf, DOMAIN s.conf \ s.left, s.least)'
  BY <1>2, HaveGrows DEF Reading
<1>5. s.pc = "decide" => s.least = -1 \/ Have(s.conf, DOMAIN s.conf, s.least)'
  BY <1>2, HaveGrows DEF Reading
<1>6. s.due <= db'.told
  BY <1>2 DEF Reading, Grown, TypeInv, OpenTypes
<1>7. s.pc # "idle" /\ s.kind # "java" => Agrees(all, MetaConf')
  BY <1>3 DEF Reading
<1>8. s.pc \in {"read", "decide"} => Agrees(all, s.conf)
  BY <1>3 DEF Reading
<1>9. Careful' /\ s.pc = "ok" /\ s.due > 0 => Have(all, DOMAIN all, s.due)'
  <2> SUFFICES ASSUME Careful, s.pc = "ok", s.due > 0 PROVE Have(all, DOMAIN all, s.due)'
    BY DEF Careful
  <2>1. Have(s.all, DOMAIN s.all, s.due)
    BY DEF Keeping
  <2>2. Have(all, DOMAIN all, s.due)
    BY <2>1 DEF Have, Agrees
  <2> QED BY <1>2, <2>2, HaveGrows
<1>10. Careful' /\ s.pc \in {"conf", "read", "decide"} => s.due <= s.target
  BY DEF Careful, Keeping
<1> HIDE DEF r
<1>11. Reading(r)'
  BY <1>1, <1>4, <1>5, <1>6, <1>7, <1>8 DEF Reading, Agrees
<1>12. Careful' => Keeping(r)'
  BY <1>1, <1>9, <1>10 DEF Keeping
<1> QED BY <1>11, <1>12 DEF r

\* The step of a waiter
LEMMA WaiterMoves ==
  ASSUME TypeInv, WaitInv, Unmoved, NEW w \in Waiters, NEW r \in Wait, wait' = [wait EXCEPT ![w] = r],
         Reading(r), Careful => Keeping(r)
  PROVE  WaitTypes' /\ WaitInv'
<1>1. WaitTypes' /\ wait'[w] = r /\ \A v \in Waiters : v # w => wait'[v] = wait[v]
  BY DEF TypeInv, WaitTypes
<1>2. /\ UNCHANGED <<layout, ckpt, db>> /\ MetaConf' = MetaConf /\ (Careful' <=> Careful)
  BY DEF Unmoved, openVars, registryVars, MetaConf, Careful
<1>3. \A v \in Waiters : Reading(wait'[v]) /\ (Careful => Keeping(wait'[v]))
  BY <1>1 DEF WaitInv
<1>4. ASSUME NEW s, Reading(s) PROVE Reading(s)'
  BY <1>2, <1>4 DEF Reading, Have
<1>5. ASSUME NEW s, Keeping(s) PROVE Keeping(s)'
  BY <1>2, <1>5 DEF Keeping, Have
<1>6. \A v \in Waiters : Reading(wait[v])'
  BY <1>2, <1>3 DEF Reading, Have
<1>7. Careful' => \A v \in Waiters : Keeping(wait[v])'
  BY <1>2, <1>3 DEF Keeping, Have
<1> QED BY <1>1, <1>6, <1>7 DEF WaitInv

LEMMA CallStep ==
  ASSUME TypeInv, CountInv, WaitInv, Unmoved, NEW w \in Waiters, NEW kind \in {"sync", "target", "java"},
         NEW target \in Nat, NEW conf \in Config, NEW pc \in {"tracker", "conf", "read", "ok", "error"},
         Called(w, kind, target, conf, pc), target <= db.told,
         kind = "sync" => "sync" \in layout.kinds,
         kind # "java" => conf = MetaConf,
         pc = "tracker" => kind = "sync", pc = "conf" => kind = "target" /\ target > 0,
         pc = "read" => kind = "java" /\ DOMAIN conf # {} /\ target > 0,
         pc = "ok" => DOMAIN conf = {}
  PROVE  WaitTypes' /\ WaitInv'
<1>1. PICK timed \in BOOLEAN :
        wait' = [wait EXCEPT ![w] = [NotWaiting EXCEPT
               !.pc = pc, !.kind = kind, !.target = target, !.conf = conf, !.left = DOMAIN conf,
               !.timed = timed, !.calls = wait[w].calls + 1, !.due = IF kind = "sync" THEN db.told ELSE target,
               !.all = conf]]
  BY WaitAssumption DEF Called, TypeInv, OpenTypes
<1> DEFINE due == IF kind = "sync" THEN db.told ELSE target
           r == [NotWaiting EXCEPT
               !.pc = pc, !.kind = kind, !.target = target, !.conf = conf, !.left = DOMAIN conf,
               !.timed = timed, !.calls = wait[w].calls + 1, !.due = due, !.all = conf]
<1>2. wait' = [wait EXCEPT ![w] = r]
  BY <1>1
<1>3. /\ due \in Nat /\ due <= db.told /\ target <= layout.commits /\ wait[w].calls + 1 \in Nat
      /\ -1 \in -1..layout.commits /\ DOMAIN conf \subseteq Dests
  BY OpenAssumption, ConfigIs DEF TypeInv, OpenTypes, CountInv, WaitTypes, Wait
<1>4. NotWaiting \in Wait /\ NotWaiting.least = -1
  BY NoSettingsTyped DEF NotWaiting, Wait
<1>5. /\ r \in Wait /\ r.pc = pc /\ r.kind = kind /\ r.target = target /\ r.conf = conf
      /\ r.left = DOMAIN conf /\ r.least = -1 /\ r.due = due /\ r.all = conf
  <2> HIDE DEF due
  <2> QED BY <1>3, <1>4 DEF Wait
<1> HIDE DEF r, due
<1>6. Reading(r)
  BY <1>3, <1>5 DEF Reading, Agrees
<1>7. Careful => Keeping(r)
  <2>1. pc \in {"conf", "read"} => due = target /\ target \in Nat
    BY DEF due
  <2> QED BY <1>5, <2>1 DEF Keeping, Have
<1> QED BY <1>2, <1>5, <1>6, <1>7, WaiterMoves

LEMMA CallsStep ==
  ASSUME TypeInv, CountInv, JavaInv, WaitInv, NEW w \in Waiters,
         CallAwaitSync(w) \/ CallAwaitApplied(w) \/ CallJavaAwait(w)
  PROVE  WaitTypes' /\ WaitInv'
<1>1. /\ MetaConf \in Config /\ db.told \in Nat /\ 0 <= db.told /\ db.told <= db.told
      /\ ~ SyncConfigured => DOMAIN MetaConf = {}
  BY ConfTyped DEF TypeInv, OpenTypes, SyncConfigured, NoConfig
<1>2. CASE CallAwaitSync(w)
  <2>1. Called(w, "sync", 0, MetaConf, "tracker") \/ (Called(w, "sync", 0, MetaConf, "ok") /\ ~ SyncConfigured)
    BY <1>2 DEF CallAwaitSync
  <2> QED BY <1>1, <1>2, <2>1, CallStep DEF CallAwaitSync
<1>3. CASE CallAwaitApplied(w)
  <2>1. \/ Called(w, "target", db.told, MetaConf, "conf")
        \/ Called(w, "target", db.told, MetaConf, "ok") /\ ~ SyncConfigured
    BY <1>3 DEF CallAwaitApplied
  <2> QED BY <1>1, <1>3, <2>1, CallStep DEF CallAwaitApplied
<1>4. CASE CallJavaAwait(w)
  <2>1. \/ Called(w, "java", db.told, JavaConfig, "error")
        \/ Called(w, "java", db.told, JavaConfig, "read") /\ registry.active.gen # 0
    BY <1>4 DEF CallJavaAwait
  <2>2. JavaConfig \in Config /\ (registry.active.gen # 0 => DOMAIN JavaConfig # {})
    <3>1. DOMAIN registry.active.toks \subseteq Dests /\ DefaultPlace \in Places
      BY GenerationParts, SettingsAssumption DEF TypeInv, JavaTypes
    <3>2. registry.active.gen # 0 => DOMAIN registry.active.toks # {}
      BY JavaConfTyped DEF JavaInv, PublishedSetIsWhole
    <3> QED BY <3>1, <3>2, ConfigIs DEF JavaConfig
  <2> QED BY <1>1, <1>4, <2>1, <2>2, CallStep DEF CallJavaAwait
<1> QED BY <1>2, <1>3, <1>4

LEMMA ReadTrackerStep ==
  ASSUME TypeInv, CountInv, TrackerInv, AloneInv, WaitInv, NEW w \in Waiters, ReadTracker(w)
  PROVE  WaitTypes' /\ WaitInv'
<1> DEFINE s == wait[w]
<1>1. s \in Wait /\ s.pc = "tracker" /\ Reading(s) /\ (Careful => Keeping(s)) /\ s.kind = "sync" /\ Unmoved
  BY DEF TypeInv, WaitTypes, WaitInv, ReadTracker, Reading
<1>2. CASE tracker = Nobody
  <2> DEFINE r == [s EXCEPT !.pc = "source", !.target = s.target]
  <2>1. wait' = [wait EXCEPT ![w] = r] /\ s.target \in Nat
    BY <1>1, <1>2 DEF ReadTracker, Move, Wait
  <2>2. /\ r \in Wait /\ r.pc = "source" /\ r.target = s.target
        /\ r.kind = s.kind /\ r.conf = s.conf /\ r.left = s.left /\ r.least = s.least /\ r.due = s.due
        /\ r.all = s.all
    <3> HIDE DEF s
    <3> QED BY <1>1, <2>1 DEF Wait
  <2> HIDE DEF r, s
  <2>3. Reading(r) /\ (Careful => Keeping(r))
    BY <1>1, <2>2 DEF Reading, Keeping
  <2> QED BY <1>1, <2>1, <2>2, <2>3, WaiterMoves
<1>3. CASE tracker # Nobody
  <2> DEFINE n == cell[tracker]
             r == [s EXCEPT !.pc = IF n = 0 THEN "ok" ELSE "conf", !.target = n]
  <2>1. tracker \in Openers /\ n \in Nat /\ n <= layout.commits
    BY <1>3, OpenAssumption DEF TypeInv, OpenTypes, Someone, CountInv
  <2>2. wait' = [wait EXCEPT ![w] = r]
    BY <1>1, <1>3 DEF ReadTracker, TypeInv, WaitTypes, Wait
  <2>3. /\ r \in Wait /\ r.pc = (IF n = 0 THEN "ok" ELSE "conf") /\ r.target = n
        /\ r.kind = s.kind /\ r.conf = s.conf /\ r.left = s.left /\ r.least = s.least /\ r.due = s.due
        /\ r.all = s.all
    <3> HIDE DEF s, n
    <3> QED BY <1>1, <2>1 DEF Wait
  <2>4. Careful => s.due <= n
    <3> SUFFICES ASSUME Careful PROVE s.due <= n
      OBVIOUS
    <3>1. layout.alone
      BY <1>1 DEF Careful, Reading
    <3>2. NobodyOpening
      BY <1>1, <3>1 DEF AloneInv, NobodySyncs
    <3>3. cell[tracker] >= db.told
      BY <1>3, <3>2 DEF TrackerInv, NobodyOpening, OpeningPcs
    <3>4. s.due <= db.told /\ s.due \in Int /\ db.told \in Int
      BY <1>1 DEF Reading, Wait, TypeInv, OpenTypes
    <3> QED BY <2>1, <3>3, <3>4
  <2>5. s.due \in Nat
    BY <1>1 DEF Wait
  <2> HIDE DEF r, s, n
  <2>6. Reading(r)
    BY <1>1, <2>1, <2>3 DEF Reading
  <2>7. Careful => Keeping(r)
    BY <2>1, <2>3, <2>4, <2>5 DEF Keeping
  <2> QED BY <1>1, <2>2, <2>3, <2>6, <2>7, WaiterMoves
<1> QED BY <1>2, <1>3

LEMMA ReadSourceStep ==
  ASSUME TypeInv, CountInv, WaitInv, NEW w \in Waiters, ReadSource(w)
  PROVE  WaitTypes' /\ WaitInv'
<1> DEFINE s == wait[w]
           n == ReadSourceCommitId
           r == [s EXCEPT !.pc = IF n = 0 THEN "ok" ELSE "conf", !.target = n]
<1>1. s \in Wait /\ s.pc = "source" /\ Reading(s) /\ s.kind = "sync" /\ Unmoved /\ s.due \in Nat
  BY DEF TypeInv, WaitTypes, WaitInv, ReadSource, Reading, Wait
<1>2. n \in Nat /\ n <= layout.commits
  BY OpenAssumption DEF TypeInv, OpenTypes, CountInv, ReadSourceCommitId
<1>3. wait' = [wait EXCEPT ![w] = r]
  BY <1>1 DEF ReadSource, TypeInv, WaitTypes, Wait
<1>4. /\ r \in Wait /\ r.pc = (IF n = 0 THEN "ok" ELSE "conf") /\ r.target = n
      /\ r.kind = s.kind /\ r.conf = s.conf /\ r.left = s.left /\ r.least = s.least /\ r.due = s.due
      /\ r.all = s.all
  <2> HIDE DEF s, n
  <2> QED BY <1>1, <1>2 DEF Wait
<1>5. Careful => s.due <= n
  BY <1>1 DEF Careful, Reading, ReadSourceCommitId, CountInv, TypeInv, OpenTypes
<1> HIDE DEF r, s, n
<1>6. Reading(r)
  BY <1>1, <1>2, <1>4 DEF Reading
<1>7. Careful => Keeping(r)
  BY <1>1, <1>2, <1>4, <1>5 DEF Keeping
<1> QED BY <1>1, <1>3, <1>4, <1>6, <1>7, WaiterMoves

\* A step of a waiter that changes what it has read, but nothing of what it waits for
Same(r, s) == r.kind = s.kind /\ r.target = s.target /\ r.due = s.due /\ r.all = s.all

LEMMA ReadConfigStep ==
  ASSUME TypeInv, WaitInv, NEW w \in Waiters, ReadConfig(w)
  PROVE  WaitTypes' /\ WaitInv'
<1> DEFINE s == wait[w]
           conf == MetaConf
           pc == IF conf = NoConfig THEN "decide" ELSE "read"
           r == [s EXCEPT !.conf = conf, !.left = DOMAIN conf, !.least = -1, !.pc = pc]
<1>1. s \in Wait /\ s.pc = "conf" /\ Reading(s) /\ (Careful => Keeping(s)) /\ s.kind # "java" /\ Unmoved
  BY DEF TypeInv, WaitTypes, WaitInv, ReadConfig, Reading
<1>2. conf \in Config /\ DOMAIN conf \subseteq Dests /\ (conf # NoConfig => DOMAIN conf # {})
  BY ConfTyped, ConfigIs DEF TypeInv
<1>3. wait' = [wait EXCEPT ![w] = r]
  BY <1>1 DEF ReadConfig, TypeInv, WaitTypes
<1>4. /\ r \in Wait /\ r.pc = pc /\ r.conf = conf /\ r.left = DOMAIN conf /\ r.least = -1 /\ Same(r, s)
  <2>1. pc \in {"read", "decide"} /\ -1 \in Int
    OBVIOUS
  <2> HIDE DEF s, conf, pc
  <2> QED BY <1>1, <1>2, <2>1 DEF Wait, Same
<1>5. -1 \in -1..layout.commits
  BY OpenAssumption DEF TypeInv, OpenTypes
<1>6. pc = "read" => DOMAIN conf # {}
  BY <1>2
<1>7. Agrees(s.all, conf)
  BY <1>1 DEF Reading
<1>8. pc \in {"read", "decide"}
  OBVIOUS
<1> HIDE DEF r, s, pc
<1>9. Reading(r)
  BY <1>1, <1>4, <1>5, <1>6, <1>7, <1>8 DEF Reading, Same
<1>10. Careful => Keeping(r)
  BY <1>1, <1>4, <1>8 DEF Keeping, Same
<1> QED BY <1>1, <1>3, <1>4, <1>9, <1>10, WaiterMoves

\* The least so far is the least of what has been read.
LEMMA ReadCheckpointStep ==
  ASSUME TypeInv, CountInv, WaitInv, NEW w \in Waiters, ReadCheckpoint(w)
  PROVE  WaitTypes' /\ WaitInv'
<1> DEFINE s == wait[w]
           d == Next1(s.left)
           value == ckpt[d][s.conf[d]]
           left == s.left \ {d}
           least == IF value = Unseeded THEN -1 ELSE Least(w, value)
           pc == IF value = Unseeded \/ left = {} THEN "decide" ELSE "read"
           r == [s EXCEPT !.left = left, !.least = least, !.pc = pc]
<1>1. s \in Wait /\ s.pc = "read" /\ Reading(s) /\ (Careful => Keeping(s)) /\ Unmoved
  BY DEF TypeInv, WaitTypes, WaitInv, ReadCheckpoint
<1>2. /\ s.left # {} /\ s.left \subseteq DOMAIN s.conf /\ s.conf \in Config /\ DOMAIN s.conf \subseteq Dests
      /\ s.least \in -1..layout.commits /\ layout.commits \in Nat
      /\ \/ s.least = -1 /\ s.left = DOMAIN s.conf
         \/ s.least >= 0 /\ Have(s.conf, DOMAIN s.conf \ s.left, s.least)
  <2>1. s.conf \in Config /\ DOMAIN s.conf \subseteq Dests
    BY <1>1, ConfigIs DEF Wait
  <2> QED BY <1>1, <2>1, OpenAssumption DEF Reading, TypeInv, OpenTypes
<1>3. d \in s.left /\ d \in DOMAIN s.conf
  BY <1>2, Next1IsIn
<1>4. value \in -1..layout.commits /\ value \in Int
  <2>1. d \in Dests /\ s.conf[d] \in Places
    BY <1>2, <1>3, ConfigIs
  <2>2. value \in -1..staged /\ staged \in Nat /\ staged <= layout.commits
    BY <1>2, <2>1 DEF CountInv, TypeInv, OpenTypes, WorkerTypes
  <2> QED BY <1>2, <2>2
<1>5. wait' = [wait EXCEPT ![w] = r]
  BY <1>1 DEF ReadCheckpoint, TypeInv, WaitTypes
<1>6. least \in -1..layout.commits /\ (value # -1 => least >= 0 /\ least <= value
                                        /\ (s.least # -1 => least <= s.least))
  <2> HIDE DEF value
  <2> QED BY <1>2, <1>4 DEF Least, Unseeded
<1>7. left \subseteq DOMAIN s.conf /\ left \in SUBSET Dests /\ (pc = "read" => left # {})
      /\ pc \in {"read", "decide"} /\ (pc = "decide" => least = -1 \/ left = {})
      /\ (least = -1 => pc = "decide")
  <2>1. left \subseteq DOMAIN s.conf /\ left \in SUBSET Dests
    BY <1>2
  <2>2. value # -1 => least # -1
    BY <1>2, <1>6
  <2>3. value = -1 => least = -1
    BY DEF Unseeded
  <2> HIDE DEF value, least, left
  <2> QED BY <2>1, <2>2, <2>3 DEF Unseeded
<1>8. least # -1 => Have(s.conf, DOMAIN s.conf \ left, least) /\ least >= 0
  <2>0. SUFFICES ASSUME least # -1 PROVE Have(s.conf, DOMAIN s.conf \ left, least) /\ least >= 0
    OBVIOUS
  <2>1. value # -1
    BY <2>0 DEF Unseeded
  <2> SUFFICES ASSUME NEW e \in DOMAIN s.conf \ left PROVE least <= ckpt[e][s.conf[e]]
    BY <1>6, <2>1 DEF Have
  <2>2. CASE e = d
    BY <1>6, <2>1, <2>2
  <2>3. CASE e # d
    <3>1. e \in DOMAIN s.conf \ s.left
      BY <2>3
    <3>2. s.least # -1 /\ s.least <= ckpt[e][s.conf[e]]
      BY <1>2, <3>1 DEF Have
    <3>3. ckpt[e][s.conf[e]] \in Int
      BY <1>2, <3>1, ConfigIs DEF TypeInv, WorkerTypes
    <3>4. least <= s.least
      BY <1>6, <2>1, <3>2
    <3> HIDE DEF least, s
    <3> QED BY <1>2, <1>6, <3>2, <3>3, <3>4
  <2> QED BY <2>2, <2>3
<1> HIDE DEF least, left, pc, value, d
<1>9. r \in Wait /\ r.pc = pc /\ r.conf = s.conf /\ r.left = left /\ r.least = least /\ Same(r, s)
  <2> HIDE DEF s
  <2>1. least \in Int
    BY <1>2, <1>6
  <2> QED BY <1>1, <1>7, <2>1 DEF Wait, Same
<1> HIDE DEF r, s
<1>10. DOMAIN s.conf # {} /\ Agrees(s.all, s.conf) /\ s.target > 0
  BY <1>1, <1>2 DEF Reading
<1>11. Reading(r)
  <2>1. pc = "read" => r.least >= 0 /\ Have(r.conf, DOMAIN r.conf \ r.left, r.least)
    BY <1>7, <1>8, <1>9
  <2>2. pc = "decide" => r.least = -1 \/ Have(r.conf, DOMAIN r.conf, r.least)
    <3>1. left = {} => DOMAIN s.conf \ left = DOMAIN s.conf
      OBVIOUS
    <3> QED BY <1>7, <1>8, <1>9, <3>1
  <2> QED BY <1>1, <1>6, <1>7, <1>9, <1>10, <2>1, <2>2 DEF Reading, Same
<1>12. Careful => Keeping(r)
  BY <1>1, <1>7, <1>9 DEF Keeping, Same
<1> QED BY <1>1, <1>5, <1>9, <1>11, <1>12, WaiterMoves

LEMMA UnreachableStep ==
  ASSUME TypeInv, WaitInv, NEW w \in Waiters, Unreachable(w)
  PROVE  WaitTypes' /\ WaitInv'
<1> DEFINE s == wait[w]
           r == [s EXCEPT !.least = -1, !.pc = "decide", !.failed = @ + 1]
<1>1. s \in Wait /\ s.pc = "read" /\ Reading(s) /\ (Careful => Keeping(s)) /\ Unmoved
  BY DEF TypeInv, WaitTypes, WaitInv, Unreachable
<1>2. wait' = [wait EXCEPT ![w] = r]
  BY <1>1 DEF Unreachable, TypeInv, WaitTypes
<1>3. r \in Wait /\ r.pc = "decide" /\ r.conf = s.conf /\ r.left = s.left /\ r.least = -1 /\ Same(r, s)
  <2>1. s.failed + 1 \in Nat /\ -1 \in Int
    BY <1>1 DEF Wait
  <2> HIDE DEF s
  <2> QED BY <1>1, <2>1 DEF Wait, Same
<1>4. -1 \in -1..layout.commits
  BY OpenAssumption DEF TypeInv, OpenTypes
<1> HIDE DEF r, s
<1>5. Reading(r) /\ (Careful => Keeping(r))
  BY <1>1, <1>3, <1>4 DEF Reading, Keeping, Same
<1> QED BY <1>1, <1>2, <1>3, <1>5, WaiterMoves

LEMMA PollStep ==
  ASSUME TypeInv, WaitInv, NEW w \in Waiters, Poll(w)
  PROVE  WaitTypes' /\ WaitInv'
<1> DEFINE s == wait[w]
           pc == CASE s.kind = "sync" -> "tracker" [] s.kind = "target" -> "conf" [] OTHER -> "read"
           left == DOMAIN s.conf
           r == [s EXCEPT !.pc = pc, !.left = left, !.least = -1]
<1>1. s \in Wait /\ s.pc = "decide" /\ Reading(s) /\ (Careful => Keeping(s)) /\ Unmoved
  BY DEF TypeInv, WaitTypes, WaitInv, Poll
<1>2. wait' = [wait EXCEPT ![w] = r]
  BY <1>1 DEF Poll, TypeInv, WaitTypes
<1>3. left \in SUBSET Dests /\ s.kind \in {"sync", "target", "java"}
  BY <1>1, ConfigIs DEF Wait, Reading
<1>4. /\ pc \in {"tracker", "conf", "read"} /\ (pc = "tracker" <=> s.kind = "sync")
      /\ (pc = "conf" <=> s.kind = "target") /\ (pc = "read" <=> s.kind = "java")
  BY <1>3
<1>5. r \in Wait /\ r.pc = pc /\ r.conf = s.conf /\ r.left = left /\ r.least = -1 /\ Same(r, s)
  <2>1. -1 \in Int
    OBVIOUS
  <2> HIDE DEF s, pc, left
  <2> QED BY <1>1, <1>3, <1>4, <2>1 DEF Wait, Same
<1>6. -1 \in -1..layout.commits
  BY OpenAssumption DEF TypeInv, OpenTypes
<1> HIDE DEF r, s, pc
<1>7. Reading(r)
  BY <1>1, <1>4, <1>5, <1>6 DEF Reading, Same
<1>8. Careful => Keeping(r)
  BY <1>1, <1>4, <1>5 DEF Keeping, Same
<1> QED BY <1>1, <1>2, <1>5, <1>7, <1>8, WaiterMoves

\* All that it was promised is in the configuration it has asked.
LEMMA DecideStep ==
  ASSUME TypeInv, WaitInv, NEW w \in Waiters, Decide(w) \/ TimeOut(w)
  PROVE  WaitTypes' /\ WaitInv'
<1> DEFINE s == wait[w]
<1>1. s \in Wait /\ s.pc = "decide" /\ Reading(s) /\ (Careful => Keeping(s)) /\ Unmoved
  BY DEF TypeInv, WaitTypes, WaitInv, Decide, TimeOut
<1>2. PICK pc \in {"ok", "error"} : Move(w, pc) /\ (pc = "ok" => Caught(w))
  BY DEF Decide, TimeOut
<1> DEFINE r == [s EXCEPT !.pc = pc]
<1>3. wait' = [wait EXCEPT ![w] = r]
  BY <1>1, <1>2 DEF Move, TypeInv, WaitTypes
<1>4. /\ r \in Wait /\ r.pc = pc /\ r.conf = s.conf /\ r.left = s.left /\ r.least = s.least /\ Same(r, s)
  <2> HIDE DEF s
  <2> QED BY <1>1 DEF Wait, Same
<1>5. Careful /\ pc = "ok" => Have(s.all, DOMAIN s.all, s.due)
  <2> SUFFICES ASSUME Careful, pc = "ok", NEW d \in DOMAIN s.all PROVE s.due <= ckpt[d][s.all[d]]
    BY DEF Have
  <2>1. s.least >= s.target /\ s.target > 0 /\ s.due <= s.target
    BY <1>1, <1>2 DEF Caught, Reading, Keeping
  <2>2. s.least \in Int /\ s.target \in Int /\ s.due \in Int /\ s.all \in Config /\ s.conf \in Config
    BY <1>1 DEF Wait
  <2>3. s.least # -1
    BY <2>1, <2>2
  <2>4. d \in DOMAIN s.conf /\ s.conf[d] = s.all[d]
    BY <1>1 DEF Reading, Agrees
  <2>5. s.least <= ckpt[d][s.all[d]]
    BY <1>1, <2>3, <2>4 DEF Reading, Have
  <2>6. ckpt[d][s.all[d]] \in Int
    BY <2>2, ConfigIs DEF TypeInv, WorkerTypes
  <2> HIDE DEF s
  <2> QED BY <2>1, <2>2, <2>5, <2>6
<1> HIDE DEF r, s
<1>6. Reading(r) /\ (Careful => Keeping(r))
  BY <1>1, <1>4, <1>5 DEF Reading, Keeping, Same
<1> QED BY <1>1, <1>3, <1>4, <1>6, WaiterMoves

\* One that waits no more
LEMMA IdleIs ==
  ASSUME TypeInv, NEW n \in Nat
  PROVE  LET r == [NotWaiting EXCEPT !.calls = n] IN
         r \in Wait /\ Reading(r) /\ Keeping(r) /\ r.kind = "none" /\ r.pc = "idle"
<1> DEFINE r == [NotWaiting EXCEPT !.calls = n]
<1>1. NotWaiting \in Wait /\ NotWaiting.pc = "idle" /\ NotWaiting.kind = "none" /\ NotWaiting.target = 0
      /\ NotWaiting.left = {} /\ NotWaiting.least = -1 /\ NotWaiting.due = 0
  BY NoSettingsTyped DEF NotWaiting, Wait
<1>2. r \in Wait /\ r.pc = "idle" /\ r.kind = "none" /\ r.target = 0 /\ r.left = {} /\ r.least = -1
      /\ r.due = 0
  BY <1>1 DEF Wait
<1>3. 0 <= layout.commits /\ -1 \in -1..layout.commits /\ 0 <= db.told
  BY OpenAssumption DEF TypeInv, OpenTypes
<1> HIDE DEF r
<1>4. Reading(r) /\ Keeping(r)
  BY <1>2, <1>3 DEF Reading, Keeping
<1> QED BY <1>2, <1>4 DEF r

LEMMA ReturnStep ==
  ASSUME TypeInv, WaitInv, NEW w \in Waiters, Return(w)
  PROVE  WaitTypes' /\ WaitInv'
<1>1. wait[w].calls \in Nat /\ Unmoved
      /\ wait' = [wait EXCEPT ![w] = [NotWaiting EXCEPT !.calls = wait[w].calls]]
  BY DEF TypeInv, WaitTypes, Wait, Return
<1> QED BY <1>1, IdleIs, WaiterMoves

LEMMA WaitingStep ==
  ASSUME TypeInv, CountInv, JavaInv, TrackerInv, AloneInv, WaitInv, Waiting
  PROVE  WaitTypes' /\ WaitInv'
BY CallsStep, ReadTrackerStep, ReadSourceStep, ReadConfigStep, ReadCheckpointStep, UnreachableStep, PollStep,
   DecideStep, ReturnStep DEF Waiting, PollSteps

\* What the device does: the metadata change only where the waiters are told.
LEMMA MetaKept ==
  ASSUME TypeInv, [Next]_vars PROVE layout' = layout /\ (MetaConf' = MetaConf \/ \E o \in Openers : PersistConfig(o))
<1>1. ASSUME UNCHANGED <<layout, meta.keys>> PROVE layout' = layout /\ MetaConf' = MetaConf
  BY <1>1 DEF MetaConf
<1>2. ASSUME NEW o \in Openers,
             \/ RequestInitialize(o) \/ RequestOpen(o) \/ OpenSteps(o) \/ CommitDevice(o) \/ PublishCommit(o)
             \/ Roll(o) \/ CloseSteps(o)
      PROVE UNCHANGED <<layout, meta.keys>>
  BY <1>2 DEF RequestInitialize, RequestOpen, OpenSteps, TryLock, Identify, SpawnWorker, SpawnFails, GiveUp,
     OpenDevice, NotifyWorkers, RegisterTracker, SeedTracker, CommitDevice, PublishCommit, Roll,
     CloseSteps, CloseDevice, Unlock, UnregisterTracker, openVars, TypeInv, OpenTypes
<1>3. ASSUME JavaCommits \/ Die \/ UNCHANGED openVars PROVE UNCHANGED <<layout, meta.keys>>
  BY <1>3 DEF JavaCommits, Die, openVars
<1>4. ASSUME NEW o \in Openers, PersistConfig(o) PROVE layout' = layout
  BY <1>4 DEF PersistConfig
<1> QED BY <1>1, <1>2, <1>3, <1>4, NextCases DEF DeviceSteps

LEMMA PersistMeta ==
  ASSUME TypeInv, NEW o \in Openers, PersistConfig(o) PROVE MetaConf' = Conf(o)
BY DEF PersistConfig, TypeInv, OpenTypes, MetaConf, Conf

\* Steps that move no waiter: all go on waiting, some for less, or the process has ended.
LEMMA WaitersCases ==
  ASSUME TypeInv, [Next]_vars
  PROVE  \/ Waiting
         \/ wait' = wait /\ MetaConf' = MetaConf
         \/ \E o \in Openers : PersistConfig(o) /\ Promised(Conf(o))
         \/ Crash
<1>1. ASSUME UNCHANGED meta.keys PROVE MetaConf' = MetaConf
  BY <1>1 DEF MetaConf
<1>2. ASSUME NEW o \in Openers,
             \/ RequestInitialize(o) \/ RequestOpen(o) \/ OpenSteps(o) \/ CommitDevice(o) \/ PublishCommit(o)
             \/ Roll(o) \/ CloseSteps(o)
      PROVE UNCHANGED meta.keys
  BY <1>2 DEF RequestInitialize, RequestOpen, OpenSteps, TryLock, Identify, SpawnWorker, SpawnFails, GiveUp,
     OpenDevice, NotifyWorkers, RegisterTracker, SeedTracker, CommitDevice, PublishCommit, Roll,
     CloseSteps, CloseDevice, Unlock, UnregisterTracker, openVars, TypeInv, OpenTypes
<1>3. ASSUME NEW o \in Openers, JavaSteps(o) PROVE UNCHANGED meta.keys
  BY <1>3 DEF JavaSteps, JavaOpens, JavaSpawns, JavaRegisters, JavaAborts, JavaStops, Unregister,
     ShutdownWorker, openVars
<1>4. ASSUME JavaCommits \/ UNCHANGED openVars \/ UNCHANGED vars PROVE UNCHANGED meta.keys
  BY <1>4 DEF JavaCommits, openVars, vars
<1> QED BY <1>1, <1>2, <1>3, <1>4 DEF Next, Opening, Working, Java, Still, vars

LEMMA WaitTypesStep ==
  ASSUME TypeInv, CountInv, JavaInv, TrackerInv, AloneInv, WaitInv, [Next]_vars
  PROVE  WaitTypes'
<1>1. CASE Waiting
  BY <1>1, WaitingStep
<1>2. CASE wait' = wait
  BY <1>2 DEF TypeInv, WaitTypes
<1>3. ASSUME NEW conf, Promised(conf) PROVE WaitTypes'
  <2>1. ASSUME NEW w \in Waiters PROVE wait'[w] \in Wait
    <3> DEFINE s == wait[w]
               all == Restrict(s.all, {d \in DOMAIN s.all : d \in DOMAIN conf /\ conf[d] = s.all[d]})
    <3>1. s \in Wait /\ s.all \in Config /\ wait'[w] = [s EXCEPT !.all = all]
      BY <1>3 DEF Promised, TypeInv, WaitTypes, Wait
    <3>2. all \in Config
      BY <3>1, ConfigIs DEF Restrict
    <3> HIDE DEF all, s
    <3> QED BY <3>1, <3>2 DEF Wait
  <2> QED BY <1>3, <2>1 DEF Promised, WaitTypes
<1>4. CASE Crash
  <2>1. \A w \in Waiters : wait[w].calls \in Nat
    BY DEF TypeInv, WaitTypes, Wait
  <2>2. \A n \in Nat : [NotWaiting EXCEPT !.calls = n] \in Wait
    BY IdleIs
  <2> QED BY <1>4, <2>1, <2>2 DEF Crash, WaitTypes
<1> QED BY <1>1, <1>2, <1>3, <1>4, WaitersCases

LEMMA WaitStep ==
  ASSUME TypeInv, TypeInv', CountInv, JavaInv, TrackerInv, AloneInv, WaitInv, Grown, [Next]_vars
  PROVE  WaitInv'
<1>0. layout' = layout /\ (Careful' <=> Careful)
  BY MetaKept DEF Careful
<1>1. CASE Waiting
  BY <1>1, WaitingStep
<1>2. CASE wait' = wait /\ MetaConf' = MetaConf
  <2>1. ASSUME NEW w \in Waiters
        PROVE  Reading(wait[w])' /\ (Careful' => Keeping(wait[w])')
    <3> DEFINE s == wait[w]
    <3>1. s \in Wait /\ s.all \in Config /\ Reading(s) /\ (Careful => Keeping(s)) /\ Agrees(s.all, s.all)
      BY DEF TypeInv, WaitTypes, Wait, WaitInv, Agrees
    <3>2. [s EXCEPT !.all = s.all] = s
      BY <3>1 DEF Wait
    <3>3. ASSUME NEW r, r = s PROVE Reading(r)' /\ (Careful' => Keeping(r)')
      <4>1. r \in Wait /\ r.all \in Config /\ Reading(r) /\ (Careful => Keeping(r)) /\ Agrees(r.all, r.all)
        BY <3>1, <3>3
      <4>2. [r EXCEPT !.all = r.all] = r
        BY <3>2, <3>3
      <4> HIDE DEF s
      <4>3. Reading([r EXCEPT !.all = r.all])' /\ (Careful' => Keeping([r EXCEPT !.all = r.all])')
        BY <1>0, <1>2, <4>1, WaiterKept
      <4> QED BY <4>2, <4>3
    <3> QED BY <1>2, <3>3 DEF Reading, Keeping
  <2> QED BY <2>1 DEF WaitInv
<1>3. ASSUME NEW o \in Openers, PersistConfig(o), Promised(Conf(o)) PROVE WaitInv'
  <2>1. ASSUME NEW w \in Waiters
        PROVE  \E r : r = wait'[w] /\ Reading(r)' /\ (Careful' => Keeping(r)')
    <3>1. PICK s \in Wait : s = wait[w]
      BY DEF TypeInv, WaitTypes
    <3> DEFINE conf == MetaConf'
    <3>2. PICK all : all = Restrict(s.all, {d \in DOMAIN s.all : d \in DOMAIN conf /\ conf[d] = s.all[d]})
      OBVIOUS
    <3>3. conf = Conf(o)
      BY <1>3, PersistMeta
    <3>4. wait'[w] = [s EXCEPT !.all = all]
      BY <1>3, <3>1, <3>2, <3>3 DEF Promised
    <3>5. all \in Config /\ Agrees(all, s.all) /\ Agrees(all, conf)
      <4>1. s.all \in Config
        BY DEF Wait
      <4> HIDE DEF conf
      <4> QED BY <3>2, <4>1, ConfigIs DEF Restrict, Agrees
    <3>6. Reading(s) /\ (Careful => Keeping(s))
      BY <3>1 DEF WaitInv
    <3>7. Reading([s EXCEPT !.all = all])' /\ (Careful' => Keeping([s EXCEPT !.all = all])')
      BY <1>0, <3>5, <3>6, WaiterKept
    <3> QED BY <3>4, <3>7
  <2>2. ASSUME NEW w \in Waiters PROVE Reading(wait[w])' /\ (Careful' => Keeping(wait[w])')
    <3>1. PICK r : r = wait'[w] /\ Reading(r)' /\ (Careful' => Keeping(r)')
      BY <2>1
    <3> QED BY <3>1 DEF Reading, Keeping
  <2> QED BY <2>2 DEF WaitInv
<1>4. CASE Crash
  <2>1. ASSUME NEW w \in Waiters
        PROVE  \E r : r = wait'[w] /\ Reading(r)' /\ (Careful' => Keeping(r)')
    <3>1. PICK n \in Nat : n = wait[w].calls
      BY DEF TypeInv, WaitTypes, Wait
    <3> DEFINE r == [NotWaiting EXCEPT !.calls = n]
    <3>2. wait'[w] = r
      BY <1>4, <3>1 DEF Crash
    <3>3. Reading(r)' /\ Keeping(r)'
      BY IdleIs, PTL
    <3> QED BY <3>2, <3>3
  <2>2. ASSUME NEW w \in Waiters PROVE Reading(wait[w])' /\ (Careful' => Keeping(wait[w])')
    <3>1. PICK r : r = wait'[w] /\ Reading(r)' /\ (Careful' => Keeping(r)')
      BY <2>1
    <3> QED BY <3>1 DEF Reading, Keeping
  <2> QED BY <2>2 DEF WaitInv
<1> QED BY <1>1, <1>2, <1>3, <1>4, WaitersCases

\* Only the call of await_sync makes a waiter one of await_sync.
LEMMA SyncsAreCalled ==
  ASSUME TypeInv, Waiting
  PROVE  \/ \E w \in Waiters : CallAwaitSync(w)
         \/ \A v \in Waiters : wait'[v].kind = "sync" => wait[v].kind = "sync"
<1>1. PICK w \in Waiters :
        \/ CallAwaitSync(w) \/ CallAwaitApplied(w) \/ CallJavaAwait(w)
        \/ PollSteps(w) \/ Unreachable(w) \/ TimeOut(w)
  BY DEF Waiting
<1>2. wait \in [Waiters -> Wait]
  BY DEF TypeInv, WaitTypes
<1>3. ASSUME NEW r, wait' = [wait EXCEPT ![w] = r], r.kind = "sync" => wait[w].kind = "sync"
      PROVE  \A v \in Waiters : wait'[v].kind = "sync" => wait[v].kind = "sync"
  BY <1>2, <1>3
<1>4. NotWaiting \in Wait /\ NotWaiting.kind = "none"
  BY NoSettingsTyped DEF NotWaiting, Wait
<1>5. CASE CallAwaitApplied(w) \/ CallJavaAwait(w)
  <2>1. PICK kind \in {"target", "java"} : \E target, conf, pc : Called(w, kind, target, conf, pc)
    BY <1>5 DEF CallAwaitApplied, CallJavaAwait
  <2>2. PICK target, conf, pc : Called(w, kind, target, conf, pc)
    BY <2>1
  <2>3. PICK timed : wait' = [wait EXCEPT ![w] = [NotWaiting EXCEPT
               !.pc = pc, !.kind = kind, !.target = target, !.conf = conf, !.left = DOMAIN conf,
               !.timed = timed, !.calls = wait[w].calls + 1, !.due = IF kind = "sync" THEN db.told ELSE target,
               !.all = conf]]
    BY <2>2 DEF Called
  <2> QED BY <1>3, <1>4, <2>3 DEF Wait
<1>6. CASE Return(w)
  BY <1>3, <1>4, <1>6 DEF Return, Wait
<1>7. CASE ReadTracker(w) \/ ReadSource(w) \/ ReadConfig(w)
  BY <1>2, <1>7 DEF ReadTracker, ReadSource, ReadConfig, Move, Wait
<1>8. CASE ReadCheckpoint(w)
  BY <1>2, <1>8 DEF ReadCheckpoint, Wait
<1>9. CASE Poll(w) \/ Decide(w) \/ Unreachable(w) \/ TimeOut(w)
  BY <1>2, <1>9 DEF Poll, Decide, Unreachable, TimeOut, Move, Wait
<1> QED BY <1>1, <1>5, <1>6, <1>7, <1>8, <1>9 DEF PollSteps

\* A session begins to open only with a request.
LEMMA OpeningIsRequested ==
  ASSUME TypeInv, [Next]_vars, NobodyOpening
  PROVE  NobodyOpening' \/ \E o \in Openers : (RequestInitialize(o) \/ RequestOpen(o)) /\ NobodySyncs /\ Still
<1>1. ASSUME UNCHANGED ses PROVE NobodyOpening'
  BY <1>1 DEF NobodyOpening
<1>2. ASSUME NEW o \in Openers, OpenSteps(o) \/ PersistConfig(o) PROVE FALSE
  BY <1>2 DEF OpenSteps, TryLock, Identify, SpawnWorker, SpawnFails, GiveUp, OpenDevice, NotifyWorkers,
     RegisterTracker, SeedTracker, PersistConfig, NobodyOpening, OpeningPcs
<1>3. ASSUME NEW o \in Openers, CommitDevice(o) \/ PublishCommit(o) \/ CloseSteps(o) PROVE NobodyOpening'
  <2>1. \/ \E pc \in {"open", "publish", "unlock", "unregister"} : To(o, pc)
        \/ ses' = [ses EXCEPT ![o] = Closed]
    BY <1>3 DEF CommitDevice, PublishCommit, CloseSteps, CloseDevice, Unlock, UnregisterTracker
  <2>2. \A p \in Openers : ses'[p] = ses[p] \/ ses'[p].pc \in {"open", "publish", "unlock", "unregister", "closed"}
    BY <2>1 DEF To, TypeInv, OpenTypes, Session, Closed
  <2> QED BY <2>2 DEF NobodyOpening, OpeningPcs
<1>4. ASSUME NEW o \in Openers, Roll(o) \/ JavaSteps(o) PROVE UNCHANGED ses
  BY <1>4 DEF Roll, JavaSteps, JavaOpens, JavaSpawns, JavaRegisters, JavaAborts, JavaStops, Unregister,
     ShutdownWorker, openVars
<1>5. ASSUME JavaCommits \/ UNCHANGED openVars \/ UNCHANGED vars PROVE UNCHANGED ses
  BY <1>5 DEF JavaCommits, openVars, vars
<1>6. ASSUME Waiting PROVE UNCHANGED openVars
  BY <1>6 DEF Waiting, CallAwaitSync, CallAwaitApplied, CallJavaAwait, PollSteps, Unreachable, TimeOut,
     ReadTracker, ReadSource, ReadConfig, ReadCheckpoint, Poll, Decide, Return, Unmoved
<1>7. ASSUME Crash PROVE NobodyOpening'
  BY <1>7 DEF Crash, Die, Restarted, Closed, NobodyOpening, OpeningPcs
<1> QED BY <1>1, <1>2, <1>3, <1>4, <1>5, <1>6, <1>7 DEF Next, Opening, Working, Java

LEMMA AloneStep == TypeInv /\ AloneInv /\ [Next]_vars => AloneInv'
<1> SUFFICES ASSUME TypeInv, AloneInv, [Next]_vars, layout.alone PROVE (NobodySyncs \/ NobodyOpening)'
  BY MetaKept DEF AloneInv
<1>1. layout' = layout /\ wait \in [Waiters -> Wait]
  BY MetaKept DEF TypeInv, WaitTypes
<1>2. ASSUME NobodySyncs, \A v \in Waiters : wait'[v].kind = "sync" => wait[v].kind = "sync"
      PROVE  NobodySyncs'
  BY <1>1, <1>2 DEF NobodySyncs
<1>3. CASE NobodyOpening
  <2>1. ASSUME NEW o \in Openers, NobodySyncs, Still PROVE NobodySyncs'
    BY <1>2, <2>1 DEF Still
  <2> QED BY <1>3, <2>1, OpeningIsRequested
<1>4. CASE NobodySyncs
  <2>1. CASE Waiting
    <3>1. CASE \E w \in Waiters : CallAwaitSync(w)
      <4>1. NobodyOpening /\ UNCHANGED ses
        BY <3>1 DEF CallAwaitSync, NobodyOpens, NobodyOpening, Unmoved, openVars
      <4> QED BY <4>1 DEF NobodyOpening
    <3> QED BY <1>2, <1>4, <2>1, <3>1, SyncsAreCalled
  <2>2. CASE wait' = wait
    BY <1>2, <1>4, <2>2
  <2>3. ASSUME NEW conf, Promised(conf) PROVE NobodySyncs'
    <3>1. \A v \in Waiters : wait'[v].kind = wait[v].kind
      BY <1>1, <2>3 DEF Promised, Wait
    <3> QED BY <1>2, <1>4, <3>1
  <2>4. CASE Crash
    <3>1. \A v \in Waiters : wait'[v].kind = "none"
      BY <2>4, NoSettingsTyped DEF Crash, NotWaiting
    <3> QED BY <1>2, <1>4, <3>1
  <2> QED BY <2>1, <2>2, <2>3, <2>4, WaitersCases
<1> QED BY <1>3, <1>4 DEF AloneInv

--------------------------------------------------------------------------------
(* The theorems                                                                *)

\* The inductive invariant, in the layers above: the types, the lock, the front ends, the
\* sessions and their workers, the registry of Java, counts, tracker, and waiters.
IInv ==
  /\ TypeInv /\ LockInv /\ FrontInv /\ ServedInv /\ JavaInv /\ CountInv /\ TrackerInv /\ AloneInv /\ WaitInv

LEMMA InitInv == Init => IInv
BY InitTypes, InitLock, InitServed, InitJava, InitCount, InitTracker, InitWait DEF IInv

LEMMA StepInv == IInv /\ [Next]_vars => IInv'
<1> SUFFICES ASSUME IInv, [Next]_vars PROVE IInv'
  OBVIOUS
<1> USE DEF IInv
<1>1. OpenTypes' /\ WorkerTypes' /\ JavaTypes' /\ JavaInv'
  BY OpenTypesStep, WorkerTypesStep, JavaInvStep DEF TypeInv, JavaTypes
<1>2. WaitTypes'
  BY WaitTypesStep
<1>3. TypeInv'
  BY <1>1, <1>2 DEF TypeInv
<1>4. LockInv' /\ FrontInv' /\ ServedInv'
  BY <1>1, LockStep, FrontStep, ServedStep DEF TypeInv, JavaTypes
<1>5. CountInv' /\ Grown /\ TrackerInv' /\ AloneInv'
  BY CountStep, TrackerStep, AloneStep DEF TypeInv
<1>6. WaitInv'
  BY <1>3, <1>5, WaitStep
<1> QED BY <1>1, <1>3, <1>4, <1>5, <1>6

LEMMA AlwaysInv == Spec => []IInv
<1>1. Init => IInv
  BY InitInv
<1>2. IInv /\ [Next]_vars => IInv'
  BY StepInv
<1> QED BY <1>1, <1>2, PTL DEF Spec

\* Whatever is opened, configured, committed, asked and stopped, in whatever order: counts
\* stay within their bounds, no checkpoint is ahead of what is staged, nothing is staged or
\* told that is not committed, and a waiter that reads has a destination left to read.
THEOREM AwaitTyped == Spec => []TypeOK
<1>1. IInv => TypeOK
  BY WaitImplies DEF IInv
<1> QED BY <1>1, AlwaysInv, PTL

\* ConsolidatorStartupGuard: an open that fails stops the workers it has made and no other,
\* for any number of openers and destinations.
THEOREM FailedOpensAreUndone == Spec => []FailedOpenUndone
<1>1. IInv => FailedOpenUndone
  BY ServedImplies DEF IInv
<1> QED BY <1>1, AlwaysInv, PTL

\* Until the process ends, whoever is configured is served: the destinations the metadata
\* name have running workers for their databases, and so have those of an open session.
THEOREM ConfiguredAreServed == Spec => []DestinationsServed
<1>1. IInv => DestinationsServed
  BY ServedImplies DEF IInv
<1> QED BY <1>1, AlwaysInv, PTL

\* The registry of the Java front end has the set of the last open, whole, or none once a
\* handle of it is gone, for any number of destinations and of opens that overlap.
THEOREM PublishedSetIsLast == Spec => []PublishedIsLast
<1>1. IInv => PublishedIsLast
  BY DEF IInv, JavaInv, PublishedIsLast
<1> QED BY <1>1, AlwaysInv, PTL

\* await_applied_commit and the wait of Java return Ok only when every destination that
\* stayed configured has what they were asked for; await_sync does, too, where no other
\* thread opens the device meanwhile and the database is not a DuckDB one.
THEOREM OkIsApplied == Spec => [](Careful => OkMeansApplied)
<1>1. IInv => (Careful => OkMeansApplied)
  BY WaitImplies DEF IInv
<1> QED BY <1>1, AlwaysInv, PTL

================================================================================
