-------------------------- MODULE DuckDbDeviceProofs --------------------------
(***************************************************************************)
(* Theorems about DuckDbDevice, for every value of its constants.          *)
(*                                                                         *)
(* The argument has layers, each proved from those before it:              *)
(*   TypeInv    types, and the shape of the device home;                   *)
(*   StageInv   what is staged is finalized and never written again, and   *)
(*              sidecars move with their segment;                          *)
(*   StatementsCurrent                                                     *)
(*              the statements of the open transaction have the next id;   *)
(*   IdInv      commit ids are fresh when they are used, so a row, a       *)
(*              sidecar and a commit of the database with one id belong    *)
(*              together;                                                  *)
(*   SideInv    a sidecar has its REPLAY_TXN row;                          *)
(*   EndInv     a finalized segment ends decided, and every commit of the  *)
(*              database has its COMMIT row, but for one that recovery     *)
(*              will find in doubt;                                        *)
(*   OrderInv   the numbers of the segments order the history, and none    *)
(*              is missing in stage that is not held at home (GapInv);     *)
(* which hold whatever an application does, then                           *)
(*   CoverInv   sidecars hold exactly the statements that took effect, if  *)
(*              Logger::flush is not called inside a transaction;          *)
(*   FateInv    the fate in the log is the one of the database, and        *)
(*   StreamInv  every commit has a row in some segment, so that the device *)
(*              implements CommitStream, both for an application that does *)
(*              nothing the device is not prepared for.                    *)
(***************************************************************************)
EXTENDS DuckDbDevice, LogSegmentsProofs

--------------------------------------------------------------------------------
(* Types and shape                                                             *)

\* The steps during which the writer has home[cur] open for appending.
CurOpen == Writing \union
  {"idle", "open_recover", "open_discard", "open_persist", "roll_check", "roll_persist",
   "close_check", "finalize", "mark_ready"}

FiniteRows ==
  /\ \A n \in Seg : IsFiniteSet(home[n].rows)
  /\ IsFiniteSet(buf) /\ IsFiniteSet(queue) /\ IsFiniteSet(userTxn.effects)

\* Where the running call stands determines the file it works on.
StepShape ==
  /\ pc \in CurOpen => home[cur].status = "NEW"
  /\ pc \in {"deliver", "remove"} /\ ~ closing =>
       home[cur].status = "NEW" /\ \A n \in todo : n < cur
  /\ pc = "roll_persist" => \A n \in todo : n < cur
  /\ pc \in {"finalize", "mark_ready"} => todo = {cur} /\ (~ closing => slot > cur)
  /\ pc \in {"roll_create", "roll_schema"} => \A n \in todo : n < slot
  /\ pc \in {"open_create", "roll_create"} =>
       \A n \in Seg : home[n].status \in {"absent", "READY"}
                      /\ (n >= slot => home[n].status = "absent")
  /\ pc \in {"open_schema", "roll_schema"} => home[slot].status = "half"
  /\ pc = "roll_check" => cur < MaxSegment
  /\ closing => pc \in {"close_check", "finalize", "mark_ready", "deliver", "remove"}
  /\ pc = "close_check" => closing

TypeInv == TypeOK /\ FiniteRows /\ HomeShape /\ StepShape

\* What the lemmas about the home and the writer ask for.
LEMMA LogIsInShape ==
  ASSUME TypeInv
  PROVE  LogShape
BY DEF TypeInv, TypeOK, FiniteRows, LogShape

\* Counting what is queued or executed gives a number.
LEMMA CountsTyped ==
  ASSUME TypeInv
  PROVE  NumAfterSpill \in Nat /\ Statement \in Row
<1>1. Cardinality(queue) \in Nat /\ Cardinality(userTxn.effects) \in Nat
  BY FS_CardinalityType DEF TypeInv, FiniteRows
<1>2. nextNum \in Nat /\ nextCommit \in Nat
  BY DEF TypeInv, TypeOK
<1> QED BY <1>1, <1>2 DEF NumAfterSpill, Statement, MakeRow, Row, RowKind

LEMMA HomeUntouched ==
  ASSUME TypeInv, UNCHANGED <<home, buf, queue, userTxn>>
  PROVE  FiniteRows' /\ HomeShape'
BY DEF TypeInv, FiniteRows, HomeShape, Seg

\* A process that ends, by a crash or in order, leaves a well-formed disk.
LEMMA ResetKeepsTypeInv ==
  ASSUME TypeInv, InMemoryReset, pc' \in Down, UNCHANGED disk
  PROVE  TypeInv'
<1>1. /\ cur' = 0 /\ slot' = 0 /\ nextCommit' = 0 /\ nextNum' = 0
      /\ queue' = {} /\ spilled' = {} /\ rtOpen' = FALSE /\ userTxn' = NoUserTxn
      /\ buf' = {} /\ todo' = {} /\ closing' = FALSE
      /\ UNCHANGED <<home, homeTxn, stage, stageTxn, persisted, db>>
  BY DEF InMemoryReset, disk
<1>2. 0 \in Seg /\ NoUserTxn \in [open : BOOLEAN, effects : SUBSET Row]
  BY BoundsAssumption DEF Seg, NoUserTxn
<1>3. TypeOK'
  BY <1>1, <1>2 DEF TypeInv, TypeOK, PC, Down, Seg
<1>4. FiniteRows'
  BY <1>1, FS_EmptySet DEF TypeInv, FiniteRows, Seg, NoUserTxn
<1>5. HomeShape'
  BY <1>1 DEF TypeInv, HomeShape, Seg
<1>6. StepShape'
  BY <1>1 DEF StepShape, Down, CurOpen, Writing
<1> QED BY <1>3, <1>4, <1>5, <1>6 DEF TypeInv

--------------------------------------------------------------------------------
(* What the steps of open do                                                   *)

\* The scan never meets a half-created file: the sweep came first.
LEMMA ScanSucceeds ==
  ASSUME TypeInv
  PROVE  ~ ScanFails
<1>1. CASE OnDisk(Resolved) = {}
  BY <1>1 DEF ScanFails, Highest
<1>2. CASE OnDisk(Resolved) # {}
  <2>1. OnDisk(Resolved) \in SUBSET Seg
    BY DEF OnDisk
  <2>2. Highest(OnDisk(Resolved)) \in Seg
    BY <1>2, <2>1, HighestIsMax
  <2> QED BY <2>2, ResolvedShape, LogIsInShape DEF ScanFails
<1> QED BY <1>1, <1>2

\* The active segment is one that is being written.
LEMMA ActiveIsWritable ==
  ASSUME TypeInv, ActiveSegment >= 0
  PROVE  ActiveSegment \in Seg /\ Resolved[ActiveSegment].status = "NEW"
<1>1. CASE PersistedIsWritable
  BY <1>1 DEF ActiveSegment, PersistedIsWritable, Writable, Resolved
<1>2. CASE ~ PersistedIsWritable
  <2>1. Writable(Resolved) # {}
    BY <1>2 DEF ActiveSegment, Highest
  <2>2. Writable(Resolved) \in SUBSET Seg
    BY DEF Writable
  <2>3. Highest(Writable(Resolved)) \in Writable(Resolved)
    BY <2>1, <2>2, HighestIsMax
  <2> QED BY <1>2, <2>3 DEF ActiveSegment, Writable
<1> QED BY <1>1, <1>2

\* Without one, no file is being written, and the number of the next segment is
\* above every file and the persisted number.
LEMMA NoneIsActive ==
  ASSUME TypeInv, ~ (ActiveSegment >= 0), NextSegment(Resolved) <= MaxSegment
  PROVE  LET s == NextSegment(Resolved) IN
         /\ s \in Seg /\ s > persisted
         /\ \A n \in Seg : Resolved[n].status \in {"absent", "READY"}
                           /\ (n >= s => Resolved[n].status = "absent")
         /\ FreeSlot(Resolved, s) = s /\ Claimed(Resolved, s) = Resolved
<1> DEFINE s == NextSegment(Resolved)
<1>1. persisted \in -1 .. MaxSegment
  BY DEF TypeInv, TypeOK
<1>2. Highest(OnDisk(Resolved)) \in Int
  <2>1. OnDisk(Resolved) \in SUBSET Seg
    BY DEF OnDisk
  <2>2. CASE OnDisk(Resolved) = {}
    BY <2>2 DEF Highest
  <2>3. CASE OnDisk(Resolved) # {}
    BY <2>1, <2>3, HighestIsMax, BoundsAssumption DEF Seg
  <2> QED BY <2>2, <2>3
<1>3. s \in Seg /\ s > persisted
  BY <1>1, <1>2, BoundsAssumption DEF NextSegment, Seg
<1>4. \A n \in Seg : n >= s => Resolved[n].status = "absent"
  BY NextSegmentIsFree, LogIsInShape
<1>5. Resolved \in [Seg -> Segment] /\ \A n \in Seg : Resolved[n].status # "half"
  BY ResolvedShape, LogIsInShape
<1>6. \A n \in Seg : Resolved[n].status = "absent" => Resolved[n].rows = {}
  BY ResolvedShape, LogIsInShape DEF TypeInv, HomeShape, NoFile
<1>7. Writable(Resolved) = {}
  <2>1. SUFFICES ASSUME Writable(Resolved) # {} PROVE FALSE
    OBVIOUS
  <2>2. Writable(Resolved) \in SUBSET Seg
    BY DEF Writable
  <2>3. Highest(Writable(Resolved)) \in Seg
    BY <2>1, <2>2, HighestIsMax
  <2>4. Highest(Writable(Resolved)) >= 0
    BY <2>3, BoundsAssumption DEF Seg
  <2>5. PersistedIsWritable => persisted >= 0
    BY BoundsAssumption DEF PersistedIsWritable, Writable, Seg
  <2> QED BY <2>4, <2>5 DEF ActiveSegment
<1>8. \A n \in Seg : Resolved[n].status \in {"absent", "READY"}
  BY <1>5, <1>7 DEF Writable, Segment, Status
<1>9. FreeSlot(Resolved, s) = s /\ Claimed(Resolved, s) = Resolved
  <2> HIDE DEF s
  <2> QED BY <1>3, <1>4, <1>5, <1>6, ClaimOfFreeSlot
<1> QED BY <1>3, <1>4, <1>8, <1>9

\* Opening takes up the segments it finds, with all their rows.
LEMMA OpenTakes ==
  ASSUME TypeInv, OpenDevice
  PROVE  /\ pc \in Down /\ home' = Resolved /\ cur' = slot' /\ cur' \in Seg
         /\ nextCommit' \in Nat /\ nextNum' \in Nat /\ \A c \in Recorded : c < nextCommit'
         /\ \/ pc' = "open_recover" /\ home'[cur'].status = "NEW"
            \/ /\ pc' = "open_create" /\ persisted < slot'
               /\ \A n \in Seg : home'[n].status \in {"absent", "READY"}
                                 /\ (n >= slot' => home'[n].status = "absent")
         /\ UNCHANGED <<homeTxn, stage, stageTxn, persisted, db, txn, buf, todo, closing>>
<1>1. pc \in Down /\ OpenResolved
  BY ScanSucceeds DEF OpenDevice
<1>2. nextCommit' \in Nat /\ \A c \in Recorded : c < nextCommit'
  <2>1. PICK now \in 0 .. MaxCommitId :
          /\ \A c \in Recorded : c < now
          /\ nextCommit' = NextMonotonic(now, ScanMaxCommitId)
    BY <1>1 DEF OpenResolved
  <2>2. now \in Nat /\ ScanMaxCommitId \in Nat
    BY ScanTyped, LogIsInShape, BoundsAssumption
  <2>3. nextCommit' \in Nat /\ now <= nextCommit'
    BY <2>1, <2>2 DEF NextMonotonic
  <2>4. Recorded \subseteq Nat
    BY DEF Recorded, CommitIds, TypeInv, TypeOK, Segment, Row
  <2> QED BY <2>1, <2>2, <2>3, <2>4
<1>3. UNCHANGED <<homeTxn, stage, stageTxn, persisted, db, txn, buf, todo, closing>>
  BY <1>1 DEF OpenResolved
<1>4. CASE ActiveSegment >= 0
  <2> DEFINE a == ActiveSegment
  <2>1. a \in Seg /\ Resolved[a].status = "NEW"
    BY <1>4, ActiveIsWritable
  <2>2. /\ home' = Resolved /\ cur' = a /\ slot' = a /\ pc' = "open_recover"
        /\ nextNum' = NextChangeNumber(Resolved[a].rows)
    BY <1>1, <1>4 DEF OpenResolved
  <2>3. Resolved[a].rows \in SUBSET Row /\ IsFiniteSet(Resolved[a].rows)
    BY <2>1, ResolvedShape, LogIsInShape DEF TypeInv, FiniteRows, Segment
  <2> HIDE DEF a
  <2>4. nextNum' \in Nat
    BY <2>2, <2>3, NextChangeNumberFresh
  <2> QED BY <1>1, <1>2, <1>3, <2>1, <2>2, <2>4
<1>5. CASE ~ (ActiveSegment >= 0)
  <2> DEFINE s == NextSegment(Resolved)
  <2>1. /\ s <= MaxSegment /\ home' = Claimed(Resolved, s) /\ cur' = FreeSlot(Resolved, s)
        /\ slot' = FreeSlot(Resolved, s) /\ nextNum' = 0 /\ pc' = "open_create"
    BY <1>1, <1>5 DEF OpenResolved
  <2>2. /\ s \in Seg /\ s > persisted
        /\ \A n \in Seg : Resolved[n].status \in {"absent", "READY"}
                          /\ (n >= s => Resolved[n].status = "absent")
        /\ FreeSlot(Resolved, s) = s /\ Claimed(Resolved, s) = Resolved
    BY <1>5, <2>1, NoneIsActive
  <2> HIDE DEF s
  <2>3. home' = Resolved /\ slot' = s /\ cur' = s
    BY <2>1, <2>2
  <2>4. persisted < s
    BY <2>2, BoundsAssumption DEF TypeInv, TypeOK, Seg
  <2> QED BY <1>1, <1>2, <1>3, <2>1, <2>2, <2>3, <2>4
<1> QED BY <1>4, <1>5

--------------------------------------------------------------------------------
(* Types and shape are preserved                                               *)

LEMMA TypeInvOpenDevice ==
  ASSUME TypeInv, OpenDevice
  PROVE  TypeInv'
<1> USE DEF Down, PC, Opening, Writing, Switching, CurOpen
<1>1. /\ pc \in Down /\ home' = Resolved /\ cur' = slot' /\ cur' \in Seg
      /\ nextCommit' \in Nat /\ nextNum' \in Nat
      /\ \/ pc' = "open_recover" /\ home'[cur'].status = "NEW"
         \/ /\ pc' = "open_create"
            /\ \A n \in Seg : home'[n].status \in {"absent", "READY"}
                              /\ (n >= slot' => home'[n].status = "absent")
      /\ UNCHANGED <<homeTxn, stage, stageTxn, persisted, db, txn, buf, todo, closing>>
  BY OpenTakes
<1>2. UNCHANGED <<queue, spilled, rtOpen, userTxn>>
  BY <1>1 DEF txn
<1>3. /\ Resolved \in [Seg -> Segment]
      /\ \A n \in Seg : /\ Resolved[n].rows = home[n].rows
                        /\ Resolved[n] \in {home[n], NoFile}
  BY ResolvedShape, LogIsInShape
<1>4. ~ closing
  BY <1>1 DEF TypeInv, StepShape
<1> HIDE DEF Resolved
<1>5. TypeOK'
  BY <1>1, <1>2, <1>3 DEF TypeInv, TypeOK, Seg
<1>6. FiniteRows'
  BY <1>1, <1>2, <1>3 DEF TypeInv, FiniteRows, Seg
<1>7. HomeShape'
  BY <1>1, <1>3 DEF TypeInv, HomeShape, Seg, NoFile
<1>8. StepShape'
  BY <1>1, <1>4 DEF StepShape, Seg
<1> QED BY <1>5, <1>6, <1>7, <1>8 DEF TypeInv

\* A step of the writer and of its own variables, the segment staying open.
LEMMA WriterKeepsTypeInv ==
  ASSUME TypeInv, WriterStep,
         pc \in CurOpen, pc' \in CurOpen,
         pc' = "roll_check" => cur < MaxSegment,
         pc' = "roll_persist" => pc = "roll_persist",
         closing' => pc' \in {"close_check", "finalize", "mark_ready"},
         pc' \in {"finalize", "mark_ready"} => pc \in {"finalize", "mark_ready"} /\ closing' = closing,
         pc' = "close_check" => closing',
         queue' \in SUBSET Row, IsFiniteSet(queue'), spilled' \in SUBSET Row,
         userTxn' \in [open : BOOLEAN, effects : SUBSET Row], IsFiniteSet(userTxn'.effects),
         nextNum' \in Nat, nextCommit' \in Nat, rtOpen' \in BOOLEAN, closing' \in BOOLEAN,
         db' \in [commitId : Nat, done : SUBSET Nat, effects : SUBSET Row],
         homeTxn' \in [Seg -> SUBSET Row],
         UNCHANGED <<stage, stageTxn, persisted, cur, slot, todo>>
  PROVE  TypeInv'
<1> USE DEF Down, PC, Opening, Writing, Switching, CurOpen
<1>1. home[cur].status = "NEW" /\ cur \in Seg
  BY DEF TypeInv, TypeOK, StepShape
<1>2. HomeShape'
  BY <1>1, WriterKeepsShape, LogIsInShape
<1>3. TypeOK'
  BY DEF TypeInv, TypeOK, WriterStep, Seg
<1>4. FiniteRows'
  BY DEF FiniteRows, WriterStep, Seg
<1>5. StepShape'
  BY <1>1 DEF TypeInv, StepShape, WriterStep
<1> QED BY <1>2, <1>3, <1>4, <1>5 DEF TypeInv

\* The same when the writer does nothing.
LEMMA NoWrite ==
  ASSUME TypeInv, UNCHANGED <<home, buf>>
  PROVE  WriterStep
BY DEF TypeInv, TypeOK, FiniteRows, WriterStep

\* A recovered transaction gets its COMMIT row, durable at once.
LEMMA RecoveryCommits ==
  ASSUME TypeInv, RecoverInDoubtTxn,
         RecoveryOutcome(db.commitId, Slave, FateOf(home[cur].rows, Slave)) = "COMMIT"
  PROVE  LET r == MakeRow(nextNum, Slave, "COMMIT") IN
         /\ r \in Row /\ Slave = db.commitId /\ Slave # 0
         /\ WriterStep /\ home'[cur].rows = home[cur].rows \union {r} /\ buf' = buf
         /\ pc' = "open_persist" /\ nextNum' = nextNum + 1
         /\ UNCHANGED <<homeTxn, stage, stageTxn, persisted, db, cur, slot, nextCommit, txn,
                        buf, todo, closing>>
<1> DEFINE r == MakeRow(nextNum, Slave, "COMMIT")
<1>1. cur \in Seg /\ home[cur].rows \in SUBSET Row /\ IsFiniteSet(home[cur].rows)
  BY DEF TypeInv, TypeOK, FiniteRows, Segment
<1>2. Slave \in Nat
  BY <1>1, LastCommitIdType DEF Slave
<1>3. r \in Row
  BY <1>2 DEF MakeRow, Row, RowKind, TypeInv, TypeOK
<1>4. /\ home' = WithRows(home, cur, {r}) /\ nextNum' = nextNum + 1 /\ pc' = "open_persist"
      /\ UNCHANGED <<homeTxn, stage, stageTxn, persisted, db, cur, slot, nextCommit, txn,
                     buf, todo, closing>>
  BY DEF RecoverInDoubtTxn
<1>5. Slave = db.commitId /\ Slave # 0
  <2>1. db.commitId \in Nat
    BY DEF TypeInv, TypeOK
  <2> HIDE DEF Slave
  <2> QED BY <1>2, <2>1 DEF RecoveryOutcome, FateOf
<1> HIDE DEF r
<1>6. {r} \in SUBSET Row /\ IsFiniteSet({r})
  BY <1>3, FS_Singleton
<1>7. /\ home' \in [Seg -> Segment]
      /\ \A n \in Seg : home'[n].status = home[n].status
      /\ \A n \in Seg : n # cur => home'[n] = home[n]
      /\ home'[cur].rows = home[cur].rows \union {r}
      /\ \A n \in Seg : IsFiniteSet(home'[n].rows)
  BY <1>4, <1>6, WithRowsEffect, LogIsInShape
<1>8. WriterStep
  BY <1>4, <1>7 DEF WriterStep, TypeInv, TypeOK, FiniteRows
<1> QED BY <1>3, <1>4, <1>5, <1>7, <1>8 DEF r

\* Discarding removes the rows of the undecided transaction, and only those.
LEMMA DiscardEffect ==
  ASSUME TypeInv, DiscardInDoubtTxn
  PROVE  /\ home' \in [Seg -> Segment]
         /\ \A n \in Seg : home'[n].status = home[n].status
         /\ \A n \in Seg : n # cur => home'[n] = home[n]
         /\ home'[cur].rows = home[cur].rows \ OfCommit(home[cur].rows, Slave)
         /\ pc = "open_discard" /\ pc' = "open_persist"
         /\ UNCHANGED <<homeTxn, stage, stageTxn, persisted, db, cur, slot, nextCommit,
                        nextNum, txn, buf, todo, closing>>
<1>1. home \in [Seg -> Segment] /\ cur \in Seg
  BY DEF TypeInv, TypeOK
<1>2. home' = [home EXCEPT ![cur].rows = home[cur].rows \ OfCommit(home[cur].rows, Slave)]
  BY DEF DiscardInDoubtTxn
<1> DEFINE new == home[cur].rows \ OfCommit(home[cur].rows, Slave)
<1>3. new \in SUBSET Row
  BY <1>1 DEF Segment
<1>4. home' = [home EXCEPT ![cur].rows = new]
  BY <1>2
<1> HIDE DEF new
<1>5. /\ home' \in [Seg -> Segment]
      /\ \A n \in Seg : home'[n].status = home[n].status
      /\ \A n \in Seg : n # cur => home'[n] = home[n]
      /\ home'[cur].rows = new
  BY <1>1, <1>3, <1>4 DEF Segment
<1> QED BY <1>5 DEF new, DiscardInDoubtTxn

LEMMA TypeInvOpenOthers ==
  ASSUME TypeInv, RecoverInDoubtTxn \/ DiscardInDoubtTxn \/ OpenPersist
  PROVE  TypeInv'
<1> USE DEF Down, PC, Opening, Writing, Switching, CurOpen
<1>1. CASE RecoverInDoubtTxn
  <2> DEFINE outcome == RecoveryOutcome(db.commitId, Slave, FateOf(home[cur].rows, Slave))
  <2>1. pc = "open_recover" /\ home[cur].status = "NEW" /\ cur \in Seg /\ ~ closing
    BY <1>1 DEF RecoverInDoubtTxn, TypeInv, TypeOK, StepShape
  <2>2. CASE outcome = "refuse"
    <3>1. pc' = "refused" /\ InMemoryReset /\ UNCHANGED disk
      BY <1>1, <2>2 DEF RecoverInDoubtTxn, disk
    <3> QED BY <3>1, ResetKeepsTypeInv
  <2>3. CASE outcome = "discard"
    <3>1. /\ homeTxn' = [homeTxn EXCEPT ![cur] = @ \ OfCommit(@, Slave)]
          /\ pc' = "open_discard"
          /\ UNCHANGED <<home, cur, slot, nextCommit, nextNum, txn, buf, todo, closing,
                         stage, stageTxn, persisted, db>>
      BY <1>1, <2>3 DEF RecoverInDoubtTxn
    <3>2. homeTxn' \in [Seg -> SUBSET Row]
      BY <2>1, <3>1 DEF TypeInv, TypeOK
    <3>3. FiniteRows' /\ HomeShape'
      BY <3>1, HomeUntouched DEF txn
    <3>4. TypeOK' /\ StepShape'
      BY <2>1, <3>1, <3>2 DEF TypeInv, TypeOK, StepShape, txn
    <3> QED BY <3>3, <3>4 DEF TypeInv
  <2>4. CASE outcome = "COMMIT"
    <3>1. /\ WriterStep /\ pc' = "open_persist" /\ nextNum' = nextNum + 1
          /\ UNCHANGED <<homeTxn, stage, stageTxn, persisted, db, cur, slot, nextCommit,
                         queue, rtOpen, spilled, userTxn, buf, todo, closing>>
      BY <1>1, <2>4, RecoveryCommits DEF txn
    <3>2. nextNum' \in Nat
      BY <3>1 DEF TypeInv, TypeOK
    <3> QED BY <2>1, <3>1, <3>2, WriterKeepsTypeInv DEF TypeInv, TypeOK, FiniteRows
  <2>5. CASE outcome \notin {"refuse", "discard", "COMMIT"}
    <3>1. /\ pc' = "open_persist"
          /\ UNCHANGED <<home, homeTxn, cur, slot, nextCommit, nextNum, txn, buf, todo,
                         closing, stage, stageTxn, persisted, db>>
      BY <1>1, <2>5 DEF RecoverInDoubtTxn
    <3>2. FiniteRows' /\ HomeShape'
      BY <3>1, HomeUntouched DEF txn
    <3>3. TypeOK' /\ StepShape'
      BY <2>1, <3>1 DEF TypeInv, TypeOK, StepShape, txn
    <3> QED BY <3>2, <3>3 DEF TypeInv
  <2> QED BY <2>2, <2>3, <2>4, <2>5
<1>2. CASE DiscardInDoubtTxn
  <2>1. /\ home' \in [Seg -> Segment]
        /\ \A n \in Seg : home'[n].status = home[n].status
        /\ \A n \in Seg : n # cur => home'[n] = home[n]
        /\ home'[cur].rows = home[cur].rows \ OfCommit(home[cur].rows, Slave)
        /\ pc = "open_discard" /\ pc' = "open_persist"
        /\ UNCHANGED <<homeTxn, stage, stageTxn, persisted, db, cur, slot, nextCommit,
                       nextNum, txn, buf, todo, closing>>
    BY <1>2, DiscardEffect
  <2>2. TypeOK'
    BY <2>1 DEF TypeInv, TypeOK, txn, Seg
  <2>3. \A n \in Seg : IsFiniteSet(home'[n].rows)
    <3>1. IsFiniteSet(home'[cur].rows)
      <4>1. IsFiniteSet(home[cur].rows) /\ home'[cur].rows \subseteq home[cur].rows
        BY <2>1 DEF TypeInv, TypeOK, FiniteRows
      <4> QED BY <4>1, FS_Subset
    <3> QED BY <2>1, <3>1 DEF TypeInv, FiniteRows
  <2>4. FiniteRows'
    BY <2>1, <2>3 DEF TypeInv, FiniteRows, Seg, txn
  <2>5. HomeShape'
    BY <2>1 DEF TypeInv, HomeShape, Seg
  <2>6. StepShape'
    BY <2>1 DEF TypeInv, TypeOK, StepShape
  <2> QED BY <2>2, <2>4, <2>5, <2>6 DEF TypeInv
<1>3. CASE OpenPersist
  <2>1. /\ pc = "open_persist" /\ pc' = "deliver" /\ persisted' = cur /\ todo' = FinalizedBelow(cur)
        /\ UNCHANGED <<home, homeTxn, stage, stageTxn, db, cur, slot, nextCommit, nextNum,
                       queue, rtOpen, spilled, userTxn, buf, closing>>
    BY <1>3 DEF OpenPersist, PersistSequence, txn
  <2>2. persisted' \in -1 .. MaxSegment
    BY <2>1, BoundsAssumption DEF TypeInv, TypeOK, Seg
  <2> QED BY <2>1, <2>2, HomeUntouched
          DEF TypeInv, TypeOK, StepShape, FinalizedBelow, Seg
<1> QED BY <1>1, <1>2, <1>3

\* Creating a file only changes its status.
LEMMA CreateEffect ==
  ASSUME TypeInv, Create
  PROVE  /\ slot \in Seg /\ home' \in [Seg -> Segment]
         /\ home'[slot].rows = home[slot].rows
         /\ \A n \in Seg : n # slot => home'[n] = home[n]
         /\ \/ /\ CreateFile /\ home[slot].status = "absent" /\ home'[slot].status = "half"
               /\ \A n \in Seg : home[n].status \in {"absent", "READY"}
                                 /\ (n >= slot => home[n].status = "absent")
               /\ UNCHANGED <<cur, nextNum>>
            \/ CreateSchema /\ home[slot].status = "half" /\ home'[slot].status = "NEW" /\ cur' = slot
         /\ UNCHANGED <<homeTxn, stage, stageTxn, persisted, db, slot, nextCommit, txn, buf,
                        todo, closing>>
<1>1. slot \in Seg /\ home \in [Seg -> Segment]
  BY DEF TypeInv, TypeOK
<1>2. CASE CreateFile
  <2>1. home' = [home EXCEPT ![slot].status = "half"]
    BY <1>2 DEF CreateFile
  <2>2. /\ home' \in [Seg -> Segment]
        /\ home'[slot].status = "half" /\ home'[slot].rows = home[slot].rows
        /\ \A n \in Seg : n # slot => home'[n] = home[n]
    BY <1>1, <2>1 DEF Segment, Status
  <2>3. \A n \in Seg : home[n].status \in {"absent", "READY"}
                       /\ (n >= slot => home[n].status = "absent")
    BY <1>2 DEF CreateFile, TypeInv, StepShape
  <2> QED BY <1>1, <1>2, <2>2, <2>3 DEF CreateFile
<1>3. CASE CreateSchema
  <2>1. home' = [home EXCEPT ![slot].status = "NEW"]
    BY <1>3 DEF CreateSchema
  <2>2. /\ home' \in [Seg -> Segment]
        /\ home'[slot].status = "NEW" /\ home'[slot].rows = home[slot].rows
        /\ \A n \in Seg : n # slot => home'[n] = home[n]
    BY <1>1, <2>1 DEF Segment, Status
  <2>3. home[slot].status = "half"
    BY <1>3 DEF CreateSchema, TypeInv, StepShape
  <2> QED BY <1>1, <1>3, <2>2, <2>3 DEF CreateSchema
<1> QED BY <1>2, <1>3 DEF Create

LEMMA TypeInvCreate ==
  ASSUME TypeInv, Create
  PROVE  TypeInv'
<1> USE DEF Down, PC, Opening, Writing, Switching, CurOpen
<1>1. /\ slot \in Seg /\ home' \in [Seg -> Segment]
      /\ home'[slot].rows = home[slot].rows
      /\ \A n \in Seg : n # slot => home'[n] = home[n]
      /\ UNCHANGED <<homeTxn, stage, stageTxn, persisted, db, slot, nextCommit,
                     queue, rtOpen, spilled, userTxn, buf, todo, closing>>
  BY CreateEffect DEF txn
<1>2. FiniteRows'
  BY <1>1 DEF TypeInv, FiniteRows, Seg
<1>3. CASE CreateFile
  <2>1. /\ home'[slot].status = "half" /\ UNCHANGED <<cur, nextNum>>
        /\ \A n \in Seg : home[n].status \in {"absent", "READY"}
                          /\ (n >= slot => home[n].status = "absent")
    BY <1>3, CreateEffect DEF CreateFile, CreateSchema
  <2>2. /\ pc \in {"open_create", "roll_create"}
        /\ pc' = IF pc = "open_create" THEN "open_schema" ELSE "roll_schema"
    BY <1>3 DEF CreateFile
  <2>3. TypeOK'
    BY <1>1, <2>1, <2>2 DEF TypeInv, TypeOK, Seg
  <2>4. HomeShape'
    BY <1>1, <2>1, BoundsAssumption DEF TypeInv, HomeShape, Seg
  <2>5. StepShape'
    BY <1>1, <2>1, <2>2 DEF TypeInv, StepShape
  <2> QED BY <1>2, <2>3, <2>4, <2>5 DEF TypeInv
<1>4. CASE CreateSchema
  <2>1. /\ home[slot].status = "half" /\ home'[slot].status = "NEW" /\ cur' = slot
        /\ pc \in {"open_schema", "roll_schema"} /\ nextNum' = 0
        /\ pc' = IF pc = "open_schema" THEN "open_recover" ELSE "roll_persist"
    BY <1>4, CreateEffect DEF CreateFile, CreateSchema
  <2>3. TypeOK'
    BY <1>1, <2>1 DEF TypeInv, TypeOK, Seg
  <2>4. HomeShape'
    BY <1>1, <2>1, BoundsAssumption DEF TypeInv, HomeShape, Seg
  <2>5. StepShape'
    BY <1>1, <2>1 DEF TypeInv, StepShape
  <2> QED BY <1>2, <2>3, <2>4, <2>5 DEF TypeInv
<1> QED BY <1>3, <1>4 DEF Create

\* What the calls of a transaction append.
LEMMA BeginAppends ==
  ASSUME TypeInv, BeginRow
  PROVE  \E r \in Row : r = MakeRow(nextNum, nextCommit, "BEGIN") /\ AppendRow(r)
BY DEF BeginRow, MakeRow, Row, RowKind, TypeInv, TypeOK

LEMMA TypeInvTxn ==
  ASSUME TypeInv, Txn
  PROVE  TypeInv'
<1> USE DEF Down, PC, Opening, Writing, Switching, CurOpen
<1>1. /\ nextNum \in Nat /\ nextCommit \in Nat /\ pc = "idle" /\ ~ closing
      /\ queue \in SUBSET Row /\ spilled \in SUBSET Row /\ closing \in BOOLEAN
      /\ userTxn \in [open : BOOLEAN, effects : SUBSET Row]
      /\ IsFiniteSet(queue) /\ IsFiniteSet(userTxn.effects)
      /\ db \in [commitId : Nat, done : SUBSET Nat, effects : SUBSET Row]
      /\ homeTxn \in [Seg -> SUBSET Row]
  BY DEF Txn, Execute, ExecuteUnlogged, FlushLog, TypeInv, TypeOK, FiniteRows, StepShape
<1>2. CASE Execute
  <2>1. Statement \in Row
    BY CountsTyped
  <2>2. /\ rtOpen' = TRUE /\ queue' = queue \union {Statement}
        /\ userTxn' = [open |-> TRUE, effects |-> userTxn.effects \union {Statement}]
        /\ UNCHANGED <<homeTxn, stage, stageTxn, persisted, db, pc, cur, slot, nextCommit,
                       spilled, todo, closing>>
    BY <1>2 DEF Execute
  <2>3. WriterStep /\ nextNum' \in Nat
    <3>1. CASE rtOpen
      BY <1>1, <1>2, <3>1, NoWrite DEF Execute
    <3>2. CASE ~ rtOpen
      <4>1. BeginRow /\ nextNum' = nextNum + 2
        BY <1>2, <3>2 DEF Execute
      <4>2. WriterStep
        BY <4>1, BeginAppends, AppendLogs, LogIsInShape
      <4> QED BY <1>1, <4>1, <4>2
    <3> QED BY <3>1, <3>2
  <2>4. /\ queue' \in SUBSET Row /\ IsFiniteSet(queue') /\ IsFiniteSet(userTxn'.effects)
        /\ userTxn' \in [open : BOOLEAN, effects : SUBSET Row]
    <3>1. IsFiniteSet(queue \union {Statement}) /\ IsFiniteSet(userTxn.effects \union {Statement})
      BY <1>1, FS_AddElement
    <3> QED BY <1>1, <2>1, <2>2, <3>1
  <2> QED BY <1>1, <2>2, <2>3, <2>4, WriterKeepsTypeInv
<1>3. CASE ExecuteUnlogged
  <2>1. /\ rtOpen' = TRUE /\ userTxn' = [userTxn EXCEPT !.open = TRUE] /\ nextNum' = nextNum + 1
        /\ UNCHANGED <<homeTxn, stage, stageTxn, persisted, db, pc, cur, slot, nextCommit,
                       queue, spilled, todo, closing>>
    BY <1>3 DEF ExecuteUnlogged
  <2>2. WriterStep
    BY <1>3, BeginAppends, AppendLogs, LogIsInShape DEF ExecuteUnlogged
  <2>3. userTxn' \in [open : BOOLEAN, effects : SUBSET Row] /\ IsFiniteSet(userTxn'.effects)
    BY <1>1, <2>1
  <2>4. nextNum' \in Nat
    BY <1>1, <2>1
  <2> QED BY <1>1, <2>1, <2>2, <2>3, <2>4, WriterKeepsTypeInv
<1>4. CASE FlushLog
  <2>1. /\ spilled' = spilled \union queue /\ queue' = {} /\ nextNum' = NumAfterSpill
        /\ UNCHANGED <<home, homeTxn, stage, stageTxn, persisted, db, pc, cur, slot, nextCommit,
                       rtOpen, userTxn, buf, todo, closing>>
    BY <1>4 DEF FlushLog, disk
  <2>2. WriterStep /\ nextNum' \in Nat
    BY <2>1, NoWrite, CountsTyped
  <2>3. spilled' \in SUBSET Row /\ queue' \in SUBSET Row /\ IsFiniteSet(queue')
    BY <1>1, <2>1, FS_EmptySet
  <2>4. rtOpen' \in BOOLEAN
    BY <2>1 DEF TypeInv, TypeOK
  <2> QED BY <1>1, <2>1, <2>2, <2>3, <2>4, WriterKeepsTypeInv
<1> QED BY <1>2, <1>3, <1>4 DEF Txn

\* A step in which only memory changes and the writer may work, of a call that is
\* neither opening nor switching segments.
LEMMA CallKeepsTypeInv ==
  ASSUME TypeInv, WriterStep,
         pc \in {"idle"} \union Writing, pc' \in {"idle", "roll_check"} \union Writing,
         pc' = "roll_check" => cur < MaxSegment,
         queue' \in {queue, {}}, spilled' \in SUBSET Row, userTxn' \in {userTxn, NoUserTxn},
         nextNum' \in Nat, nextCommit' \in Nat, rtOpen' \in BOOLEAN,
         db' \in [commitId : Nat, done : SUBSET Nat, effects : SUBSET Row],
         homeTxn' \in [Seg -> SUBSET Row],
         UNCHANGED <<stage, stageTxn, persisted, cur, slot, todo, closing>>
  PROVE  TypeInv'
<1> USE DEF Writing, CurOpen
<1>1. /\ ~ closing /\ closing' \in BOOLEAN
      /\ queue \in SUBSET Row /\ IsFiniteSet(queue) /\ IsFiniteSet(userTxn.effects)
      /\ userTxn \in [open : BOOLEAN, effects : SUBSET Row]
  BY DEF TypeInv, TypeOK, FiniteRows, StepShape
<1>2. NoUserTxn \in [open : BOOLEAN, effects : SUBSET Row] /\ IsFiniteSet(NoUserTxn.effects)
  BY FS_EmptySet DEF NoUserTxn
<1>3. queue' \in SUBSET Row /\ IsFiniteSet(queue')
  BY <1>1, FS_EmptySet
<1>4. userTxn' \in [open : BOOLEAN, effects : SUBSET Row] /\ IsFiniteSet(userTxn'.effects)
  BY <1>1, <1>2
<1> QED BY <1>1, <1>3, <1>4, WriterKeepsTypeInv

LEMMA TypeInvFateRow ==
  ASSUME TypeInv, NEW step, NEW kind \in RowKind, NEW next, FateRow(step, kind, next),
         step \in {"commit_row", "rollback_row"}, next \in {"commit_done", "rollback_done"}
  PROVE  TypeInv'
<1> USE DEF Writing
<1> DEFINE r == MakeRow(nextNum, nextCommit, kind)
<1>1. r \in Row
  BY DEF MakeRow, Row, TypeInv, TypeOK
<1>2. /\ pc = step /\ AppendRow(r) /\ nextNum' = nextNum + 1 /\ pc' = next
      /\ UNCHANGED <<homeTxn, stage, stageTxn, persisted, db, cur, slot, nextCommit, queue,
                     rtOpen, spilled, userTxn, todo, closing>>
  BY DEF FateRow, txn
<1> HIDE DEF r
<1>3. WriterStep
  BY <1>1, <1>2, AppendLogs, LogIsInShape
<1>4. /\ nextNum' \in Nat /\ nextCommit' \in Nat /\ rtOpen' \in BOOLEAN /\ spilled' \in SUBSET Row
      /\ db' \in [commitId : Nat, done : SUBSET Nat, effects : SUBSET Row]
      /\ homeTxn' \in [Seg -> SUBSET Row]
  BY <1>2 DEF TypeInv, TypeOK
<1> QED BY <1>2, <1>3, <1>4, CallKeepsTypeInv

\* The end of a transaction: the fate is flushed and the next commit id drawn.
LEMMA TypeInvEndTxn ==
  ASSUME TypeInv, NEW STATE step, NEW STATE nexts, EndTxn(step, nexts),
         pc \in {"commit_done", "rollback_done"}, pc' \in {"idle", "roll_check"},
         pc' = "roll_check" => cur < MaxSegment
  PROVE  TypeInv'
<1> USE DEF Writing
<1>1. /\ Flush /\ nextCommit' \in Nat
      /\ UNCHANGED <<homeTxn, stage, stageTxn, persisted, db, cur, slot, nextNum, queue,
                     rtOpen, spilled, userTxn, todo, closing>>
  BY BoundsAssumption DEF EndTxn, txn, NextMonotonic, TypeInv, TypeOK
<1>2. WriterStep
  BY <1>1, FlushLogs, LogIsInShape
<1>3. /\ nextNum' \in Nat /\ rtOpen' \in BOOLEAN /\ spilled' \in SUBSET Row
      /\ db' \in [commitId : Nat, done : SUBSET Nat, effects : SUBSET Row]
      /\ homeTxn' \in [Seg -> SUBSET Row]
  BY <1>1 DEF TypeInv, TypeOK
<1> QED BY <1>1, <1>2, <1>3, CallKeepsTypeInv

\* commit logs REPLAY_TXN when there are statements, and nothing without.
LEMMA CommitStarts ==
  ASSUME TypeInv, CommitStart
  PROVE  /\ pc = "idle" /\ userTxn.open /\ queue' = {} /\ spilled' = spilled \union queue
         /\ rtOpen' = FALSE /\ nextNum' \in Nat
         /\ \/ spilled' = {} /\ pc' = "commit_db" /\ UNCHANGED <<home, buf>>
            \/ /\ spilled' # {} /\ pc' = "commit_flush"
               /\ \E r \in Row : r.cid = nextCommit /\ r.kind = "REPLAY" /\ AppendRow(r)
         /\ UNCHANGED <<homeTxn, stage, stageTxn, persisted, db, cur, slot, nextCommit,
                        userTxn, todo, closing>>
<1>1. NumAfterSpill \in Nat /\ nextCommit \in Nat
  BY CountsTyped DEF TypeInv, TypeOK
<1>2. MakeRow(NumAfterSpill, nextCommit, "REPLAY") \in Row
  BY <1>1 DEF MakeRow, Row, RowKind
<1>3. /\ MakeRow(NumAfterSpill, nextCommit, "REPLAY").cid = nextCommit
      /\ MakeRow(NumAfterSpill, nextCommit, "REPLAY").kind = "REPLAY"
  BY DEF MakeRow
<1>4. CASE spilled' = {}
  BY <1>1, <1>4 DEF CommitStart
<1>5. CASE spilled' # {}
  <2>1. AppendRow(MakeRow(NumAfterSpill, nextCommit, "REPLAY")) /\ pc' = "commit_flush"
        /\ nextNum' = NumAfterSpill + 1
    BY <1>5 DEF CommitStart
  <2>2. nextNum' \in Nat
    BY <1>1, <2>1
  <2> QED BY <1>2, <1>3, <1>5, <2>1, <2>2 DEF CommitStart
<1> QED BY <1>4, <1>5

LEMMA TypeInvCommit ==
  ASSUME TypeInv, Commit
  PROVE  TypeInv'
<1> USE DEF Writing
<1>0. /\ nextNum \in Nat /\ nextCommit \in Nat /\ rtOpen \in BOOLEAN
      /\ queue \in SUBSET Row /\ spilled \in SUBSET Row /\ cur \in Seg
      /\ userTxn \in [open : BOOLEAN, effects : SUBSET Row]
      /\ db \in [commitId : Nat, done : SUBSET Nat, effects : SUBSET Row]
      /\ homeTxn \in [Seg -> SUBSET Row]
  BY DEF TypeInv, TypeOK
<1>1. CASE CommitStart
  <2>1. /\ pc = "idle" /\ queue' = {} /\ spilled' = spilled \union queue
        /\ rtOpen' = FALSE /\ nextNum' \in Nat /\ pc' \in {"commit_db", "commit_flush"}
        /\ UNCHANGED <<homeTxn, stage, stageTxn, persisted, db, cur, slot, nextCommit,
                       userTxn, todo, closing>>
    BY <1>1, CommitStarts
  <2>2. WriterStep
    BY <1>1, CommitStarts, NoWrite, AppendLogs, LogIsInShape
  <2>3. /\ spilled' \in SUBSET Row /\ rtOpen' \in BOOLEAN /\ nextCommit' \in Nat
        /\ db' \in [commitId : Nat, done : SUBSET Nat, effects : SUBSET Row]
        /\ homeTxn' \in [Seg -> SUBSET Row] /\ userTxn' = userTxn
    BY <1>0, <2>1
  <2> QED BY <2>1, <2>2, <2>3, CallKeepsTypeInv
<1>2. CASE CommitFlush
  <2>1. WriterStep
    BY <1>2, FlushLogs, LogIsInShape DEF CommitFlush
  <2> QED BY <1>0, <1>2, <2>1, CallKeepsTypeInv DEF CommitFlush, txn
<1>3. CASE CommitPublish
  <2>1. /\ pc = "commit_publish" /\ pc' = "commit_db" /\ spilled' = {}
        /\ homeTxn' = [homeTxn EXCEPT ![cur] = Overwrite(@, spilled)]
        /\ UNCHANGED <<home, stage, stageTxn, persisted, db, cur, slot, nextCommit, nextNum,
                       queue, rtOpen, userTxn, buf, todo, closing>>
    BY <1>3 DEF CommitPublish
  <2>2. homeTxn' \in [Seg -> SUBSET Row]
    BY <1>0, <2>1 DEF Overwrite
  <2>3. WriterStep
    BY <2>1, NoWrite
  <2> QED BY <1>0, <2>1, <2>2, <2>3, CallKeepsTypeInv
<1>4. CASE CommitDb
  <2>1. /\ pc = "commit_db" /\ pc' = "commit_row" /\ userTxn' = NoUserTxn
        /\ db' = [commitId |-> nextCommit, done |-> db.done \union {nextCommit},
                  effects |-> db.effects \union userTxn.effects]
        /\ UNCHANGED <<home, homeTxn, stage, stageTxn, persisted, cur, slot, nextCommit,
                       nextNum, queue, rtOpen, spilled, buf, todo, closing>>
    BY <1>4 DEF CommitDb
  <2>2. db' \in [commitId : Nat, done : SUBSET Nat, effects : SUBSET Row]
    BY <1>0, <2>1
  <2>3. WriterStep
    BY <2>1, NoWrite
  <2> QED BY <1>0, <2>1, <2>2, <2>3, CallKeepsTypeInv
<1>5. CASE CommitDbFails
  <2>1. /\ pc = "commit_db" /\ pc' = "commit_failed"
        /\ UNCHANGED <<home, homeTxn, stage, stageTxn, persisted, db, cur, slot, nextCommit,
                       nextNum, queue, rtOpen, spilled, userTxn, buf, todo, closing>>
    BY <1>5 DEF CommitDbFails, disk, txn
  <2>2. WriterStep
    BY <2>1, NoWrite
  <2> QED BY <1>0, <2>1, <2>2, CallKeepsTypeInv
<1>6. CASE CommitRow
  BY <1>6, TypeInvFateRow DEF CommitRow, RowKind
<1>7. CASE CommitDone
  <2>1. /\ pc = "commit_done" /\ pc' \in {"idle", "roll_check"}
        /\ pc' = "roll_check" => cur < MaxSegment
    <3>1. CASE cur < MaxSegment
      BY <1>7, <3>1 DEF CommitDone, EndTxn
    <3>2. CASE ~ (cur < MaxSegment)
      BY <1>7, <3>2 DEF CommitDone, EndTxn
    <3> QED BY <3>1, <3>2
  <2> QED BY <1>7, <2>1, TypeInvEndTxn DEF CommitDone
<1> QED BY <1>1, <1>2, <1>3, <1>4, <1>5, <1>6, <1>7 DEF Commit

LEMMA TypeInvRollback ==
  ASSUME TypeInv, Rollback
  PROVE  TypeInv'
<1> USE DEF Writing
<1>1. CASE RollbackStart
  <2>1. /\ pc = "idle" /\ pc' = "rollback_row" /\ rtOpen' = FALSE /\ queue' = {} /\ spilled' = {}
        /\ nextNum' = NumAfterSpill /\ userTxn' = NoUserTxn
        /\ UNCHANGED <<home, homeTxn, stage, stageTxn, persisted, db, cur, slot, nextCommit,
                       buf, todo, closing>>
    BY <1>1 DEF RollbackStart, DropStatements, disk
  <2>2. WriterStep /\ nextNum' \in Nat
    BY <2>1, NoWrite, CountsTyped
  <2>3. /\ rtOpen' \in BOOLEAN /\ nextCommit' \in Nat /\ spilled' \in SUBSET Row
        /\ db' \in [commitId : Nat, done : SUBSET Nat, effects : SUBSET Row]
        /\ homeTxn' \in [Seg -> SUBSET Row]
    BY <2>1 DEF TypeInv, TypeOK
  <2> QED BY <2>1, <2>2, <2>3, CallKeepsTypeInv
<1>2. CASE RollbackRow
  BY <1>2, TypeInvFateRow DEF RollbackRow, RowKind
<1>3. CASE RollbackDone
  <2>1. pc = "rollback_done" /\ pc' = "idle"
    BY <1>3 DEF RollbackDone, EndTxn
  <2> QED BY <1>3, <2>1, TypeInvEndTxn DEF RollbackDone
<1> QED BY <1>1, <1>2, <1>3 DEF Rollback

\* A segment that is switched is followed by the next number, nothing being in the way.
LEMMA RollTakesNext ==
  ASSUME TypeInv, RollClaim
  PROVE  /\ pc = "roll_check" /\ pc' = "finalize" /\ AtCommitBoundary /\ ~ closing
         /\ home' = home /\ slot' = cur + 1 /\ slot' \in Seg /\ todo' = {cur}
         /\ UNCHANGED <<homeTxn, stage, stageTxn, persisted, db, cur, nextCommit, nextNum,
                        txn, buf, closing>>
<1>1. /\ pc = "roll_check" /\ pc' = "finalize" /\ AtCommitBoundary
      /\ home' = Claimed(home, cur + 1) /\ slot' = FreeSlot(home, cur + 1)
      /\ todo' = cur .. (slot' - 1)
      /\ UNCHANGED <<homeTxn, stage, stageTxn, persisted, db, cur, nextCommit, nextNum,
                     txn, buf, closing>>
  BY DEF RollClaim
<1>2. cur \in Nat /\ cur < MaxSegment /\ home[cur].status = "NEW" /\ ~ closing
  BY <1>1, BoundsAssumption DEF TypeInv, TypeOK, StepShape, CurOpen, Writing, Seg
<1>3. cur \in Seg /\ cur + 1 \in Seg /\ home \in [Seg -> Segment]
  BY <1>2, BoundsAssumption DEF TypeInv, TypeOK, Seg
<1>4. \A n \in Seg : n >= cur + 1 => home[n].status = "absent"
  BY <1>2, <1>3, BoundsAssumption DEF TypeInv, HomeShape, Seg
<1>5. \A n \in Seg : home[n].status = "absent" => home[n].rows = {}
  BY DEF TypeInv, HomeShape
<1>6. FreeSlot(home, cur + 1) = cur + 1 /\ Claimed(home, cur + 1) = home
  <2> DEFINE s == cur + 1
  <2>1. s \in Seg /\ \A n \in Seg : n >= s => home[n].status = "absent"
    BY <1>3, <1>4
  <2> HIDE DEF s
  <2>2. FreeSlot(home, s) = s /\ Claimed(home, s) = home
    BY <1>3, <1>5, <2>1, ClaimOfFreeSlot
  <2> QED BY <2>2 DEF s
<1>7. cur .. (cur + 1 - 1) = {cur}
  BY <1>2
<1> QED BY <1>1, <1>2, <1>3, <1>6, <1>7

LEMMA TypeInvRoll ==
  ASSUME TypeInv, Roll
  PROVE  TypeInv'
<1> USE DEF Down, PC, Opening, Writing, Switching, CurOpen
<1>1. CASE RollRequested
  <2>1. /\ pc = "idle" /\ pc' = "roll_check" /\ cur < MaxSegment /\ queue' = {} /\ spilled' = {}
        /\ nextNum' = NumAfterSpill
        /\ UNCHANGED <<home, homeTxn, stage, stageTxn, persisted, db, cur, slot, nextCommit,
                       rtOpen, userTxn, buf, todo, closing>>
    BY <1>1 DEF RollRequested, DropStatements, disk
  <2>2. WriterStep /\ nextNum' \in Nat
    BY <2>1, NoWrite, CountsTyped
  <2>3. /\ rtOpen' \in BOOLEAN /\ nextCommit' \in Nat /\ spilled' \in SUBSET Row
        /\ db' \in [commitId : Nat, done : SUBSET Nat, effects : SUBSET Row]
        /\ homeTxn' \in [Seg -> SUBSET Row]
    BY <2>1 DEF TypeInv, TypeOK
  <2> QED BY <2>1, <2>2, <2>3, CallKeepsTypeInv
<1>2. CASE RollRefused
  <2>1. FiniteRows' /\ HomeShape'
    BY <1>2, HomeUntouched DEF RollRefused, disk, txn
  <2> QED BY <1>2, <2>1 DEF RollRefused, TypeInv, TypeOK, StepShape, disk, txn
<1>3. CASE RollClaim
  <2>1. /\ pc = "roll_check" /\ pc' = "finalize" /\ ~ closing
        /\ home' = home /\ slot' = cur + 1 /\ slot' \in Seg /\ todo' = {cur}
        /\ UNCHANGED <<homeTxn, stage, stageTxn, persisted, db, cur, nextCommit, nextNum,
                       queue, rtOpen, spilled, userTxn, buf, closing>>
    BY <1>3, RollTakesNext DEF txn
  <2>2. FiniteRows' /\ HomeShape'
    BY <2>1, HomeUntouched
  <2>3. TypeOK'
    BY <2>1 DEF TypeInv, TypeOK
  <2>4. cur \in Nat
    BY BoundsAssumption DEF TypeInv, TypeOK, Seg
  <2>5. StepShape'
    BY <2>1, <2>4 DEF TypeInv, StepShape
  <2> QED BY <2>2, <2>3, <2>5 DEF TypeInv
<1>4. CASE RollPersist
  <2>1. FiniteRows' /\ HomeShape'
    BY <1>4, HomeUntouched DEF RollPersist, txn
  <2>2. persisted' \in -1 .. MaxSegment
    BY <1>4, BoundsAssumption DEF RollPersist, PersistSequence, TypeInv, TypeOK, Seg
  <2> QED BY <1>4, <2>1, <2>2 DEF RollPersist, TypeInv, TypeOK, StepShape, txn
<1> QED BY <1>1, <1>2, <1>3, <1>4 DEF Roll

\* close drops the statements that were not logged; a transaction that is open then gets
\* a COMMIT row.
LEMMA CloseStarts ==
  ASSUME TypeInv, CloseStart
  PROVE  /\ pc \in {"idle", "commit_failed"} /\ pc' = "close_check" /\ closing'
         /\ closing' \in BOOLEAN /\ rtOpen' = FALSE /\ userTxn' = NoUserTxn
         /\ queue' = {} /\ spilled' = {} /\ nextNum' \in Nat
         /\ \/ UNCHANGED <<home, buf>>
            \/ /\ userTxn.open
               /\ \E r \in Row : r.cid = nextCommit /\ r.kind = "COMMIT" /\ AppendRow(r)
         /\ "close_in_txn" \notin Usage => UNCHANGED <<home, buf>> /\ ~ userTxn.open
         /\ UNCHANGED <<homeTxn, stage, stageTxn, persisted, db, cur, slot, nextCommit, todo>>
<1>1. NumAfterSpill \in Nat /\ nextCommit \in Nat
  BY CountsTyped DEF TypeInv, TypeOK
<1>2. /\ MakeRow(NumAfterSpill, nextCommit, "COMMIT") \in Row
      /\ MakeRow(NumAfterSpill, nextCommit, "COMMIT").cid = nextCommit
      /\ MakeRow(NumAfterSpill, nextCommit, "COMMIT").kind = "COMMIT"
  BY <1>1 DEF MakeRow, Row, RowKind
<1>3. CASE userTxn.open /\ FateOf(LogRows, nextCommit) = "Unknown"
  BY <1>1, <1>2, <1>3 DEF CloseStart, DropStatements
<1>4. CASE ~ (userTxn.open /\ FateOf(LogRows, nextCommit) = "Unknown")
  <2>1. UNCHANGED <<home, buf>>
    BY <1>4 DEF CloseStart
  <2> QED BY <1>1, <2>1 DEF CloseStart, DropStatements
<1> QED BY <1>3, <1>4

LEMMA TypeInvClose ==
  ASSUME TypeInv, Close
  PROVE  TypeInv'
<1> USE DEF Down, PC, Opening, Writing, Switching, CurOpen
<1>1. CASE CloseStart
  <2>1. /\ pc \in {"idle", "commit_failed"} /\ pc' = "close_check" /\ closing'
        /\ closing' \in BOOLEAN /\ rtOpen' = FALSE /\ userTxn' = NoUserTxn
        /\ queue' = {} /\ spilled' = {} /\ nextNum' \in Nat
        /\ UNCHANGED <<homeTxn, stage, stageTxn, persisted, db, cur, slot, nextCommit, todo>>
    BY <1>1, CloseStarts
  <2>2. WriterStep
    BY <1>1, CloseStarts, NoWrite, AppendLogs, LogIsInShape
  <2>3. /\ rtOpen' \in BOOLEAN /\ nextCommit' \in Nat
        /\ db' \in [commitId : Nat, done : SUBSET Nat, effects : SUBSET Row]
        /\ homeTxn' \in [Seg -> SUBSET Row]
        /\ spilled' \in SUBSET Row /\ queue' \in SUBSET Row
    BY <2>1 DEF TypeInv, TypeOK
  <2>4. /\ userTxn' \in [open : BOOLEAN, effects : SUBSET Row]
        /\ IsFiniteSet(userTxn'.effects) /\ IsFiniteSet(queue')
    BY <2>1, FS_EmptySet DEF NoUserTxn
  <2> QED BY <2>1, <2>2, <2>3, <2>4, WriterKeepsTypeInv
<1>2. CASE CloseShips
  <2>1. FiniteRows' /\ HomeShape'
    BY <1>2, HomeUntouched DEF CloseShips, disk, txn
  <2>2. TypeOK'
    BY <1>2 DEF CloseShips, TypeInv, TypeOK, disk, txn
  <2>3. closing /\ StepShape'
    BY <1>2 DEF CloseShips, TypeInv, StepShape, disk
  <2> QED BY <2>1, <2>2, <2>3 DEF TypeInv
<1>3. CASE CloseKeeps
  BY <1>3, ResetKeepsTypeInv DEF CloseKeeps
<1> QED BY <1>1, <1>2, <1>3 DEF Close

\* Marking changes a status, of the segment being written.
LEMMA MarkEffect ==
  ASSUME TypeInv, MarkReady
  PROVE  /\ home' \in [Seg -> Segment] /\ cur \in Seg
         /\ home[cur].status = "NEW" /\ home'[cur].status = "READY"
         /\ home'[cur].rows = home[cur].rows
         /\ \A n \in Seg : n # cur => home'[n] = home[n]
         /\ pc = "mark_ready" /\ pc' = IF closing THEN "deliver" ELSE "roll_create"
         /\ todo = {cur}
         /\ UNCHANGED <<homeTxn, stage, stageTxn, persisted, db, cur, slot, nextCommit,
                        nextNum, txn, buf, todo, closing>>
<1>1. pc = "mark_ready" /\ home' = [home EXCEPT ![cur].status = "READY"]
  BY DEF MarkReady
<1>2. cur \in Seg /\ home \in [Seg -> Segment] /\ home[cur].status = "NEW" /\ todo = {cur}
  BY <1>1 DEF TypeInv, TypeOK, StepShape, CurOpen
<1>3. /\ home' \in [Seg -> Segment]
      /\ home'[cur].status = "READY" /\ home'[cur].rows = home[cur].rows
      /\ \A n \in Seg : n # cur => home'[n] = home[n]
  BY <1>1, <1>2 DEF Segment, Status
<1> QED BY <1>1, <1>2, <1>3 DEF MarkReady

LEMMA TypeInvFinalize ==
  ASSUME TypeInv, Finalize
  PROVE  TypeInv'
<1> USE DEF Down, PC, Opening, Writing, Switching, CurOpen
<1>1. CASE FinalizeRows
  <2>1. /\ WriterStep /\ pc = "finalize" /\ pc' = "mark_ready"
        /\ UNCHANGED <<homeTxn, stage, stageTxn, persisted, db, cur, slot, nextCommit, nextNum,
                       queue, rtOpen, spilled, userTxn, todo, closing>>
    BY <1>1, FlushLogs, LogIsInShape DEF FinalizeRows, txn
  <2> QED BY <2>1, WriterKeepsTypeInv DEF TypeInv, TypeOK, FiniteRows
<1>2. CASE MarkReady
  <2>1. /\ home' \in [Seg -> Segment] /\ cur \in Seg
        /\ home[cur].status = "NEW" /\ home'[cur].status = "READY"
        /\ home'[cur].rows = home[cur].rows
        /\ \A n \in Seg : n # cur => home'[n] = home[n]
        /\ pc = "mark_ready" /\ pc' = IF closing THEN "deliver" ELSE "roll_create"
        /\ todo = {cur}
        /\ UNCHANGED <<homeTxn, stage, stageTxn, persisted, db, cur, slot, nextCommit,
                       nextNum, queue, rtOpen, spilled, userTxn, buf, todo, closing>>
    BY <1>2, MarkEffect DEF txn
  <2>2. TypeOK'
    BY <2>1 DEF TypeInv, TypeOK
  <2>3. FiniteRows'
    BY <2>1 DEF TypeInv, FiniteRows, Seg
  <2>4. \A n \in Seg : (n > cur => home[n].status = "absent")
                       /\ (n < cur => home[n].status \in {"absent", "READY"})
    <3>1. ASSUME NEW n \in Seg, n < cur PROVE home[n].status \notin {"half", "NEW"}
      BY <2>1, <3>1 DEF TypeInv, HomeShape
    <3>2. \A n \in Seg : home[n].status \in Status
      BY DEF TypeInv, TypeOK, Segment
    <3> QED BY <2>1, <3>1, <3>2 DEF TypeInv, HomeShape, Status
  <2>5. HomeShape'
    BY <2>1, BoundsAssumption DEF TypeInv, HomeShape, Seg
  <2>6. StepShape'
    <3>1. CASE closing
      BY <2>1, <3>1 DEF StepShape
    <3>2. CASE ~ closing
      <4>1. slot > cur
        BY <2>1, <3>2 DEF TypeInv, StepShape
      <4>2. slot \in Nat /\ cur \in Nat
        BY BoundsAssumption DEF TypeInv, TypeOK, Seg
      <4>3. \A n \in Seg : home'[n].status \in {"absent", "READY"}
                           /\ (n >= slot => home'[n].status = "absent")
        BY <2>1, <2>4, <4>1, <4>2, BoundsAssumption DEF Seg
      <4> QED BY <2>1, <3>2, <4>1, <4>2, <4>3 DEF StepShape, Seg
    <3> QED BY <3>1, <3>2
  <2> QED BY <2>2, <2>3, <2>5, <2>6 DEF TypeInv
<1> QED BY <1>1, <1>2 DEF Finalize

\* What the mover removes, the segment or only its sidecars.
LEMMA RemoveEffect ==
  ASSUME TypeInv, MoverRemoves
  PROVE  /\ pc = "remove" /\ pc' = "deliver"
         /\ home' \in [Seg -> Segment] /\ homeTxn' \in [Seg -> SUBSET Row]
         /\ \E n \in todo :
              /\ NextToDeliver(n) /\ todo' = todo \ {n}
              /\ home'[n] \in {home[n], NoFile} /\ homeTxn'[n] \in {homeTxn[n], {}}
              /\ \A m \in Seg : m # n => home'[m] = home[m] /\ homeTxn'[m] = homeTxn[m]
         /\ UNCHANGED <<stage, stageTxn, persisted, db, cur, slot, nextCommit, nextNum, txn,
                        buf, closing>>
<1>1. PICK n \in todo :
        /\ NextToDeliver(n) /\ todo' = todo \ {n}
        /\ homeTxn' \in {[homeTxn EXCEPT ![n] = {}]} \union Faulty({homeTxn})
        /\ home' \in {[home EXCEPT ![n] = NoFile]} \union Faulty({home})
  BY DEF MoverRemoves
<1>2. /\ home \in [Seg -> Segment] /\ homeTxn \in [Seg -> SUBSET Row]
      /\ NoFile \in Segment /\ n \in Seg
  BY <1>1 DEF NoFile, Segment, Status, TypeInv, TypeOK
<1>3. home' \in {[home EXCEPT ![n] = NoFile], home} /\ homeTxn' \in {[homeTxn EXCEPT ![n] = {}], homeTxn}
  BY <1>1 DEF Faulty
<1>4. /\ home' \in [Seg -> Segment] /\ homeTxn' \in [Seg -> SUBSET Row]
      /\ home'[n] \in {home[n], NoFile} /\ homeTxn'[n] \in {homeTxn[n], {}}
      /\ \A m \in Seg : m # n => home'[m] = home[m] /\ homeTxn'[m] = homeTxn[m]
  BY <1>2, <1>3
<1> QED BY <1>1, <1>4 DEF MoverRemoves

\* What the mover copies, and what it leaves when a copy fails.
LEMMA CopyEffect ==
  ASSUME TypeInv, NEW n \in Seg, CopySidecars(n)
  PROVE  /\ stageTxn' \in [Seg -> SUBSET Row]
         /\ stageTxn'[n] = Overwrite(stageTxn[n], homeTxn[n])
         /\ \A m \in Seg : m # n => stageTxn'[m] = stageTxn[m]
<1>1. stageTxn \in [Seg -> SUBSET Row] /\ homeTxn \in [Seg -> SUBSET Row]
  BY DEF TypeInv, TypeOK
<1>2. stageTxn' = [stageTxn EXCEPT ![n] = Overwrite(stageTxn[n], homeTxn[n])]
  BY DEF CopySidecars
<1>3. Overwrite(stageTxn[n], homeTxn[n]) \in SUBSET Row
  BY <1>1 DEF Overwrite
<1> QED BY <1>1, <1>2, <1>3

LEMMA TypeInvMover ==
  ASSUME TypeInv, Mover
  PROVE  TypeInv'
<1> USE DEF Down, PC, Opening, Writing, Switching, CurOpen
<1>1. CASE MoverCopies
  <2>1. PICK n \in todo : stage' = [stage EXCEPT ![n] = home[n]] /\ CopySidecars(n)
    BY <1>1 DEF MoverCopies
  <2>2. stage' \in [Seg -> Segment] /\ stageTxn' \in [Seg -> SUBSET Row]
    BY <2>1, CopyEffect DEF TypeInv, TypeOK
  <2>3. FiniteRows' /\ HomeShape'
    BY <1>1, HomeUntouched DEF MoverCopies, txn
  <2> QED BY <1>1, <2>2, <2>3 DEF MoverCopies, TypeInv, TypeOK, StepShape, txn
<1>2. CASE MoverCopyFails
  <2>1. PICK n \in todo : todo' = todo \ {n} /\ (CopySidecars(n) \/ UNCHANGED stageTxn)
    BY <1>2 DEF MoverCopyFails
  <2>2. stageTxn' \in [Seg -> SUBSET Row] /\ todo' \in SUBSET Seg
    BY <2>1, CopyEffect DEF TypeInv, TypeOK
  <2>3. FiniteRows' /\ HomeShape'
    BY <1>2, HomeUntouched DEF MoverCopyFails, txn
  <2> QED BY <1>2, <2>1, <2>2, <2>3 DEF MoverCopyFails, TypeInv, TypeOK, StepShape, txn
<1>3. CASE MoverRemoves
  <2>1. /\ pc = "remove" /\ pc' = "deliver"
        /\ home' \in [Seg -> Segment] /\ homeTxn' \in [Seg -> SUBSET Row]
        /\ UNCHANGED <<stage, stageTxn, persisted, db, cur, slot, nextCommit, nextNum,
                       queue, rtOpen, spilled, userTxn, buf, closing>>
    BY <1>3, RemoveEffect DEF txn
  <2>2. PICK n \in todo :
          /\ todo' = todo \ {n} /\ home'[n] \in {home[n], NoFile}
          /\ \A m \in Seg : m # n => home'[m] = home[m]
    BY <1>3, RemoveEffect
  <2>3. TypeOK'
    BY <2>1, <2>2 DEF TypeInv, TypeOK
  <2>4. FiniteRows'
    <3>1. IsFiniteSet(NoFile.rows)
      BY FS_EmptySet DEF NoFile
    <3> QED BY <2>1, <2>2, <3>1 DEF TypeInv, FiniteRows, Seg
  <2>5. HomeShape'
    BY <2>2 DEF TypeInv, HomeShape, NoFile, Seg
  <2>6. StepShape'
    <3>1. CASE closing
      BY <2>1, <3>1 DEF StepShape
    <3>2. CASE ~ closing
      <4>1. cur \in Nat /\ cur \in Seg /\ home[cur].status = "NEW" /\ \A m \in todo : m < cur
        BY <2>1, <3>2, BoundsAssumption DEF TypeInv, TypeOK, StepShape, Seg
      <4>2. n < cur /\ n # cur
        BY <2>2, <4>1
      <4>3. home'[cur] = home[cur]
        BY <2>2, <4>1, <4>2
      <4> QED BY <2>1, <2>2, <3>2, <4>1, <4>3 DEF StepShape
    <3> QED BY <3>1, <3>2
  <2> QED BY <2>3, <2>4, <2>5, <2>6 DEF TypeInv
<1>4. CASE Delivered
  <2>1. CASE closing
    BY <1>4, <2>1, ResetKeepsTypeInv DEF Delivered
  <2>2. CASE ~ closing
    <3>1. /\ pc = "deliver" /\ todo = {} /\ pc' = "idle"
          /\ UNCHANGED <<home, homeTxn, stage, stageTxn, persisted, db, cur, slot, nextCommit,
                         nextNum, queue, rtOpen, spilled, userTxn, buf, todo, closing>>
      BY <1>4, <2>2 DEF Delivered, disk, txn
    <3>2. home[cur].status = "NEW"
      BY <2>2, <3>1 DEF TypeInv, StepShape
    <3>3. TypeOK'
      BY <3>1 DEF TypeInv, TypeOK
    <3>4. FiniteRows' /\ HomeShape'
      BY <3>1, HomeUntouched
    <3>5. StepShape'
      BY <2>2, <3>1, <3>2 DEF StepShape
    <3> QED BY <3>3, <3>4, <3>5 DEF TypeInv
  <2> QED BY <2>1, <2>2
<1> QED BY <1>1, <1>2, <1>3, <1>4 DEF Mover

LEMMA TypeInvInit ==
  ASSUME Init
  PROVE  TypeInv
<1>1. NoFile \in Segment /\ NoUserTxn \in [open : BOOLEAN, effects : SUBSET Row]
  BY DEF NoFile, Segment, Status, NoUserTxn
<1>2. TypeOK
  <2>1. pc \in PC
    BY DEF Init, PC, Down
  <2>2. home \in [Seg -> Segment] /\ stage \in [Seg -> Segment]
        /\ homeTxn \in [Seg -> SUBSET Row] /\ stageTxn \in [Seg -> SUBSET Row]
    BY <1>1 DEF Init
  <2>3. persisted \in -1 .. MaxSegment /\ cur \in Seg /\ slot \in Seg
    BY BoundsAssumption DEF Init, Seg
  <2>4. db \in [commitId : Nat, done : SUBSET Nat, effects : SUBSET Row]
    BY DEF Init
  <2>5. userTxn \in [open : BOOLEAN, effects : SUBSET Row]
    BY <1>1 DEF Init
  <2> QED BY <2>1, <2>2, <2>3, <2>4, <2>5 DEF Init, TypeOK
<1>3. FiniteRows
  <2>1. \A n \in Seg : home[n].rows = {}
    BY DEF Init, NoFile
  <2> QED BY <2>1, FS_EmptySet DEF Init, FiniteRows, NoUserTxn
<1>4. HomeShape /\ StepShape
  BY DEF Init, HomeShape, StepShape, NoFile, CurOpen, Writing
<1> QED BY <1>2, <1>3, <1>4 DEF TypeInv

LEMMA TypeInvStep ==
  ASSUME TypeInv, [Next]_vars
  PROVE  TypeInv'
<1>1. CASE Crash
  BY <1>1, ResetKeepsTypeInv DEF Crash, Down
<1>2. CASE UNCHANGED vars
  BY <1>2 DEF vars, disk, memory, txn, TypeInv, TypeOK, FiniteRows, HomeShape, StepShape, Seg
<1>3. CASE Next
  BY <1>1, <1>3, TypeInvOpenDevice, TypeInvOpenOthers, TypeInvCreate, TypeInvTxn,
     TypeInvCommit, TypeInvRollback, TypeInvRoll, TypeInvClose, TypeInvFinalize, TypeInvMover
     DEF Next, Open
<1> QED BY <1>2, <1>3

\* Whatever the application does, every variable of the DUCKDB device keeps its type, at
\* most one segment is open for writing, and the running call works on the file the code
\* says it does.
LEMMA TypeAndShape == Spec => []TypeInv
BY TypeInvInit, TypeInvStep, PTL DEF Spec

\* Every variable of the DUCKDB device keeps its type, whatever the bounds and the usage.
THEOREM TypeCorrect == Spec => []TypeOK
<1>1. TypeInv => TypeOK
  BY DEF TypeInv
<1> QED BY <1>1, TypeAndShape, PTL

--------------------------------------------------------------------------------
(* What is staged                                                              *)

\* The steps at which the persisted number is the one of the current segment.
Numbered ==
  Writing \union
  {"idle", "roll_check", "close_check", "finalize", "mark_ready",
   "roll_create", "roll_schema", "deliver", "remove"}

\* What is staged is finalized, a copy of what the home still has, and never above the
\* persisted number; a file being written is never below it.
StageShape ==
  \A n \in Seg :
    /\ stage[n].status = "absent" => stage[n].rows = {}
    /\ stage[n].status # "absent" =>
         stage[n].status = "READY" /\ n <= persisted /\ home[n] \in {stage[n], NoFile}
    /\ home[n].status \in {"half", "NEW"} => n >= persisted

NumberShape ==
  /\ pc \in Numbered => persisted = cur
  /\ pc \in {"open_create", "open_schema", "roll_create", "roll_schema"} => persisted < slot
  /\ pc \in {"open_recover", "open_discard", "open_persist", "roll_persist"} => persisted <= cur

\* What the mover is still to deliver is finalized.
TodoShape ==
  /\ pc \in {"roll_create", "roll_schema", "roll_persist", "deliver", "remove"} =>
       \A n \in todo : n <= cur /\ home[n].status = "READY"
  /\ pc = "remove" => \A n \in todo : NextToDeliver(n) => stage[n] = home[n]

\* A segment that is staged has all its sidecars there; one being written has none.
SidecarsMoved ==
  \A n \in Seg :
    /\ home[n].status \in {"half", "NEW"} => stageTxn[n] = {}
    /\ stageTxn[n] # {} => homeTxn[n] \in {{}, stageTxn[n]} /\ n <= persisted
    /\ stage[n].status # "absent" => homeTxn[n] \subseteq stageTxn[n]

StageInv == StageShape /\ NumberShape /\ TodoShape /\ SidecarsMoved

\* Nothing of a segment being written is staged.
LEMMA CurIsNotStaged ==
  ASSUME TypeInv, StageInv, NEW n \in Seg, home[n].status \in {"half", "NEW"}
  PROVE  /\ stage[n].status = "absent" /\ stage[n].rows = {} /\ stageTxn[n] = {}
<1>1. stage[n].status # "absent" => home[n] \in {stage[n], NoFile} /\ stage[n].status = "READY"
  BY DEF StageInv, StageShape
<1> QED BY <1>1 DEF StageInv, StageShape, SidecarsMoved, NoFile

\* A step of the writer, with or without a sidecar of the segment it writes.
LEMMA StageKept ==
  ASSUME TypeInv, StageInv, WriterStep, home[cur].status = "NEW",
         \A n \in Seg : n # cur => homeTxn'[n] = homeTxn[n],
         UNCHANGED <<stage, stageTxn, persisted, cur>>,
         \/ /\ pc \in Numbered
            /\ pc' \in Writing \union {"idle", "roll_check", "close_check", "finalize", "mark_ready"}
         \/ /\ pc \in {"open_recover", "open_discard", "open_persist"}
            /\ pc' \in {"open_discard", "open_persist"}
  PROVE  StageInv'
<1>1. cur \in Seg
  BY DEF TypeInv, TypeOK
<1>2. stage[cur].status = "absent" /\ stage[cur].rows = {} /\ stageTxn[cur] = {}
  BY <1>1, CurIsNotStaged
<1>3. \A n \in Seg : n # cur => home'[n] = home[n]
  BY DEF WriterStep
<1>4. \A n \in Seg : home'[n].status = home[n].status
  BY DEF WriterStep
<1>5. StageShape'
  <2>1. ASSUME NEW n \in Seg
        PROVE  /\ stage'[n].status = "absent" => stage'[n].rows = {}
               /\ stage'[n].status # "absent" =>
                    stage'[n].status = "READY" /\ n <= persisted' /\ home'[n] \in {stage'[n], NoFile}
               /\ home'[n].status \in {"half", "NEW"} => n >= persisted'
    <3>1. CASE n = cur
      BY <1>2, <1>4, <3>1 DEF StageInv, StageShape
    <3>2. CASE n # cur
      BY <1>3, <3>2 DEF StageInv, StageShape
    <3> QED BY <3>1, <3>2
  <2> QED BY <2>1 DEF StageShape, Seg
<1>6. SidecarsMoved'
  <2>1. ASSUME NEW n \in Seg
        PROVE  /\ home'[n].status \in {"half", "NEW"} => stageTxn'[n] = {}
               /\ stageTxn'[n] # {} => homeTxn'[n] \in {{}, stageTxn'[n]} /\ n <= persisted'
               /\ stage'[n].status # "absent" => homeTxn'[n] \subseteq stageTxn'[n]
    <3>1. CASE n = cur
      BY <1>2, <3>1
    <3>2. CASE n # cur
      BY <1>4, <3>2 DEF StageInv, SidecarsMoved
    <3> QED BY <3>1, <3>2
  <2> QED BY <2>1 DEF SidecarsMoved, Seg
<1>7. NumberShape' /\ TodoShape'
  BY DEF StageInv, NumberShape, TodoShape, Numbered, Writing
<1> QED BY <1>5, <1>6, <1>7 DEF StageInv

\* A step that leaves the disk and the current number alone.
LEMMA StageIdle ==
  ASSUME StageInv, UNCHANGED <<home, homeTxn, stage, stageTxn, persisted>>,
         \/ pc' \in Down
         \/ /\ pc \in Numbered /\ UNCHANGED cur
            /\ pc' \in Writing \union {"idle", "roll_check", "close_check", "finalize", "mark_ready"}
         \/ /\ pc \in {"open_recover", "open_discard", "open_persist"} /\ UNCHANGED cur
            /\ pc' \in {"open_discard", "open_persist"}
  PROVE  StageInv'
<1>1. StageShape' /\ SidecarsMoved'
  BY DEF StageInv, StageShape, SidecarsMoved, Seg
<1>2. NumberShape' /\ TodoShape'
  BY DEF StageInv, NumberShape, TodoShape, Numbered, Writing, Down
<1> QED BY <1>1, <1>2 DEF StageInv

LEMMA StageReset ==
  ASSUME StageInv, pc' \in Down, UNCHANGED disk
  PROVE  StageInv'
BY StageIdle DEF disk

LEMMA StageOpenDevice ==
  ASSUME TypeInv, StageInv, OpenDevice
  PROVE  StageInv'
<1>1. /\ home' = Resolved /\ cur' \in Seg
      /\ \/ pc' = "open_recover" /\ home'[cur'].status = "NEW"
         \/ pc' = "open_create" /\ persisted < slot'
      /\ UNCHANGED <<homeTxn, stage, stageTxn, persisted>>
  BY OpenTakes
<1>2. \A n \in Seg : Resolved[n] \in {home[n], NoFile} /\ Resolved[n].status # "half"
  BY ResolvedShape, LogIsInShape
<1> HIDE DEF Resolved
<1>3. \A n \in Seg : home'[n].status = "NEW" => home'[n] = home[n]
  BY <1>1, <1>2 DEF NoFile
<1>4. StageShape' /\ SidecarsMoved'
  BY <1>1, <1>2, <1>3 DEF StageInv, StageShape, SidecarsMoved, Seg
<1>5. pc' = "open_recover" => persisted <= cur'
  BY <1>1, <1>3, BoundsAssumption DEF StageInv, StageShape, TypeInv, TypeOK, Seg
<1>6. NumberShape' /\ TodoShape'
  BY <1>1, <1>5 DEF NumberShape, TodoShape, Numbered, Writing
<1> QED BY <1>4, <1>6 DEF StageInv

LEMMA StagePersist ==
  ASSUME TypeInv, StageInv, home[cur].status = "NEW", persisted <= cur, persisted' = cur,
         pc' = "deliver", UNCHANGED <<home, homeTxn, stage, stageTxn, cur>>,
         \A n \in todo' : n <= cur /\ home[n].status = "READY"
  PROVE  StageInv'
<1>1. persisted \in Int /\ cur \in Seg /\ cur \in Int /\ \A n \in Seg : n \in Int
  BY BoundsAssumption DEF TypeInv, TypeOK, Seg
<1>2. \A n \in Seg : home[n].status \in {"half", "NEW"} => n >= cur
  BY <1>1 DEF TypeInv, HomeShape
<1>3. \A n \in Seg : n <= persisted => n <= cur
  BY <1>1
<1>4. StageShape'
  BY <1>1, <1>2, <1>3 DEF StageInv, StageShape, Seg
<1>5. SidecarsMoved'
  BY <1>1, <1>3 DEF StageInv, SidecarsMoved, Seg
<1>6. NumberShape' /\ TodoShape'
  BY DEF NumberShape, TodoShape, Numbered, Writing
<1> QED BY <1>4, <1>5, <1>6 DEF StageInv

LEMMA StageOpenOthers ==
  ASSUME TypeInv, StageInv, RecoverInDoubtTxn \/ DiscardInDoubtTxn \/ OpenPersist
  PROVE  StageInv'
<1>0. pc \in {"open_recover", "open_discard", "open_persist"} /\ cur \in Seg
      /\ home[cur].status = "NEW" /\ homeTxn \in [Seg -> SUBSET Row] /\ persisted <= cur
  BY DEF RecoverInDoubtTxn, DiscardInDoubtTxn, OpenPersist, TypeInv, TypeOK, StepShape, CurOpen,
         StageInv, NumberShape
<1>1. CASE RecoverInDoubtTxn
  <2> DEFINE outcome == RecoveryOutcome(db.commitId, Slave, FateOf(home[cur].rows, Slave))
  <2>1. CASE outcome = "refuse"
    BY <1>1, <2>1, StageReset DEF RecoverInDoubtTxn, disk, Down
  <2>2. CASE outcome = "COMMIT"
    <3>1. WriterStep /\ pc' = "open_persist"
          /\ UNCHANGED <<homeTxn, stage, stageTxn, persisted, cur>>
      BY <1>1, <2>2, RecoveryCommits
    <3> QED BY <1>0, <3>1, StageKept
  <2>3. CASE outcome \notin {"refuse", "COMMIT"}
    <3>1. /\ pc' \in {"open_discard", "open_persist"}
          /\ UNCHANGED <<home, stage, stageTxn, persisted, cur, buf>>
          /\ homeTxn' \in {homeTxn, [homeTxn EXCEPT ![cur] = @ \ OfCommit(@, Slave)]}
      BY <1>1, <2>3 DEF RecoverInDoubtTxn
    <3>2. \A n \in Seg : n # cur => homeTxn'[n] = homeTxn[n]
      BY <1>0, <3>1
    <3>3. WriterStep
      BY <3>1, NoWrite
    <3> QED BY <1>0, <3>1, <3>2, <3>3, StageKept
  <2> QED BY <2>1, <2>2, <2>3
<1>2. CASE DiscardInDoubtTxn
  <2>1. /\ home' \in [Seg -> Segment] /\ pc' = "open_persist"
        /\ \A n \in Seg : home'[n].status = home[n].status
        /\ \A n \in Seg : n # cur => home'[n] = home[n]
        /\ UNCHANGED <<homeTxn, stage, stageTxn, persisted, cur>>
    BY <1>2, DiscardEffect
  <2>2. stage[cur].status = "absent" /\ stage[cur].rows = {}
    BY <1>0, CurIsNotStaged
  <2>3. StageShape' /\ SidecarsMoved'
    BY <2>1, <2>2 DEF StageInv, StageShape, SidecarsMoved, Seg
  <2>4. NumberShape' /\ TodoShape'
    BY <1>0, <2>1 DEF NumberShape, TodoShape, Numbered, Writing
  <2> QED BY <2>3, <2>4 DEF StageInv
<1>3. CASE OpenPersist
  BY <1>0, <1>3, StagePersist, BoundsAssumption
     DEF OpenPersist, PersistSequence, FinalizedBelow, Seg
<1> QED BY <1>1, <1>2, <1>3

LEMMA StageCreate ==
  ASSUME TypeInv, StageInv, Create
  PROVE  StageInv'
<1>1. /\ slot \in Seg /\ cur \in Seg /\ persisted \in Int /\ todo \in SUBSET Seg
      /\ \A n \in Seg : n \in Int
  BY BoundsAssumption DEF TypeInv, TypeOK, Seg
<1>2. /\ \A n \in Seg : n # slot => home'[n] = home[n]
      /\ home[slot].status \in {"absent", "half"} /\ home'[slot].status \in {"half", "NEW"}
      /\ pc \in {"open_create", "roll_create", "open_schema", "roll_schema"}
      /\ \/ /\ pc' \in {"open_schema", "roll_schema"} /\ cur' = cur
            /\ pc' = "roll_schema" => pc = "roll_create"
         \/ /\ pc' \in {"open_recover", "roll_persist"} /\ cur' = slot
            /\ pc' = "roll_persist" => pc = "roll_schema"
      /\ UNCHANGED <<homeTxn, stage, stageTxn, persisted, slot, todo>>
  <2>1. CASE CreateFile
    BY <1>1, <2>1 DEF CreateFile, TypeInv, TypeOK, Segment
  <2>2. CASE CreateSchema
    BY <1>1, <2>2 DEF CreateSchema, TypeInv, TypeOK, Segment, StepShape
  <2> QED BY <2>1, <2>2 DEF Create
<1>3. persisted < slot
  BY <1>2 DEF StageInv, NumberShape
<1>4. ~ (slot <= persisted)
  BY <1>1, <1>3
<1>5. stage[slot].status = "absent" /\ stageTxn[slot] = {} /\ stage[slot].rows = {}
  BY <1>1, <1>4 DEF StageInv, StageShape, SidecarsMoved
<1>6. StageShape' /\ SidecarsMoved'
  <2>1. slot >= persisted
    BY <1>1, <1>3
  <2> QED BY <1>2, <1>5, <2>1 DEF StageInv, StageShape, SidecarsMoved, Seg
<1>7. NumberShape'
  BY <1>1, <1>2, <1>3 DEF StageInv, NumberShape, Numbered, Writing
<1>8. TodoShape'
  <2>1. pc \in {"roll_create", "roll_schema"} =>
          \A n \in todo : n < slot /\ n <= cur /\ home[n].status = "READY"
    BY DEF TypeInv, StepShape, StageInv, TodoShape
  <2>2. pc \in {"roll_create", "roll_schema"} =>
          \A n \in todo : n # slot /\ n <= slot /\ home'[n].status = "READY"
    BY <1>1, <1>2, <2>1
  <2> QED BY <1>2, <2>1, <2>2 DEF TodoShape
<1> QED BY <1>6, <1>7, <1>8 DEF StageInv

\* The calls of an application, and the flush before a segment is marked: they write at
\* most to the segment that is open, and its sidecars.
LEMMA CallWrites ==
  ASSUME TypeInv, Txn \/ Commit \/ Rollback \/ CloseStart \/ FinalizeRows
  PROVE  /\ WriterStep
         /\ pc \in Writing \union {"idle", "finalize"}
         /\ pc' \in Writing \union {"idle", "roll_check", "close_check", "mark_ready"}
         /\ \A n \in Seg : n # cur => homeTxn'[n] = homeTxn[n]
         /\ UNCHANGED <<stage, stageTxn, persisted, cur>>
<1> USE DEF Writing
<1>1. CASE Txn
  <2>1. CASE Execute
    <3>1. WriterStep
      <4>1. CASE rtOpen
        BY <2>1, <4>1, NoWrite DEF Execute
      <4>2. CASE ~ rtOpen
        BY <2>1, <4>2, BeginAppends, AppendLogs, LogIsInShape DEF Execute
      <4> QED BY <4>1, <4>2
    <3> QED BY <2>1, <3>1 DEF Execute
  <2>2. CASE ExecuteUnlogged
    BY <2>2, BeginAppends, AppendLogs, LogIsInShape DEF ExecuteUnlogged
  <2>3. CASE FlushLog
    BY <2>3, NoWrite DEF FlushLog, disk
  <2> QED BY <1>1, <2>1, <2>2, <2>3 DEF Txn
<1>2. ASSUME NEW step, NEW kind \in RowKind, NEW next, FateRow(step, kind, next),
             step \in {"commit_row", "rollback_row"}, next \in {"commit_done", "rollback_done"}
      PROVE  /\ WriterStep /\ pc = step /\ pc' = next
             /\ UNCHANGED <<homeTxn, stage, stageTxn, persisted, cur>>
  <2> DEFINE r == MakeRow(nextNum, nextCommit, kind)
  <2>1. r \in Row /\ AppendRow(r)
    BY <1>2 DEF MakeRow, Row, TypeInv, TypeOK, FateRow
  <2> HIDE DEF r
  <2>2. WriterStep
    BY <2>1, AppendLogs, LogIsInShape
  <2> QED BY <1>2, <2>2 DEF FateRow
<1>3. CASE Commit
  <2>1. CASE CommitStart
    <3>1. WriterStep
      BY <2>1, CommitStarts, NoWrite, AppendLogs, LogIsInShape
    <3> QED BY <2>1, <3>1, CommitStarts
  <2>2. CASE CommitFlush
    BY <2>2, FlushLogs, LogIsInShape DEF CommitFlush
  <2>3. CASE CommitPublish
    <3>1. \A n \in Seg : n # cur => homeTxn'[n] = homeTxn[n]
      BY <2>3 DEF CommitPublish, TypeInv, TypeOK
    <3> QED BY <2>3, <3>1, NoWrite DEF CommitPublish
  <2>4. CASE CommitDb
    BY <2>4, NoWrite DEF CommitDb
  <2>5. CASE CommitDbFails
    BY <2>5, NoWrite DEF CommitDbFails, disk
  <2>6. CASE CommitRow
    BY <1>2, <2>6 DEF CommitRow, RowKind
  <2>7. CASE CommitDone
    <3>1. pc = "commit_done" /\ pc' \in {"idle", "roll_check"} /\ Flush
          /\ UNCHANGED <<homeTxn, stage, stageTxn, persisted, cur>>
      <4>1. CASE cur < MaxSegment
        BY <2>7, <4>1 DEF CommitDone, EndTxn
      <4>2. CASE ~ (cur < MaxSegment)
        BY <2>7, <4>2 DEF CommitDone, EndTxn
      <4> QED BY <4>1, <4>2
    <3> QED BY <3>1, FlushLogs, LogIsInShape
  <2> QED BY <1>3, <2>1, <2>2, <2>3, <2>4, <2>5, <2>6, <2>7 DEF Commit
<1>4. CASE Rollback
  <2>1. CASE RollbackStart
    BY <2>1, NoWrite DEF RollbackStart, disk
  <2>2. CASE RollbackRow
    BY <1>2, <2>2 DEF RollbackRow, RowKind
  <2>3. CASE RollbackDone
    BY <2>3, FlushLogs, LogIsInShape DEF RollbackDone, EndTxn
  <2> QED BY <1>4, <2>1, <2>2, <2>3 DEF Rollback
<1>5. CASE CloseStart
  <2>1. WriterStep
    BY <1>5, CloseStarts, NoWrite, AppendLogs, LogIsInShape
  <2> QED BY <1>5, <2>1, CloseStarts
<1>6. CASE FinalizeRows
  BY <1>6, FlushLogs, LogIsInShape DEF FinalizeRows
<1> QED BY <1>1, <1>3, <1>4, <1>5, <1>6

LEMMA StageCall ==
  ASSUME TypeInv, StageInv, Txn \/ Commit \/ Rollback \/ CloseStart \/ FinalizeRows
  PROVE  StageInv'
<1>1. /\ WriterStep
      /\ pc \in Writing \union {"idle", "finalize"}
      /\ pc' \in Writing \union {"idle", "roll_check", "close_check", "mark_ready"}
      /\ \A n \in Seg : n # cur => homeTxn'[n] = homeTxn[n]
      /\ UNCHANGED <<stage, stageTxn, persisted, cur>>
  BY CallWrites
<1>2. home[cur].status = "NEW" /\ pc \in Numbered
  <2>1. pc \in CurOpen
    BY <1>1 DEF CurOpen
  <2> QED BY <1>1, <2>1 DEF TypeInv, StepShape, Numbered
<1> QED BY <1>1, <1>2, StageKept

LEMMA StageSwitch ==
  ASSUME TypeInv, StageInv, Roll \/ CloseShips \/ CloseKeeps \/ MarkReady
  PROVE  StageInv'
<1>0. persisted \in Int /\ cur \in Seg /\ \A n \in Seg : n \in Int
  BY BoundsAssumption DEF TypeInv, TypeOK, Seg
<1>1. CASE RollRequested \/ RollRefused \/ CloseShips
  BY <1>1, StageIdle DEF RollRequested, RollRefused, CloseShips, disk, Numbered
<1>2. CASE RollClaim
  BY <1>2, RollTakesNext, StageIdle DEF Numbered
<1>3. CASE RollPersist
  <2>1. /\ pc = "roll_persist" /\ persisted' = cur /\ pc' = "deliver"
        /\ UNCHANGED <<home, homeTxn, stage, stageTxn, cur, todo>>
    BY <1>3 DEF RollPersist, PersistSequence
  <2>2. /\ home[cur].status = "NEW" /\ persisted <= cur
        /\ \A n \in todo : n <= cur /\ home[n].status = "READY"
    BY <2>1 DEF TypeInv, StepShape, CurOpen, StageInv, NumberShape, TodoShape
  <2> QED BY <2>1, <2>2, StagePersist
<1>4. CASE CloseKeeps
  BY <1>4, StageReset DEF CloseKeeps, Down
<1>5. CASE MarkReady
  <2>1. /\ home[cur].status = "NEW" /\ home'[cur].status = "READY"
        /\ \A n \in Seg : n # cur => home'[n] = home[n]
        /\ pc = "mark_ready" /\ pc' \in {"deliver", "roll_create"}
        /\ pc' = "roll_create" => ~ closing
        /\ todo = {cur} /\ UNCHANGED <<homeTxn, stage, stageTxn, persisted, cur, slot, todo>>
    BY <1>5, MarkEffect
  <2>2. stage[cur].status = "absent" /\ stage[cur].rows = {} /\ stageTxn[cur] = {}
    BY <1>0, <2>1, CurIsNotStaged
  <2>3. StageShape' /\ SidecarsMoved'
    BY <2>1, <2>2 DEF StageInv, StageShape, SidecarsMoved, Seg
  <2>4. persisted = cur /\ (~ closing => slot > cur)
    BY <2>1 DEF TypeInv, StepShape, StageInv, NumberShape, Numbered
  <2>5. slot \in Int
    BY BoundsAssumption DEF TypeInv, TypeOK, Seg
  <2>6. NumberShape' /\ TodoShape'
    BY <1>0, <2>1, <2>4, <2>5 DEF NumberShape, TodoShape, Numbered, Writing
  <2> QED BY <2>3, <2>6 DEF StageInv
<1> QED BY <1>1, <1>2, <1>3, <1>4, <1>5 DEF Roll

LEMMA StageMover ==
  ASSUME TypeInv, StageInv, Mover
  PROVE  StageInv'
<1>0. /\ persisted \in Int /\ cur \in Seg /\ todo \in SUBSET Seg /\ \A n \in Seg : n \in Int
      /\ stage \in [Seg -> Segment] /\ homeTxn \in [Seg -> SUBSET Row]
  BY BoundsAssumption DEF TypeInv, TypeOK, Seg
<1>1. pc \in {"deliver", "remove"} /\ persisted = cur
      /\ \A n \in todo : n <= cur /\ home[n].status = "READY"
  BY DEF Mover, MoverCopies, MoverCopyFails, MoverRemoves, Delivered, StageInv, NumberShape,
         TodoShape, Numbered
<1>2. CASE MoverCopies
  <2>1. PICK n \in todo : NextToDeliver(n) /\ stage' = [stage EXCEPT ![n] = home[n]] /\ CopySidecars(n)
    BY <1>2 DEF MoverCopies
  <2>2. /\ pc' = "remove" /\ UNCHANGED <<home, homeTxn, persisted, cur, todo>>
    BY <1>2 DEF MoverCopies
  <2>3. /\ stage'[n] = home[n] /\ \A m \in Seg : m # n => stage'[m] = stage[m]
    BY <1>0, <2>1
  <2>4. /\ stageTxn'[n] = Overwrite(stageTxn[n], homeTxn[n])
        /\ \A m \in Seg : m # n => stageTxn'[m] = stageTxn[m]
    BY <1>0, <2>1, CopyEffect
  <2>5. homeTxn[n] \subseteq stageTxn'[n] /\ homeTxn[n] \in {{}, stageTxn'[n]}
    BY <1>0, <2>1, <2>4 DEF Overwrite, CommitIds, StageInv, SidecarsMoved
  <2>6. StageShape'
    BY <1>0, <1>1, <2>1, <2>2, <2>3 DEF StageInv, StageShape, Seg
  <2>7. SidecarsMoved'
    BY <1>0, <1>1, <2>1, <2>2, <2>3, <2>4, <2>5 DEF StageInv, SidecarsMoved, Seg
  <2>8. \A m \in todo : NextToDeliver(m) => m = n
    BY <1>0, <2>1 DEF NextToDeliver
  <2>9. NumberShape' /\ TodoShape'
    BY <1>0, <1>1, <2>2, <2>3, <2>8 DEF NumberShape, TodoShape, NextToDeliver, Numbered, Writing
  <2> QED BY <2>6, <2>7, <2>9 DEF StageInv
<1>3. CASE MoverCopyFails
  <2>1. PICK n \in todo : todo' = todo \ {n} /\ (CopySidecars(n) \/ UNCHANGED stageTxn)
    BY <1>3 DEF MoverCopyFails
  <2>2. /\ pc = "deliver" /\ UNCHANGED <<home, homeTxn, stage, persisted, cur, pc>>
    BY <1>3 DEF MoverCopyFails
  <2>3. /\ homeTxn[n] \in {{}, stageTxn'[n]} \/ stageTxn'[n] = stageTxn[n]
        /\ homeTxn[n] \subseteq stageTxn'[n] \/ stageTxn'[n] = stageTxn[n]
        /\ \A m \in Seg : m # n => stageTxn'[m] = stageTxn[m]
    <3>1. CASE CopySidecars(n)
      <4>1. /\ stageTxn'[n] = Overwrite(stageTxn[n], homeTxn[n])
            /\ \A m \in Seg : m # n => stageTxn'[m] = stageTxn[m]
        BY <1>0, <2>1, <3>1, CopyEffect
      <4> QED BY <1>0, <2>1, <4>1 DEF Overwrite, CommitIds, StageInv, SidecarsMoved
    <3>2. CASE UNCHANGED stageTxn
      BY <3>2
    <3> QED BY <2>1, <3>1, <3>2
  <2>4. StageShape' /\ SidecarsMoved'
    BY <1>0, <1>1, <2>1, <2>2, <2>3 DEF StageInv, StageShape, SidecarsMoved, Seg
  <2>5. NumberShape' /\ TodoShape'
    BY <1>1, <2>1, <2>2 DEF NumberShape, TodoShape, Numbered, Writing
  <2> QED BY <2>4, <2>5 DEF StageInv
<1>4. CASE MoverRemoves
  <2>1. /\ pc = "remove" /\ pc' = "deliver" /\ UNCHANGED <<stage, stageTxn, persisted, cur>>
    BY <1>4, RemoveEffect
  <2>2. PICK n \in todo :
          /\ NextToDeliver(n) /\ todo' = todo \ {n}
          /\ home'[n] \in {home[n], NoFile} /\ homeTxn'[n] \in {homeTxn[n], {}}
          /\ \A m \in Seg : m # n => home'[m] = home[m] /\ homeTxn'[m] = homeTxn[m]
    BY <1>4, RemoveEffect
  <2>3. stage[n] = home[n] /\ n \in Seg
    BY <1>0, <2>1, <2>2 DEF StageInv, TodoShape
  <2>4. StageShape' /\ SidecarsMoved'
    BY <1>0, <1>1, <2>1, <2>2, <2>3 DEF StageInv, StageShape, SidecarsMoved, NoFile, Seg
  <2>5. NumberShape' /\ TodoShape'
    BY <1>0, <1>1, <2>1, <2>2 DEF NumberShape, TodoShape, Numbered, Writing
  <2> QED BY <2>4, <2>5 DEF StageInv
<1>5. CASE Delivered
  <2>1. CASE closing
    BY <1>5, <2>1, StageReset DEF Delivered, Down
  <2>2. CASE ~ closing
    BY <1>1, <1>5, <2>2, StageIdle DEF Delivered, disk, Numbered
  <2> QED BY <2>1, <2>2
<1> QED BY <1>2, <1>3, <1>4, <1>5 DEF Mover

LEMMA StageInit ==
  ASSUME Init
  PROVE  StageInv
BY DEF Init, StageInv, StageShape, NumberShape, TodoShape, SidecarsMoved, NoFile, Numbered, Writing

LEMMA StageStep ==
  ASSUME TypeInv, StageInv, [Next]_vars
  PROVE  StageInv'
<1>1. CASE Crash
  BY <1>1, StageReset DEF Crash, Down
<1>2. CASE UNCHANGED vars
  BY <1>2 DEF vars, disk, memory, txn, StageInv, StageShape, NumberShape, TodoShape,
     NextToDeliver, SidecarsMoved, Seg
<1>3. CASE Next
  BY <1>1, <1>3, StageOpenDevice, StageOpenOthers, StageCreate, StageCall, StageSwitch, StageMover
     DEF Next, Open, Close, Finalize
<1> QED BY <1>2, <1>3

LEMMA StageHolds == Spec => [](TypeInv /\ StageInv)
<1>1. Init => TypeInv /\ StageInv
  BY TypeInvInit, StageInit
<1>2. TypeInv /\ StageInv /\ [Next]_vars => TypeInv' /\ StageInv'
  BY TypeInvStep, StageStep
<1> QED BY <1>1, <1>2, PTL DEF Spec

--------------------------------------------------------------------------------
(* The statements of the open transaction                                      *)

\* Queued, spilled and executed statements belong to the next commit id; they are
\* spilled until the sidecar is published, and gone when the transaction ended.
StatementsCurrent ==
  /\ \A s \in queue \union spilled \union userTxn.effects : s.cid = nextCommit /\ s.kind = "OP"
  /\ ~ userTxn.open => userTxn.effects = {}
  /\ pc \notin {"idle", "commit_flush", "commit_publish"} => queue = {} /\ spilled = {}
  /\ pc \in {"commit_flush", "commit_publish"} => queue = {} /\ spilled # {}
  /\ pc \in Down \union {"commit_row", "commit_done", "rollback_row", "rollback_done"} =>
       ~ userTxn.open

LEMMA StatementsReset ==
  ASSUME InMemoryReset, pc' \in Down
  PROVE  StatementsCurrent'
BY DEF InMemoryReset, StatementsCurrent, NoUserTxn, Down

\* A step that leaves the transaction alone, with nothing queued.
LEMMA StatementsKept ==
  ASSUME StatementsCurrent, UNCHANGED <<queue, spilled, userTxn, nextCommit>>,
         pc \notin {"idle", "commit_flush", "commit_publish"},
         pc' \notin Down \union {"commit_flush", "commit_publish", "commit_row", "rollback_row"},
         pc' = "commit_done" => pc = "commit_row",
         pc' = "rollback_done" => pc = "rollback_row"
  PROVE  StatementsCurrent'
BY DEF StatementsCurrent

LEMMA StatementsOpen ==
  ASSUME TypeInv, StatementsCurrent, Open \/ Create
  PROVE  StatementsCurrent'
<1> USE DEF Down
<1>1. CASE OpenDevice
  <2>1. pc \in Down /\ pc' \in {"open_recover", "open_create"} /\ UNCHANGED <<queue, spilled, userTxn>>
    BY <1>1, OpenTakes DEF txn
  <2> QED BY <2>1 DEF StatementsCurrent
<1>2. CASE RecoverInDoubtTxn
  <2>1. CASE pc' = "refused" /\ InMemoryReset
    BY <2>1, StatementsReset
  <2>2. CASE /\ pc' \in {"open_discard", "open_persist"} /\ UNCHANGED <<nextCommit, txn>>
    BY <1>2, <2>2, StatementsKept DEF RecoverInDoubtTxn, txn
  <2> QED BY <1>2, <2>1, <2>2 DEF RecoverInDoubtTxn
<1>3. CASE DiscardInDoubtTxn \/ OpenPersist \/ Create
  BY <1>3, StatementsKept DEF DiscardInDoubtTxn, OpenPersist, Create, CreateFile, CreateSchema, txn
<1> QED BY <1>1, <1>2, <1>3 DEF Open

LEMMA StatementsTxn ==
  ASSUME TypeInv, StatementsCurrent, Txn \/ Rollback
  PROVE  StatementsCurrent'
<1> USE DEF Down
<1>1. CASE Execute
  <2>1. Statement.cid = nextCommit /\ Statement.kind = "OP"
    BY DEF Statement, MakeRow
  <2>2. /\ pc = "idle" /\ pc' = "idle" /\ queue' = queue \union {Statement} /\ spilled' = spilled
        /\ userTxn'.open /\ userTxn'.effects = userTxn.effects \union {Statement}
        /\ nextCommit' = nextCommit
    BY <1>1 DEF Execute
  <2> QED BY <2>1, <2>2 DEF StatementsCurrent
<1>2. CASE ExecuteUnlogged
  <2>1. /\ pc = "idle" /\ pc' = "idle" /\ queue' = queue /\ spilled' = spilled
        /\ userTxn'.open /\ userTxn'.effects = userTxn.effects /\ nextCommit' = nextCommit
    BY <1>2 DEF ExecuteUnlogged, TypeInv, TypeOK
  <2> QED BY <2>1 DEF StatementsCurrent
<1>3. CASE FlushLog
  BY <1>3 DEF FlushLog, StatementsCurrent
<1>4. CASE RollbackStart
  BY <1>4 DEF RollbackStart, DropStatements, NoUserTxn, StatementsCurrent
<1>5. CASE RollbackRow
  BY <1>5, StatementsKept DEF RollbackRow, FateRow, txn
<1>6. CASE RollbackDone
  BY <1>6 DEF RollbackDone, EndTxn, txn, StatementsCurrent
<1> QED BY <1>1, <1>2, <1>3, <1>4, <1>5, <1>6 DEF Txn, Rollback

LEMMA StatementsCommit ==
  ASSUME TypeInv, StatementsCurrent, Commit
  PROVE  StatementsCurrent'
<1> USE DEF Down
<1>1. CASE CommitStart
  BY <1>1, CommitStarts DEF StatementsCurrent
<1>2. CASE CommitFlush
  BY <1>2 DEF CommitFlush, txn, StatementsCurrent
<1>3. CASE CommitPublish
  BY <1>3 DEF CommitPublish, StatementsCurrent
<1>4. CASE CommitDb
  BY <1>4 DEF CommitDb, NoUserTxn, StatementsCurrent
<1>5. CASE CommitDbFails
  BY <1>5, StatementsKept DEF CommitDbFails, txn
<1>6. CASE CommitRow
  BY <1>6, StatementsKept DEF CommitRow, FateRow, txn
<1>7. CASE CommitDone
  <2>1. /\ pc = "commit_done" /\ pc' \in {"idle", "roll_check"}
        /\ UNCHANGED <<queue, spilled, userTxn>>
    <3>1. CASE cur < MaxSegment
      BY <1>7, <3>1 DEF CommitDone, EndTxn, txn
    <3>2. CASE ~ (cur < MaxSegment)
      BY <1>7, <3>2 DEF CommitDone, EndTxn, txn
    <3> QED BY <3>1, <3>2
  <2> QED BY <2>1 DEF StatementsCurrent
<1> QED BY <1>1, <1>2, <1>3, <1>4, <1>5, <1>6, <1>7 DEF Commit

LEMMA StatementsSwitch ==
  ASSUME TypeInv, StatementsCurrent, Roll \/ Close \/ Finalize \/ Mover
  PROVE  StatementsCurrent'
<1> USE DEF Down
<1>1. CASE RollRequested
  BY <1>1 DEF RollRequested, DropStatements, StatementsCurrent
<1>2. CASE RollRefused
  BY <1>2 DEF RollRefused, txn, StatementsCurrent
<1>3. CASE CloseStart
  BY <1>3 DEF CloseStart, DropStatements, NoUserTxn, StatementsCurrent
<1>4. CASE CloseKeeps \/ (Delivered /\ closing)
  BY <1>4, StatementsReset DEF CloseKeeps, Delivered
<1>5. CASE RollClaim \/ RollPersist \/ CloseShips \/ FinalizeRows \/ MarkReady
  BY <1>5, StatementsKept DEF RollClaim, RollPersist, CloseShips, FinalizeRows, MarkReady, txn
<1>6. CASE MoverCopies \/ MoverCopyFails \/ MoverRemoves \/ (Delivered /\ ~ closing)
  BY <1>6, StatementsKept DEF MoverCopies, MoverCopyFails, MoverRemoves, Delivered, txn
<1> QED BY <1>1, <1>2, <1>3, <1>4, <1>5, <1>6 DEF Roll, Close, Finalize, Mover

LEMMA StatementsStep ==
  ASSUME TypeInv, StatementsCurrent, [Next]_vars
  PROVE  StatementsCurrent'
<1>1. CASE Crash
  BY <1>1, StatementsReset DEF Crash, Down
<1>2. CASE UNCHANGED vars
  BY <1>2 DEF vars, memory, txn, StatementsCurrent
<1>3. CASE Next
  BY <1>1, <1>3, StatementsOpen, StatementsTxn, StatementsCommit, StatementsSwitch DEF Next
<1> QED BY <1>2, <1>3

--------------------------------------------------------------------------------
(* Commit ids                                                                  *)

\* The rows and the sidecar statements of a segment, wherever it is.
RowsOf(n) == home[n].rows \union stage[n].rows
SidecarsOf(n) == homeTxn[n] \union stageTxn[n]

\* The rows of the log, durable or pending in the writer's transaction.
AllRows == DurableRows \union buf

\* Commits of the database: none is above the last one it recorded.
DbShape ==
  /\ \A c \in db.done : c # 0 /\ c <= db.commitId
  /\ \A e \in db.effects : e.cid \in db.done
  /\ db.commitId # 0 => db.commitId \in db.done

\* The next commit id is above all the database committed, except between the
\* commit of the database and the drawing of the next id.
DbFresh ==
  /\ pc \notin Down /\ pc \notin {"commit_row", "commit_done"} => db.commitId < nextCommit
  /\ pc \in {"commit_row", "commit_done"} =>
       db.commitId = nextCommit /\ nextCommit \in db.done

\* The steps after which a row of the kind may carry the next commit id.
FateDecided == closing \/ pc \in {"commit_done", "rollback_done"}
Replaying == closing \/ pc \in {"commit_flush", "commit_publish", "commit_db",
                                "commit_failed", "commit_row", "commit_done"}

\* No row has a commit id above the next one, and a call gives the next one its
\* REPLAY_TXN and its fate in this order.
RowsBelowNext ==
  pc \notin Down =>
    \A r \in AllRows :
      /\ r.cid <= nextCommit
      /\ ~ FateDecided /\ r.kind \in {"COMMIT", "ROLLBACK"} => r.cid < nextCommit
      /\ ~ Replaying /\ r.kind = "REPLAY" => r.cid < nextCommit
      /\ pc \in Opening => r.cid < nextCommit

\* The segment is switched, and the process goes on.
Rolling == ~ closing /\ pc \in {"finalize", "mark_ready", "roll_create", "roll_schema",
                                "roll_persist"}

\* What is pending has the next commit id, and no segment but the one being written
\* has a row with it.
BufIsCurrent ==
  /\ \A r \in buf : r.cid = nextCommit
  /\ pc \in Down \union Opening \/ Rolling => buf = {}

OthersBelow ==
  pc \notin Down => \A n \in Seg : \A r \in RowsOf(n) : r.cid = nextCommit => n = cur /\ ~ Rolling

IdInv == DbShape /\ DbFresh /\ RowsBelowNext /\ BufIsCurrent /\ OthersBelow

LEMMA LogTyped ==
  ASSUME TypeInv
  PROVE  /\ AllRows \in SUBSET Row
         /\ \A n \in Seg : RowsOf(n) \in SUBSET AllRows
         /\ \A r \in AllRows : r \in buf \/ \E n \in Seg : r \in RowsOf(n)
BY DEF TypeInv, TypeOK, AllRows, RowsOf, DurableRows, Segment

\* A step that brings the rows new into the log, and no others, as pending rows or into
\* the segment being written.
LogGrows(new) ==
  /\ \A n \in Seg : RowsOf(n)' \subseteq RowsOf(n) \union (IF n = cur THEN buf \union new ELSE {})
  /\ buf' \subseteq buf \union new

LEMMA GrowsWriter ==
  ASSUME TypeInv, NEW STATE new, WriterStep, UNCHANGED stage,
         home'[cur].rows \union buf' = home[cur].rows \union buf \union new,
         buf' \subseteq buf \union new
  PROVE  LogGrows(new)
<1>1. ASSUME NEW n \in Seg
      PROVE  RowsOf(n)' \subseteq RowsOf(n) \union (IF n = cur THEN buf \union new ELSE {})
  <2>1. CASE n = cur
    BY <2>1 DEF RowsOf
  <2>2. CASE n # cur
    <3>1. home'[n] = home[n]
      BY <2>2 DEF WriterStep
    <3> QED BY <2>2, <3>1 DEF RowsOf
  <2> QED BY <2>1, <2>2
<1> QED BY <1>1 DEF LogGrows

LEMMA GrowsAppend ==
  ASSUME TypeInv, NEW STATE r, r \in Row, AppendRow(r), UNCHANGED stage
  PROVE  LogGrows({r})
<1>1. WriterStep /\ home'[cur].rows \union buf' = home[cur].rows \union buf \union {r}
  BY AppendLogs, LogIsInShape DEF Logged
<1>2. buf' \subseteq buf \union {r}
  BY DEF AppendRow
<1> QED BY <1>1, <1>2, GrowsWriter

LEMMA GrowsFlush ==
  ASSUME TypeInv, Flush, UNCHANGED stage
  PROVE  LogGrows({})
<1>1. WriterStep /\ home'[cur].rows \union buf' = home[cur].rows \union buf \union {} /\ buf' = {}
  BY FlushLogs, LogIsInShape DEF Logged
<1> QED BY <1>1, GrowsWriter

\* A step under which no file gains a row.
LEMMA GrowsNot ==
  ASSUME UNCHANGED <<stage, buf>>,
         \A n \in Seg : home'[n].rows \subseteq home[n].rows
  PROVE  LogGrows({})
BY DEF LogGrows, RowsOf

LEMMA GrowsMemory ==
  ASSUME UNCHANGED <<home, stage, buf>>
  PROVE  LogGrows({})
BY DEF LogGrows, RowsOf

\* All rows after such a step.
LEMMA GrownRows ==
  ASSUME TypeInv, NEW STATE new, LogGrows(new)
  PROVE  \A r \in AllRows' : r \in AllRows \/ r \in new
BY DEF LogGrows, AllRows, DurableRows, RowsOf, Seg

\* A step that adds at most rows with the next commit id, of a kind whose turn it is.
LEMMA IdKept ==
  ASSUME TypeInv, IdInv, NEW STATE new, LogGrows(new), UNCHANGED <<db, nextCommit>>,
         pc \notin Down, pc' \notin Down,
         FateDecided => FateDecided', Replaying => Replaying',
         pc' \in Opening => pc \in Opening,
         pc \in {"commit_row", "commit_done"} <=> pc' \in {"commit_row", "commit_done"},
         cur' = cur \/ Rolling,
         Rolling' => Rolling \/ \A r \in AllRows : r.cid # nextCommit,
         \A r \in new : /\ r.cid = nextCommit /\ pc' \notin Opening /\ ~ Rolling /\ ~ Rolling'
                        /\ r.kind \in {"COMMIT", "ROLLBACK"} => FateDecided'
                        /\ r.kind = "REPLAY" => Replaying'
  PROVE  IdInv'
<1>1. nextCommit \in Nat /\ nextCommit' = nextCommit
  BY DEF TypeInv, TypeOK
<1>2. DbShape' /\ DbFresh'
  BY DEF IdInv, DbShape, DbFresh
<1>3. RowsBelowNext'
  <2>1. ASSUME NEW r \in AllRows'
        PROVE  /\ r.cid <= nextCommit'
               /\ ~ FateDecided' /\ r.kind \in {"COMMIT", "ROLLBACK"} => r.cid < nextCommit'
               /\ ~ Replaying' /\ r.kind = "REPLAY" => r.cid < nextCommit'
               /\ pc' \in Opening => r.cid < nextCommit'
    <3>1. CASE r \in AllRows
      BY <1>1, <3>1 DEF IdInv, RowsBelowNext
    <3>2. CASE r \in new
      BY <1>1, <3>2
    <3> QED BY <2>1, <3>1, <3>2, GrownRows
  <2> QED BY <2>1 DEF RowsBelowNext
<1>4. \A n \in Seg : \A r \in RowsOf(n) : r.cid = nextCommit => n = cur /\ ~ Rolling
  BY DEF IdInv, OthersBelow
<1>5. BufIsCurrent'
  <2>1. \A r \in buf' : r.cid = nextCommit'
    BY DEF LogGrows, IdInv, BufIsCurrent
  <2>2. pc' \in Opening => buf' = {}
    BY DEF LogGrows, IdInv, BufIsCurrent
  <2>3. Rolling' => buf' = {}
    <3>1. CASE Rolling
      BY <3>1 DEF LogGrows, IdInv, BufIsCurrent
    <3>2. CASE Rolling' /\ ~ Rolling
      <4>1. \A r \in buf : r.cid # nextCommit
        BY <3>2 DEF AllRows
      <4> QED BY <3>2, <4>1 DEF LogGrows, IdInv, BufIsCurrent
    <3> QED BY <3>1, <3>2
  <2> QED BY <2>1, <2>2, <2>3 DEF BufIsCurrent
<1>6. OthersBelow'
  <2>1. ASSUME NEW n \in Seg, NEW r \in RowsOf(n)', r.cid = nextCommit
        PROVE  n = cur' /\ ~ Rolling'
    <3>1. CASE r \in RowsOf(n)
      <4>1. n = cur /\ ~ Rolling /\ r \in AllRows
        BY <1>4, <2>1, <3>1, LogTyped
      <4> QED BY <2>1, <4>1
    <3>2. CASE r \notin RowsOf(n)
      <4>1. n = cur /\ r \in buf \union new
        BY <2>1, <3>2 DEF LogGrows
      <4>2. ~ Rolling /\ ~ Rolling'
        BY <2>1, <4>1 DEF IdInv, BufIsCurrent, AllRows
      <4> QED BY <4>1, <4>2
    <3> QED BY <3>1, <3>2
  <2> QED BY <1>1, <2>1 DEF OthersBelow, Seg
<1> QED BY <1>2, <1>3, <1>5, <1>6 DEF IdInv

\* The process ends: what is durable stays.
LEMMA IdReset ==
  ASSUME IdInv, InMemoryReset, pc' \in Down, UNCHANGED disk
  PROVE  IdInv'
<1>1. UNCHANGED <<home, stage, db>> /\ buf' = {} /\ pc' \in Down
  BY DEF InMemoryReset, disk
<1> QED BY <1>1 DEF IdInv, DbShape, DbFresh, RowsBelowNext, BufIsCurrent, OthersBelow, Down, Rolling

LEMMA IdOpenDevice ==
  ASSUME TypeInv, IdInv, OpenDevice
  PROVE  IdInv'
<1>1. /\ pc \in Down /\ home' = Resolved /\ nextCommit' \in Nat
      /\ \A c \in Recorded : c < nextCommit'
      /\ pc' \in {"open_recover", "open_create"}
      /\ UNCHANGED <<stage, db, buf, closing>>
  BY OpenTakes
<1>2. \A n \in Seg : RowsOf(n)' = RowsOf(n)
  BY <1>1, ResolvedShape, LogIsInShape DEF RowsOf
<1>3. buf = {}
  BY <1>1 DEF IdInv, BufIsCurrent
<1>4. db.commitId < nextCommit' /\ \A n \in Seg : \A r \in RowsOf(n) : r.cid < nextCommit'
  <2>1. db.commitId \in Recorded /\ \A n \in Seg : \A r \in RowsOf(n) : r.cid \in Recorded
    BY DEF Recorded, RowsOf, CommitIds
  <2> QED BY <1>1, <2>1
<1>5. \A r \in AllRows' : \E n \in Seg : r \in RowsOf(n)
  BY <1>1, <1>2, <1>3 DEF AllRows, DurableRows, RowsOf, Seg
<1>6. \A r \in AllRows : r.cid \in Nat
  BY LogTyped DEF Row
<1>7. \A r \in AllRows' : r.cid < nextCommit' /\ r.cid <= nextCommit'
  BY <1>1, <1>4, <1>5, <1>6, LogTyped
<1>8. RowsBelowNext'
  BY <1>7 DEF RowsBelowNext
<1>9. OthersBelow'
  <2>1. \A n \in Seg : \A r \in RowsOf(n)' : r.cid # nextCommit'
    BY <1>1, <1>2, <1>4, <1>6, LogTyped
  <2> QED BY <2>1 DEF OthersBelow, Seg
<1>10. DbShape' /\ DbFresh' /\ BufIsCurrent'
  BY <1>1, <1>3, <1>4 DEF IdInv, DbShape, DbFresh, BufIsCurrent
<1> QED BY <1>8, <1>9, <1>10 DEF IdInv

LEMMA IdOpenOthers ==
  ASSUME TypeInv, IdInv, RecoverInDoubtTxn \/ DiscardInDoubtTxn \/ OpenPersist
  PROVE  IdInv'
<1> USE DEF Down, Opening
<1>1. CASE RecoverInDoubtTxn
  <2> DEFINE outcome == RecoveryOutcome(db.commitId, Slave, FateOf(home[cur].rows, Slave))
  <2>0. pc = "open_recover" /\ ~ closing /\ cur \in Seg
    BY <1>1 DEF RecoverInDoubtTxn, TypeInv, TypeOK, StepShape
  <2>1. CASE outcome = "refuse"
    <3>1. pc' = "refused" /\ InMemoryReset /\ UNCHANGED disk
      BY <1>1, <2>1 DEF RecoverInDoubtTxn, disk
    <3> QED BY <3>1, IdReset
  <2>2. CASE outcome = "COMMIT"
    <3> DEFINE r == MakeRow(nextNum, Slave, "COMMIT")
    <3>1. /\ r \in Row /\ Slave = db.commitId /\ WriterStep
          /\ home'[cur].rows = home[cur].rows \union {r} /\ pc' = "open_persist"
          /\ UNCHANGED <<stage, db, cur, nextCommit, buf, closing>>
      BY <1>1, <2>2, RecoveryCommits
    <3>2. r.cid = db.commitId
      BY <3>1 DEF MakeRow
    <3>3. r.cid < nextCommit /\ r.cid # nextCommit /\ nextCommit \in Nat
      BY <2>0, <3>2 DEF IdInv, DbFresh, TypeInv, TypeOK
    <3> HIDE DEF r
    <3>4. \A n \in Seg : RowsOf(n)' \subseteq RowsOf(n) \union {r}
      BY <3>1 DEF WriterStep, RowsOf
    <3>5. \A q \in AllRows' : q \in AllRows \/ q = r
      BY <3>1, <3>4 DEF AllRows, DurableRows, RowsOf, Seg
    <3>6. RowsBelowNext'
      <4>1. \A q \in AllRows : q.cid < nextCommit
        BY <2>0 DEF IdInv, RowsBelowNext
      <4>2. \A q \in AllRows : q.cid \in Nat
        BY LogTyped DEF Row
      <4>3. \A q \in AllRows' : q.cid < nextCommit /\ q.cid <= nextCommit
        BY <3>3, <3>5, <4>1, <4>2, <3>1 DEF Row
      <4> QED BY <3>1, <4>3 DEF RowsBelowNext
    <3>7. OthersBelow'
      BY <2>0, <3>1, <3>3, <3>4 DEF IdInv, OthersBelow, Rolling, Seg
    <3> QED BY <2>0, <3>1, <3>6, <3>7 DEF IdInv, DbShape, DbFresh, BufIsCurrent
  <2>3. CASE outcome \notin {"refuse", "COMMIT"}
    <3>1. /\ pc' \in {"open_discard", "open_persist"}
          /\ UNCHANGED <<home, stage, db, cur, nextCommit, buf, closing>>
      BY <1>1, <2>3 DEF RecoverInDoubtTxn
    <3>2. LogGrows({})
      BY <3>1, GrowsMemory
    <3> QED BY <2>0, <3>1, <3>2, IdKept DEF FateDecided, Replaying, Rolling
  <2> QED BY <2>1, <2>2, <2>3
<1>2. CASE DiscardInDoubtTxn
  <2>1. /\ \A n \in Seg : home'[n].rows \subseteq home[n].rows
        /\ pc = "open_discard" /\ pc' = "open_persist"
        /\ UNCHANGED <<stage, db, cur, nextCommit, buf, closing>>
    BY <1>2, DiscardEffect
  <2>2. LogGrows({})
    BY <2>1, GrowsNot
  <2> QED BY <2>1, <2>2, IdKept DEF FateDecided, Replaying, Rolling
<1>3. CASE OpenPersist
  <2>1. /\ pc = "open_persist" /\ pc' = "deliver"
        /\ UNCHANGED <<home, stage, db, cur, nextCommit, buf, closing>>
    BY <1>3 DEF OpenPersist
  <2>2. LogGrows({})
    BY <2>1, GrowsMemory
  <2> QED BY <2>1, <2>2, IdKept DEF FateDecided, Replaying, Rolling
<1> QED BY <1>1, <1>2, <1>3

LEMMA IdCreate ==
  ASSUME TypeInv, IdInv, Create
  PROVE  IdInv'
<1>1. /\ home'[slot].rows = home[slot].rows
      /\ \A n \in Seg : n # slot => home'[n] = home[n]
      /\ UNCHANGED <<stage, db, nextCommit, buf, closing>>
  BY CreateEffect
<1>2. /\ pc \in {"open_create", "roll_create", "open_schema", "roll_schema"}
      /\ pc' \in {"open_schema", "roll_schema", "open_recover", "roll_persist"}
      /\ pc' \in {"open_schema", "open_recover"} => pc \in {"open_create", "open_schema"}
      /\ pc' \in {"roll_schema", "roll_persist"} => pc \in {"roll_create", "roll_schema"}
      /\ cur' = cur \/ pc' \in {"open_recover", "roll_persist"}
  BY DEF Create, CreateFile, CreateSchema
<1>3. LogGrows({})
  BY <1>1, GrowsNot
<1>4. ~ closing
  BY <1>2 DEF TypeInv, StepShape
<1>5. CASE pc \in {"roll_create", "roll_schema"}
  BY <1>1, <1>2, <1>3, <1>4, <1>5, IdKept DEF FateDecided, Replaying, Rolling, Down, Opening
<1>6. CASE pc \in {"open_create", "open_schema"}
  <2>1. AllRows' \subseteq AllRows
    BY <1>3, GrownRows
  <2>2. \A r \in AllRows : r.cid < nextCommit /\ r.cid \in Nat
    BY <1>6, LogTyped DEF IdInv, RowsBelowNext, Down, Opening, Row
  <2>3. nextCommit \in Nat /\ pc' \in {"open_schema", "open_recover"}
    BY <1>2, <1>6 DEF TypeInv, TypeOK
  <2>4. RowsBelowNext'
    BY <1>1, <2>1, <2>2, <2>3 DEF RowsBelowNext
  <2>5. OthersBelow'
    <3>1. \A n \in Seg : RowsOf(n)' \subseteq AllRows
      BY <1>1, <1>3, LogTyped DEF LogGrows, AllRows, DurableRows, RowsOf
    <3>2. \A n \in Seg : \A r \in RowsOf(n)' : r.cid # nextCommit
      BY <2>2, <2>3, <3>1
    <3> QED BY <1>1, <3>2 DEF OthersBelow, Seg
  <2>6. DbShape' /\ DbFresh' /\ BufIsCurrent'
    BY <1>1, <1>6, <2>3 DEF IdInv, DbShape, DbFresh, BufIsCurrent, Down, Opening
  <2> QED BY <2>4, <2>5, <2>6 DEF IdInv
<1> QED BY <1>2, <1>5, <1>6

\* A step of the writer in a call, with at most one row of the open transaction.
LEMMA IdTxn ==
  ASSUME TypeInv, IdInv, Txn
  PROVE  IdInv'
<1> USE DEF Down, Opening, FateDecided, Replaying, Rolling
<1>1. pc = "idle" /\ pc' = "idle" /\ ~ closing /\ UNCHANGED <<stage, db, nextCommit, cur, closing>>
  BY DEF Txn, Execute, ExecuteUnlogged, FlushLog, disk, TypeInv, StepShape
<1>2. CASE UNCHANGED <<home, buf>>
  BY <1>1, <1>2, GrowsMemory, IdKept
<1>3. CASE BeginRow
  <2>1. PICK r \in Row : r = MakeRow(nextNum, nextCommit, "BEGIN") /\ AppendRow(r)
    BY <1>3, BeginAppends
  <2>2. r.cid = nextCommit /\ r.kind = "BEGIN"
    BY <2>1 DEF MakeRow
  <2>3. AppendRow(r)
    BY <2>1
  <2> QED BY <1>1, <2>2, <2>3, GrowsAppend, IdKept
<1> QED BY <1>2, <1>3 DEF Txn, Execute, ExecuteUnlogged, FlushLog, disk

LEMMA IdFateRow ==
  ASSUME TypeInv, IdInv, NEW step, NEW kind \in RowKind, NEW next, FateRow(step, kind, next),
         \/ step = "commit_row" /\ next = "commit_done"
         \/ step = "rollback_row" /\ next = "rollback_done",
         kind # "REPLAY"
  PROVE  IdInv'
<1> USE DEF Down, Opening, FateDecided, Replaying, Rolling
<1> DEFINE r == MakeRow(nextNum, nextCommit, kind)
<1>1. /\ pc = step /\ pc' = next /\ AppendRow(r)
      /\ UNCHANGED <<stage, db, nextCommit, cur, closing>>
  BY DEF FateRow
<1>2. r \in Row /\ r.cid = nextCommit /\ r.kind = kind
  BY DEF MakeRow, Row, TypeInv, TypeOK
<1>3. ~ closing
  BY <1>1 DEF TypeInv, StepShape
<1> HIDE DEF r
<1> QED BY <1>1, <1>2, <1>3, GrowsAppend, IdKept

\* The next commit id is drawn above the last one, which all rows have at most.
LEMMA IdEndTxn ==
  ASSUME TypeInv, IdInv, NEW STATE step, NEW STATE nexts, EndTxn(step, nexts),
         pc \in {"commit_done", "rollback_done"}, pc' \in {"idle", "roll_check"}
  PROVE  IdInv'
<1>1. Flush /\ UNCHANGED <<stage, db, cur, closing>>
  BY DEF EndTxn
<1>2. nextCommit \in Nat /\ nextCommit' \in Nat /\ nextCommit < nextCommit'
  <2>1. PICK now \in 0 .. MaxCommitId : nextCommit' = NextMonotonic(now, nextCommit)
    BY DEF EndTxn
  <2>2. now \in Nat /\ nextCommit \in Nat
    BY <2>1, BoundsAssumption DEF TypeInv, TypeOK
  <2> QED BY <2>1, <2>2 DEF NextMonotonic
<1>3. LogGrows({}) /\ buf' = {}
  BY <1>1, GrowsFlush DEF Flush
<1>4. \A r \in AllRows : r.cid \in Nat /\ r.cid <= nextCommit
  BY LogTyped DEF IdInv, RowsBelowNext, Down, Row
<1>5. \A r \in AllRows' : r.cid < nextCommit' /\ r.cid <= nextCommit'
  <2>1. \A r \in AllRows' : r \in AllRows
    BY <1>3, GrownRows
  <2> QED BY <1>2, <1>4, <2>1
<1>6. RowsBelowNext'
  BY <1>5 DEF RowsBelowNext
<1>7. OthersBelow'
  <2>1. \A n \in Seg : \A r \in RowsOf(n)' : r \in AllRows'
    BY DEF RowsOf, AllRows, DurableRows, Seg
  <2>2. \A r \in AllRows' : r.cid # nextCommit'
    BY <1>2, <1>4, <1>3, GrownRows
  <2> QED BY <2>1, <2>2 DEF OthersBelow, Seg
<1>8. DbShape' /\ DbFresh' /\ BufIsCurrent'
  <2>1. db.commitId \in Nat /\ db.commitId <= nextCommit
    BY <1>2 DEF IdInv, DbFresh, Down, TypeInv, TypeOK
  <2> QED BY <1>1, <1>2, <1>3, <2>1 DEF IdInv, DbShape, DbFresh, BufIsCurrent, Down, Opening, Rolling
<1> QED BY <1>6, <1>7, <1>8 DEF IdInv

LEMMA IdCommit ==
  ASSUME TypeInv, StatementsCurrent, IdInv, Commit
  PROVE  IdInv'
<1> USE DEF Down, Opening, FateDecided, Replaying, Rolling
<1>0. pc # "close_check" /\ ~ closing
  BY DEF Commit, CommitStart, CommitFlush, CommitPublish, CommitDb, CommitDbFails, CommitRow,
         FateRow, CommitDone, EndTxn, TypeInv, StepShape
<1>1. CASE CommitStart
  <2>1. /\ pc = "idle" /\ UNCHANGED <<stage, db, cur, nextCommit, closing>>
        /\ \/ pc' = "commit_db" /\ UNCHANGED <<home, buf>>
           \/ /\ pc' = "commit_flush"
              /\ \E r \in Row : r.cid = nextCommit /\ r.kind = "REPLAY" /\ AppendRow(r)
    BY <1>1, CommitStarts
  <2>2. CASE pc' = "commit_db" /\ UNCHANGED <<home, buf>>
    BY <1>0, <2>1, <2>2, GrowsMemory, IdKept
  <2>3. CASE pc' = "commit_flush"
    <3>1. PICK r \in Row : r.cid = nextCommit /\ r.kind = "REPLAY" /\ AppendRow(r)
      BY <2>1, <2>3
    <3>2. LogGrows({r})
      BY <2>1, <3>1, GrowsAppend
    <3> QED BY <1>0, <2>1, <2>3, <3>1, <3>2, IdKept
  <2> QED BY <2>1, <2>2, <2>3
<1>2. CASE CommitFlush
  BY <1>0, <1>2, GrowsFlush, IdKept DEF CommitFlush
<1>3. CASE CommitPublish
  BY <1>0, <1>3, GrowsMemory, IdKept DEF CommitPublish
<1>4. CASE CommitDb
  <2>1. /\ pc = "commit_db" /\ pc' = "commit_row"
        /\ db'.commitId = nextCommit /\ db'.done = db.done \union {nextCommit}
        /\ db'.effects = db.effects \union userTxn.effects
        /\ UNCHANGED <<home, stage, cur, nextCommit, buf, closing>>
    BY <1>4 DEF CommitDb
  <2>2. db.commitId \in Nat /\ nextCommit \in Nat /\ db.commitId < nextCommit /\ db.done \in SUBSET Nat
    BY <2>1 DEF IdInv, DbFresh, TypeInv, TypeOK
  <2>3. DbShape'
    <3>1. \A c \in db'.done : c # 0 /\ c <= db'.commitId
      BY <2>1, <2>2 DEF IdInv, DbShape
    <3>2. \A e \in db'.effects : e.cid \in db'.done
      BY <2>1 DEF IdInv, DbShape, StatementsCurrent
    <3> QED BY <2>1, <3>1, <3>2 DEF DbShape
  <2>4. DbFresh'
    BY <2>1 DEF DbFresh
  <2>5. AllRows' = AllRows /\ \A n \in Seg : RowsOf(n)' = RowsOf(n)
    BY <2>1 DEF AllRows, DurableRows, RowsOf, Seg
  <2>6. RowsBelowNext' /\ BufIsCurrent' /\ OthersBelow'
    BY <1>0, <2>1, <2>5 DEF IdInv, RowsBelowNext, BufIsCurrent, OthersBelow, Seg
  <2> QED BY <2>3, <2>4, <2>6 DEF IdInv
<1>5. CASE CommitDbFails
  BY <1>0, <1>5, GrowsMemory, IdKept DEF CommitDbFails, disk
<1>6. CASE CommitRow
  BY <1>6, IdFateRow DEF CommitRow, RowKind
<1>7. CASE CommitDone
  <2>1. /\ pc = "commit_done" /\ pc' \in {"idle", "roll_check"}
    <3>1. CASE cur < MaxSegment
      BY <1>7, <3>1 DEF CommitDone, EndTxn
    <3>2. CASE ~ (cur < MaxSegment)
      BY <1>7, <3>2 DEF CommitDone, EndTxn
    <3> QED BY <3>1, <3>2
  <2> QED BY <1>7, <2>1, IdEndTxn DEF CommitDone
<1> QED BY <1>1, <1>2, <1>3, <1>4, <1>5, <1>6, <1>7 DEF Commit

LEMMA IdRollback ==
  ASSUME TypeInv, IdInv, Rollback
  PROVE  IdInv'
<1> USE DEF Down, Opening, FateDecided, Replaying, Rolling
<1>1. CASE RollbackStart
  <2>1. ~ closing
    BY <1>1 DEF RollbackStart, TypeInv, StepShape
  <2> QED BY <1>1, <2>1, GrowsMemory, IdKept DEF RollbackStart, disk
<1>2. CASE RollbackRow
  BY <1>2, IdFateRow DEF RollbackRow, RowKind
<1>3. CASE RollbackDone
  BY <1>3, IdEndTxn DEF RollbackDone, EndTxn
<1> QED BY <1>1, <1>2, <1>3 DEF Rollback

\* At a commit boundary no row has the next commit id: the highest one has its fate.
LEMMA BoundaryIsBelow ==
  ASSUME TypeInv, StageInv, IdInv, AtCommitBoundary, ~ FateDecided,
         home[cur].status = "NEW", pc \notin Down
  PROVE  \A r \in AllRows : r.cid # nextCommit
<1> DEFINE top == LastCommitId(LogRows)
<1>1. LogRows \in SUBSET Row /\ IsFiniteSet(LogRows) /\ LogRows # {} /\ cur \in Seg
  BY FS_Union DEF AtCommitBoundary, LogRows, TypeInv, TypeOK, FiniteRows, Segment
<1>2. LogRows \subseteq AllRows
  BY <1>1, LogTyped DEF LogRows, AllRows, DurableRows
<1>3. \A r \in LogRows : r.cid <= top
  BY <1>1, LastCommitIdIsMax
<1>4. \E r \in LogRows : r.cid = top /\ r.kind \in {"COMMIT", "ROLLBACK"}
  BY <1>1 DEF AtCommitBoundary, LastFateDecided, FateOf, Has
<1>5. top < nextCommit
  BY <1>2, <1>4 DEF IdInv, RowsBelowNext
<1>6. top \in Nat /\ nextCommit \in Nat /\ \A r \in LogRows : r.cid \in Nat
  BY <1>1, LastCommitIdType DEF TypeInv, TypeOK, Row
<1> HIDE DEF top
<1>7. \A r \in LogRows : r.cid # nextCommit
  BY <1>3, <1>5, <1>6
<1>8. RowsOf(cur) \subseteq LogRows
  BY <1>1, CurIsNotStaged DEF RowsOf, LogRows
<1> QED BY <1>7, <1>8, LogTyped DEF IdInv, OthersBelow, LogRows

LEMMA IdSwitch ==
  ASSUME TypeInv, StageInv, IdInv, Roll \/ Close \/ Finalize
  PROVE  IdInv'
<1> USE DEF Down, Opening, FateDecided, Replaying, Rolling
<1>1. CASE RollRequested \/ RollRefused
  <2>1. ~ closing
    BY <1>1 DEF RollRequested, RollRefused, TypeInv, StepShape
  <2> QED BY <1>1, <2>1, GrowsMemory, IdKept DEF RollRequested, RollRefused, disk
<1>2. CASE RollClaim
  <2>1. /\ pc = "roll_check" /\ pc' = "finalize" /\ AtCommitBoundary /\ ~ closing
        /\ UNCHANGED <<home, stage, db, cur, nextCommit, buf, closing>>
    BY <1>2, RollTakesNext
  <2>2. home[cur].status = "NEW"
    BY <2>1 DEF TypeInv, StepShape, CurOpen
  <2>3. \A r \in AllRows : r.cid # nextCommit
    BY <2>1, <2>2, BoundaryIsBelow
  <2> QED BY <2>1, <2>3, GrowsMemory, IdKept
<1>3. CASE RollPersist
  <2>1. ~ closing
    BY <1>3 DEF RollPersist, TypeInv, StepShape
  <2> QED BY <1>3, <2>1, GrowsMemory, IdKept DEF RollPersist
<1>4. CASE CloseStart
  <2>1. /\ pc \in {"idle", "commit_failed"} /\ pc' = "close_check" /\ closing'
        /\ UNCHANGED <<stage, db, cur, nextCommit>>
        /\ \/ UNCHANGED <<home, buf>>
           \/ \E r \in Row : r.cid = nextCommit /\ r.kind = "COMMIT" /\ AppendRow(r)
    BY <1>4, CloseStarts
  <2>2. CASE UNCHANGED <<home, buf>>
    BY <2>1, <2>2, GrowsMemory, IdKept
  <2>3. ASSUME NEW r \in Row, r.cid = nextCommit, r.kind = "COMMIT", AppendRow(r)
        PROVE  IdInv'
    BY <2>1, <2>3, GrowsAppend, IdKept
  <2> QED BY <2>1, <2>2, <2>3
<1>5. CASE CloseShips
  <2>1. closing
    BY <1>5 DEF CloseShips, TypeInv, StepShape
  <2> QED BY <1>5, <2>1, GrowsMemory, IdKept DEF CloseShips, disk
<1>6. CASE CloseKeeps
  BY <1>6, IdReset DEF CloseKeeps
<1>7. CASE FinalizeRows
  BY <1>7, GrowsFlush, IdKept DEF FinalizeRows
<1>8. CASE MarkReady
  <2>1. /\ pc = "mark_ready" /\ pc' = IF closing THEN "deliver" ELSE "roll_create"
        /\ home'[cur].rows = home[cur].rows
        /\ \A n \in Seg : n # cur => home'[n] = home[n]
        /\ UNCHANGED <<stage, db, cur, nextCommit, buf, closing>>
    BY <1>8, MarkEffect
  <2>2. LogGrows({})
    BY <2>1, GrowsNot
  <2> QED BY <2>1, <2>2, IdKept
<1> QED BY <1>1, <1>2, <1>3, <1>4, <1>5, <1>6, <1>7, <1>8 DEF Roll, Close, Finalize

LEMMA IdMover ==
  ASSUME TypeInv, IdInv, Mover
  PROVE  IdInv'
<1> USE DEF Down, Opening, FateDecided, Replaying, Rolling
<1>1. CASE MoverCopies
  <2>1. PICK n \in todo : stage' = [stage EXCEPT ![n] = home[n]]
    BY <1>1 DEF MoverCopies
  <2>2. /\ pc = "deliver" /\ pc' = "remove"
        /\ UNCHANGED <<home, db, cur, nextCommit, buf, closing>>
    BY <1>1 DEF MoverCopies
  <2>3. LogGrows({})
    BY <2>1, <2>2 DEF LogGrows, RowsOf, TypeInv, TypeOK
  <2> QED BY <2>2, <2>3, IdKept
<1>2. CASE MoverCopyFails
  BY <1>2, GrowsMemory, IdKept DEF MoverCopyFails
<1>3. CASE MoverRemoves
  <2>1. /\ pc = "remove" /\ pc' = "deliver"
        /\ UNCHANGED <<stage, db, cur, nextCommit, buf, closing>>
    BY <1>3, RemoveEffect
  <2>2. \A n \in Seg : home'[n].rows \subseteq home[n].rows
    BY <1>3, RemoveEffect DEF NoFile
  <2>3. LogGrows({})
    BY <2>1, <2>2, GrowsNot
  <2> QED BY <2>1, <2>3, IdKept
<1>4. CASE Delivered /\ closing
  BY <1>4, IdReset DEF Delivered
<1>5. CASE Delivered /\ ~ closing
  BY <1>5, GrowsMemory, IdKept DEF Delivered, disk
<1> QED BY <1>1, <1>2, <1>3, <1>4, <1>5 DEF Mover

LEMMA IdInit ==
  ASSUME Init
  PROVE  StatementsCurrent /\ IdInv
BY DEF Init, StatementsCurrent, NoUserTxn, IdInv, DbShape, DbFresh, RowsBelowNext, BufIsCurrent,
       OthersBelow, Down, Opening, Rolling

LEMMA IdStep ==
  ASSUME TypeInv, StageInv, StatementsCurrent, IdInv, [Next]_vars
  PROVE  IdInv'
<1>1. CASE Crash
  BY <1>1, IdReset DEF Crash, Down
<1>2. CASE UNCHANGED vars
  BY <1>2 DEF vars, disk, memory, IdInv, DbShape, DbFresh, RowsBelowNext, BufIsCurrent,
     OthersBelow, AllRows, DurableRows, RowsOf, FateDecided, Replaying, Rolling, Seg
<1>3. CASE Next
  BY <1>1, <1>3, IdOpenDevice, IdOpenOthers, IdCreate, IdTxn, IdCommit, IdRollback, IdSwitch,
     IdMover DEF Next, Open
<1> QED BY <1>2, <1>3

--------------------------------------------------------------------------------
(* Rows and sidecars from one state to the next                                *)

\* What holds of the device whatever an application does, so far.
Base == TypeInv /\ StageInv /\ StatementsCurrent /\ IdInv

\* No row of a segment is lost, in the home or on its way to the stage directory, but
\* those of the transaction recovery discards.
LEMMA RowsStay ==
  ASSUME Base, Next, ~ DiscardInDoubtTxn
  PROVE  \A n \in Seg : RowsOf(n) \subseteq RowsOf(n)'
<1> USE DEF Base
<1>1. CASE UNCHANGED <<home, stage>>
  BY <1>1 DEF RowsOf
<1>2. CASE WriterStep /\ UNCHANGED stage
  <2>1. \A n \in Seg : home[n].rows \subseteq home'[n].rows
    BY <1>2 DEF WriterStep
  <2> QED BY <1>2, <2>1 DEF RowsOf
<1>3. CASE UNCHANGED stage /\ \A n \in Seg : home'[n].rows = home[n].rows
  BY <1>3 DEF RowsOf
<1>4. CASE OpenDevice
  BY <1>3, <1>4, OpenTakes, ResolvedShape, LogIsInShape
<1>5. CASE RecoverInDoubtTxn
  BY <1>1, <1>2, <1>5, RecoveryCommits DEF RecoverInDoubtTxn
<1>6. CASE Create
  BY <1>3, <1>6, CreateEffect
<1>7. CASE Txn \/ Commit \/ Rollback \/ CloseStart \/ FinalizeRows
  BY <1>2, <1>7, CallWrites
<1>8. CASE Crash \/ OpenPersist \/ Roll \/ CloseShips \/ CloseKeeps \/ MoverCopyFails \/ Delivered
  BY <1>1, <1>8, RollTakesNext DEF Crash, OpenPersist, Roll, RollRequested, RollRefused, RollPersist,
     CloseShips, CloseKeeps, MoverCopyFails, Delivered, disk
<1>9. CASE MarkReady
  BY <1>3, <1>9, MarkEffect
<1>10. CASE MoverCopies
  <2>1. PICK n \in todo : stage' = [stage EXCEPT ![n] = home[n]]
    BY <1>10 DEF MoverCopies
  <2>2. n \in Seg /\ home' = home /\ home[n].status = "READY"
    BY <1>10 DEF MoverCopies, TypeInv, TypeOK, StageInv, TodoShape
  <2>3. stage[n].rows \subseteq home[n].rows
    BY <2>2 DEF StageInv, StageShape, NoFile, TypeInv, TypeOK, Segment
  <2> QED BY <2>1, <2>2, <2>3 DEF RowsOf, TypeInv, TypeOK
<1>11. CASE MoverRemoves
  <2>1. pc = "remove" /\ stage' = stage
    BY <1>11, RemoveEffect
  <2>2. PICK n \in todo : NextToDeliver(n) /\ \A m \in Seg : m # n => home'[m] = home[m]
    BY <1>11, RemoveEffect
  <2>3. stage[n] = home[n]
    BY <2>1, <2>2 DEF StageInv, TodoShape
  <2> QED BY <2>1, <2>2, <2>3 DEF RowsOf
<1> QED BY <1>4, <1>5, <1>6, <1>7, <1>8, <1>9, <1>10, <1>11 DEF Next, Open, Close, Finalize, Mover

\* Sidecars appear when they are published and disappear when recovery discards them;
\* the mover only moves them.
LEMMA SidecarsStay ==
  ASSUME Base, Next, ~ CommitPublish
  PROVE  \A n \in Seg : /\ SidecarsOf(n)' \subseteq SidecarsOf(n)
                        /\ ~ RecoverInDoubtTxn => SidecarsOf(n) \subseteq SidecarsOf(n)'
<1> USE DEF Base
<1>1. CASE UNCHANGED <<homeTxn, stageTxn>>
  BY <1>1 DEF SidecarsOf
<1>2. CASE RecoverInDoubtTxn
  <2>1. stageTxn' = stageTxn /\ homeTxn' \in {homeTxn, [homeTxn EXCEPT ![cur] = @ \ OfCommit(@, Slave)]}
    BY <1>2 DEF RecoverInDoubtTxn
  <2> QED BY <1>2, <2>1 DEF SidecarsOf, TypeInv, TypeOK
<1>3. CASE OpenDevice \/ Create
  BY <1>1, <1>3, OpenTakes DEF Create, CreateFile, CreateSchema
<1>4. CASE Txn \/ Rollback \/ Roll \/ Close \/ Finalize
  BY <1>1, <1>4, RollTakesNext, CloseStarts DEF Txn, Execute, ExecuteUnlogged, FlushLog, Rollback, RollbackStart,
     RollbackRow, FateRow, RollbackDone, EndTxn, Roll, RollRequested, RollRefused, RollPersist, Close,
     CloseShips, CloseKeeps, Finalize, FinalizeRows, MarkReady, disk
<1>5. CASE Commit
  BY <1>1, <1>5, CommitStarts DEF Commit, CommitFlush, CommitDb, CommitDbFails, CommitRow,
     FateRow, CommitDone, EndTxn, disk
<1>6. CASE Crash \/ DiscardInDoubtTxn \/ OpenPersist \/ Delivered
  BY <1>1, <1>6 DEF Crash, DiscardInDoubtTxn, OpenPersist, Delivered, disk
<1>7. ASSUME NEW n \in todo, CopySidecars(n), homeTxn' = homeTxn
      PROVE  \A m \in Seg : SidecarsOf(m)' = SidecarsOf(m)
  <2>1. /\ n \in Seg /\ stageTxn'[n] = Overwrite(stageTxn[n], homeTxn[n])
        /\ \A m \in Seg : m # n => stageTxn'[m] = stageTxn[m]
    BY <1>7, CopyEffect DEF TypeInv, TypeOK
  <2>2. stageTxn[n] # {} => homeTxn[n] \in {{}, stageTxn[n]}
    BY <2>1 DEF StageInv, SidecarsMoved
  <2>3. SidecarsOf(n)' = SidecarsOf(n)
    <3>1. CASE stageTxn[n] = {} \/ homeTxn[n] = {}
      BY <1>7, <2>1, <3>1 DEF SidecarsOf, Overwrite, CommitIds
    <3>2. CASE stageTxn[n] # {} /\ homeTxn[n] = stageTxn[n]
      BY <1>7, <2>1, <3>2 DEF SidecarsOf, Overwrite, CommitIds
    <3> QED BY <2>2, <3>1, <3>2
  <2> QED BY <1>7, <2>1, <2>3 DEF SidecarsOf
<1>8. CASE MoverCopies \/ MoverCopyFails
  BY <1>1, <1>7, <1>8 DEF MoverCopies, MoverCopyFails
<1>9. CASE MoverRemoves
  <2>1. pc = "remove" /\ stageTxn' = stageTxn /\ todo \in SUBSET Seg
    BY <1>9, RemoveEffect DEF TypeInv, TypeOK
  <2>2. PICK n \in todo : /\ NextToDeliver(n) /\ homeTxn'[n] \in {homeTxn[n], {}}
                          /\ \A m \in Seg : m # n => homeTxn'[m] = homeTxn[m]
    BY <1>9, RemoveEffect
  <2>3. stage[n] = home[n] /\ home[n].status = "READY" /\ n \in Seg
    BY <2>1, <2>2 DEF StageInv, TodoShape
  <2>4. homeTxn[n] \subseteq stageTxn[n]
    BY <2>3 DEF StageInv, SidecarsMoved
  <2> QED BY <2>1, <2>2, <2>3, <2>4 DEF SidecarsOf
<1> QED BY <1>2, <1>3, <1>4, <1>5, <1>6, <1>8, <1>9 DEF Next, Open, Mover

\* The rows a step may add, and when.
NewRow(r) ==
  \/ r.kind \in {"BEGIN", "REPLAY"}
  \/ pc = "open_recover" /\ r.kind = "COMMIT" /\ r.cid = db.commitId /\ r.cid # 0
  \/ pc = "commit_row" /\ r.kind = "COMMIT" /\ r.cid = nextCommit
  \/ pc = "rollback_row" /\ r.kind = "ROLLBACK" /\ r.cid = nextCommit
  \/ CloseStart /\ "close_in_txn" \in Usage /\ r.kind = "COMMIT" /\ r.cid = nextCommit

LEMMA RowsAdded ==
  ASSUME Base, Next
  PROVE  \A r \in AllRows' : r \in AllRows \/ NewRow(r)
<1> USE DEF Base
<1>1. CASE LogGrows({})
  BY <1>1, GrownRows
<1>2. ASSUME NEW r \in Row, AppendRow(r), UNCHANGED stage, NewRow(r)
      PROVE  \A q \in AllRows' : q \in AllRows \/ NewRow(q)
  <2>1. LogGrows({r})
    BY <1>2, GrowsAppend
  <2>2. \A q \in AllRows' : q \in AllRows \/ q \in {r}
    BY <2>1, GrownRows
  <2> QED BY <1>2, <2>2
<1>3. CASE UNCHANGED <<home, stage, buf>>
  BY <1>1, <1>3, GrowsMemory
<1>4. CASE OpenDevice
  <2>1. \A n \in Seg : home'[n].rows = home[n].rows /\ UNCHANGED <<stage, buf>>
    BY <1>4, OpenTakes, ResolvedShape, LogIsInShape
  <2> QED BY <1>1, <2>1, GrowsNot, OpenTakes, <1>4
<1>5. CASE RecoverInDoubtTxn
  <2> DEFINE outcome == RecoveryOutcome(db.commitId, Slave, FateOf(home[cur].rows, Slave))
  <2>1. CASE outcome = "refuse"
    <3>1. UNCHANGED <<home, stage>> /\ buf' = {}
      BY <1>5, <2>1 DEF RecoverInDoubtTxn, InMemoryReset
    <3> QED BY <3>1 DEF AllRows, DurableRows, Seg
  <2>2. CASE outcome = "COMMIT"
    <3> DEFINE r == MakeRow(nextNum, Slave, "COMMIT")
    <3>1. /\ Slave = db.commitId /\ Slave # 0 /\ WriterStep
          /\ home'[cur].rows = home[cur].rows \union {r} /\ UNCHANGED <<stage, buf>>
      BY <1>5, <2>2, RecoveryCommits
    <3>2. r.kind = "COMMIT" /\ r.cid = db.commitId /\ r.cid # 0 /\ pc = "open_recover"
      BY <1>5, <3>1 DEF MakeRow, RecoverInDoubtTxn
    <3> HIDE DEF r
    <3>3. \A q \in AllRows' : q \in AllRows \/ q = r
      BY <3>1 DEF WriterStep, AllRows, DurableRows, Seg
    <3> QED BY <3>2, <3>3 DEF NewRow
  <2>3. CASE outcome \notin {"refuse", "COMMIT"}
    BY <1>3, <1>5, <2>3 DEF RecoverInDoubtTxn
  <2> QED BY <2>1, <2>2, <2>3
<1>6. CASE DiscardInDoubtTxn
  BY <1>1, <1>6, DiscardEffect, GrowsNot
<1>7. CASE Create
  <2>1. UNCHANGED <<stage, buf>> /\ \A n \in Seg : home'[n].rows = home[n].rows
    BY <1>7, CreateEffect
  <2> QED BY <1>1, <2>1, GrowsNot
<1>8. CASE Txn
  <2>1. CASE BeginRow /\ UNCHANGED stage
    <3>1. PICK r \in Row : r = MakeRow(nextNum, nextCommit, "BEGIN") /\ AppendRow(r)
      BY <2>1, BeginAppends
    <3>2. r.kind = "BEGIN" /\ AppendRow(r)
      BY <3>1 DEF MakeRow
    <3> QED BY <1>2, <2>1, <3>2 DEF NewRow
  <2> QED BY <1>3, <1>8, <2>1 DEF Txn, Execute, ExecuteUnlogged, FlushLog, disk
<1>9. CASE CommitStart
  <2>1. /\ UNCHANGED stage
        /\ \/ UNCHANGED <<home, buf>>
           \/ \E r \in Row : r.cid = nextCommit /\ r.kind = "REPLAY" /\ AppendRow(r)
    BY <1>9, CommitStarts
  <2> QED BY <1>2, <1>3, <2>1 DEF NewRow
<1>10. ASSUME NEW kind \in RowKind, AppendRow(MakeRow(nextNum, nextCommit, kind)), UNCHANGED stage,
              \/ kind = "COMMIT" /\ pc = "commit_row"
              \/ kind = "ROLLBACK" /\ pc = "rollback_row"
       PROVE  \A q \in AllRows' : q \in AllRows \/ NewRow(q)
  <2> DEFINE r == MakeRow(nextNum, nextCommit, kind)
  <2>1. r \in Row /\ r.cid = nextCommit /\ r.kind = kind
    BY DEF MakeRow, Row, TypeInv, TypeOK
  <2> HIDE DEF r
  <2>2. AppendRow(r) /\ NewRow(r)
    BY <1>10, <2>1 DEF NewRow, r
  <2> QED BY <1>2, <1>10, <2>1, <2>2
<1>11. CASE CommitRow \/ RollbackRow
  BY <1>10, <1>11 DEF CommitRow, RollbackRow, FateRow, RowKind
<1>12. CASE CommitFlush \/ CommitDone \/ RollbackDone \/ FinalizeRows
  BY <1>1, <1>12, GrowsFlush DEF CommitFlush, CommitDone, RollbackDone, EndTxn, FinalizeRows
<1>13. CASE CommitPublish \/ CommitDb \/ CommitDbFails \/ RollbackStart
  BY <1>3, <1>13 DEF CommitPublish, CommitDb, CommitDbFails, RollbackStart, disk
<1>14. CASE CloseStart
  <2>1. /\ UNCHANGED stage
        /\ \/ UNCHANGED <<home, buf>>
           \/ /\ "close_in_txn" \in Usage
              /\ \E r \in Row : r.cid = nextCommit /\ r.kind = "COMMIT" /\ AppendRow(r)
    BY <1>14, CloseStarts
  <2> QED BY <1>2, <1>3, <1>14, <2>1 DEF NewRow
<1>15. CASE OpenPersist \/ Roll \/ CloseShips \/ MoverCopyFails
  BY <1>3, <1>15, RollTakesNext DEF OpenPersist, Roll, RollRequested, RollRefused, RollPersist,
     CloseShips, MoverCopyFails, disk
<1>16. CASE Crash \/ CloseKeeps \/ Delivered
  <2>1. UNCHANGED <<home, stage>> /\ buf' \in {buf, {}}
    BY <1>16 DEF Crash, CloseKeeps, Delivered, InMemoryReset, disk
  <2> QED BY <2>1 DEF AllRows, DurableRows, Seg
<1>17. CASE MarkReady
  <2>1. UNCHANGED <<stage, buf>> /\ \A n \in Seg : home'[n].rows = home[n].rows
    BY <1>17, MarkEffect
  <2> QED BY <1>1, <2>1, GrowsNot
<1>18. CASE MoverCopies
  <2>1. PICK n \in todo : stage' = [stage EXCEPT ![n] = home[n]]
    BY <1>18 DEF MoverCopies
  <2>2. UNCHANGED <<home, buf>>
    BY <1>18 DEF MoverCopies
  <2>3. LogGrows({})
    BY <2>1, <2>2 DEF LogGrows, RowsOf, TypeInv, TypeOK
  <2> QED BY <1>1, <2>3
<1>19. CASE MoverRemoves
  <2>1. UNCHANGED <<stage, buf>> /\ \A n \in Seg : home'[n].rows \subseteq home[n].rows
    BY <1>19, RemoveEffect DEF NoFile
  <2> QED BY <1>1, <2>1, GrowsNot
<1> QED BY <1>4, <1>5, <1>6, <1>7, <1>8, <1>9, <1>11, <1>12, <1>13, <1>14, <1>15, <1>16, <1>17, <1>18,
      <1>19 DEF Next, Open, Commit, Rollback, Close, Finalize, Mover

--------------------------------------------------------------------------------
(* Sidecars and their REPLAY_TXN                                               *)

\* Every statement of a sidecar has the REPLAY_TXN row that leads to it.
SidecarHasRow ==
  \A n \in Seg : \A s \in SidecarsOf(n) : Has(RowsOf(n), s.cid, "REPLAY") /\ s.kind = "OP"

\* Statements never enter the segment.
NoOps == \A r \in AllRows : r.kind # "OP"

\* REPLAY_TXN is durable before its sidecar is published, and recovery removes the
\* sidecar before the row.
CommitMarked ==
  /\ pc = "commit_flush" => Has(LogRows, nextCommit, "REPLAY")
  /\ pc = "commit_publish" => Has(home[cur].rows, nextCommit, "REPLAY")
  /\ pc = "open_discard" => Slave > db.commitId /\ OfCommit(homeTxn[cur], Slave) = {}

SideInv == SidecarHasRow /\ NoOps /\ CommitMarked

LEMMA SidecarHasRowStep ==
  ASSUME Base, SideInv, Next
  PROVE  SidecarHasRow'
<1> USE DEF Base
<1>1. CASE CommitPublish
  <2>1. /\ pc = "commit_publish" /\ cur \in Seg
        /\ homeTxn' = [homeTxn EXCEPT ![cur] = Overwrite(homeTxn[cur], spilled)]
        /\ homeTxn \in [Seg -> SUBSET Row] /\ UNCHANGED <<home, stage, stageTxn>>
    BY <1>1 DEF CommitPublish, TypeInv, TypeOK
  <2>2. \A s \in spilled : s.cid = nextCommit /\ s.kind = "OP"
    BY DEF StatementsCurrent
  <2>3. Has(RowsOf(cur), nextCommit, "REPLAY")
    BY <2>1 DEF SideInv, CommitMarked, Has, RowsOf
  <2>4. \A n \in Seg : \A s \in SidecarsOf(n)' : s \in SidecarsOf(n) \/ (n = cur /\ s \in spilled)
    BY <2>1 DEF SidecarsOf, Overwrite
  <2>5. \A n \in Seg : RowsOf(n)' = RowsOf(n)
    BY <2>1 DEF RowsOf
  <2> QED BY <2>2, <2>3, <2>4, <2>5 DEF SideInv, SidecarHasRow, Seg
<1>2. CASE DiscardInDoubtTxn
  <2>1. /\ \A n \in Seg : n # cur => home'[n] = home[n]
        /\ home'[cur].rows = home[cur].rows \ OfCommit(home[cur].rows, Slave)
        /\ pc = "open_discard" /\ UNCHANGED <<homeTxn, stage, stageTxn>>
    BY <1>2, DiscardEffect
  <2>2. OfCommit(homeTxn[cur], Slave) = {}
    BY <2>1 DEF SideInv, CommitMarked
  <2>3. stageTxn[cur] = {} /\ stage[cur].rows = {} /\ cur \in Seg
    BY <2>1, CurIsNotStaged DEF TypeInv, TypeOK, StepShape, CurOpen
  <2>4. ASSUME NEW n \in Seg, NEW s \in SidecarsOf(n)
        PROVE  Has(RowsOf(n)', s.cid, "REPLAY")
    <3>1. PICK r \in RowsOf(n) : r.cid = s.cid /\ r.kind = "REPLAY"
      BY <2>4 DEF SideInv, SidecarHasRow, Has
    <3>2. CASE n = cur
      <4>1. s.cid # Slave
        BY <2>2, <2>3, <2>4, <3>2 DEF SidecarsOf, OfCommit
      <4>2. r \in home'[cur].rows
        BY <2>1, <2>3, <3>1, <3>2, <4>1 DEF RowsOf, OfCommit
      <4> QED BY <3>1, <3>2, <4>2 DEF Has, RowsOf
    <3>3. CASE n # cur
      BY <2>1, <3>1, <3>3 DEF Has, RowsOf
    <3> QED BY <3>2, <3>3
  <2>5. \A n \in Seg : SidecarsOf(n)' = SidecarsOf(n)
    BY <2>1 DEF SidecarsOf
  <2> QED BY <2>4, <2>5 DEF SideInv, SidecarHasRow, Seg
<1>3. CASE ~ CommitPublish /\ ~ DiscardInDoubtTxn
  <2>1. \A n \in Seg : RowsOf(n) \subseteq RowsOf(n)' /\ SidecarsOf(n)' \subseteq SidecarsOf(n)
    BY <1>3, RowsStay, SidecarsStay
  <2> QED BY <2>1 DEF SideInv, SidecarHasRow, Has, Seg
<1> QED BY <1>1, <1>2, <1>3

LEMMA CommitMarkedStep ==
  ASSUME Base, SideInv, Next
  PROVE  CommitMarked'
<1> USE DEF Base
<1>1. CASE CommitStart /\ pc' = "commit_flush"
  <2>1. PICK r \in Row : r.cid = nextCommit /\ r.kind = "REPLAY" /\ AppendRow(r)
    BY <1>1, CommitStarts
  <2>2. /\ home'[cur].rows \union buf' = home[cur].rows \union buf \union {r}
        /\ UNCHANGED <<cur, nextCommit>>
    BY <1>1, <2>1, CommitStarts, AppendLogs, LogIsInShape DEF Logged
  <2>3. r \in LogRows'
    BY <2>2 DEF LogRows
  <2>4. Has(LogRows, nextCommit, "REPLAY")'
    BY <2>1, <2>2, <2>3 DEF Has
  <2> QED BY <1>1, <2>4 DEF CommitMarked
<1>2. CASE CommitFlush
  <2>1. Has(LogRows, nextCommit, "REPLAY")
    BY <1>2 DEF CommitFlush, SideInv, CommitMarked
  <2>2. /\ home'[cur].rows \union buf' = home[cur].rows \union buf /\ buf' = {}
        /\ UNCHANGED <<cur, nextCommit>> /\ pc' = "commit_publish"
    BY <1>2, FlushLogs, LogIsInShape DEF Logged, CommitFlush
  <2>3. Has(home[cur].rows, nextCommit, "REPLAY")'
    BY <2>1, <2>2 DEF Has, LogRows
  <2> QED BY <2>2, <2>3 DEF CommitMarked
<1>3. CASE RecoverInDoubtTxn /\ pc' = "open_discard"
  <2> DEFINE outcome == RecoveryOutcome(db.commitId, Slave, FateOf(home[cur].rows, Slave))
  <2>1. outcome = "discard"
    BY <1>3 DEF RecoverInDoubtTxn
  <2>2. /\ homeTxn' = [homeTxn EXCEPT ![cur] = @ \ OfCommit(@, Slave)]
        /\ UNCHANGED <<home, cur, db>>
    BY <2>1, <1>3 DEF RecoverInDoubtTxn
  <2>3. home[cur].rows \in SUBSET Row /\ IsFiniteSet(home[cur].rows) /\ cur \in Seg
        /\ homeTxn \in [Seg -> SUBSET Row] /\ db.commitId \in Nat
    BY DEF TypeInv, TypeOK, FiniteRows, Segment
  <2>4. Slave \in Nat
    BY <2>3, LastCommitIdType DEF Slave
  <2>5. Slave' = Slave
    BY <2>2 DEF Slave
  <2>6. Slave > db.commitId
    <3> HIDE DEF Slave
    <3> QED BY <2>1, <2>3, <2>4 DEF RecoveryOutcome, FateOf
  <2>7. OfCommit(homeTxn'[cur], Slave) = {}
    BY <2>2, <2>3 DEF OfCommit
  <2> QED BY <1>3, <2>2, <2>5, <2>6, <2>7 DEF CommitMarked
<1>4. CASE pc' \notin {"commit_flush", "commit_publish", "open_discard"}
  BY <1>4 DEF CommitMarked
<1>5. /\ pc' = "commit_publish" => CommitFlush
      /\ pc' = "commit_flush" => CommitStart
      /\ pc' = "open_discard" => RecoverInDoubtTxn
  BY ScanSucceeds DEF Next, Crash, Open, OpenDevice, OpenResolved, RecoverInDoubtTxn, DiscardInDoubtTxn, OpenPersist,
     Create, CreateFile, CreateSchema, Txn, Execute, ExecuteUnlogged, FlushLog, Commit,
     CommitStart, CommitFlush, CommitPublish, CommitDb, CommitDbFails, CommitRow, FateRow, CommitDone,
     EndTxn, Rollback, RollbackStart, RollbackRow, RollbackDone, Roll, RollRequested, RollRefused,
     RollClaim, RollPersist, Close, CloseStart, CloseShips, CloseKeeps, Finalize, FinalizeRows,
     MarkReady, Mover, MoverCopies, MoverCopyFails, MoverRemoves, Delivered, Down
<1> QED BY <1>1, <1>2, <1>3, <1>4, <1>5

LEMMA SideStep ==
  ASSUME Base, SideInv, [Next]_vars
  PROVE  SideInv'
<1>1. CASE UNCHANGED vars
  BY <1>1 DEF vars, disk, memory, txn, SideInv, SidecarHasRow, NoOps, CommitMarked, SidecarsOf, RowsOf,
     AllRows, DurableRows, LogRows, Slave, Has, Seg
<1>2. CASE Next
  <2>1. NoOps'
    BY <1>2, RowsAdded DEF SideInv, NoOps, NewRow
  <2> QED BY <1>2, <2>1, SidecarHasRowStep, CommitMarkedStep DEF SideInv
<1> QED BY <1>1, <1>2

--------------------------------------------------------------------------------
(* How segments end                                                            *)

\* A finalized segment ends with the fate of its last transaction.
ReadyDecided ==
  /\ \A n \in Seg : home[n].status = "READY" => LastFateDecided(home[n].rows)
  /\ \A n \in Seg : stage[n].status = "READY" => LastFateDecided(stage[n].rows)
  /\ pc \in {"finalize", "mark_ready"} => LastFateDecided(LogRows)
  /\ pc = "mark_ready" => buf = {}

\* The last commit of the database, in the segment that is open for writing, may lack
\* its COMMIT row until commit has logged it or the next open found out.
InDoubt(n, c) ==
  /\ c = db.commitId /\ home[n].status = "NEW"
  /\ \A r \in home[n].rows : r.cid <= c
  /\ pc \in Down \union {"open_recover", "commit_row", "commit_done"}

\* A commit of the database whose id is in a segment has its COMMIT row there.
DoneLogged ==
  /\ \A n \in Seg : \A c \in CommitIds(home[n].rows) \intersect db.done :
       Has(home[n].rows, c, "COMMIT") \/ InDoubt(n, c)
  /\ \A n \in Seg : \A c \in CommitIds(stage[n].rows) \intersect db.done :
       Has(stage[n].rows, c, "COMMIT")
  /\ pc = "commit_done" => Has(LogRows, nextCommit, "COMMIT")

EndInv == ReadyDecided /\ DoneLogged

\* A step that finalizes and stages nothing.
LEMMA ReadyKept ==
  ASSUME ReadyDecided, UNCHANGED stage,
         \A n \in Seg : home'[n].status = "READY" => home'[n] = home[n],
         pc' \notin {"finalize", "mark_ready"}
  PROVE  ReadyDecided'
BY DEF ReadyDecided, Seg

LEMMA ReadyDecidedStep ==
  ASSUME Base, ReadyDecided, Next
  PROVE  ReadyDecided'
<1> USE DEF Base
<1>1. CASE OpenDevice
  <2>1. /\ \A n \in Seg : home'[n] \in {home[n], NoFile}
        /\ UNCHANGED stage /\ pc' \in {"open_recover", "open_create"}
    BY <1>1, OpenTakes, ResolvedShape, LogIsInShape
  <2>2. \A n \in Seg : home'[n].status = "READY" => home'[n] = home[n]
    BY <2>1 DEF NoFile
  <2> QED BY <2>1, <2>2, ReadyKept
<1>2. CASE WriterStep /\ UNCHANGED stage /\ pc \in CurOpen /\ pc' \notin {"finalize", "mark_ready"}
  <2>1. \A n \in Seg : home'[n].status = "READY" => home'[n] = home[n]
    BY <1>2 DEF WriterStep, TypeInv, StepShape
  <2> QED BY <1>2, <2>1, ReadyKept
<1>3. CASE UNCHANGED <<home, stage>> /\ pc' \notin {"finalize", "mark_ready"}
  BY <1>3, ReadyKept
<1>4. CASE RecoverInDoubtTxn
  <2>1. CASE RecoveryOutcome(db.commitId, Slave, FateOf(home[cur].rows, Slave)) = "COMMIT"
    BY <1>2, <1>4, <2>1, RecoveryCommits DEF RecoverInDoubtTxn, CurOpen
  <2>2. CASE RecoveryOutcome(db.commitId, Slave, FateOf(home[cur].rows, Slave)) # "COMMIT"
    BY <1>3, <1>4, <2>2 DEF RecoverInDoubtTxn
  <2> QED BY <2>1, <2>2
<1>5. CASE DiscardInDoubtTxn
  <2>1. /\ \A n \in Seg : home'[n].status = home[n].status
        /\ \A n \in Seg : n # cur => home'[n] = home[n]
        /\ pc = "open_discard" /\ pc' = "open_persist" /\ UNCHANGED stage
    BY <1>5, DiscardEffect
  <2>2. home[cur].status = "NEW"
    BY <2>1 DEF TypeInv, StepShape, CurOpen
  <2> QED BY <2>1, <2>2, ReadyKept
<1>6. CASE Create
  <2>1. /\ \A n \in Seg : n # slot => home'[n] = home[n]
        /\ home'[slot].status # "READY" /\ UNCHANGED stage
    BY <1>6, CreateEffect
  <2>2. pc' \notin {"finalize", "mark_ready"}
    BY <1>6 DEF Create, CreateFile, CreateSchema
  <2> QED BY <2>1, <2>2, ReadyKept
<1>7. CASE Txn \/ Commit \/ Rollback \/ CloseStart
  <2>1. /\ WriterStep /\ UNCHANGED stage /\ pc' # "finalize"
        /\ pc \in Writing \union {"idle", "finalize"}
        /\ pc' \in Writing \union {"idle", "roll_check", "close_check", "mark_ready"}
    BY <1>7, CallWrites DEF Writing
  <2>2. pc' # "mark_ready"
    BY <1>7, CommitStarts, CloseStarts DEF Txn, Execute, ExecuteUnlogged, FlushLog, Commit, CommitFlush,
       CommitPublish, CommitDb, CommitDbFails, CommitRow, FateRow, CommitDone, EndTxn, Rollback,
       RollbackStart, RollbackRow, RollbackDone
  <2> QED BY <1>2, <2>1, <2>2 DEF CurOpen
<1>8. CASE Crash \/ OpenPersist \/ RollRequested \/ RollRefused \/ RollPersist \/ CloseKeeps
           \/ MoverCopyFails \/ Delivered
  BY <1>3, <1>8 DEF Crash, OpenPersist, RollRequested, RollRefused, RollPersist, CloseKeeps,
     MoverCopyFails, Delivered, disk, TypeInv, StepShape
<1>9. CASE RollClaim \/ CloseShips
  <2>1. /\ AtCommitBoundary /\ pc' = "finalize" /\ UNCHANGED <<home, stage, buf, cur>>
    BY <1>9, RollTakesNext DEF CloseShips, disk
  <2> QED BY <2>1 DEF AtCommitBoundary, ReadyDecided, LogRows, Seg
<1>10. CASE FinalizeRows
  <2>1. /\ pc = "finalize" /\ pc' = "mark_ready" /\ UNCHANGED <<stage, cur>>
        /\ WriterStep /\ Logged({}) /\ buf' = {}
    BY <1>10, FlushLogs, LogIsInShape DEF FinalizeRows
  <2>2. LogRows' = LogRows
    BY <2>1 DEF LogRows, Logged
  <2>3. \A n \in Seg : home'[n].status = "READY" => home'[n] = home[n]
    BY <2>1 DEF WriterStep, TypeInv, StepShape, CurOpen
  <2> QED BY <2>1, <2>2, <2>3 DEF ReadyDecided, Seg
<1>11. CASE MarkReady
  <2>1. /\ pc = "mark_ready" /\ pc' \in {"deliver", "roll_create"} /\ UNCHANGED stage
        /\ home'[cur].rows = home[cur].rows
        /\ \A n \in Seg : n # cur => home'[n] = home[n]
    BY <1>11, MarkEffect
  <2>2. LastFateDecided(home'[cur].rows)
    BY <2>1 DEF ReadyDecided, LogRows
  <2> QED BY <2>1, <2>2 DEF ReadyDecided, Seg
<1>12. CASE MoverCopies
  <2>1. PICK n \in todo : stage' = [stage EXCEPT ![n] = home[n]]
    BY <1>12 DEF MoverCopies
  <2>2. UNCHANGED home /\ pc' = "remove" /\ stage \in [Seg -> Segment]
    BY <1>12 DEF MoverCopies, TypeInv, TypeOK
  <2> QED BY <2>1, <2>2 DEF ReadyDecided, Seg
<1>13. CASE MoverRemoves
  <2>1. pc' = "deliver" /\ UNCHANGED stage /\ \A n \in Seg : home'[n] \in {home[n], NoFile}
    BY <1>13, RemoveEffect
  <2>2. \A n \in Seg : home'[n].status = "READY" => home'[n] = home[n]
    BY <2>1 DEF NoFile
  <2> QED BY <2>1, <2>2, ReadyKept
<1> QED BY <1>1, <1>4, <1>5, <1>6, <1>7, <1>8, <1>9, <1>10, <1>11, <1>12, <1>13
    DEF Next, Open, Roll, Close, Finalize, Mover

\* A step that brings no row of a commit of the database into a file, and loses no COMMIT row.
LEMMA DoneKept ==
  ASSUME DoneLogged, UNCHANGED <<stage, db>>, pc' # "commit_done",
         \A n \in Seg :
           /\ \A r \in home'[n].rows : r.cid \in db.done => r \in home[n].rows
           /\ \A r \in home[n].rows : r.cid \in db.done /\ home'[n].rows # {} => r \in home'[n].rows,
         \A n \in Seg : \A c \in CommitIds(home'[n].rows) \intersect db.done :
           InDoubt(n, c) => InDoubt(n, c)' \/ Has(home'[n].rows, c, "COMMIT")
  PROVE  DoneLogged'
<1>1. ASSUME NEW n \in Seg, NEW c \in CommitIds(home'[n].rows) \intersect db.done
      PROVE  Has(home'[n].rows, c, "COMMIT") \/ InDoubt(n, c)'
  <2>1. c \in CommitIds(home[n].rows) /\ home'[n].rows # {}
    BY <1>1 DEF CommitIds
  <2>2. CASE Has(home[n].rows, c, "COMMIT")
    BY <1>1, <2>1, <2>2 DEF Has
  <2>3. CASE InDoubt(n, c)
    BY <1>1, <2>3
  <2> QED BY <1>1, <2>1, <2>2, <2>3 DEF DoneLogged
<1>2. ASSUME NEW n \in Seg, NEW c \in CommitIds(stage'[n].rows) \intersect db'.done
      PROVE  Has(stage'[n].rows, c, "COMMIT")
  BY <1>2 DEF DoneLogged
<1> QED BY <1>1, <1>2 DEF DoneLogged, Seg

\* The same for a step under which no row changes.
LEMMA DoneUntouched ==
  ASSUME DoneLogged, UNCHANGED <<stage, db>>, pc' # "commit_done",
         \A n \in Seg : home'[n].rows \in {home[n].rows, {}},
         \/ pc \notin Down \union {"open_recover", "commit_row", "commit_done"}
         \/ pc' \in Down /\ UNCHANGED home
  PROVE  DoneLogged'
<1>1. \A n \in Seg, c \in db.done : InDoubt(n, c) => InDoubt(n, c)'
  BY DEF InDoubt
<1> QED BY <1>1, DoneKept

\* A step of the writer while the database has not committed the transaction.
LEMMA DoneWriter ==
  ASSUME Base, DoneLogged, WriterStep, UNCHANGED <<stage, db>>,
         \A r \in home'[cur].rows : r \in LogRows \/ r.cid = nextCommit,
         pc \notin Down \union {"open_recover", "commit_row", "commit_done"}, pc' # "commit_done"
  PROVE  DoneLogged'
<1> USE DEF Base
<1>1. db.commitId < nextCommit /\ db.commitId \in Nat /\ nextCommit \in Nat /\ cur \in Seg
  BY DEF IdInv, DbFresh, TypeInv, TypeOK
<1>2. nextCommit \notin db.done
  BY <1>1 DEF IdInv, DbShape
<1>3. \A r \in home'[cur].rows : r \in home[cur].rows \/ r.cid = nextCommit
  BY DEF IdInv, BufIsCurrent, LogRows
<1>4. ASSUME NEW n \in Seg
      PROVE  /\ \A r \in home'[n].rows : r.cid \in db.done => r \in home[n].rows
             /\ home[n].rows \subseteq home'[n].rows
  BY <1>2, <1>3 DEF WriterStep
<1>5. \A n \in Seg, c \in db.done : ~ InDoubt(n, c)
  BY DEF InDoubt
<1> QED BY <1>4, <1>5, DoneKept

\* Only one segment is open for writing.
LEMMA OneIsNew ==
  ASSUME TypeInv, NEW n \in Seg, home[n].status = "NEW", home[cur].status = "NEW"
  PROVE  n = cur
<1>1. cur \in Seg /\ cur \in Int /\ n \in Int
  BY BoundsAssumption DEF TypeInv, TypeOK, Seg
<1> QED BY <1>1 DEF TypeInv, HomeShape

LEMMA DoneOpen ==
  ASSUME Base, SideInv, DoneLogged, Open \/ Create
  PROVE  DoneLogged'
<1> USE DEF Base
<1>1. CASE OpenDevice
  <2>1. /\ pc \in Down /\ home' = Resolved
        /\ \/ pc' = "open_recover"
           \/ /\ pc' = "open_create"
              /\ \A n \in Seg : home'[n].status \in {"absent", "READY"}
        /\ UNCHANGED <<stage, db>>
    BY <1>1, OpenTakes
  <2>2. \A n \in Seg : /\ home'[n].rows = home[n].rows
                       /\ home[n].status = "NEW" => home'[n] = home[n]
    BY <2>1, ResolvedShape, LogIsInShape
  <2>3. \A n \in Seg, c \in db.done : InDoubt(n, c) => InDoubt(n, c)'
    BY <2>1, <2>2 DEF InDoubt
  <2> QED BY <2>1, <2>2, <2>3, DoneKept
<1>2. CASE RecoverInDoubtTxn
  <2> DEFINE fate == FateOf(home[cur].rows, Slave)
             outcome == RecoveryOutcome(db.commitId, Slave, fate)
  <2>1. /\ cur \in Seg /\ pc = "open_recover" /\ home[cur].status = "NEW"
        /\ home[cur].rows \in SUBSET Row /\ IsFiniteSet(home[cur].rows)
    BY <1>2 DEF RecoverInDoubtTxn, TypeInv, TypeOK, FiniteRows, Segment, StepShape, CurOpen
  \* The commit that is in doubt is the last of the segment.
  <2>2. ASSUME NEW n \in Seg, NEW c \in CommitIds(home[n].rows) \intersect db.done, InDoubt(n, c)
        PROVE  n = cur /\ Slave = c /\ c = db.commitId /\ c # 0
    <3>1. n = cur /\ c = db.commitId /\ \A r \in home[cur].rows : r.cid <= c
      BY <2>1, <2>2, OneIsNew DEF InDoubt
    <3>2. c # 0 /\ c \in Nat /\ \E r \in home[cur].rows : r.cid = c
      BY <2>2, <3>1 DEF IdInv, DbShape, CommitIds, TypeInv, TypeOK
    <3>3. /\ \E r \in home[cur].rows : r.cid = Slave
          /\ \A r \in home[cur].rows : r.cid <= Slave
      BY <2>1, <3>2, LastCommitIdIsMax DEF Slave
    <3>4. Slave = c
      <4>1. \A r \in home[cur].rows : r.cid \in Nat
        BY <2>1 DEF Row
      <4> HIDE DEF Slave
      <4> QED BY <3>1, <3>2, <3>3, <4>1
    <3> QED BY <3>1, <3>2, <3>4
  <2>3. CASE outcome = "refuse"
    <3>1. pc' = "refused" /\ UNCHANGED <<home, stage, db>>
      BY <1>2, <2>3 DEF RecoverInDoubtTxn
    <3> QED BY <3>1, DoneUntouched DEF Down
  <2>4. CASE outcome = "COMMIT"
    <3> DEFINE r == MakeRow(nextNum, Slave, "COMMIT")
    <3>1. /\ Slave = db.commitId /\ WriterStep /\ home'[cur].rows = home[cur].rows \union {r}
          /\ pc' = "open_persist" /\ UNCHANGED <<stage, db>>
      BY <1>2, <2>4, RecoveryCommits
    <3>2. r.cid = db.commitId /\ r.kind = "COMMIT"
      BY <3>1 DEF MakeRow
    <3> HIDE DEF r
    <3>3. Has(home'[cur].rows, db.commitId, "COMMIT")
      BY <3>1, <3>2 DEF Has
    <3>4. ASSUME NEW n \in Seg, NEW c \in CommitIds(home'[n].rows) \intersect db.done
          PROVE  Has(home'[n].rows, c, "COMMIT")
      <4>1. CASE n = cur /\ c = db.commitId
        BY <3>3, <4>1
      <4>2. CASE ~ (n = cur /\ c = db.commitId)
        <5>1. c \in CommitIds(home[n].rows) /\ home[n].rows \subseteq home'[n].rows
          BY <3>1, <3>2, <3>4, <4>2 DEF CommitIds, WriterStep
        <5>2. ~ InDoubt(n, c)
          BY <2>2, <3>4, <4>2, <5>1
        <5> QED BY <3>4, <5>1, <5>2 DEF DoneLogged, Has
      <4> QED BY <4>1, <4>2
    <3>5. \A n \in Seg : \A c \in CommitIds(stage'[n].rows) \intersect db'.done :
            Has(stage'[n].rows, c, "COMMIT")
      BY <3>1 DEF DoneLogged
    <3> QED BY <3>1, <3>4, <3>5 DEF DoneLogged, Seg
  <2>5. CASE outcome \notin {"refuse", "COMMIT"}
    <3>1. pc' \in {"open_discard", "open_persist"} /\ UNCHANGED <<home, stage, db>>
      BY <1>2, <2>5 DEF RecoverInDoubtTxn
    <3>2. ASSUME NEW n \in Seg, NEW c \in CommitIds(home[n].rows) \intersect db.done, InDoubt(n, c)
          PROVE  Has(home[n].rows, c, "COMMIT")
      <4>1. n = cur /\ Slave = c /\ c = db.commitId /\ c # 0 /\ c \in Nat
        BY <2>2, <3>2 DEF TypeInv, TypeOK
      <4>2. fate = "Commit"
        <5>1. fate \in {"Commit", "Rollback", "Unknown"}
          BY DEF FateOf
        <5> HIDE DEF fate, Slave
        <5> QED BY <2>5, <4>1, <5>1 DEF RecoveryOutcome
      <4> QED BY <4>1, <4>2 DEF FateOf
    <3> QED BY <3>1, <3>2, DoneKept
  <2> QED BY <2>3, <2>4, <2>5
<1>3. CASE DiscardInDoubtTxn
  <2>1. /\ \A n \in Seg : n # cur => home'[n] = home[n]
        /\ home'[cur].rows = home[cur].rows \ OfCommit(home[cur].rows, Slave)
        /\ pc = "open_discard" /\ pc' = "open_persist" /\ UNCHANGED <<stage, db>>
    BY <1>3, DiscardEffect
  <2>2. Slave > db.commitId /\ home[cur].rows \in SUBSET Row /\ IsFiniteSet(home[cur].rows)
    BY <2>1 DEF SideInv, CommitMarked, TypeInv, TypeOK, FiniteRows, Segment
  <2>3. Slave \in Nat /\ db.commitId \in Nat /\ db.done \in SUBSET Nat
    BY <2>2, LastCommitIdType DEF Slave, TypeInv, TypeOK
  <2>4. Slave \notin db.done
    <3> HIDE DEF Slave
    <3> QED BY <2>2, <2>3 DEF IdInv, DbShape
  <2>5. ASSUME NEW n \in Seg
        PROVE  /\ \A r \in home'[n].rows : r \in home[n].rows
               /\ \A r \in home[n].rows : r.cid \in db.done => r \in home'[n].rows
    BY <2>1, <2>4 DEF OfCommit
  <2>6. \A n \in Seg, c \in db.done : ~ InDoubt(n, c)
    BY <2>1 DEF InDoubt, Down
  <2> QED BY <2>1, <2>5, <2>6, DoneKept
<1>4. CASE OpenPersist
  BY <1>4, DoneUntouched DEF OpenPersist, Down
<1>5. CASE Create
  <2>1. /\ \A n \in Seg : home'[n].rows = home[n].rows
        /\ UNCHANGED <<stage, db>>
    BY <1>5, CreateEffect
  <2>2. pc \in {"open_create", "roll_create", "open_schema", "roll_schema"} /\ pc' # "commit_done"
    BY <1>5 DEF Create, CreateFile, CreateSchema
  <2> QED BY <2>1, <2>2, DoneUntouched DEF Down
<1> QED BY <1>1, <1>2, <1>3, <1>4, <1>5 DEF Open

LEMMA DoneCommit ==
  ASSUME Base, DoneLogged, Commit
  PROVE  DoneLogged'
<1> USE DEF Base
<1>0. pc \notin Down \union {"open_recover"} /\ home[cur].status = "NEW" /\ cur \in Seg
  BY DEF Commit, CommitStart, CommitFlush, CommitPublish, CommitDb, CommitDbFails, CommitRow,
         FateRow, CommitDone, EndTxn, TypeInv, TypeOK, StepShape, CurOpen, Writing, Down
<1>1. CASE CommitStart
  <2>1. /\ pc = "idle" /\ UNCHANGED <<stage, db>> /\ pc' \in {"commit_db", "commit_flush"}
        /\ \/ UNCHANGED <<home, buf>>
           \/ \E r \in Row : r.cid = nextCommit /\ r.kind = "REPLAY" /\ AppendRow(r)
    BY <1>1, CommitStarts
  <2>2. CASE UNCHANGED <<home, buf>>
    BY <1>0, <2>1, <2>2, DoneUntouched
  <2>3. ASSUME NEW r \in Row, r.cid = nextCommit, AppendRow(r)
        PROVE  DoneLogged'
    <3>1. WriterStep /\ \A q \in home'[cur].rows : q \in LogRows \/ q.cid = nextCommit
      BY <2>3, AppendLogs, LogIsInShape DEF Logged, LogRows
    <3> QED BY <1>0, <2>1, <2>3, <3>1, DoneWriter
  <2> QED BY <2>1, <2>2, <2>3
<1>2. CASE CommitFlush
  <2>1. WriterStep /\ \A q \in home'[cur].rows : q \in LogRows
    BY <1>2, FlushLogs, LogIsInShape DEF CommitFlush, Logged, LogRows
  <2>2. /\ pc \notin Down \union {"open_recover", "commit_row", "commit_done"} /\ pc' # "commit_done"
        /\ UNCHANGED <<stage, db>>
    BY <1>0, <1>2 DEF CommitFlush
  <2> QED BY <2>1, <2>2, DoneWriter
<1>3. CASE CommitPublish \/ CommitDbFails
  BY <1>0, <1>3, DoneUntouched DEF CommitPublish, CommitDbFails, disk
<1>4. CASE CommitDb
  <2>1. /\ pc = "commit_db" /\ pc' = "commit_row" /\ UNCHANGED <<home, stage, nextCommit>>
        /\ db'.commitId = nextCommit /\ db'.done = db.done \union {nextCommit}
    BY <1>4 DEF CommitDb
  <2>2. \A n \in Seg : \A r \in RowsOf(n) : r.cid <= nextCommit /\ (r.cid = nextCommit => n = cur)
    BY <2>1, LogTyped DEF IdInv, RowsBelowNext, OthersBelow, Down
  <2>3. ASSUME NEW n \in Seg, NEW c \in CommitIds(home'[n].rows) \intersect db'.done
        PROVE  Has(home'[n].rows, c, "COMMIT") \/ InDoubt(n, c)'
    <3>1. CASE c = nextCommit
      <4>1. n = cur /\ \A r \in home[n].rows : r.cid <= nextCommit
        BY <2>1, <2>2, <2>3, <3>1 DEF CommitIds, RowsOf
      <4> QED BY <1>0, <2>1, <3>1, <4>1 DEF InDoubt
    <3>2. CASE c # nextCommit
      <4>1. c \in CommitIds(home[n].rows) \intersect db.done /\ ~ InDoubt(n, c)
        BY <2>1, <2>3, <3>2 DEF InDoubt, Down
      <4> QED BY <2>1, <4>1 DEF DoneLogged
    <3> QED BY <3>1, <3>2
  <2>4. ASSUME NEW n \in Seg, NEW c \in CommitIds(stage'[n].rows) \intersect db'.done
        PROVE  Has(stage'[n].rows, c, "COMMIT")
    <3>1. c # nextCommit
      <4>1. stage[cur].rows = {}
        BY <1>0, CurIsNotStaged
      <4> QED BY <2>1, <2>2, <2>4, <4>1 DEF CommitIds, RowsOf
    <3> QED BY <2>1, <2>4, <3>1 DEF DoneLogged
  <2> QED BY <2>1, <2>3, <2>4 DEF DoneLogged, Seg
<1>5. CASE CommitRow
  <2> DEFINE r == MakeRow(nextNum, nextCommit, "COMMIT")
  <2>1. r \in Row /\ r.cid = nextCommit /\ r.kind = "COMMIT"
    BY DEF MakeRow, Row, RowKind, TypeInv, TypeOK
  <2>2. /\ pc = "commit_row" /\ pc' = "commit_done" /\ AppendRow(r)
        /\ UNCHANGED <<stage, db, cur, nextCommit>>
    BY <1>5 DEF CommitRow, FateRow
  <2> HIDE DEF r
  <2>3. /\ WriterStep
        /\ home'[cur].rows \union buf' = home[cur].rows \union buf \union {r}
    BY <2>1, <2>2, AppendLogs, LogIsInShape DEF Logged
  <2>4. Has(LogRows, nextCommit, "COMMIT")'
    BY <2>1, <2>2, <2>3 DEF Has, LogRows
  <2>5. db.commitId = nextCommit /\ nextCommit \in Nat
    BY <2>2 DEF IdInv, DbFresh, TypeInv, TypeOK
  <2>6. \A q \in home'[cur].rows : q \in home[cur].rows \/ q.cid = nextCommit
    BY <2>1, <2>3 DEF IdInv, BufIsCurrent
  <2>7. \A q \in home'[cur].rows : q.cid <= nextCommit
    <3>1. \A q \in home[cur].rows : q.cid <= nextCommit
      BY <1>0, <2>2, LogTyped DEF IdInv, RowsBelowNext, Down, RowsOf
    <3> QED BY <2>5, <2>6, <3>1
  <2>8. ASSUME NEW n \in Seg, NEW c \in CommitIds(home'[n].rows) \intersect db'.done
        PROVE  Has(home'[n].rows, c, "COMMIT") \/ InDoubt(n, c)'
    <3>1. CASE n = cur /\ c = nextCommit
      BY <1>0, <2>2, <2>3, <2>5, <2>7, <3>1 DEF InDoubt, WriterStep
    <3>2. CASE n = cur /\ c # nextCommit
      <4>1. c \in CommitIds(home[n].rows) \intersect db.done /\ ~ InDoubt(n, c)
        BY <2>2, <2>5, <2>6, <2>8, <3>2 DEF InDoubt, CommitIds
      <4> QED BY <2>3, <3>2, <4>1 DEF DoneLogged, Has, WriterStep
    <3>3. CASE n # cur
      <4>1. home'[n] = home[n]
        BY <2>3, <3>3 DEF WriterStep
      <4>2. ~ InDoubt(n, c)
        BY <1>0, <3>3, OneIsNew DEF InDoubt
      <4> QED BY <2>2, <2>8, <4>1, <4>2 DEF DoneLogged
    <3> QED BY <3>1, <3>2, <3>3
  <2>9. \A n \in Seg : \A c \in CommitIds(stage'[n].rows) \intersect db'.done :
          Has(stage'[n].rows, c, "COMMIT")
    BY <2>2 DEF DoneLogged
  <2> QED BY <2>4, <2>8, <2>9 DEF DoneLogged, Seg
<1>6. CASE CommitDone
  <2>1. /\ pc = "commit_done" /\ pc' \in {"idle", "roll_check"} /\ Flush
        /\ UNCHANGED <<stage, db, cur>>
    <3>1. CASE cur < MaxSegment
      BY <1>6, <3>1 DEF CommitDone, EndTxn
    <3>2. CASE ~ (cur < MaxSegment)
      BY <1>6, <3>2 DEF CommitDone, EndTxn
    <3> QED BY <3>1, <3>2
  <2>2. /\ WriterStep
        /\ home'[cur].rows = LogRows
    BY <2>1, FlushLogs, LogIsInShape DEF Logged, LogRows
  <2>3. db.commitId = nextCommit /\ Has(LogRows, nextCommit, "COMMIT")
    BY <2>1 DEF IdInv, DbFresh, DoneLogged
  <2>4. ASSUME NEW n \in Seg, NEW c \in CommitIds(home'[n].rows) \intersect db'.done
        PROVE  Has(home'[n].rows, c, "COMMIT")
    <3>1. CASE n = cur /\ c = nextCommit
      BY <2>2, <2>3, <3>1
    <3>2. CASE n = cur /\ c # nextCommit
      <4>1. c \in CommitIds(home[n].rows) \intersect db.done /\ ~ InDoubt(n, c)
        BY <2>1, <2>2, <2>3, <2>4, <3>2 DEF InDoubt, CommitIds, LogRows, IdInv, BufIsCurrent
      <4> QED BY <2>2, <3>2, <4>1 DEF DoneLogged, Has, LogRows
    <3>3. CASE n # cur
      <4>1. home'[n] = home[n]
        BY <2>2, <3>3 DEF WriterStep
      <4>2. ~ InDoubt(n, c)
        BY <1>0, <3>3, OneIsNew DEF InDoubt
      <4> QED BY <2>1, <2>4, <4>1, <4>2 DEF DoneLogged
    <3> QED BY <3>1, <3>2, <3>3
  <2>5. \A n \in Seg : \A c \in CommitIds(stage'[n].rows) \intersect db'.done :
          Has(stage'[n].rows, c, "COMMIT")
    BY <2>1 DEF DoneLogged
  <2> QED BY <2>1, <2>4, <2>5 DEF DoneLogged, Seg
<1> QED BY <1>1, <1>2, <1>3, <1>4, <1>5, <1>6 DEF Commit

LEMMA DoneOthers ==
  ASSUME Base, DoneLogged, Txn \/ Rollback \/ Roll \/ Close \/ Finalize
  PROVE  DoneLogged'
<1> USE DEF Base
<1>1. ASSUME NEW r \in Row, r.cid = nextCommit, AppendRow(r), UNCHANGED <<stage, db>>,
             pc \notin Down \union {"open_recover", "commit_row", "commit_done"}, pc' # "commit_done"
      PROVE  DoneLogged'
  <2>1. WriterStep /\ \A q \in home'[cur].rows : q \in LogRows \/ q.cid = nextCommit
    BY <1>1, AppendLogs, LogIsInShape DEF Logged, LogRows
  <2> QED BY <1>1, <2>1, DoneWriter
<1>2. CASE UNCHANGED <<home, stage, db>> /\ pc' # "commit_done"
           /\ (pc \in {"idle", "roll_check", "roll_persist", "close_check", "commit_failed"})
  BY <1>2, DoneUntouched DEF Down
<1>3. CASE Txn
  <2>1. pc = "idle" /\ pc' = "idle" /\ UNCHANGED <<stage, db>>
    BY <1>3 DEF Txn, Execute, ExecuteUnlogged, FlushLog, disk
  <2>2. CASE BeginRow
    <3>1. PICK r \in Row : r = MakeRow(nextNum, nextCommit, "BEGIN") /\ AppendRow(r)
      BY <2>2, BeginAppends
    <3>2. r.cid = nextCommit /\ AppendRow(r)
      BY <3>1 DEF MakeRow
    <3> QED BY <1>1, <2>1, <3>2 DEF Down
  <2>3. CASE UNCHANGED home
    BY <1>2, <2>1, <2>3
  <2> QED BY <1>3, <2>2, <2>3 DEF Txn, Execute, ExecuteUnlogged, FlushLog, disk
<1>4. CASE RollbackStart \/ RollRequested \/ RollRefused \/ RollPersist \/ CloseShips
  <2>1. pc \in {"idle", "roll_check", "roll_persist", "close_check"} /\ pc' # "commit_done"
        /\ UNCHANGED <<home, stage, db>>
    BY <1>4 DEF RollbackStart, RollRequested, RollRefused, RollPersist, CloseShips, disk
  <2> QED BY <1>2, <2>1
<1>5. CASE RollClaim
  BY <1>2, <1>5, RollTakesNext
<1>6. CASE RollbackRow
  <2> DEFINE r == MakeRow(nextNum, nextCommit, "ROLLBACK")
  <2>1. r \in Row /\ r.cid = nextCommit
    BY DEF MakeRow, Row, RowKind, TypeInv, TypeOK
  <2>2. /\ pc = "rollback_row" /\ pc' = "rollback_done" /\ AppendRow(r) /\ UNCHANGED <<stage, db>>
    BY <1>6 DEF RollbackRow, FateRow
  <2> HIDE DEF r
  <2> QED BY <1>1, <2>1, <2>2 DEF Down
<1>7. CASE RollbackDone \/ FinalizeRows
  <2>1. WriterStep /\ \A q \in home'[cur].rows : q \in LogRows
    BY <1>7, FlushLogs, LogIsInShape DEF RollbackDone, EndTxn, FinalizeRows, Logged, LogRows
  <2>2. /\ pc \in {"rollback_done", "finalize"} /\ pc' # "commit_done" /\ UNCHANGED <<stage, db>>
    BY <1>7 DEF RollbackDone, EndTxn, FinalizeRows
  <2>3. pc \notin Down \union {"open_recover", "commit_row", "commit_done"}
    BY <2>2 DEF Down
  <2> QED BY <2>1, <2>2, <2>3, DoneWriter
<1>8. CASE CloseStart
  <2>1. /\ pc \in {"idle", "commit_failed"} /\ pc' = "close_check" /\ UNCHANGED <<stage, db>>
        /\ \/ UNCHANGED <<home, buf>>
           \/ \E r \in Row : r.cid = nextCommit /\ r.kind = "COMMIT" /\ AppendRow(r)
    BY <1>8, CloseStarts
  <2> QED BY <1>1, <1>2, <2>1 DEF Down
<1>9. CASE CloseKeeps
  BY <1>9, DoneUntouched DEF CloseKeeps, disk, Down
<1>10. CASE MarkReady
  <2>1. /\ pc = "mark_ready" /\ pc' \in {"deliver", "roll_create"} /\ UNCHANGED <<stage, db>>
        /\ \A n \in Seg : home'[n].rows = home[n].rows
    BY <1>10, MarkEffect
  <2> QED BY <2>1, DoneUntouched DEF Down
<1> QED BY <1>3, <1>4, <1>5, <1>6, <1>7, <1>8, <1>9, <1>10 DEF Rollback, Roll, Close, Finalize

LEMMA DoneMover ==
  ASSUME Base, DoneLogged, Mover
  PROVE  DoneLogged'
<1> USE DEF Base, Down
<1>1. CASE MoverCopies
  <2>1. PICK n \in todo : stage' = [stage EXCEPT ![n] = home[n]]
    BY <1>1 DEF MoverCopies
  <2>2. /\ pc = "deliver" /\ pc' = "remove" /\ UNCHANGED <<home, db>>
        /\ n \in Seg /\ stage \in [Seg -> Segment]
    BY <1>1 DEF MoverCopies, TypeInv, TypeOK
  <2>3. \A m \in Seg, c \in db.done : ~ InDoubt(m, c)
    BY <2>2 DEF InDoubt
  <2> QED BY <2>1, <2>2, <2>3 DEF DoneLogged, Seg
<1>2. CASE MoverCopyFails
  BY <1>2, DoneUntouched DEF MoverCopyFails
<1>3. CASE MoverRemoves
  <2>1. /\ pc = "remove" /\ pc' = "deliver" /\ UNCHANGED <<stage, db>>
        /\ \A n \in Seg : home'[n].rows \in {home[n].rows, {}}
    BY <1>3, RemoveEffect DEF NoFile
  <2> QED BY <2>1, DoneUntouched
<1>4. CASE Delivered
  BY <1>4, DoneUntouched DEF Delivered, disk
<1> QED BY <1>1, <1>2, <1>3, <1>4 DEF Mover

LEMMA EndStep ==
  ASSUME Base, SideInv, EndInv, [Next]_vars
  PROVE  EndInv'
<1>1. CASE UNCHANGED vars
  BY <1>1 DEF vars, disk, memory, EndInv, ReadyDecided, DoneLogged, InDoubt, LogRows, Has, Seg
<1>2. CASE Crash
  <2>1. DoneLogged'
    BY <1>2, DoneUntouched DEF Crash, disk, EndInv, Down
  <2> QED BY <1>2, <2>1, ReadyDecidedStep DEF EndInv, Next
<1>3. CASE Next
  <2>1. DoneLogged'
    BY <1>2, <1>3, DoneOpen, DoneCommit, DoneOthers, DoneMover DEF Next, EndInv
  <2> QED BY <1>3, <2>1, ReadyDecidedStep DEF EndInv
<1> QED BY <1>1, <1>3

\* All of it, for every usage.
DeviceInv == Base /\ SideInv /\ EndInv

LEMMA DeviceInvHolds == Spec => []DeviceInv
<1>1. ASSUME Init PROVE DeviceInv
  <2>1. Base
    BY <1>1, TypeInvInit, StageInit, IdInit DEF Base
  <2>2. SideInv
    BY <1>1 DEF Init, SideInv, SidecarHasRow, NoOps, CommitMarked, SidecarsOf, AllRows, DurableRows, NoFile
  <2>3. EndInv
    BY <1>1 DEF Init, EndInv, ReadyDecided, DoneLogged, CommitIds, NoFile
  <2> QED BY <2>1, <2>2, <2>3 DEF DeviceInv
<1>2. ASSUME DeviceInv, [Next]_vars PROVE DeviceInv'
  BY <1>2, TypeInvStep, StageStep, StatementsStep, IdStep, SideStep, EndStep DEF DeviceInv, Base
<1> QED BY <1>1, <1>2, PTL DEF Spec

--------------------------------------------------------------------------------
(* The sidecars and the user database                                          *)

\* The database changes when it commits.
LEMMA DbStays ==
  ASSUME Base, Next, ~ CommitDb
  PROVE  db' = db
<1>1. CASE OpenDevice \/ Create
  BY <1>1, OpenTakes, CreateEffect DEF Base
<1>2. CASE Crash \/ RecoverInDoubtTxn \/ DiscardInDoubtTxn \/ OpenPersist \/ Txn
  BY <1>2 DEF Crash, RecoverInDoubtTxn, DiscardInDoubtTxn, OpenPersist, Txn, Execute,
     ExecuteUnlogged, FlushLog, disk
<1>3. CASE Commit \/ Rollback
  BY <1>3, CommitStarts DEF Base, Commit, CommitFlush, CommitPublish, CommitDbFails, CommitRow, FateRow,
     CommitDone, EndTxn, Rollback, RollbackStart, RollbackRow, RollbackDone, disk
<1>4. CASE Roll \/ Close \/ Finalize \/ Mover
  BY <1>4, RollTakesNext, CloseStarts DEF Base, Roll, RollRequested, RollRefused, RollPersist,
     Close, CloseShips, CloseKeeps, Finalize, FinalizeRows, MarkReady, Mover, MoverCopies,
     MoverCopyFails, MoverRemoves, Delivered, disk
<1> QED BY <1>1, <1>2, <1>3, <1>4 DEF Next, Open

\* What a call writes to the segment has the next commit id.
LEMMA CallAdds ==
  ASSUME TypeInv, IdInv, Txn \/ Commit \/ Rollback \/ CloseStart \/ FinalizeRows
  PROVE  \A r \in home'[cur].rows : r \in home[cur].rows \/ r.cid = nextCommit
<1>1. \A r \in buf : r.cid = nextCommit
  BY DEF IdInv, BufIsCurrent
<1>2. ASSUME NEW q \in Row, q.cid = nextCommit, AppendRow(q)
      PROVE  \A r \in home'[cur].rows : r \in home[cur].rows \/ r.cid = nextCommit
  BY <1>1, <1>2, AppendLogs, LogIsInShape DEF Logged
<1>3. CASE Flush
  BY <1>1, <1>3, FlushLogs, LogIsInShape DEF Logged
<1>4. CASE UNCHANGED home
  BY <1>4
<1>5. ASSUME NEW kind \in RowKind, AppendRow(MakeRow(nextNum, nextCommit, kind))
      PROVE  \A r \in home'[cur].rows : r \in home[cur].rows \/ r.cid = nextCommit
  <2> DEFINE q == MakeRow(nextNum, nextCommit, kind)
  <2>1. q \in Row /\ q.cid = nextCommit
    BY DEF MakeRow, Row, TypeInv, TypeOK
  <2>2. AppendRow(q)
    BY <1>5
  <2> HIDE DEF q
  <2> QED BY <1>2, <2>1, <2>2
<1>6. CASE Txn
  <2>1. CASE BeginRow
    BY <1>5, <2>1 DEF BeginRow, RowKind
  <2> QED BY <1>4, <1>6, <2>1 DEF Txn, Execute, ExecuteUnlogged, FlushLog, disk
<1>7. CASE CommitStart \/ CloseStart
  <2>1. UNCHANGED home \/ \E q \in Row : q.cid = nextCommit /\ AppendRow(q)
    BY <1>7, CommitStarts, CloseStarts
  <2> QED BY <1>2, <1>4, <2>1
<1>8. CASE CommitRow \/ RollbackRow
  BY <1>5, <1>8 DEF CommitRow, RollbackRow, FateRow, RowKind
<1>9. CASE CommitFlush \/ CommitDone \/ RollbackDone \/ FinalizeRows
  BY <1>3, <1>9 DEF CommitFlush, CommitDone, RollbackDone, EndTxn, FinalizeRows
<1>10. CASE CommitPublish \/ CommitDb \/ CommitDbFails \/ RollbackStart
  BY <1>4, <1>10 DEF CommitPublish, CommitDb, CommitDbFails, RollbackStart, disk
<1> QED BY <1>6, <1>7, <1>8, <1>9, <1>10 DEF Commit, Rollback

\* A commit id comes into a segment when it is the next one and the segment is open for
\* writing, or with its rows.
LEMMA IdsAdded ==
  ASSUME Base, Next
  PROVE  \A n \in Seg : \A r \in RowsOf(n)' :
           \/ r.cid \in CommitIds(RowsOf(n))
           \/ n = cur /\ r.cid = nextCommit /\ home[cur].status = "NEW" /\ pc \notin Down
<1> USE DEF Base
<1>1. CASE \A n \in Seg : RowsOf(n)' \subseteq RowsOf(n)
  BY <1>1 DEF CommitIds
<1>2. CASE UNCHANGED stage /\ \A n \in Seg : home'[n].rows \in {home[n].rows, {}}
  BY <1>1, <1>2 DEF RowsOf
<1>3. CASE OpenDevice
  BY <1>2, <1>3, OpenTakes, ResolvedShape, LogIsInShape
<1>4. CASE RecoverInDoubtTxn
  <2>1. CASE RecoveryOutcome(db.commitId, Slave, FateOf(home[cur].rows, Slave)) = "COMMIT"
    <3> DEFINE r == MakeRow(nextNum, Slave, "COMMIT")
    <3>1. /\ Slave # 0 /\ WriterStep /\ home'[cur].rows = home[cur].rows \union {r}
          /\ UNCHANGED stage
      BY <1>4, <2>1, RecoveryCommits
    <3>2. r.cid = Slave
      BY DEF MakeRow
    <3> HIDE DEF r
    <3>3. Slave \in CommitIds(home[cur].rows)
      <4>1. home[cur].rows \in SUBSET Row /\ IsFiniteSet(home[cur].rows) /\ home[cur].rows # {}
        BY <3>1 DEF Slave, LastCommitId, TypeInv, TypeOK, FiniteRows, Segment
      <4> QED BY <4>1, LastCommitIdIsMax DEF Slave, CommitIds
    <3>4. \A n \in Seg : \A q \in RowsOf(n)' : q \in RowsOf(n) \/ (n = cur /\ q = r)
      BY <3>1 DEF RowsOf, WriterStep
    <3> QED BY <3>2, <3>3, <3>4 DEF CommitIds, RowsOf
  <2>2. CASE RecoveryOutcome(db.commitId, Slave, FateOf(home[cur].rows, Slave)) # "COMMIT"
    BY <1>2, <1>4, <2>2 DEF RecoverInDoubtTxn
  <2> QED BY <2>1, <2>2
<1>5. CASE DiscardInDoubtTxn
  <2>1. UNCHANGED stage /\ \A n \in Seg : home'[n].rows \subseteq home[n].rows
    BY <1>5, DiscardEffect
  <2> QED BY <1>1, <2>1 DEF RowsOf
<1>6. CASE Create
  <2>1. UNCHANGED stage /\ \A n \in Seg : home'[n].rows = home[n].rows
    BY <1>6, CreateEffect
  <2> QED BY <1>2, <2>1
<1>7. CASE Txn \/ Commit \/ Rollback \/ CloseStart \/ FinalizeRows
  <2>1. /\ UNCHANGED stage
        /\ \A n \in Seg : n # cur => home'[n] = home[n]
        /\ \A r \in home'[cur].rows : r \in home[cur].rows \/ r.cid = nextCommit
    BY <1>7, CallWrites, CallAdds DEF WriterStep
  <2>2. home[cur].status = "NEW" /\ pc \notin Down
    BY <1>7, CallWrites DEF TypeInv, StepShape, CurOpen, Writing, Down
  <2> QED BY <2>1, <2>2 DEF RowsOf, CommitIds
<1>8. CASE Crash \/ OpenPersist \/ Roll \/ CloseShips \/ CloseKeeps \/ MoverCopyFails \/ Delivered
  BY <1>2, <1>8, RollTakesNext DEF Crash, OpenPersist, Roll, RollRequested, RollRefused, RollPersist,
     CloseShips, CloseKeeps, MoverCopyFails, Delivered, disk
<1>9. CASE MarkReady
  <2>1. UNCHANGED stage /\ \A n \in Seg : home'[n].rows = home[n].rows
    BY <1>9, MarkEffect
  <2> QED BY <1>2, <2>1
<1>10. CASE MoverCopies
  <2>1. PICK n \in todo : stage' = [stage EXCEPT ![n] = home[n]]
    BY <1>10 DEF MoverCopies
  <2>2. UNCHANGED home
    BY <1>10 DEF MoverCopies
  <2> QED BY <1>1, <2>1, <2>2 DEF RowsOf, TypeInv, TypeOK
<1>11. CASE MoverRemoves
  BY <1>2, <1>11, RemoveEffect DEF NoFile
<1> QED BY <1>3, <1>4, <1>5, <1>6, <1>7, <1>8, <1>9, <1>10, <1>11 DEF Next, Open, Close, Finalize, Mover

\* Outside a call that logs it, nothing of the open transaction is lost.
TxnWhole ==
  /\ pc \in {"idle", "commit_flush", "commit_publish"} => userTxn.effects = queue \union spilled
  /\ pc = "commit_db" => OfCommit(homeTxn[cur], nextCommit) = userTxn.effects
  /\ pc \notin {"idle", "commit_flush", "commit_publish", "commit_db", "commit_failed"} =>
       ~ userTxn.open

\* A statement that took effect is in a sidecar; in the one of every segment with its
\* commit id; and a sidecar of a commit of the database has no other statements.
Covered == \A e \in db.effects : \E n \in Seg : e \in SidecarsOf(n)
EffectsTogether ==
  \A e \in db.effects : \A n \in Seg : e.cid \in CommitIds(RowsOf(n)) => e \in SidecarsOf(n)
SidecarsExact == \A n \in Seg : \A s \in SidecarsOf(n) : s.cid \in db.done => s \in db.effects

CoverInv == TxnWhole /\ Covered /\ EffectsTogether /\ SidecarsExact

LEMMA TxnWholeStep ==
  ASSUME DeviceInv, CoverInv, Next, "flush_in_txn" \notin Usage
  PROVE  TxnWhole'
<1> USE DEF DeviceInv, Base, Down
<1>1. CASE InMemoryReset /\ pc' \in Down
  BY <1>1 DEF InMemoryReset, NoUserTxn, TxnWhole
<1>2. CASE /\ ~ userTxn.open /\ UNCHANGED <<queue, spilled, userTxn>>
           /\ pc \notin {"idle", "commit_flush", "commit_publish"}
           /\ pc' \notin {"commit_flush", "commit_publish", "commit_db"}
  BY <1>2 DEF TxnWhole, StatementsCurrent
<1>3. CASE Open \/ Create
  <2>1. pc \in Down \union Opening \union {"roll_create", "roll_schema"}
    BY <1>3 DEF Open, OpenDevice, RecoverInDoubtTxn, DiscardInDoubtTxn, OpenPersist, Create,
       CreateFile, CreateSchema, Opening
  <2>2. ~ userTxn.open
    BY <2>1 DEF CoverInv, TxnWhole, StatementsCurrent, Opening
  <2>3. \/ InMemoryReset /\ pc' \in Down
        \/ /\ UNCHANGED <<queue, spilled, userTxn>>
           /\ pc' \in Opening \union {"roll_schema", "roll_persist", "deliver"}
    BY <1>3, OpenTakes DEF Open, RecoverInDoubtTxn, DiscardInDoubtTxn, OpenPersist, Create,
       CreateFile, CreateSchema, Opening, txn
  <2> QED BY <1>1, <1>2, <2>1, <2>2, <2>3 DEF Opening
<1>4. CASE Execute
  <2>1. /\ pc = "idle" /\ pc' = "idle" /\ queue' = queue \union {Statement} /\ spilled' = spilled
        /\ userTxn'.effects = userTxn.effects \union {Statement}
    BY <1>4 DEF Execute
  <2> QED BY <2>1 DEF CoverInv, TxnWhole
<1>5. CASE ExecuteUnlogged
  <2>1. /\ pc = "idle" /\ pc' = "idle" /\ queue' = queue /\ spilled' = spilled
        /\ userTxn'.effects = userTxn.effects
    BY <1>5 DEF ExecuteUnlogged, TypeInv, TypeOK
  <2> QED BY <2>1 DEF CoverInv, TxnWhole
<1>6. CASE FlushLog
  BY <1>6 DEF FlushLog, CoverInv, TxnWhole
<1>7. CASE CommitStart
  <2>1. /\ pc = "idle" /\ queue' = {} /\ spilled' = spilled \union queue
        /\ \/ spilled' = {} /\ pc' = "commit_db"
           \/ pc' = "commit_flush"
        /\ UNCHANGED <<homeTxn, cur, nextCommit, userTxn>>
    BY <1>7, CommitStarts
  <2>2. userTxn.effects = queue \union spilled
    BY <2>1 DEF CoverInv, TxnWhole
  <2>3. OfCommit(homeTxn[cur], nextCommit) = {}
    <3>1. SUFFICES ASSUME NEW s \in homeTxn[cur], s.cid = nextCommit PROVE FALSE
      BY DEF OfCommit
    <3>2. cur \in Seg /\ s \in SidecarsOf(cur) /\ ~ Replaying
      BY <2>1 DEF SidecarsOf, TypeInv, TypeOK, StepShape, Replaying
    <3>3. PICK r \in RowsOf(cur) : r.cid = nextCommit /\ r.kind = "REPLAY"
      BY <3>1, <3>2 DEF SideInv, SidecarHasRow, Has
    <3>4. r.cid < nextCommit /\ nextCommit \in Nat
      BY <2>1, <3>2, <3>3, LogTyped DEF IdInv, RowsBelowNext, TypeInv, TypeOK
    <3> QED BY <3>3, <3>4
  <2> QED BY <2>1, <2>2, <2>3 DEF TxnWhole
<1>8. CASE CommitFlush
  BY <1>8 DEF CommitFlush, txn, CoverInv, TxnWhole
<1>9. CASE CommitPublish
  <2>1. /\ pc = "commit_publish" /\ pc' = "commit_db" /\ cur \in Seg
        /\ homeTxn' = [homeTxn EXCEPT ![cur] = Overwrite(homeTxn[cur], spilled)]
        /\ homeTxn \in [Seg -> SUBSET Row] /\ UNCHANGED <<cur, nextCommit, userTxn>>
    BY <1>9 DEF CommitPublish, TypeInv, TypeOK
  <2>2. /\ spilled # {} /\ queue = {} /\ userTxn.effects = spilled
        /\ \A s \in spilled : s.cid = nextCommit
    BY <2>1 DEF StatementsCurrent, CoverInv, TxnWhole
  <2>3. OfCommit(Overwrite(homeTxn[cur], spilled), nextCommit) = spilled
    BY <2>2 DEF OfCommit, Overwrite, CommitIds
  <2> QED BY <2>1, <2>2, <2>3 DEF TxnWhole
<1>10. CASE CommitDb \/ RollbackStart \/ CloseStart
  <2>1. userTxn' = NoUserTxn /\ pc' \in {"commit_row", "rollback_row", "close_check"}
    BY <1>10 DEF CommitDb, RollbackStart, CloseStart
  <2> QED BY <2>1 DEF NoUserTxn, TxnWhole
<1>11. CASE CommitDbFails
  BY <1>11 DEF CommitDbFails, TxnWhole
<1>12. CASE CommitRow \/ CommitDone \/ RollbackRow \/ RollbackDone
  <2>1. /\ pc \in {"commit_row", "commit_done", "rollback_row", "rollback_done"}
        /\ pc' \in {"commit_done", "rollback_done", "idle", "roll_check"}
        /\ UNCHANGED <<queue, spilled, userTxn>>
    <3>1. CASE cur < MaxSegment
      BY <1>12, <3>1 DEF CommitRow, CommitDone, RollbackRow, RollbackDone, FateRow, EndTxn, txn
    <3>2. CASE ~ (cur < MaxSegment)
      BY <1>12, <3>2 DEF CommitRow, CommitDone, RollbackRow, RollbackDone, FateRow, EndTxn, txn
    <3> QED BY <3>1, <3>2
  <2> QED BY <1>2, <2>1 DEF CoverInv, TxnWhole
<1>13. CASE RollRequested
  <2>1. ~ userTxn.open /\ pc' = "roll_check" /\ userTxn' = userTxn
    BY <1>13 DEF RollRequested
  <2> QED BY <2>1 DEF TxnWhole
<1>14. CASE RollRefused \/ RollClaim \/ RollPersist \/ CloseShips \/ Finalize
  <2>1. /\ pc \notin {"idle", "commit_flush", "commit_publish", "commit_db", "commit_failed"}
        /\ pc' \notin {"commit_flush", "commit_publish", "commit_db"}
        /\ UNCHANGED <<queue, spilled, userTxn>>
    BY <1>14 DEF RollRefused, RollClaim, RollPersist, CloseShips, Finalize, FinalizeRows, MarkReady, txn
  <2> QED BY <1>2, <2>1 DEF CoverInv, TxnWhole
<1>15. CASE MoverCopies \/ MoverCopyFails \/ MoverRemoves \/ (Delivered /\ ~ closing)
  <2>1. /\ pc \in {"deliver", "remove"} /\ pc' \in {"deliver", "remove", "idle"}
        /\ UNCHANGED <<queue, spilled, userTxn>>
    BY <1>15 DEF MoverCopies, MoverCopyFails, MoverRemoves, Delivered, txn
  <2> QED BY <1>2, <2>1 DEF CoverInv, TxnWhole
<1>16. CASE Crash \/ CloseKeeps \/ (Delivered /\ closing)
  BY <1>1, <1>16 DEF Crash, CloseKeeps, Delivered
<1> QED BY <1>3, <1>4, <1>5, <1>6, <1>7, <1>8, <1>9, <1>10, <1>11, <1>12, <1>13, <1>14, <1>15, <1>16
    DEF Next, Txn, Commit, Rollback, Roll, Close, Mover

\* The next commit id has its rows in the current segment only, and so its sidecar.
LEMMA SidecarOfNext ==
  ASSUME DeviceInv, pc \notin Down, NEW n \in Seg, NEW s \in SidecarsOf(n), s.cid = nextCommit
  PROVE  n = cur /\ (home[cur].status = "NEW" => s \in homeTxn[cur])
<1>1. n = cur
  BY DEF DeviceInv, Base, SideInv, SidecarHasRow, Has, IdInv, OthersBelow
<1>2. home[cur].status = "NEW" => stageTxn[cur] = {}
  BY <1>1, CurIsNotStaged DEF DeviceInv, Base
<1> QED BY <1>1, <1>2 DEF SidecarsOf

\* A step that does not touch a sidecar and does not commit.
LEMMA CoverKept ==
  ASSUME DeviceInv, CoverInv, Next, UNCHANGED db,
         \A n \in Seg : /\ SidecarsOf(n)' \subseteq SidecarsOf(n)
                        /\ \A s \in SidecarsOf(n) : s.cid \in db.done => s \in SidecarsOf(n)'
  PROVE  Covered' /\ EffectsTogether' /\ SidecarsExact'
<1> USE DEF DeviceInv, Base
<1>1. \A e \in db.effects : e.cid \in db.done
  BY DEF IdInv, DbShape
<1>2. Covered'
  BY <1>1 DEF CoverInv, Covered, Seg
<1>3. SidecarsExact'
  BY DEF CoverInv, SidecarsExact, Seg
<1>4. EffectsTogether'
  <2>1. SUFFICES ASSUME NEW e \in db.effects, NEW n \in Seg, NEW r \in RowsOf(n)', r.cid = e.cid
                 PROVE  e \in SidecarsOf(n)'
    BY DEF EffectsTogether, CommitIds, Seg
  <2>2. CASE r.cid \in CommitIds(RowsOf(n))
    BY <1>1, <2>1, <2>2 DEF CoverInv, EffectsTogether
  <2>3. CASE n = cur /\ r.cid = nextCommit
    <3>1. CASE pc \in Down
      <4>1. OpenDevice
        BY <3>1 DEF Next, Crash, Open, RecoverInDoubtTxn, DiscardInDoubtTxn, OpenPersist, Create,
           CreateFile, CreateSchema, Txn, Execute, ExecuteUnlogged, FlushLog, Commit, CommitStart,
           CommitFlush, CommitPublish, CommitDb, CommitDbFails, CommitRow, FateRow, CommitDone, EndTxn,
           Rollback, RollbackStart, RollbackRow, RollbackDone, Roll, RollRequested, RollRefused,
           RollClaim, RollPersist, Close, CloseStart, CloseShips, CloseKeeps, Finalize, FinalizeRows,
           MarkReady, Mover, MoverCopies, MoverCopyFails, MoverRemoves, Delivered, Down
      <4>2. RowsOf(n)' = RowsOf(n)
        BY <4>1, OpenTakes, ResolvedShape, LogIsInShape DEF RowsOf
      <4> QED BY <2>1, <2>2, <4>2 DEF CommitIds
    <3>2. CASE pc \notin Down
      <4>1. PICK m \in Seg : e \in SidecarsOf(m)
        BY <2>1 DEF CoverInv, Covered
      <4>2. m = n
        BY <2>1, <2>3, <3>2, <4>1, SidecarOfNext
      <4> QED BY <1>1, <4>1, <4>2
    <3> QED BY <3>1, <3>2
  <2> QED BY <2>2, <2>3, IdsAdded
<1> QED BY <1>2, <1>3, <1>4

LEMMA CoverStep ==
  ASSUME DeviceInv, CoverInv, [Next]_vars, "flush_in_txn" \notin Usage
  PROVE  CoverInv'
<1> USE DEF DeviceInv, Base
<1>1. CASE UNCHANGED vars
  BY <1>1 DEF vars, disk, memory, txn, CoverInv, TxnWhole, Covered, EffectsTogether, SidecarsExact,
     SidecarsOf, RowsOf, Seg
<1>2. CASE CommitDb
  <2>1. /\ pc = "commit_db" /\ cur \in Seg /\ home[cur].status = "NEW"
        /\ db'.done = db.done \union {nextCommit}
        /\ db'.effects = db.effects \union userTxn.effects
        /\ UNCHANGED <<home, homeTxn, stage, stageTxn>>
    BY <1>2 DEF CommitDb, TypeInv, TypeOK, StepShape, CurOpen, Writing
  <2>2. /\ \A n \in Seg : SidecarsOf(n)' = SidecarsOf(n) /\ RowsOf(n)' = RowsOf(n)
        /\ OfCommit(homeTxn[cur], nextCommit) = userTxn.effects
        /\ \A s \in userTxn.effects : s.cid = nextCommit /\ s \in SidecarsOf(cur)
    BY <2>1 DEF SidecarsOf, RowsOf, CoverInv, TxnWhole, OfCommit
  <2>3. Covered'
    BY <2>1, <2>2 DEF CoverInv, Covered, Seg
  <2>4. SidecarsExact'
    <3>1. SUFFICES ASSUME NEW n \in Seg, NEW s \in SidecarsOf(n), s.cid \in db'.done
                   PROVE  s \in db'.effects
      BY <2>2 DEF SidecarsExact, Seg
    <3>2. CASE s.cid \in db.done
      BY <2>1, <3>1, <3>2 DEF CoverInv, SidecarsExact
    <3>3. CASE s.cid = nextCommit
      <4>1. s \in homeTxn[cur]
        BY <2>1, <3>1, <3>3, SidecarOfNext DEF Down
      <4> QED BY <2>1, <2>2, <3>3, <4>1 DEF OfCommit
    <3> QED BY <2>1, <3>1, <3>2, <3>3
  <2>5. EffectsTogether'
    <3>1. SUFFICES ASSUME NEW e \in db'.effects, NEW n \in Seg, e.cid \in CommitIds(RowsOf(n))
                   PROVE  e \in SidecarsOf(n)
      BY <2>2 DEF EffectsTogether, Seg
    <3>2. CASE e \in db.effects
      BY <3>1, <3>2 DEF CoverInv, EffectsTogether
    <3>3. CASE e \in userTxn.effects
      <4>1. n = cur
        BY <2>1, <2>2, <3>1, <3>3 DEF IdInv, OthersBelow, CommitIds, Down
      <4> QED BY <2>2, <3>3, <4>1
    <3> QED BY <2>1, <3>1, <3>2, <3>3
  <2> QED BY <1>2, <2>3, <2>4, <2>5, TxnWholeStep DEF CoverInv, Next, Commit
<1>3. CASE Next /\ ~ CommitDb
  <2>1. db' = db
    BY <1>3, DbStays
  <2>2. CASE CommitPublish
    <3>1. /\ pc = "commit_publish" /\ cur \in Seg
          /\ homeTxn' = [homeTxn EXCEPT ![cur] = Overwrite(homeTxn[cur], spilled)]
          /\ homeTxn \in [Seg -> SUBSET Row] /\ UNCHANGED <<home, stage, stageTxn>>
          /\ \A s \in spilled : s.cid = nextCommit
      BY <2>2 DEF CommitPublish, TypeInv, TypeOK, StatementsCurrent
    <3>2. nextCommit \notin db.done
      BY <3>1 DEF IdInv, DbFresh, DbShape, Down, TypeInv, TypeOK
    <3>3. \A n \in Seg : /\ \A s \in SidecarsOf(n)' : s \in SidecarsOf(n) \/ s.cid = nextCommit
                         /\ \A s \in SidecarsOf(n) : s.cid \in db.done => s \in SidecarsOf(n)'
      BY <3>1, <3>2 DEF SidecarsOf, Overwrite, CommitIds
    <3>4. \A e \in db.effects : e.cid \in db.done
      BY DEF IdInv, DbShape
    <3>5. \A n \in Seg : RowsOf(n)' = RowsOf(n)
      BY <3>1 DEF RowsOf
    <3>6. Covered' /\ EffectsTogether' /\ SidecarsExact'
      BY <2>1, <3>2, <3>3, <3>4, <3>5 DEF CoverInv, Covered, EffectsTogether, SidecarsExact, Seg
    <3> QED BY <1>3, <3>6, TxnWholeStep DEF CoverInv
  <2>3. CASE RecoverInDoubtTxn
    <3>1. \A n \in Seg : SidecarsOf(n)' \subseteq SidecarsOf(n)
      BY <1>3, <2>3, SidecarsStay DEF RecoverInDoubtTxn, CommitPublish
    <3>2. \A n \in Seg : \A s \in SidecarsOf(n) : s.cid \in db.done => s \in SidecarsOf(n)'
      <4>1. CASE pc' = "open_discard"
        <5>1. /\ Slave' = Slave /\ Slave' > db'.commitId
              /\ homeTxn' = [homeTxn EXCEPT ![cur] = @ \ OfCommit(@, Slave)] /\ stageTxn' = stageTxn
          BY <1>3, <2>3, <4>1, CommitMarkedStep DEF RecoverInDoubtTxn, CommitMarked, Slave
        <5>2. home[cur].rows \in SUBSET Row /\ IsFiniteSet(home[cur].rows)
              /\ db.commitId \in Nat /\ db.done \in SUBSET Nat
          BY DEF TypeInv, TypeOK, FiniteRows, Segment
        <5>3. Slave \in Nat
          BY <5>2, LastCommitIdType DEF Slave
        <5>4. Slave \notin db.done
          <6> HIDE DEF Slave
          <6> QED BY <2>1, <5>1, <5>2, <5>3 DEF IdInv, DbShape
        <5> QED BY <5>1, <5>4 DEF SidecarsOf, OfCommit, TypeInv, TypeOK
      <4>2. CASE pc' # "open_discard"
        <5>1. UNCHANGED <<homeTxn, stageTxn>>
          BY <2>3, <4>2 DEF RecoverInDoubtTxn
        <5> QED BY <5>1 DEF SidecarsOf
      <4> QED BY <4>1, <4>2
    <3> QED BY <1>3, <2>1, <3>1, <3>2, CoverKept, TxnWholeStep DEF CoverInv
  <2>4. CASE ~ CommitPublish /\ ~ RecoverInDoubtTxn
    <3>1. \A n \in Seg : SidecarsOf(n)' \subseteq SidecarsOf(n) /\ SidecarsOf(n) \subseteq SidecarsOf(n)'
      BY <1>3, <2>4, SidecarsStay
    <3> QED BY <1>3, <2>1, <3>1, CoverKept, TxnWholeStep DEF CoverInv
  <2> QED BY <2>2, <2>3, <2>4
<1> QED BY <1>1, <1>2, <1>3

LEMMA CoverHolds ==
  ASSUME "flush_in_txn" \notin Usage
  PROVE  Spec => [](DeviceInv /\ CoverInv)
<1>1. ASSUME Init PROVE CoverInv
  BY <1>1 DEF Init, NoUserTxn, CoverInv, TxnWhole, Covered, EffectsTogether, SidecarsExact, SidecarsOf
<1>2. ASSUME CoverInv, DeviceInv, [Next]_vars PROVE CoverInv'
  BY <1>2, CoverStep
<1> QED BY <1>1, <1>2, DeviceInvHolds, PTL DEF Spec

\* What took effect in the user database can be replayed, at every moment and after every
\* crash, if Logger::flush is not called inside a transaction: what else an application
\* does, and how often the mover fails, does not matter.
THEOREM EffectsAreLogged ==
  ASSUME "flush_in_txn" \notin Usage
  PROVE  Spec => []LogCoversDb
<1>1. ASSUME DeviceInv, CoverInv PROVE LogCoversDb
  <2>1. ASSUME NEW e \in db.effects PROVE \E n \in Seg : e \in Replayed(n)
    <3>1. PICK n \in Seg : e \in SidecarsOf(n)
      BY <1>1, <2>1 DEF CoverInv, Covered
    <3>2. Has(RowsOf(n), e.cid, "REPLAY")
      BY <1>1, <3>1 DEF DeviceInv, SideInv, SidecarHasRow
    <3> QED BY <3>1, <3>2 DEF Replayed, SidecarsOf, RowsOf
  <2> QED BY <2>1 DEF LogCoversDb
<1> QED BY <1>1, CoverHolds, PTL

\* A segment in the stage directory ends decided and replays, of every transaction the
\* user database committed, exactly the statements that took effect, under the same
\* condition: the mover delivers whole segments although it copies file by file and may
\* fail between any two of them.
THEOREM StagedSegmentsAreWhole ==
  ASSUME "flush_in_txn" \notin Usage
  PROVE  Spec => []StagedIsWhole
<1>1. ASSUME DeviceInv, CoverInv PROVE StagedIsWhole
  <2> USE <1>1 DEF DeviceInv, Base
  <2>1. SUFFICES ASSUME NEW n \in Seg, stage[n].status = "READY"
                 PROVE  /\ LastTxnFateDecided(stage[n].rows, CommitIds(stageTxn[n]))
                        /\ \A c \in CommitIds(stage[n].rows) \intersect db.done :
                             /\ Has(stage[n].rows, c, "COMMIT")
                             /\ { s \in OfCommit(Expanded(stage[n].rows, stageTxn[n]), c) : s.kind = "OP" }
                                  = OfCommit(db.effects, c)
    BY DEF StagedIsWhole
  <2>2. LastTxnFateDecided(stage[n].rows, CommitIds(stageTxn[n]))
    BY <2>1 DEF EndInv, ReadyDecided, LastTxnFateDecided
  <2>3. RowsOf(n) = stage[n].rows /\ SidecarsOf(n) = stageTxn[n]
    BY <2>1 DEF StageInv, StageShape, SidecarsMoved, NoFile, RowsOf, SidecarsOf
  <2>4. \A r \in stage[n].rows : r.kind # "OP"
    BY <2>1, <2>3, LogTyped DEF SideInv, NoOps
  <2>5. ASSUME NEW c \in CommitIds(stage[n].rows) \intersect db.done
        PROVE  /\ Has(stage[n].rows, c, "COMMIT")
               /\ { s \in OfCommit(Expanded(stage[n].rows, stageTxn[n]), c) : s.kind = "OP" }
                    = OfCommit(db.effects, c)
    <3>1. Has(stage[n].rows, c, "COMMIT")
      BY <2>5 DEF EndInv, DoneLogged
    <3>2. \A s \in stageTxn[n] : Has(stage[n].rows, s.cid, "REPLAY") /\ s.kind = "OP"
      BY <2>3 DEF SideInv, SidecarHasRow
    <3>3. { s \in OfCommit(Expanded(stage[n].rows, stageTxn[n]), c) : s.kind = "OP" }
            = OfCommit(stageTxn[n], c)
      BY <2>4, <3>2 DEF OfCommit, Expanded
    <3>4. \A s \in stageTxn[n] : s.cid = c => s \in db.effects
      BY <2>3, <2>5 DEF CoverInv, SidecarsExact
    <3>5. \A e \in db.effects : e.cid = c => e \in stageTxn[n]
      BY <2>3, <2>5 DEF CoverInv, EffectsTogether
    <3>6. OfCommit(stageTxn[n], c) = OfCommit(db.effects, c)
      BY <3>4, <3>5 DEF OfCommit
    <3> QED BY <3>1, <3>3, <3>6
  <2> QED BY <2>2, <2>5
<1> QED BY <1>1, CoverHolds, PTL

--------------------------------------------------------------------------------
(* The fates in the log                                                        *)

\* The segment being written reaches up to the last commit of the database, or begins
\* after it.
NewReachesDb ==
  \A n \in Seg : home[n].status = "NEW" =>
    \/ \E r \in home[n].rows : r.cid = db.commitId
    \/ \A r \in home[n].rows : r.cid > db.commitId

\* The database commits a transaction that has its REPLAY_TXN.
ReplayedDb == pc = "commit_db" => \E r \in home[cur].rows : r.cid = nextCommit

FateInv == FateMatchesDb /\ NewReachesDb /\ ReplayedDb

\* For an application that does nothing the device is not prepared for, recovery always
\* finds one of the combinations it decides.
LEMMA NeverRefused ==
  ASSUME DeviceInv, FateInv, RecoverInDoubtTxn
  PROVE  RecoveryOutcome(db.commitId, Slave, FateOf(home[cur].rows, Slave)) # "refuse"
<1> USE DEF DeviceInv, Base
<1> DEFINE fate == FateOf(home[cur].rows, Slave)
<1> SUFFICES RecoveryOutcome(db.commitId, Slave, fate) # "refuse"
  OBVIOUS
<1>1. /\ cur \in Seg /\ home[cur].status = "NEW"
      /\ home[cur].rows \in SUBSET Row /\ IsFiniteSet(home[cur].rows)
      /\ db.commitId \in Nat /\ \A r \in home[cur].rows : r \in DurableRows /\ r.cid \in Nat
  BY DEF RecoverInDoubtTxn, TypeInv, TypeOK, FiniteRows, Segment, StepShape, CurOpen, DurableRows, Row
<1>2. Slave \in Nat
  BY <1>1, LastCommitIdType DEF Slave
<1>3. CASE Slave = 0 \/ db.commitId = 0
  BY <1>3 DEF RecoveryOutcome
<1>4. CASE Slave # 0 /\ db.commitId # 0
  <2>1. home[cur].rows # {}
    BY <1>4 DEF Slave, LastCommitId
  <2>2. /\ \E r \in home[cur].rows : r.cid = Slave
        /\ \A r \in home[cur].rows : r.cid <= Slave
    BY <1>1, <2>1, LastCommitIdIsMax DEF Slave
  <2>3. fate = "Commit" => Slave \in db.done
    BY <1>1 DEF FateOf, Has, FateInv, FateMatchesDb
  <2>4. fate = "Rollback" => Slave \notin db.done
    BY <1>1 DEF FateOf, Has, FateInv, FateMatchesDb
  <2>5. db.commitId \in db.done /\ \A c \in db.done : c <= db.commitId
    BY <1>4 DEF IdInv, DbShape
  <2>6. fate \in {"Commit", "Rollback", "Unknown"}
    BY DEF FateOf
  <2> HIDE DEF Slave, fate
  <2>7. Slave >= db.commitId
    BY <1>1, <1>2, <2>1, <2>2 DEF FateInv, NewReachesDb
  <2>8. CASE Slave > db.commitId
    <3>1. fate # "Commit"
      BY <1>1, <1>2, <2>3, <2>5, <2>8
    <3> QED BY <1>1, <1>2, <1>4, <2>6, <2>8, <3>1 DEF RecoveryOutcome
  <2>9. CASE Slave = db.commitId
    <3>1. fate # "Rollback"
      BY <2>4, <2>5, <2>9
    <3> QED BY <1>1, <1>2, <1>4, <2>6, <2>9, <3>1 DEF RecoveryOutcome
  <2> QED BY <1>1, <1>2, <2>7, <2>8, <2>9
<1> QED BY <1>1, <1>2, <1>3, <1>4

LEMMA FateMatchesStep ==
  ASSUME DeviceInv, FateInv, Next, Usage = {}
  PROVE  FateMatchesDb'
<1> USE DEF DeviceInv, Base
<1>1. pc' # "refused"
  <2>1. CASE RecoverInDoubtTxn
    BY <2>1, NeverRefused DEF RecoverInDoubtTxn
  <2>2. CASE ~ RecoverInDoubtTxn
    <3>1. CASE OpenDevice
      BY <3>1, OpenTakes
    <3>2. CASE CommitDone \/ RollRequested
      <4>1. CASE cur < MaxSegment
        BY <3>2, <4>1 DEF CommitDone, EndTxn, RollRequested
      <4>2. CASE ~ (cur < MaxSegment)
        BY <3>2, <4>2 DEF CommitDone, EndTxn, RollRequested
      <4> QED BY <4>1, <4>2
    <3>3. CASE ~ OpenDevice /\ ~ CommitDone /\ ~ RollRequested
      BY <2>2, <3>3 DEF Next, Crash, Open, DiscardInDoubtTxn, OpenPersist, Create,
         CreateFile, CreateSchema, Txn, Execute, ExecuteUnlogged, FlushLog, Commit, CommitStart,
         CommitFlush, CommitPublish, CommitDb, CommitDbFails, CommitRow, FateRow, EndTxn,
         Rollback, RollbackStart, RollbackRow, RollbackDone, Roll, RollRefused,
         RollClaim, RollPersist, Close, CloseStart, CloseShips, CloseKeeps, Finalize, FinalizeRows,
         MarkReady, Mover, MoverCopies, MoverCopyFails, MoverRemoves, Delivered, FateInv, FateMatchesDb
    <3> QED BY <3>1, <3>2, <3>3
  <2> QED BY <2>1, <2>2
<1>2. \A r \in AllRows : /\ r.kind = "COMMIT" => r.cid \in db.done
                         /\ r.kind = "ROLLBACK" => r.cid \notin db.done
  BY DEF FateInv, FateMatchesDb, AllRows
<1>3. CASE CommitDb
  <2>1. /\ pc = "commit_db" /\ db'.done = db.done \union {nextCommit}
        /\ UNCHANGED <<home, stage, buf>>
    BY <1>3 DEF CommitDb
  <2>2. AllRows' = AllRows
    BY <2>1 DEF AllRows, DurableRows, Seg
  <2>3. ~ closing /\ nextCommit \in Nat
    BY <2>1 DEF TypeInv, TypeOK, StepShape
  <2>4. \A r \in AllRows : r.kind = "ROLLBACK" => r.cid # nextCommit
    BY <2>1, <2>3 DEF IdInv, RowsBelowNext, FateDecided, Down
  <2> QED BY <1>1, <1>2, <2>1, <2>2, <2>4 DEF FateMatchesDb, AllRows
<1>4. CASE ~ CommitDb
  <2>1. db' = db
    BY <1>4, DbStays
  <2>2. ASSUME NEW r \in AllRows'
        PROVE  /\ r.kind = "COMMIT" => r.cid \in db.done
               /\ r.kind = "ROLLBACK" => r.cid \notin db.done
    <3>1. CASE r \in AllRows
      BY <1>2, <3>1
    <3>2. CASE NewRow(r)
      <4>1. CASE pc = "open_recover" /\ r.kind = "COMMIT" /\ r.cid = db.commitId /\ r.cid # 0
        BY <4>1 DEF IdInv, DbShape
      <4>2. CASE pc = "commit_row" /\ r.kind = "COMMIT" /\ r.cid = nextCommit
        BY <4>2 DEF IdInv, DbFresh
      <4>3. CASE pc = "rollback_row" /\ r.kind = "ROLLBACK" /\ r.cid = nextCommit
        <5>1. db.commitId < nextCommit /\ db.commitId \in Nat /\ nextCommit \in Nat
          BY <4>3 DEF IdInv, DbFresh, Down, TypeInv, TypeOK
        <5> QED BY <4>3, <5>1 DEF IdInv, DbShape
      <4> QED BY <3>2, <4>1, <4>2, <4>3 DEF NewRow
    <3> QED BY <2>2, <3>1, <3>2, RowsAdded
  <2> QED BY <1>1, <2>1, <2>2 DEF FateMatchesDb, AllRows
<1> QED BY <1>3, <1>4

\* A file that was being written before the step, and still is, reaches the last commit
\* of the database if the step leaves its rows alone or adds rows above that commit.
LEMMA ReachKept ==
  ASSUME DeviceInv, FateInv, db' = db, NEW n \in Seg, home[n].status = "NEW",
         home[n].rows \subseteq home'[n].rows,
         \A r \in home'[n].rows : r \in home[n].rows \/ r.cid > db.commitId
  PROVE  \/ \E r \in home'[n].rows : r.cid = db'.commitId
         \/ \A r \in home'[n].rows : r.cid > db'.commitId
BY DEF FateInv, NewReachesDb

\* What a call writes reaches the last commit of the database.
LEMMA CallReaches ==
  ASSUME DeviceInv, FateInv, Txn \/ Commit \/ Rollback \/ CloseStart \/ FinalizeRows, ~ CommitDb, Next
  PROVE  NewReachesDb'
<1> USE DEF DeviceInv, Base
<1>1. /\ WriterStep /\ pc \in Writing \union {"idle", "finalize"} /\ db' = db
      /\ \A r \in home'[cur].rows : r \in home[cur].rows \/ r.cid = nextCommit
  BY CallWrites, CallAdds, DbStays
<1>2. /\ cur \in Seg /\ home[cur].status = "NEW" /\ pc \notin Down
      /\ db.commitId \in Nat /\ nextCommit \in Nat
      /\ \A r \in home[cur].rows : r.cid \in Nat /\ r \in AllRows
  BY <1>1 DEF TypeInv, TypeOK, StepShape, CurOpen, Segment, Row, AllRows, DurableRows, Down, Writing
<1>3. ASSUME NEW n \in Seg, home'[n].status = "NEW"
      PROVE  \/ \E r \in home'[n].rows : r.cid = db'.commitId
             \/ \A r \in home'[n].rows : r.cid > db'.commitId
  <2>1. home[n].status = "NEW" /\ home[n].rows \subseteq home'[n].rows
    BY <1>1, <1>3 DEF WriterStep
  <2>2. n = cur
    BY <1>2, <2>1, OneIsNew
  <2>3. CASE pc \in {"commit_row", "commit_done"}
    <3>1. db.commitId = nextCommit
      BY <2>3 DEF IdInv, DbFresh
    <3>2. CASE \E r \in home[cur].rows : r.cid = db.commitId
      BY <1>1, <2>1, <2>2, <3>2
    <3>3. CASE \A r \in home[cur].rows : r.cid > db.commitId
      <4>1. home[cur].rows = {}
        BY <1>2, <3>1, <3>3 DEF IdInv, RowsBelowNext
      <4>2. CASE home'[cur].rows = {}
        BY <2>2, <4>2
      <4>3. CASE home'[cur].rows # {}
        BY <1>1, <2>2, <3>1, <4>1, <4>3
      <4> QED BY <4>2, <4>3
    <3> QED BY <1>2, <3>2, <3>3 DEF FateInv, NewReachesDb
  <2>4. CASE pc \notin {"commit_row", "commit_done"}
    <3>1. db.commitId < nextCommit
      BY <1>2, <2>4 DEF IdInv, DbFresh
    <3>2. \A r \in home'[n].rows : r \in home[n].rows \/ r.cid > db.commitId
      BY <1>1, <1>2, <2>2, <3>1
    <3> QED BY <1>1, <2>1, <3>2, ReachKept
  <2> QED BY <2>3, <2>4
<1> QED BY <1>3 DEF NewReachesDb, Seg

LEMMA NewReachesStep ==
  ASSUME DeviceInv, FateInv, Next
  PROVE  NewReachesDb'
<1> USE DEF DeviceInv, Base
<1>1. CASE /\ db' = db
           /\ \A n \in Seg : home'[n].status = "NEW" =>
                home[n].status = "NEW" /\ home'[n].rows = home[n].rows
  BY <1>1 DEF FateInv, NewReachesDb, Seg
<1>2. CASE CommitDb
  <2>1. /\ pc = "commit_db" /\ db'.commitId = nextCommit /\ home' = home
        /\ cur \in Seg /\ home[cur].status = "NEW"
    BY <1>2 DEF CommitDb, TypeInv, TypeOK, StepShape, CurOpen, Writing
  <2>2. \E r \in home[cur].rows : r.cid = nextCommit
    BY <2>1 DEF FateInv, ReplayedDb
  <2>3. \A n \in Seg : home[n].status = "NEW" => n = cur
    BY <2>1, OneIsNew
  <2> QED BY <2>1, <2>2, <2>3 DEF NewReachesDb, Seg
<1>3. CASE ~ CommitDb /\ (Txn \/ Commit \/ Rollback \/ CloseStart \/ FinalizeRows)
  BY <1>3, CallReaches
<1>4. CASE OpenDevice
  BY <1>1, <1>4, OpenTakes, ResolvedShape, LogIsInShape DEF NoFile
<1>5. CASE RecoverInDoubtTxn
  <2> DEFINE outcome == RecoveryOutcome(db.commitId, Slave, FateOf(home[cur].rows, Slave))
  <2>1. CASE outcome = "COMMIT"
    <3> DEFINE r == MakeRow(nextNum, Slave, "COMMIT")
    <3>1. /\ Slave = db.commitId /\ WriterStep /\ db' = db
          /\ home'[cur].rows = home[cur].rows \union {r}
      BY <1>5, <2>1, RecoveryCommits
    <3>2. r.cid = db.commitId
      BY <3>1 DEF MakeRow
    <3> HIDE DEF r
    <3> QED BY <3>1, <3>2 DEF WriterStep, FateInv, NewReachesDb, Seg
  <2>2. CASE outcome # "COMMIT"
    BY <1>1, <1>5, <2>2 DEF RecoverInDoubtTxn
  <2> QED BY <2>1, <2>2
<1>6. CASE DiscardInDoubtTxn
  <2>1. /\ \A n \in Seg : home'[n].status = home[n].status
        /\ \A n \in Seg : n # cur => home'[n] = home[n]
        /\ home'[cur].rows = home[cur].rows \ OfCommit(home[cur].rows, Slave)
        /\ pc = "open_discard" /\ db' = db
    BY <1>6, DiscardEffect
  <2>2. Slave > db.commitId /\ Slave \in Nat /\ db.commitId \in Nat
    BY <2>1, LastCommitIdType DEF SideInv, CommitMarked, TypeInv, TypeOK, FiniteRows, StepShape, CurOpen,
       Segment, Slave
  <2> HIDE DEF Slave
  <2>3. \A r \in home[cur].rows : r.cid = db.commitId => r \in home'[cur].rows
    BY <2>1, <2>2 DEF OfCommit
  <2> QED BY <2>1, <2>3 DEF FateInv, NewReachesDb, Seg
<1>7. CASE Create
  <2>1. db' = db /\ slot \in Seg /\ home'[slot].rows = home[slot].rows
        /\ \A n \in Seg : n # slot => home'[n] = home[n]
    BY <1>7, CreateEffect
  <2>2. home[slot].rows = {}
    BY <1>7, CreateEffect DEF TypeInv, HomeShape
  <2> QED BY <2>1, <2>2 DEF FateInv, NewReachesDb, Seg
<1>8. CASE Crash \/ OpenPersist \/ Roll \/ CloseShips \/ CloseKeeps \/ MoverCopies \/ MoverCopyFails \/ Delivered
  BY <1>1, <1>8, RollTakesNext DEF Crash, OpenPersist, Roll, RollRequested, RollRefused, RollPersist,
     CloseShips, CloseKeeps, MoverCopies, MoverCopyFails, Delivered, disk
<1>9. CASE MarkReady
  BY <1>1, <1>9, MarkEffect
<1>10. CASE MoverRemoves
  BY <1>1, <1>10, RemoveEffect DEF NoFile
<1> QED BY <1>2, <1>3, <1>4, <1>5, <1>6, <1>7, <1>8, <1>9, <1>10 DEF Next, Open, Close, Finalize, Mover

\* COMMIT of the database comes after the REPLAY_TXN row: a transaction that is logged
\* has statements.
LEMMA ReplayedStep ==
  ASSUME DeviceInv, CoverInv, FateInv, Next, Usage = {}
  PROVE  ReplayedDb'
<1> USE DEF DeviceInv, Base
<1>1. CASE pc' # "commit_db"
  BY <1>1 DEF ReplayedDb
<1>2. CASE CommitStart
  <2>1. /\ pc = "idle" /\ spilled' = spilled \union queue
        /\ spilled' = {} \/ pc' = "commit_flush"
    BY <1>2, CommitStarts
  <2>2. userTxn.effects # {} /\ userTxn.effects = queue \union spilled
    BY <1>2, <2>1 DEF CommitStart, CoverInv, TxnWhole
  <2> QED BY <1>1, <2>1, <2>2
<1>3. CASE CommitPublish
  <2>1. Has(home[cur].rows, nextCommit, "REPLAY") /\ UNCHANGED <<home, cur, nextCommit>>
    BY <1>3 DEF CommitPublish, SideInv, CommitMarked
  <2> QED BY <2>1 DEF ReplayedDb, Has
<1>4. pc' = "commit_db" => CommitStart \/ CommitPublish
  BY ScanSucceeds DEF Next, Crash, Open, OpenDevice, OpenResolved, RecoverInDoubtTxn, DiscardInDoubtTxn, OpenPersist,
     Create, CreateFile, CreateSchema, Txn, Execute, ExecuteUnlogged, FlushLog, Commit,
     CommitFlush, CommitDb, CommitDbFails, CommitRow, FateRow, CommitDone,
     EndTxn, Rollback, RollbackStart, RollbackRow, RollbackDone, Roll, RollRequested, RollRefused,
     RollClaim, RollPersist, Close, CloseStart, CloseShips, CloseKeeps, Finalize, FinalizeRows,
     MarkReady, Mover, MoverCopies, MoverCopyFails, MoverRemoves, Delivered, Down
<1> QED BY <1>1, <1>2, <1>3, <1>4

LEMMA FateStep ==
  ASSUME DeviceInv, CoverInv, FateInv, [Next]_vars, Usage = {}
  PROVE  FateInv'
<1>1. CASE UNCHANGED vars
  BY <1>1 DEF vars, disk, memory, txn, FateInv, FateMatchesDb, NewReachesDb, ReplayedDb, DurableRows, Seg
<1>2. CASE Next
  BY <1>2, FateMatchesStep, NewReachesStep, ReplayedStep DEF FateInv
<1> QED BY <1>1, <1>2

LEMMA FateHolds ==
  ASSUME Usage = {}
  PROVE  Spec => [](DeviceInv /\ CoverInv /\ FateInv)
<1>1. ASSUME Init PROVE FateInv
  BY <1>1 DEF Init, FateInv, FateMatchesDb, NewReachesDb, ReplayedDb, DurableRows, NoFile
<1>2. ASSUME FateInv, DeviceInv, CoverInv, [Next]_vars PROVE FateInv'
  BY <1>2, FateStep
<1>3. "flush_in_txn" \notin Usage
  OBVIOUS
<1>4. Spec => [](DeviceInv /\ CoverInv)
  BY <1>3, CoverHolds
<1> QED BY <1>1, <1>2, <1>4, PTL DEF Spec

\* For an application that does nothing the device is not prepared for, a COMMIT in the
\* log means the database committed and a ROLLBACK that it did not, at every moment and
\* after every crash, and no open is refused.
THEOREM FatesAgree ==
  ASSUME Usage = {}
  PROVE  Spec => []FateMatchesDb
<1>1. FateInv => FateMatchesDb
  BY DEF FateInv
<1> QED BY <1>1, FateHolds, PTL

--------------------------------------------------------------------------------
(* What is staged does not change                                              *)

StagedIsFrozen == \A n \in Seg : stage[n].status # "absent" => stage'[n] = stage[n]

\* The mover is the only one that writes to stage.
LEMMA OnlyMoverStages ==
  ASSUME TypeInv, Next, ~ MoverCopies
  PROVE  UNCHANGED stage
<1>1. CASE OpenDevice \/ Create \/ RollClaim \/ CloseStart \/ MoverRemoves
  BY <1>1, OpenTakes, CreateEffect, RollTakesNext, CloseStarts, RemoveEffect
<1>2. CASE Txn \/ Commit \/ Rollback \/ FinalizeRows
  BY <1>2, CallWrites
<1>3. CASE Crash \/ RecoverInDoubtTxn \/ DiscardInDoubtTxn \/ OpenPersist
  BY <1>3 DEF Crash, RecoverInDoubtTxn, DiscardInDoubtTxn, OpenPersist, disk
<1>4. CASE RollRequested \/ RollRefused \/ RollPersist \/ CloseShips \/ CloseKeeps \/ MarkReady
             \/ MoverCopyFails \/ Delivered
  BY <1>4 DEF RollRequested, RollRefused, RollPersist, CloseShips, CloseKeeps, MarkReady,
     MoverCopyFails, Delivered, disk
<1> QED BY <1>1, <1>2, <1>3, <1>4 DEF Next, Open, Roll, Close, Finalize, Mover

LEMMA FrozenStep ==
  ASSUME TypeInv, StageInv, [Next]_vars
  PROVE  StagedIsFrozen
<1>1. CASE MoverCopies
  <2>1. PICK n \in todo : stage' = [stage EXCEPT ![n] = home[n]]
    BY <1>1 DEF MoverCopies
  <2>2. n \in Seg /\ stage \in [Seg -> Segment]
    BY DEF TypeInv, TypeOK
  <2>3. home[n].status = "READY"
    BY <1>1 DEF MoverCopies, StageInv, TodoShape
  <2>4. stage[n].status # "absent" => home[n] = stage[n]
    BY <2>2, <2>3 DEF StageInv, StageShape, NoFile
  <2> QED BY <2>1, <2>2, <2>4 DEF StagedIsFrozen
<1>2. CASE Next /\ ~ MoverCopies
  BY <1>2, OnlyMoverStages DEF StagedIsFrozen
<1>3. CASE UNCHANGED vars
  BY <1>3 DEF vars, disk, StagedIsFrozen
<1> QED BY <1>1, <1>2, <1>3

\* A segment that is in stage is never written again, whatever the application does and
\* however often the mover fails: the sequence number that survives every restart keeps
\* the device from using its number twice.
THEOREM StageNeverRewritten == Spec => [][StagedIsFrozen]_vars
<1>1. TypeInv /\ StageInv /\ [Next]_vars => StagedIsFrozen
  BY FrozenStep
<1> QED BY <1>1, StageHolds, PTL DEF Spec

--------------------------------------------------------------------------------
(* Commit ids grow from segment to segment                                     *)

\* CommitIdsGrow in terms of the rows.
LEMMA GrowthOfRows ==
  /\ CommitIdsGrow <=>
       \A m, n \in Seg : m < n => \A r \in RowsOf(m), q \in RowsOf(n) : r.cid < q.cid
  /\ CommitIdsGrow' <=>
       \A m, n \in Seg : m < n => \A r \in RowsOf(m)', q \in RowsOf(n)' : r.cid < q.cid
BY DEF CommitIdsGrow, CommitIds, RowsOf, Seg

\* The segment that is written is the last one with rows.
LEMMA NothingAbove ==
  ASSUME TypeInv, StageInv, home[cur].status = "NEW", NEW n \in Seg, n > cur
  PROVE  RowsOf(n) = {}
<1>1. cur \in Seg /\ cur \in Int /\ n \in Int /\ persisted \in Int
  BY BoundsAssumption DEF TypeInv, TypeOK, Seg
<1>2. home[n].rows = {}
  BY <1>1 DEF TypeInv, HomeShape
<1>3. cur >= persisted /\ (stage[n].status # "absent" => n <= persisted)
  BY <1>1 DEF StageInv, StageShape
<1>4. stage[n].rows = {}
  BY <1>1, <1>3 DEF StageInv, StageShape
<1> QED BY <1>2, <1>4 DEF RowsOf

\* The next commit id, which the open segment is given, is above the ids of the segments
\* before it; the segments after it are empty.
LEMMA GrowStep ==
  ASSUME Base, CommitIdsGrow, [Next]_vars
  PROVE  CommitIdsGrow'
<1> USE DEF Base
<1>1. CASE UNCHANGED vars
  BY <1>1 DEF vars, disk, CommitIdsGrow, Seg
<1>2. CASE Next
  <2>1. SUFFICES ASSUME NEW m \in Seg, NEW n \in Seg, m < n, NEW r \in RowsOf(m)', NEW q \in RowsOf(n)'
                 PROVE  r.cid < q.cid
    BY GrowthOfRows
  <2>2. \A i, j \in Seg : i < j => \A x \in RowsOf(i), y \in RowsOf(j) : x.cid < y.cid
    BY GrowthOfRows
  <2>3. m \in Int /\ n \in Int /\ cur \in Int /\ cur \in Seg
    BY BoundsAssumption DEF Seg, TypeInv, TypeOK
  <2>4. \/ \E x \in RowsOf(m) : x.cid = r.cid
        \/ m = cur /\ home[cur].status = "NEW"
    BY <1>2, IdsAdded DEF CommitIds
  <2>5. \/ \E y \in RowsOf(n) : y.cid = q.cid
        \/ n = cur /\ q.cid = nextCommit /\ pc \notin Down
    BY <1>2, IdsAdded DEF CommitIds
  <2>6. CASE \E x \in RowsOf(m) : x.cid = r.cid
    <3>1. PICK x \in RowsOf(m) : x.cid = r.cid
      BY <2>6
    <3>2. CASE \E y \in RowsOf(n) : y.cid = q.cid
      BY <2>1, <2>2, <3>1, <3>2
    <3>3. CASE n = cur /\ q.cid = nextCommit /\ pc \notin Down
      <4>1. x.cid # nextCommit
        BY <2>1, <2>3, <3>1, <3>3 DEF IdInv, OthersBelow
      <4>2. x.cid <= nextCommit /\ x.cid \in Nat /\ nextCommit \in Nat
        BY <3>3, LogTyped DEF IdInv, RowsBelowNext, Row, TypeInv, TypeOK
      <4> QED BY <3>1, <3>3, <4>1, <4>2
    <3> QED BY <2>5, <3>2, <3>3
  <2>7. CASE m = cur /\ home[cur].status = "NEW"
    <3>1. RowsOf(n) = {}
      BY <2>1, <2>3, <2>7, NothingAbove
    <3> QED BY <2>1, <2>3, <2>5, <2>7, <3>1
  <2> QED BY <2>4, <2>6, <2>7
<1> QED BY <1>1, <1>2

--------------------------------------------------------------------------------
(* No number is skipped                                                        *)

Held(n) == stage[n].status # "absent" \/ home[n].status = "READY"

\* Below a number in use every segment is held, and the persisted number is that of
\* one that is held or is being written.
GapInv ==
  /\ \A n \in Seg : n <= persisted \/ home[n].status # "absent" =>
       \A m \in Seg : m < n => Held(m)
  /\ \A n \in Seg : n = persisted => Held(n) \/ home[n].status = "NEW"
  /\ pc \in {"open_create", "roll_create"} => \A m \in Seg : m < slot => Held(m)
  /\ pc \in {"finalize", "mark_ready"} /\ ~ closing => slot = cur + 1

\* A step that makes no file, gives up none that was held, and opens no call.
LEMMA GapKept ==
  ASSUME GapInv, UNCHANGED persisted,
         \A n \in Seg : Held(n) => Held(n)',
         \A n \in Seg : home'[n].status # "absent" => home[n].status # "absent",
         \A n \in Seg : home[n].status = "NEW" => home'[n].status = "NEW" \/ Held(n)',
         pc' \notin {"open_create", "roll_create"},
         pc' \in {"finalize", "mark_ready"} /\ ~ closing' => slot' = cur' + 1
  PROVE  GapInv'
BY DEF GapInv, Seg

\* A step that leaves the status of every file alone.
LEMMA GapStatus ==
  ASSUME GapInv, UNCHANGED <<stage, persisted>>,
         \A n \in Seg : home'[n].status = home[n].status,
         pc' \notin {"open_create", "roll_create"},
         \/ pc' \notin {"finalize", "mark_ready"}
         \/ closing'
         \/ pc \in {"finalize", "mark_ready"} /\ UNCHANGED <<closing, slot, cur>>
  PROVE  GapInv'
<1>1. /\ \A n \in Seg : Held(n) => Held(n)'
      /\ pc' \in {"finalize", "mark_ready"} /\ ~ closing' => slot' = cur' + 1
  BY DEF Held, GapInv
<1> QED BY <1>1, GapKept

LEMMA GapCall ==
  ASSUME TypeInv, GapInv, Txn \/ Commit \/ Rollback \/ CloseStart \/ FinalizeRows
  PROVE  GapInv'
<1>1. /\ \A n \in Seg : home'[n].status = home[n].status
      /\ UNCHANGED <<stage, persisted>>
      /\ pc' \in Writing \union {"idle", "roll_check", "close_check", "mark_ready"}
  BY CallWrites DEF WriterStep
<1>2. pc' = "mark_ready" => FinalizeRows
  BY CloseStarts, CommitStarts DEF Txn, Execute, ExecuteUnlogged, FlushLog, Commit, CommitFlush,
     CommitPublish, CommitDb, CommitDbFails, CommitRow, FateRow, CommitDone, EndTxn, Rollback, RollbackStart,
     RollbackRow, RollbackDone
<1>3. FinalizeRows => pc = "finalize" /\ UNCHANGED <<closing, slot, cur>>
  BY DEF FinalizeRows
<1> QED BY <1>1, <1>2, <1>3, GapStatus DEF Writing

LEMMA GapQuiet ==
  ASSUME TypeInv, GapInv,
         Crash \/ RollRequested \/ RollRefused \/ CloseShips \/ CloseKeeps \/ MoverCopyFails \/ Delivered
  PROVE  GapInv'
<1>1. UNCHANGED <<home, stage, persisted>>
  BY DEF Crash, RollRequested, RollRefused, CloseShips, CloseKeeps, MoverCopyFails, Delivered, disk
<1>2. pc' \in {"down", "idle", "roll_check", "finalize", "deliver"} /\ (pc' = "finalize" => CloseShips)
  BY DEF Crash, RollRequested, RollRefused, CloseShips, CloseKeeps, MoverCopyFails, Delivered
<1>3. CloseShips => closing'
  BY DEF CloseShips, TypeInv, StepShape
<1> QED BY <1>1, <1>2, <1>3, GapStatus

LEMMA GapRecover ==
  ASSUME TypeInv, GapInv, RecoverInDoubtTxn \/ DiscardInDoubtTxn
  PROVE  GapInv'
<1>1. CASE DiscardInDoubtTxn
  BY <1>1, DiscardEffect, GapStatus
<1>2. CASE RecoverInDoubtTxn
  <2>1. UNCHANGED <<stage, persisted>> /\ pc' \in {"refused", "open_discard", "open_persist"}
    BY <1>2 DEF RecoverInDoubtTxn
  <2>2. \A n \in Seg : home'[n].status = home[n].status
    <3>1. CASE RecoveryOutcome(db.commitId, Slave, FateOf(home[cur].rows, Slave)) = "COMMIT"
      BY <1>2, <3>1, RecoveryCommits DEF WriterStep
    <3>2. CASE RecoveryOutcome(db.commitId, Slave, FateOf(home[cur].rows, Slave)) # "COMMIT"
      BY <1>2, <3>2 DEF RecoverInDoubtTxn
    <3> QED BY <3>1, <3>2
  <2> QED BY <2>1, <2>2, GapStatus
<1> QED BY <1>1, <1>2

\* A new segment takes the first number that was never used: whatever has a file or was
\* persisted is below, and none of it is being written.
LEMMA GapOpenDevice ==
  ASSUME TypeInv, GapInv, OpenDevice
  PROVE  GapInv'
<1>1. OpenResolved
  BY ScanSucceeds DEF OpenDevice
<1>2. home' = Resolved /\ UNCHANGED <<stage, persisted, closing>>
  BY <1>1, OpenTakes
<1>3. pc' \in {"open_recover", "open_create"}
  BY <1>1 DEF OpenResolved
<1>4. \A n \in Seg : home'[n] = home[n] \/ (home'[n] = NoFile /\ home[n].status = "half")
  <2>1. \A n \in Seg : Resolved[n] = home[n] \/ (Resolved[n] = NoFile /\ home[n].status = "half")
    BY DEF Resolved, Sweep, TypeInv, TypeOK
  <2> QED BY <1>2, <2>1
<1>5. /\ \A n \in Seg : Held(n) => Held(n)'
      /\ \A n \in Seg : home'[n].status # "absent" => home[n].status # "absent"
      /\ \A n \in Seg : home[n].status = "NEW" => home'[n].status = "NEW"
  BY <1>2, <1>4 DEF Held, NoFile
<1>6. CASE pc' = "open_recover"
  BY <1>2, <1>5, <1>6, GapKept
<1>7. CASE pc' = "open_create"
  <2> DEFINE s == NextSegment(Resolved)
             top == Highest(OnDisk(Resolved))
  <2>1. ~ (ActiveSegment >= 0) /\ s <= MaxSegment /\ slot' = FreeSlot(Resolved, s)
    BY <1>1, <1>7 DEF OpenResolved
  <2>2. persisted \in -1 .. MaxSegment
    BY DEF TypeInv, TypeOK
  <2>3. OnDisk(Resolved) \in SUBSET Seg /\ Writable(Resolved) \in SUBSET Seg
    BY DEF OnDisk, Writable
  <2>4. Writable(Resolved) = {}
    <3>1. SUFFICES ASSUME Writable(Resolved) # {} PROVE FALSE
      OBVIOUS
    <3>2. Highest(Writable(Resolved)) \in Seg
      BY <2>3, <3>1, HighestIsMax
    <3>3. CASE PersistedIsWritable
      <4>1. ActiveSegment = persisted /\ persisted \in Seg
        BY <3>3 DEF ActiveSegment, PersistedIsWritable, Writable
      <4> QED BY <2>1, <4>1, BoundsAssumption DEF Seg
    <3>4. CASE ~ PersistedIsWritable
      BY <2>1, <3>2, <3>4, BoundsAssumption DEF ActiveSegment, Seg
    <3> QED BY <3>3, <3>4
  <2>5. \A n \in Seg : Resolved[n].status \in {"absent", "READY"}
    BY <2>4, ResolvedShape, LogIsInShape DEF Writable, Segment, Status
  <2>6. s \in Seg /\ s = IF top + 1 > persisted + 1 THEN top + 1 ELSE persisted + 1
    <3>1. top \in Int /\ top >= -1
      <4>1. CASE OnDisk(Resolved) = {}
        BY <4>1 DEF Highest
      <4>2. CASE OnDisk(Resolved) # {}
        BY <2>3, <4>2, HighestIsMax, BoundsAssumption DEF Seg
      <4> QED BY <4>1, <4>2
    <3> QED BY <2>1, <2>2, <3>1, BoundsAssumption DEF NextSegment, Seg
  <2>7. slot' = s
    <3>1. \A n \in Seg : n >= s => Resolved[n].status = "absent"
      BY NextSegmentIsFree, LogIsInShape
    <3>2. \A n \in Seg : Resolved[n].status = "absent" => Resolved[n].rows = {}
      BY ResolvedShape, LogIsInShape DEF TypeInv, HomeShape, NoFile
    <3>3. Resolved \in [Seg -> Segment]
      BY ResolvedShape, LogIsInShape
    <3> HIDE DEF s
    <3> QED BY <2>1, <2>6, <3>1, <3>2, <3>3, ClaimOfFreeSlot
  <2>8. ASSUME NEW m \in Seg, m < s PROVE Held(m)'
    <3>1. m \in Int /\ top \in Int
      <4>1. top \in Int
        BY <2>3, HighestIsMax, BoundsAssumption DEF Highest, Seg
      <4> QED BY <4>1, BoundsAssumption DEF Seg
    <3>2. CASE m <= persisted
      <4>1. CASE m < persisted
        <5>1. persisted \in Seg
          BY <2>2, <3>1, <4>1, BoundsAssumption DEF Seg
        <5>2. Held(m)
          BY <4>1, <5>1, <2>2 DEF GapInv
        <5> QED BY <1>5, <5>2
      <4>2. CASE m = persisted
        <5>1. Held(m) \/ home[m].status = "NEW"
          BY <4>2 DEF GapInv
        <5>2. home[m].status # "NEW"
          BY <1>2, <1>5, <2>5
        <5> QED BY <1>5, <5>1, <5>2
      <4> QED BY <2>2, <3>1, <3>2, <4>1, <4>2
    <3>3. CASE m <= top
      <4>1. OnDisk(Resolved) # {}
        BY <3>1, <3>3, BoundsAssumption DEF Highest, Seg
      <4>2. top \in Seg /\ Resolved[top].status # "absent"
        BY <2>3, <4>1, HighestIsMax DEF OnDisk
      <4>3. Resolved[top].status = "READY"
        BY <2>5, <4>2
      <4>4. CASE m = top
        BY <1>2, <4>3, <4>4 DEF Held
      <4>5. CASE m < top
        <5>1. home[top].status # "absent"
          BY <1>2, <1>5, <4>2
        <5>2. Held(m)
          BY <4>2, <4>5, <5>1 DEF GapInv
        <5> QED BY <1>5, <5>2
      <4> QED BY <3>1, <3>3, <4>4, <4>5
    <3> HIDE DEF top, s
    <3> QED BY <2>2, <2>6, <2>8, <3>1, <3>2, <3>3
  <2> HIDE DEF s
  <2>9. /\ \A n \in Seg : n <= persisted' \/ home'[n].status # "absent" =>
             \A m \in Seg : m < n => Held(m)'
        /\ \A n \in Seg : n = persisted' => Held(n)' \/ home'[n].status = "NEW"
    BY <1>2, <1>5 DEF GapInv
  <2> QED BY <1>7, <2>7, <2>8, <2>9 DEF GapInv
<1> QED BY <1>3, <1>6, <1>7

LEMMA GapCreate ==
  ASSUME TypeInv, GapInv, CreateFile \/ CreateSchema
  PROVE  GapInv'
<1>1. slot \in Seg /\ home \in [Seg -> Segment]
  BY DEF TypeInv, TypeOK
<1>2. CASE CreateFile
  <2>1. /\ pc \in {"open_create", "roll_create"} /\ pc' \in {"open_schema", "roll_schema"}
        /\ home[slot].status = "absent" /\ home' = [home EXCEPT ![slot].status = "half"]
        /\ UNCHANGED <<stage, persisted>>
    BY <1>2 DEF CreateFile
  <2>2. \A n \in Seg : n # slot => home'[n] = home[n]
    BY <1>1, <2>1
  <2>3. \A n \in Seg : Held(n) => Held(n)'
    BY <1>1, <2>1, <2>2 DEF Held
  <2>4. \A n \in Seg : n <= persisted \/ home'[n].status # "absent" =>
          \A m \in Seg : m < n => Held(m)'
    BY <2>1, <2>2, <2>3 DEF GapInv
  <2>5. \A n \in Seg : n = persisted => Held(n)' \/ home'[n].status = "NEW"
    BY <1>1, <2>1, <2>2, <2>3 DEF GapInv
  <2> QED BY <2>1, <2>4, <2>5 DEF GapInv
<1>3. CASE CreateSchema
  <2>1. /\ pc \in {"open_schema", "roll_schema"} /\ pc' \in {"open_recover", "roll_persist"}
        /\ home' = [home EXCEPT ![slot].status = "NEW"] /\ UNCHANGED <<stage, persisted>>
    BY <1>3 DEF CreateSchema
  <2>2. home[slot].status = "half"
    BY <2>1 DEF TypeInv, StepShape
  <2>3. \A n \in Seg : n # slot => home'[n] = home[n]
    BY <1>1, <2>1
  <2>4. \A n \in Seg : Held(n) => Held(n)'
    BY <2>1, <2>2, <2>3 DEF Held
  <2> QED BY <1>1, <2>1, <2>2, <2>3, <2>4, GapKept
<1> QED BY <1>2, <1>3

\* The number that is persisted is that of the segment being written.
LEMMA GapPersist ==
  ASSUME TypeInv, GapInv, OpenPersist \/ RollPersist
  PROVE  GapInv'
<1>1. /\ pc \in {"open_persist", "roll_persist"} /\ pc' = "deliver" /\ persisted' = cur
      /\ UNCHANGED <<home, stage>>
  BY DEF OpenPersist, RollPersist, PersistSequence
<1>2. cur \in Seg /\ home[cur].status = "NEW" /\ cur \in Int /\ \A n \in Seg : n \in Int
  BY <1>1, BoundsAssumption DEF TypeInv, TypeOK, StepShape, CurOpen, Seg
<1>3. \A n \in Seg : Held(n)' <=> Held(n)
  BY <1>1 DEF Held
<1>4. ASSUME NEW n \in Seg, n <= persisted' \/ home[n].status # "absent", NEW m \in Seg, m < n
      PROVE  Held(m)
  <2>1. CASE home[n].status # "absent"
    BY <1>4, <2>1 DEF GapInv
  <2>2. CASE n <= cur
    <3>1. m \in Int /\ n \in Int
      BY <1>2
    <3>2. m < cur
      BY <1>2, <1>4, <2>2, <3>1
    <3> QED BY <1>2, <3>2 DEF GapInv
  <2> QED BY <1>1, <1>4, <2>1, <2>2
<1> QED BY <1>1, <1>2, <1>3, <1>4 DEF GapInv

LEMMA GapRollClaim ==
  ASSUME TypeInv, GapInv, RollClaim
  PROVE  GapInv'
<1>1. home' = home /\ slot' = cur + 1
  BY RollTakesNext
<1>2. pc' = "finalize" /\ UNCHANGED <<stage, persisted, cur, closing>>
  BY DEF RollClaim
<1>3. \A n \in Seg : Held(n) <=> Held(n)'
  BY <1>1, <1>2 DEF Held
<1> QED BY <1>1, <1>2, <1>3, GapKept

LEMMA GapMarkReady ==
  ASSUME TypeInv, GapInv, MarkReady
  PROVE  GapInv'
<1>1. /\ pc = "mark_ready" /\ home' = [home EXCEPT ![cur].status = "READY"]
      /\ pc' = IF closing THEN "deliver" ELSE "roll_create"
      /\ UNCHANGED <<stage, persisted, cur, slot, closing>>
  BY DEF MarkReady
<1>2. cur \in Seg /\ home \in [Seg -> Segment] /\ home[cur].status = "NEW"
  BY <1>1 DEF TypeInv, TypeOK, StepShape, CurOpen
<1>3. /\ home'[cur].status = "READY"
      /\ \A n \in Seg : n # cur => home'[n] = home[n]
  BY <1>1, <1>2 DEF Segment
<1>4. \A n \in Seg : Held(n) \/ n = cur => Held(n)'
  BY <1>1, <1>3 DEF Held
<1>5. \A n \in Seg : home'[n].status # "absent" => home[n].status # "absent"
  BY <1>2, <1>3
<1>6. ASSUME pc' = "roll_create", NEW m \in Seg, m < slot PROVE Held(m)'
  <2>1. slot = cur + 1 /\ m \in Int /\ cur \in Int
    BY <1>1, <1>2, <1>6, BoundsAssumption DEF GapInv, Seg
  <2>2. CASE m < cur
    <3>1. Held(m)
      BY <1>2, <2>2 DEF GapInv
    <3> QED BY <1>4, <3>1
  <2>3. CASE m = cur
    BY <1>4, <2>3
  <2> QED BY <1>6, <2>1, <2>2, <2>3
<1>7. /\ \A n \in Seg : n <= persisted' \/ home'[n].status # "absent" =>
           \A m \in Seg : m < n => Held(m)'
      /\ \A n \in Seg : n = persisted' => Held(n)' \/ home'[n].status = "NEW"
  BY <1>1, <1>3, <1>4, <1>5 DEF GapInv
<1> QED BY <1>1, <1>6, <1>7 DEF GapInv

LEMMA GapMover ==
  ASSUME TypeInv, StageInv, GapInv, MoverCopies \/ MoverRemoves
  PROVE  GapInv'
<1>1. todo \subseteq Seg /\ home \in [Seg -> Segment] /\ stage \in [Seg -> Segment]
  BY DEF TypeInv, TypeOK
<1>2. CASE MoverCopies
  <2>1. PICK n \in todo : NextToDeliver(n) /\ stage' = [stage EXCEPT ![n] = home[n]]
    BY <1>2 DEF MoverCopies
  <2>2. pc = "deliver" /\ pc' = "remove" /\ UNCHANGED <<home, persisted>>
    BY <1>2 DEF MoverCopies
  <2>3. home[n].status = "READY"
    BY <2>1, <2>2 DEF StageInv, TodoShape
  <2>4. \A m \in Seg : Held(m) => Held(m)'
    BY <1>1, <2>1, <2>2, <2>3 DEF Held
  <2> QED BY <2>2, <2>4, GapKept
<1>3. CASE MoverRemoves
  <2>1. PICK n \in todo : NextToDeliver(n) /\ home' \in {[home EXCEPT ![n] = NoFile], home}
    BY <1>3 DEF MoverRemoves, Faulty
  <2>2. pc = "remove" /\ pc' = "deliver" /\ UNCHANGED <<stage, persisted>>
    BY <1>3 DEF MoverRemoves
  <2>3. home[n].status = "READY" /\ stage[n] = home[n]
    BY <2>1, <2>2 DEF StageInv, TodoShape
  <2>4. \A m \in Seg : home'[m] = home[m] \/ (m = n /\ home'[m] = NoFile)
    BY <1>1, <2>1
  <2>5. \A m \in Seg : Held(m) => Held(m)'
    BY <2>2, <2>3, <2>4 DEF Held
  <2>6. /\ \A m \in Seg : home'[m].status # "absent" => home[m].status # "absent"
        /\ \A m \in Seg : home[m].status = "NEW" => home'[m].status = "NEW" \/ Held(m)'
    BY <2>3, <2>4 DEF NoFile
  <2> QED BY <2>2, <2>5, <2>6, GapKept
<1> QED BY <1>2, <1>3

LEMMA GapInit ==
  ASSUME Init
  PROVE  GapInv
<1>1. \A n \in Seg : home[n].status = "absent"
  BY DEF Init, NoFile
<1>2. \A n \in Seg : ~ (n <= -1)
  BY BoundsAssumption DEF Seg
<1> QED BY <1>1, <1>2 DEF Init, GapInv

LEMMA GapStep ==
  ASSUME TypeInv, StageInv, GapInv, [Next]_vars
  PROVE  GapInv'
<1>1. CASE UNCHANGED vars
  <2>1. UNCHANGED <<home, stage, persisted, pc, cur, slot, closing>>
    BY <1>1 DEF vars, disk, memory
  <2>2. \A n \in Seg : Held(n) <=> Held(n)'
    BY <2>1 DEF Held
  <2> QED BY <2>1, <2>2 DEF GapInv, Seg
<1> QED BY <1>1, GapCall, GapQuiet, GapRecover, GapOpenDevice, GapCreate, GapPersist, GapRollClaim,
      GapMarkReady, GapMover DEF Next, Open, Create, Roll, Close, Finalize, Mover

LEMMA GapIsHeld ==
  ASSUME GapInv, StageInv, TypeInv
  PROVE  GapIsHeldAtHome
<1> SUFFICES ASSUME NEW n \in OnStage, NEW m \in 0 .. (n - 1)
             PROVE  m \in OnStage \/ home[m].status = "READY"
  BY DEF GapIsHeldAtHome
<1>1. n \in Seg /\ m \in Seg /\ m < n /\ stage[n].status # "absent"
  BY BoundsAssumption DEF OnStage, Seg
<1>2. n <= persisted
  BY <1>1 DEF StageInv, StageShape
<1>3. Held(m)
  BY <1>1, <1>2 DEF GapInv
<1> QED BY <1>1, <1>3 DEF Held, OnStage

OrderInv == CommitIdsGrow /\ GapInv

LEMMA OrderInit ==
  ASSUME Init
  PROVE  OrderInv
<1>1. \A n \in Seg : RowsOf(n) = {}
  BY DEF Init, NoFile, RowsOf
<1> QED BY <1>1, GrowthOfRows, GapInit DEF OrderInv

LEMMA OrderStep ==
  ASSUME DeviceInv, OrderInv, [Next]_vars
  PROVE  OrderInv'
BY GrowStep, GapStep DEF DeviceInv, Base, OrderInv

\* Whatever the application does, the numbers of the segments give the order of the
\* history: commit ids grow from segment to segment, and no number is missing in stage
\* whose segment is not held, finalized, in the device home.
THEOREM NumbersOrderHistory == Spec => []SegmentsInOrder
<1>1. DeviceInv /\ OrderInv => SegmentsInOrder
  BY GapIsHeld DEF DeviceInv, Base, OrderInv, SegmentsInOrder
<1> QED BY <1>1, OrderInit, OrderStep, DeviceInvHolds, PTL DEF Spec

--------------------------------------------------------------------------------
(* DuckDbDevice implements CommitStream                                        *)

\* Every commit of the database has a row in some segment: the REPLAY_TXN it wrote before
\* the database committed.
CommitsLogged == \A c \in db.done : \E n \in Seg : c \in CommitIds(RowsOf(n))

NextBound == nextCommit <= MaxCommitId

LEMMA CommitsLoggedStep ==
  ASSUME DeviceInv, FateInv, CommitsLogged, [Next]_vars
  PROVE  CommitsLogged'
<1> USE DEF DeviceInv, Base
<1>1. CASE CommitDb
  <2>1. db'.done = db.done \union {nextCommit} /\ pc = "commit_db" /\ UNCHANGED <<home, stage>>
    BY <1>1 DEF CommitDb
  <2>2. cur \in Seg /\ \E r \in home[cur].rows : r.cid = nextCommit
    BY <2>1 DEF FateInv, ReplayedDb, TypeInv, TypeOK
  <2>3. nextCommit \in CommitIds(RowsOf(cur))
    BY <2>2 DEF CommitIds, RowsOf
  <2> QED BY <2>1, <2>2, <2>3 DEF CommitsLogged, RowsOf, Seg
<1>2. CASE DiscardInDoubtTxn
  <2>1. UNCHANGED <<db, stage>> /\ pc = "open_discard" /\ cur \in Seg
    BY <1>2, DiscardEffect DEF TypeInv, TypeOK
  <2>2. /\ \A n \in Seg : n # cur => home'[n] = home[n]
        /\ home'[cur].rows = home[cur].rows \ OfCommit(home[cur].rows, Slave)
    BY <1>2, DiscardEffect
  <2>3. \A c \in db.done : c # Slave
    <3>1. Slave \in Nat
      BY <2>1, LastCommitIdType DEF Slave, TypeInv, TypeOK, FiniteRows, Segment
    <3> QED BY <2>1, <3>1 DEF SideInv, CommitMarked, IdInv, DbShape, TypeInv, TypeOK
  <2>4. ASSUME NEW c \in db.done PROVE \E n \in Seg : c \in CommitIds(RowsOf(n)')
    <3>1. PICK n \in Seg : \E r \in RowsOf(n) : r.cid = c
      BY DEF CommitsLogged, CommitIds
    <3>2. PICK r \in RowsOf(n) : r.cid = c
      BY <3>1
    <3>3. r \in RowsOf(n)'
      BY <2>1, <2>2, <2>3, <3>2 DEF RowsOf, OfCommit
    <3> QED BY <3>2, <3>3 DEF CommitIds
  <2> QED BY <2>1, <2>4 DEF CommitsLogged, CommitIds, Seg
<1>3. CASE Next /\ ~ CommitDb /\ ~ DiscardInDoubtTxn
  <2>1. db' = db /\ \A n \in Seg : RowsOf(n) \subseteq RowsOf(n)'
    BY <1>3, DbStays, RowsStay
  <2> QED BY <2>1 DEF CommitsLogged, CommitIds, Seg
<1>4. CASE UNCHANGED vars
  BY <1>4 DEF vars, disk, CommitsLogged, RowsOf, Seg
<1> QED BY <1>1, <1>2, <1>3, <1>4

\* Open finds the clock ahead of the segment it scans, and takes it.
LEMMA OpenDraws ==
  ASSUME TypeInv, OpenDevice
  PROVE  nextCommit' <= MaxCommitId
<1>1. PICK now \in 0 .. MaxCommitId :
        /\ \A c \in Recorded : c < now
        /\ nextCommit' = NextMonotonic(now, ScanMaxCommitId)
  BY ScanSucceeds DEF OpenDevice, OpenResolved
<1>2. ScanMaxCommitId = 0 \/ ScanMaxCommitId \in Recorded
  <2> DEFINE top == Highest(OnDisk(Resolved))
  <2>1. CASE OnDisk(Resolved) = {}
    BY <2>1 DEF ScanMaxCommitId, Highest
  <2>2. CASE OnDisk(Resolved) # {}
    <3>1. OnDisk(Resolved) \in SUBSET Seg
      BY DEF OnDisk
    <3>2. top \in Seg
      BY <2>2, <3>1, HighestIsMax
    <3> HIDE DEF top
    <3>3. /\ home[top].rows \in SUBSET Row /\ IsFiniteSet(home[top].rows)
          /\ Resolved[top].rows = home[top].rows
      BY <3>2, ResolvedShape, LogIsInShape DEF TypeInv, TypeOK, FiniteRows, Segment
    <3>4. ScanMaxCommitId \in {0, LastCommitId(home[top].rows)}
      BY <3>3 DEF ScanMaxCommitId, top
    <3>5. CASE home[top].rows = {}
      BY <3>4, <3>5 DEF LastCommitId
    <3>6. CASE home[top].rows # {}
      <4>1. LastCommitId(home[top].rows) \in CommitIds(home[top].rows)
        BY <3>3, <3>6, LastCommitIdIsMax DEF CommitIds
      <4> QED BY <3>2, <3>4, <4>1 DEF Recorded
    <3> QED BY <3>5, <3>6
  <2> QED BY <2>1, <2>2
<1>3. db.commitId \in Recorded /\ db.commitId \in Nat
  BY DEF Recorded, TypeInv, TypeOK
<1>4. ScanMaxCommitId < now /\ now \in Nat
  BY <1>1, <1>2, <1>3, BoundsAssumption
<1> QED BY <1>1, <1>4, BoundsAssumption DEF NextMonotonic

LEMMA BoundStep ==
  ASSUME TypeInv, NextBound, [Next]_vars
  PROVE  NextBound'
<1>1. CASE InMemoryReset
  BY <1>1, BoundsAssumption DEF InMemoryReset, NextBound
<1>2. CASE UNCHANGED nextCommit
  BY <1>2 DEF NextBound
<1>3. CASE OpenDevice
  BY <1>3, OpenDraws DEF NextBound
<1>4. CASE CommitDone \/ RollbackDone
  BY <1>4 DEF CommitDone, RollbackDone, EndTxn, NextBound
<1>5. CASE Crash \/ RecoverInDoubtTxn \/ DiscardInDoubtTxn \/ OpenPersist \/ Create
  BY <1>1, <1>2, <1>5, CreateEffect DEF Crash, RecoverInDoubtTxn, DiscardInDoubtTxn, OpenPersist
<1>6. CASE Txn \/ CommitStart \/ CommitFlush \/ CommitPublish \/ CommitDb \/ CommitDbFails \/ CommitRow
  BY <1>2, <1>6, CommitStarts DEF Txn, Execute, ExecuteUnlogged, FlushLog, CommitFlush, CommitPublish,
     CommitDb, CommitDbFails, CommitRow, FateRow
<1>7. CASE RollbackStart \/ RollbackRow \/ Roll
  BY <1>2, <1>7, RollTakesNext DEF RollbackStart, RollbackRow, FateRow, Roll, RollRequested, RollRefused,
     RollPersist
<1>8. CASE Close \/ Finalize \/ Mover
  BY <1>1, <1>2, <1>8, CloseStarts, RemoveEffect DEF Close, CloseShips, CloseKeeps, Finalize,
     FinalizeRows, MarkReady, Mover, MoverCopies, MoverCopyFails, Delivered
<1>9. CASE UNCHANGED vars
  BY <1>2, <1>9 DEF vars, memory
<1> QED BY <1>3, <1>4, <1>5, <1>6, <1>7, <1>8, <1>9 DEF Next, Open, Commit, Rollback

StreamInv == DeviceInv /\ FateInv /\ OrderInv /\ CommitsLogged /\ NextBound

\* A commit whose COMMIT row is in stage is one of the database.
LEMMA PublishedCommitted ==
  ASSUME StreamInv
  PROVE  Published \subseteq db.done
<1> SUFFICES ASSUME NEW n \in Readable, NEW c \in CommittedIds(stage[n].rows)
             PROVE  c \in db.done
  BY DEF Published
<1>1. n \in Seg /\ Has(stage[n].rows, c, "COMMIT")
  BY DEF Readable, CommittedIds, FateOf
<1>2. PICK r \in DurableRows : r.cid = c /\ r.kind = "COMMIT"
  BY <1>1 DEF Has, DurableRows
<1> QED BY <1>2 DEF StreamInv, FateInv, FateMatchesDb

\* A commit of the database that has a row in a readable segment, or in one below, is
\* published: a staged segment has the COMMIT of what it has a row of.
LEMMA ReadableBelow ==
  ASSUME StreamInv, NEW n \in Readable, NEW m \in Seg, m <= n,
         NEW c \in db.done, c \in CommitIds(RowsOf(m))
  PROVE  c \in Published
<1>1. n \in Seg /\ n \in Int /\ m \in Int /\ \A k \in 0 .. n : k \in OnStage
  BY BoundsAssumption DEF Readable, Seg
<1>2. m \in Readable
  BY <1>1, BoundsAssumption DEF Readable, Seg
<1>3. stage[m].status # "absent"
  BY <1>1, BoundsAssumption DEF OnStage, Seg
<1>4. RowsOf(m) = stage[m].rows
  BY <1>3 DEF StreamInv, DeviceInv, Base, StageInv, StageShape, RowsOf, NoFile
<1>5. Has(stage[m].rows, c, "COMMIT")
  BY <1>4 DEF StreamInv, DeviceInv, EndInv, DoneLogged
<1>6. c \in CommittedIds(stage[m].rows)
  BY <1>4, <1>5 DEF CommittedIds, FateOf
<1> QED BY <1>2, <1>6 DEF Published

\* What is published is a prefix of what the database committed.
LEMMA PublishedIsPrefix ==
  ASSUME StreamInv
  PROVE  Stream!PrefixOf(Published, db.done)
<1>1. Published \subseteq db.done
  BY PublishedCommitted
<1> SUFFICES ASSUME NEW c \in db.done \ Published, NEW d \in Published PROVE d < c
  BY <1>1 DEF Stream!PrefixOf
<1>2. PICK n \in Readable : d \in CommittedIds(stage[n].rows)
  BY DEF Published
<1>3. PICK q \in stage[n].rows : q.cid = d
  BY <1>2 DEF CommittedIds, CommitIds
<1>4. n \in Seg /\ n \in Int /\ q \in RowsOf(n)
  BY <1>3, BoundsAssumption DEF Readable, RowsOf, Seg
<1>5. PICK m \in Seg : c \in CommitIds(RowsOf(m))
  BY DEF StreamInv, CommitsLogged
<1>6. PICK r \in RowsOf(m) : r.cid = c
  BY <1>5 DEF CommitIds
<1>7. ~ (m <= n)
  BY <1>5, ReadableBelow
<1>8. n < m
  BY <1>4, <1>7, BoundsAssumption DEF Seg
<1>9. \A i, j \in Seg : i < j => \A x \in RowsOf(i), y \in RowsOf(j) : x.cid < y.cid
  BY GrowthOfRows DEF StreamInv, OrderInv
<1> QED BY <1>3, <1>4, <1>6, <1>8, <1>9

\* A segment that reaches stage makes a longer prefix visible.
LEMMA PublishedGrows ==
  ASSUME StreamInv, StreamInv', [Next]_vars
  PROVE  Stream!PrefixOf(Published, Published')
<1> USE DEF StreamInv, DeviceInv, Base
<1>1. \A n \in Seg : stage[n].status # "absent" => stage'[n] = stage[n]
  BY FrozenStep DEF StagedIsFrozen
<1>2. \A n \in Readable : n \in Readable' /\ stage'[n] = stage[n]
  <2>1. \A n \in Readable : n \in OnStage /\ n \in Seg
    BY BoundsAssumption DEF Readable, Seg
  <2>2. OnStage \subseteq OnStage'
    BY <1>1 DEF OnStage, Seg
  <2> QED BY <1>1, <2>1, <2>2 DEF Readable, OnStage, Seg
<1>3. Published \subseteq Published'
  BY <1>2 DEF Published
<1> SUFFICES ASSUME NEW c \in Published' \ Published, NEW d \in Published PROVE d < c
  BY <1>3 DEF Stream!PrefixOf
<1>4. PICK n \in Readable : d \in CommittedIds(stage[n].rows)
  BY DEF Published
<1>5. PICK k \in Readable' : c \in CommittedIds(stage'[k].rows)
  BY DEF Published
<1>6. k \in Seg /\ n \in Seg /\ k \in Int /\ n \in Int
  BY BoundsAssumption DEF Readable, Seg
<1>7. ~ (k <= n)
  <2>1. SUFFICES ASSUME k <= n PROVE FALSE
    OBVIOUS
  <2>2. k \in Readable
    BY <1>6, <2>1, BoundsAssumption DEF Readable, Seg
  <2>3. c \in Published
    BY <1>2, <1>5, <2>2 DEF Published
  <2> QED BY <2>3
<1>8. PICK q \in stage[n].rows : q.cid = d
  BY <1>4 DEF CommittedIds, CommitIds
<1>9. PICK r \in stage'[k].rows : r.cid = c
  BY <1>5 DEF CommittedIds, CommitIds
<1>10. q \in RowsOf(n)' /\ r \in RowsOf(k)'
  BY <1>2, <1>8, <1>9 DEF RowsOf
<1>11. n < k
  BY <1>6, <1>7
<1>12. \A i, j \in Seg : i < j => \A x \in RowsOf(i)', y \in RowsOf(j)' : x.cid < y.cid
  BY GrowthOfRows DEF OrderInv
<1> QED BY <1>6, <1>8, <1>9, <1>10, <1>11, <1>12

\* Each step of the device is one of the stream or leaves it alone.
LEMMA StreamStep ==
  ASSUME StreamInv, StreamInv', [Next]_vars
  PROVE  [Stream!StreamNext]_(Stream!streamVars)
<1>1. CASE CommitDb
  <2>1. /\ pc = "commit_db" /\ db'.done = db.done \union {nextCommit} /\ UNCHANGED stage
    BY <1>1 DEF CommitDb
  <2>2. /\ nextCommit \in 1 .. MaxCommitId /\ nextCommit # 0
        /\ \A d \in db.done : d < nextCommit
    <3>1. db.commitId \in Nat /\ nextCommit \in Nat /\ db.commitId < nextCommit
          /\ \A d \in db.done : d \in Nat /\ d <= db.commitId
      BY <2>1 DEF StreamInv, DeviceInv, Base, IdInv, DbFresh, DbShape, TypeInv, TypeOK, Down
    <3> QED BY <3>1, BoundsAssumption DEF StreamInv, NextBound
  <2>3. Published' = Published
    BY <2>1 DEF Published, Readable, OnStage, Seg
  <2>4. Stream!CommitTxn
    BY <2>1, <2>2, <2>3 DEF Stream!CommitTxn
  <2> QED BY <2>4 DEF Stream!StreamNext
<1>2. CASE MoverCopies
  <2>1. UNCHANGED db
    BY <1>2 DEF MoverCopies
  <2>2. Published' \subseteq db.done
    <3>1. (Published \subseteq db.done)'
      BY PublishedCommitted, PTL
    <3> QED BY <2>1, <3>1
  <2>3. Stream!PrefixOf(Published, Published')
    BY PublishedGrows
  <2>4. Stream!PrefixOf(Published', db.done)
    <3>1. Stream!PrefixOf(Published, db.done)'
      BY PublishedIsPrefix, PTL
    <3> QED BY <2>1, <3>1 DEF Stream!PrefixOf
  <2>5. Stream!Publish
    BY <2>1, <2>2, <2>3, <2>4 DEF Stream!Publish
  <2> QED BY <2>5 DEF Stream!StreamNext
<1>3. CASE Next /\ ~ CommitDb /\ ~ MoverCopies
  <2>1. UNCHANGED <<db, stage>>
    BY <1>3, DbStays, OnlyMoverStages DEF StreamInv, DeviceInv, Base
  <2>2. Published' = Published
    BY <2>1 DEF Published, Readable, OnStage, Seg
  <2> QED BY <2>1, <2>2 DEF Stream!streamVars
<1>4. CASE UNCHANGED vars
  <2>1. UNCHANGED <<db, stage>>
    BY <1>4 DEF vars, disk
  <2>2. Published' = Published
    BY <2>1 DEF Published, Readable, OnStage, Seg
  <2> QED BY <2>1, <2>2 DEF Stream!streamVars
<1> QED BY <1>1, <1>2, <1>3, <1>4

\* For an application that does nothing the device is not prepared for, the device
\* implements CommitStream: whoever takes the staged segments by number and waits for a
\* missing one is given, at any time and across crashes, some prefix of the history of
\* commits, which only grows.
THEOREM DeviceImplementsStream ==
  ASSUME Usage = {}
  PROVE  Spec => StreamSpec
<1>1. ASSUME Init PROVE OrderInv /\ CommitsLogged /\ NextBound
  <2>1. db.done = {} /\ nextCommit = 0
    BY <1>1 DEF Init
  <2> QED BY <1>1, <2>1, OrderInit, BoundsAssumption DEF CommitsLogged, NextBound
<1>2. ASSUME DeviceInv, FateInv, OrderInv, CommitsLogged, NextBound, [Next]_vars
      PROVE  OrderInv' /\ CommitsLogged' /\ NextBound'
  BY <1>2, OrderStep, CommitsLoggedStep, BoundStep DEF DeviceInv, Base
<1>3. Spec => [](DeviceInv /\ FateInv)
  BY FateHolds, PTL
<1>4. Spec => []StreamInv
  BY <1>1, <1>2, <1>3, PTL DEF Spec, StreamInv
<1>5. Init => Stream!StreamInit
  <2>1. SUFFICES ASSUME Init PROVE Published = {} /\ db.done = {}
    BY DEF Stream!StreamInit
  <2>2. \A n \in Readable : stage[n].rows = {}
    BY <2>1, BoundsAssumption DEF Init, NoFile, Readable, Seg
  <2>3. \A n \in Readable : CommittedIds(stage[n].rows) = {}
    BY <2>2 DEF CommittedIds, CommitIds
  <2> QED BY <2>1, <2>3 DEF Published, Init
<1>6. StreamInv /\ StreamInv' /\ [Next]_vars => [Stream!StreamNext]_(Stream!streamVars)
  BY StreamStep
<1> QED BY <1>4, <1>5, <1>6, PTL DEF Spec, StreamSpec, Stream!StreamSpec

===============================================================================
