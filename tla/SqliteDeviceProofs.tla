-------------------------- MODULE SqliteDeviceProofs --------------------------
(***************************************************************************)
(* Theorems about SqliteDevice, for every value of its constants.          *)
(*                                                                         *)
(* The argument has layers.  The first part proves three, each from the    *)
(* one before:                                                             *)
(*   TypeInv    types, and the shape of the device home: at most one file  *)
(*              is being written, and nothing lies above it;               *)
(*   FateInv    commit ids are fresh when they are used, so the fate in the *)
(*              log is the one of the user database;                       *)
(*   ResumeInv  the segment a crash leaves open names the last commit of   *)
(*              the database, so recovery finds it.                        *)
(* The second part, what the log is for, rests on them.                    *)
(***************************************************************************)
EXTENDS SqliteDevice, LogSegmentsProofs

--------------------------------------------------------------------------------
(* The invariants                                                              *)

\* The steps during which the writer has home[cur] open for appending.
CurOpen == Writing \union
  {"idle", "open_recover", "open_flush", "open_persist", "roll_drain", "roll_check",
   "roll_persist", "close_drain", "finalize", "mark_ready"}

FiniteRows ==
  /\ \A n \in Seg : IsFiniteSet(home[n].rows)
  /\ IsFiniteSet(buf) /\ IsFiniteSet(queue)

\* There is room for one more segment.
CanRoll == cur < MaxSegment

\* Where the running call stands determines the file it works on.
StepShape ==
  /\ pc \in CurOpen => home[cur].status = "NEW"
  /\ pc \in {"deliver", "remove"} /\ ~ closing =>
       home[cur].status = "NEW" /\ \A n \in todo : n < cur
  /\ pc \in {"roll_persist"} => \A n \in todo : n < cur
  /\ pc \in {"finalize", "mark_ready"} /\ ~ closing =>
       slot > cur /\ \A n \in todo : n < slot
  /\ pc \in {"roll_create", "roll_schema"} => \A n \in todo : n < slot
  /\ pc \in {"open_create", "roll_create"} =>
       \A n \in Seg : home[n].status \in {"absent", "READY"}
                      /\ (n >= slot => home[n].status = "absent")
  /\ pc \in {"open_schema", "roll_schema"} => home[slot].status = "half"
  /\ pc \in {"roll_drain", "roll_check"} => CanRoll
  /\ closing => pc \in {"close_drain", "finalize", "mark_ready", "deliver", "remove"}
  /\ pc = "close_drain" => closing

TypeInv == TypeOK /\ FiniteRows /\ HomeShape /\ StepShape

\* The call has decided the fate of the commit id it runs under.
FateDecided == closing \/ pc \in {"commit_done", "rollback_done"}

\* Commits of the database: none is above the last one it recorded.
DbShape ==
  /\ \A c \in db.done : c <= db.commitId
  /\ db.commitId # 0 => db.commitId \in db.done

\* The next commit id is above all the database committed, except between the
\* commit of the database and the drawing of the next id.
DbFresh ==
  /\ pc \notin Down /\ pc \notin {"commit_row", "commit_done"} => db.commitId < nextCommit
  /\ pc \in {"commit_row", "commit_done"} =>
       db.commitId = nextCommit /\ nextCommit \in db.done

\* No row has a commit id above the next one, and until a call decides it, no
\* row carries a fate for the next one.
RowsBelowNext ==
  pc \notin Down =>
    \A r \in DurableRows \union buf :
      /\ r.cid <= nextCommit
      /\ ~ FateDecided /\ r.kind \in {"COMMIT", "ROLLBACK"} => r.cid < nextCommit
      /\ pc \in Opening => r.cid < nextCommit

\* Only the statements of the open transaction are queued, with its BEGIN, and
\* with a ROLLBACK when the device closes.
QueueShape ==
  /\ \A r \in queue :
       /\ r.cid = nextCommit /\ r.kind # "COMMIT"
       /\ r.kind = "ROLLBACK" => closing
  /\ queue # {} => pc \in {"idle", "flush_drain", "commit_drain", "rollback_drain",
                           "roll_drain", "close_drain"}
  /\ pc \in Down => buf = {}

\* A COMMIT in the log means the database committed, a ROLLBACK that it did not.
FateIsTrue ==
  \A r \in DurableRows \union buf :
    /\ r.kind = "COMMIT" => r.cid \in db.done
    /\ r.kind = "ROLLBACK" => r.cid \notin db.done

FateInv == DbShape /\ DbFresh /\ RowsBelowNext /\ QueueShape /\ FateIsTrue

\* The steps during which the user transaction may be open.
TxnMayBeOpen ==
  {"idle", "flush_drain", "commit_drain", "commit_db", "rollback_drain",
   "roll_drain", "roll_check", "close_drain"}

\* A segment being written that has rows reaches up to the last database commit.
NewReachesDb ==
  \A n \in Seg : home[n].status = "NEW" /\ home[n].rows # {} =>
    \E r \in home[n].rows : r.cid >= db.commitId

\* Rows the writer has not committed yet are no older than that commit either.
BufReachesDb == \A r \in buf : r.cid >= db.commitId

\* An open user transaction has a row under its commit id, queued, pending or in
\* the segment; when the database commits, that row is durable.
OpenTxnIsLogged ==
  /\ userTxn.open /\ ~ closing =>
       /\ pc \in TxnMayBeOpen
       /\ \E r \in queue \union buf \union home[cur].rows : r.cid = nextCommit
  /\ pc = "commit_db" =>
       userTxn.open /\ buf = {} /\ \E r \in home[cur].rows : r.cid = nextCommit
  /\ pc \in {"commit_drain", "rollback_drain"} => userTxn.open
  /\ pc \in Down => ~ userTxn.open

NotRefused == pc # "refused"

ResumeInv == NotRefused /\ NewReachesDb /\ BufReachesDb /\ OpenTxnIsLogged

--------------------------------------------------------------------------------
(* Types and shape are preserved                                               *)

\* What the lemmas about the home and the writer ask for.
LEMMA LogIsInShape ==
  ASSUME TypeInv
  PROVE  LogShape
BY DEF TypeInv, TypeOK, FiniteRows, LogShape

\* A step that leaves the disk segments and the writer alone need only be checked
\* for its own variables.
LEMMA HomeUntouched ==
  ASSUME TypeInv, UNCHANGED <<home, buf, queue>>
  PROVE  FiniteRows' /\ HomeShape'
BY DEF TypeInv, FiniteRows, HomeShape, Seg

\* A process that ends, by a crash or in order, leaves a well-formed disk.
LEMMA ResetKeepsTypeInv ==
  ASSUME TypeInv, InMemoryReset, pc' \in Down, UNCHANGED disk
  PROVE  TypeInv'
<1>1. /\ cur' = 0 /\ slot' = 0 /\ nextCommit' = 0 /\ nextNum' = 0
      /\ queue' = {} /\ rtOpen' = FALSE /\ userTxn' = NoUserTxn
      /\ buf' = {} /\ todo' = {} /\ closing' = FALSE
      /\ UNCHANGED <<home, stage, persisted, db>>
  BY DEF InMemoryReset, disk
<1>2. 0 \in Seg /\ NoUserTxn \in [open : BOOLEAN, effects : SUBSET Row]
  BY BoundsAssumption DEF Seg, NoUserTxn
<1>3. TypeOK'
  BY <1>1, <1>2 DEF TypeInv, TypeOK, PC, Down, Seg
<1>4. FiniteRows'
  BY <1>1, FS_EmptySet DEF TypeInv, FiniteRows, Seg
<1>5. HomeShape'
  BY <1>1 DEF TypeInv, HomeShape, Seg
<1>6. StepShape'
  BY <1>1 DEF StepShape, Down, CurOpen, Writing
<1> QED BY <1>3, <1>4, <1>5, <1>6 DEF TypeInv

LEMMA TypeInvOpen ==
  ASSUME TypeInv, Open
  PROVE  TypeInv'
<1> USE DEF disk, Down, PC, Opening, Writing, Switching, CurOpen
<1>1. CASE OpenDevice
  <2>1. CASE ScanFails
    <3>1. pc' = "refused" /\ UNCHANGED <<disk, cur, slot, nextCommit, nextNum, queue,
             rtOpen, userTxn, buf, todo, closing>>
      BY <1>1, <2>1 DEF OpenDevice
    <3> QED BY <3>1, HomeUntouched, <1>1 DEF TypeInv, TypeOK, StepShape, OpenDevice
  <2>2. CASE ~ ScanFails
    <3>1. pc \in Down /\ OpenResolved
      BY <1>1, <2>2 DEF OpenDevice
    <3>2. Resolved \in [Seg -> Segment]
      BY ResolvedShape, LogIsInShape
    <3>3. nextCommit' \in Nat
      <4>1. ScanMaxCommitId \in Nat
        BY ScanTyped, LogIsInShape
      <4>2. ClockAtOpen \subseteq Nat
        BY BoundsAssumption DEF ClockAtOpen
      <4> QED BY <3>1, <4>1, <4>2 DEF OpenResolved, NextMonotonic
    <3>4. CASE ActiveSegment >= 0
      <4> DEFINE a == ActiveSegment
      <4>1. a \in Seg /\ Resolved[a].status = "NEW"
        <5>1. CASE PersistedIsWritable
          BY <5>1 DEF ActiveSegment, PersistedIsWritable, Writable, Resolved
        <5>2. CASE ~ PersistedIsWritable
          <6>1. Writable(Resolved) # {}
            BY <3>4, <5>2 DEF ActiveSegment, Highest
          <6>2. Writable(Resolved) \in SUBSET Seg
            BY DEF Writable
          <6>3. Highest(Writable(Resolved)) \in Writable(Resolved)
            BY <6>1, <6>2, HighestIsMax
          <6> QED BY <5>2, <6>3 DEF ActiveSegment, Writable
        <5> QED BY <5>1, <5>2
      <4>2. /\ home' = Resolved /\ cur' = a /\ slot' = a /\ pc' = "open_recover"
            /\ nextNum' = NextChangeNumber(Resolved[a].rows)
            /\ UNCHANGED <<stage, persisted, db, queue, rtOpen, userTxn, buf, todo, closing>>
        BY <3>1, <3>4 DEF OpenResolved
      <4>3. nextNum' \in Nat
        <5>1. Resolved[a].rows \in SUBSET Row /\ IsFiniteSet(Resolved[a].rows)
          BY <3>2, <4>1, ResolvedShape, LogIsInShape DEF TypeInv, FiniteRows, Segment
        <5> QED BY <4>2, <5>1, NextChangeNumberFresh
      <4> HIDE DEF a
      <4>4. TypeOK'
        BY <3>2, <3>3, <4>1, <4>2, <4>3 DEF TypeInv, TypeOK, Seg
      <4>5. FiniteRows'
        BY <4>2, ResolvedShape, LogIsInShape DEF TypeInv, FiniteRows, Seg
      <4>6. HomeShape'
        <5>1. \A n \in Seg : /\ home'[n].rows = home[n].rows
                             /\ home'[n] \in {home[n], NoFile}
                             /\ home'[n].status # "half"
          BY <4>2, ResolvedShape, LogIsInShape
        <5> QED BY <5>1 DEF TypeInv, HomeShape, Seg, NoFile
      <4>7. StepShape'
        BY <3>1, <4>1, <4>2 DEF TypeInv, StepShape
      <4> QED BY <4>4, <4>5, <4>6, <4>7 DEF TypeInv
    <3>5. CASE ~ (ActiveSegment >= 0)
      <4> DEFINE s == NextSegment(Resolved)
      <4>1. s <= MaxSegment
        BY <3>1, <3>5 DEF OpenResolved
      <4>2. s \in Seg
        <5>1. persisted \in -1 .. MaxSegment
          BY DEF TypeInv, TypeOK
        <5>2. Highest(OnDisk(Resolved)) \in Int
          <6>1. OnDisk(Resolved) \in SUBSET Seg
            BY DEF OnDisk
          <6>2. CASE OnDisk(Resolved) = {}
            BY <6>2 DEF Highest
          <6>3. CASE OnDisk(Resolved) # {}
            BY <6>1, <6>3, HighestIsMax, BoundsAssumption DEF Seg
          <6> QED BY <6>2, <6>3
        <5> QED BY <4>1, <5>1, <5>2, BoundsAssumption DEF NextSegment, Seg
      <4>3. \A n \in Seg : n >= s => Resolved[n].status = "absent"
        BY NextSegmentIsFree, LogIsInShape
      <4>4. \A n \in Seg : Resolved[n].status = "absent" => Resolved[n].rows = {}
        BY ResolvedShape, LogIsInShape DEF TypeInv, HomeShape, NoFile
      <4>5. FreeSlot(Resolved, s) = s /\ Claimed(Resolved, s) = Resolved
        <5> HIDE DEF s
        <5> QED BY <3>2, <4>2, <4>3, <4>4, ClaimOfFreeSlot
      <4>6. /\ home' = Resolved /\ cur' = s /\ slot' = s /\ pc' = "open_create"
            /\ nextNum' = 0
            /\ UNCHANGED <<stage, persisted, db, queue, rtOpen, userTxn, buf, todo, closing>>
        BY <3>1, <3>5, <4>5 DEF OpenResolved
      <4>7. \A n \in Seg : Resolved[n].status \in {"absent", "READY"}
        <5>1. Writable(Resolved) = {}
          <6>1. SUFFICES ASSUME Writable(Resolved) # {} PROVE FALSE
            OBVIOUS
          <6>2. Writable(Resolved) \in SUBSET Seg
            BY DEF Writable
          <6>3. Highest(Writable(Resolved)) \in Seg
            BY <6>1, <6>2, HighestIsMax
          <6>4. Highest(Writable(Resolved)) >= 0
            BY <6>3, BoundsAssumption DEF Seg
          <6>5. PersistedIsWritable => persisted >= 0
            BY BoundsAssumption DEF PersistedIsWritable, Writable, Seg
          <6> QED BY <3>5, <6>4, <6>5 DEF ActiveSegment
        <5>2. \A n \in Seg : Resolved[n].status # "half" /\ Resolved[n].status \in Status
          BY <3>2, ResolvedShape, LogIsInShape DEF Segment
        <5> QED BY <5>1, <5>2 DEF Writable, Status
      <4> HIDE DEF s
      <4>8. TypeOK'
        BY <3>2, <3>3, <4>2, <4>6 DEF TypeInv, TypeOK, Seg
      <4>9. FiniteRows'
        BY <4>6, ResolvedShape, LogIsInShape DEF TypeInv, FiniteRows, Seg
      <4>10. HomeShape'
        BY <4>4, <4>6, <4>7 DEF HomeShape, Seg
      <4>11. StepShape'
        BY <3>1, <4>3, <4>6, <4>7 DEF TypeInv, StepShape, Seg
      <4> QED BY <4>8, <4>9, <4>10, <4>11 DEF TypeInv
    <3> QED BY <3>4, <3>5
  <2> QED BY <2>1, <2>2
<1>2. CASE RecoverInDoubtTxn
  <2> DEFINE rows == home[cur].rows
             slave == LastCommitId(rows)
             outcome == RecoveryOutcome(db.commitId, slave, FateOf(rows, slave))
  <2>1. pc = "open_recover" /\ home[cur].status = "NEW" /\ cur \in Seg
    BY <1>2 DEF RecoverInDoubtTxn, TypeInv, TypeOK, StepShape
  <2>2. CASE outcome = "refuse"
    <3>1. pc' = "refused" /\ InMemoryReset /\ UNCHANGED disk
      BY <1>2, <2>2 DEF RecoverInDoubtTxn
    <3> QED BY <3>1, ResetKeepsTypeInv
  <2>3. CASE outcome = "none"
    <3>1. pc' = "open_flush" /\ UNCHANGED <<disk, cur, slot, nextCommit, nextNum, queue,
             rtOpen, userTxn, buf, todo, closing>>
      BY <1>2, <2>3 DEF RecoverInDoubtTxn
    <3> QED BY <2>1, <3>1, HomeUntouched DEF TypeInv, TypeOK, StepShape
  <2>4. CASE outcome \notin {"refuse", "none"}
    <3>1. slave \in Nat
      <4>1. rows \in SUBSET Row /\ IsFiniteSet(rows)
        BY <2>1 DEF TypeInv, TypeOK, FiniteRows, Segment
      <4> QED BY <4>1, LastCommitIdType
    <3>2. outcome \in {"ROLLBACK", "COMMIT"}
      BY <2>4 DEF RecoveryOutcome, FateOf
    <3> DEFINE r == MakeRow(nextNum, slave, outcome)
    <3>3. r \in Row
      BY <3>1, <3>2 DEF MakeRow, Row, RowKind, TypeInv, TypeOK
    <3>4. AppendRow(r) /\ nextNum' = nextNum + 1 /\ pc' = "open_flush"
          /\ UNCHANGED <<stage, persisted, db, cur, slot, nextCommit, queue, rtOpen,
                         userTxn, todo, closing>>
      BY <1>2, <2>4 DEF RecoverInDoubtTxn
    <3> HIDE DEF r
    <3>5. WriterStep
      BY <3>3, <3>4, AppendLogs, LogIsInShape
    <3>6. HomeShape'
      BY <2>1, <3>5, WriterKeepsShape, LogIsInShape
    <3> QED BY <2>1, <3>4, <3>5, <3>6 DEF TypeInv, TypeOK, FiniteRows, StepShape, WriterStep, Seg
  <2> QED BY <2>2, <2>3, <2>4
<1>3. CASE OpenFlush
  <2>1. WriterStep
    BY <1>3, FlushLogs, LogIsInShape DEF OpenFlush
  <2>2. pc = "open_flush" /\ home[cur].status = "NEW"
    BY <1>3 DEF OpenFlush, TypeInv, StepShape
  <2>3. HomeShape'
    BY <2>1, <2>2, WriterKeepsShape, LogIsInShape
  <2> QED BY <1>3, <2>1, <2>2, <2>3
          DEF OpenFlush, TypeInv, TypeOK, FiniteRows, StepShape, WriterStep, Seg
<1>4. CASE OpenPersist
  <2>1. persisted' \in -1 .. MaxSegment
    BY <1>4, BoundsAssumption DEF OpenPersist, PersistSequence, TypeInv, TypeOK, Seg
  <2>2. todo' = FinalizedBelow(cur)
    BY <1>4 DEF OpenPersist
  <2> QED BY <1>4, <2>1, <2>2, HomeUntouched
          DEF OpenPersist, TypeInv, TypeOK, StepShape, FinalizedBelow, Seg
<1> QED BY <1>1, <1>2, <1>3, <1>4 DEF Open

LEMMA TypeInvCreate ==
  ASSUME TypeInv, Create
  PROVE  TypeInv'
<1> USE DEF Down, PC, Opening, Writing, Switching, CurOpen
<1>1. CASE CreateFile
  <2>1. /\ pc \in {"open_create", "roll_create"}
        /\ home' = [home EXCEPT ![slot].status = "half"]
        /\ pc' = IF pc = "open_create" THEN "open_schema" ELSE "roll_schema"
        /\ UNCHANGED <<stage, persisted, db, cur, slot, nextCommit, nextNum, queue,
                       rtOpen, userTxn, buf, todo, closing>>
    BY <1>1 DEF CreateFile
  <2>2. slot \in Seg /\ home \in [Seg -> Segment]
    BY DEF TypeInv, TypeOK
  <2>3. /\ home' \in [Seg -> Segment]
        /\ home'[slot].status = "half" /\ home'[slot].rows = home[slot].rows
        /\ \A n \in Seg : n # slot => home'[n] = home[n]
    BY <2>1, <2>2 DEF Segment, Status
  <2>4. TypeOK'
    BY <2>1, <2>3 DEF TypeInv, TypeOK, Seg
  <2>5. FiniteRows'
    BY <2>1, <2>2, <2>3 DEF TypeInv, FiniteRows, Seg
  <2>6. \A n \in Seg : home[n].status \in {"absent", "READY"}
                       /\ (n >= slot => home[n].status = "absent")
    BY <2>1 DEF TypeInv, StepShape
  <2>7. HomeShape'
    BY <2>2, <2>3, <2>6, BoundsAssumption DEF TypeInv, HomeShape, Seg
  <2>8. StepShape'
    BY <2>1, <2>3 DEF TypeInv, StepShape
  <2> QED BY <2>4, <2>5, <2>7, <2>8 DEF TypeInv
<1>2. CASE CreateSchema
  <2>1. /\ pc \in {"open_schema", "roll_schema"}
        /\ home' = [home EXCEPT ![slot].status = "NEW"]
        /\ cur' = slot /\ nextNum' = 0
        /\ pc' = IF pc = "open_schema" THEN "open_recover" ELSE "roll_persist"
        /\ UNCHANGED <<stage, persisted, db, slot, nextCommit, queue, rtOpen, userTxn,
                       buf, todo, closing>>
    BY <1>2 DEF CreateSchema
  <2>2. slot \in Seg /\ home \in [Seg -> Segment]
    BY DEF TypeInv, TypeOK
  <2>3. /\ home' \in [Seg -> Segment]
        /\ home'[slot].status = "NEW" /\ home'[slot].rows = home[slot].rows
        /\ \A n \in Seg : n # slot => home'[n] = home[n]
    BY <2>1, <2>2 DEF Segment, Status
  <2>4. home[slot].status = "half"
    BY <2>1 DEF TypeInv, StepShape
  <2>5. TypeOK'
    BY <2>1, <2>2, <2>3 DEF TypeInv, TypeOK, Seg
  <2>6. FiniteRows'
    BY <2>1, <2>2, <2>3 DEF TypeInv, FiniteRows, Seg
  <2>7. HomeShape'
    BY <2>2, <2>3, <2>4, BoundsAssumption DEF TypeInv, HomeShape, Seg
  <2>8. StepShape'
    BY <2>1, <2>2, <2>3 DEF TypeInv, StepShape
  <2> QED BY <2>5, <2>6, <2>7, <2>8 DEF TypeInv
<1> QED BY <1>1, <1>2 DEF Create

\* A step of the writer and of its own variables, the segment staying open.
LEMMA WriterKeepsTypeInv ==
  ASSUME TypeInv, WriterStep,
         pc \in CurOpen, pc' \in CurOpen, pc' \in {"roll_drain", "roll_check"} => CanRoll,
         pc' = "roll_persist" => pc = "roll_persist",
         closing => pc' \in {"close_drain", "finalize", "mark_ready"},
         pc' \in {"finalize", "mark_ready"} => pc \in {"finalize", "mark_ready"},
         pc' = "close_drain" => pc = "close_drain",
         queue' \in SUBSET queue, nextNum' \in Nat, nextCommit' \in Nat,
         rtOpen' \in BOOLEAN,
         UNCHANGED <<stage, persisted, db, cur, slot, userTxn, todo, closing>>
  PROVE  TypeInv'
<1> USE DEF Down, PC, Opening, Writing, Switching, CurOpen
<1>1. home[cur].status = "NEW" /\ cur \in Seg
  BY DEF TypeInv, TypeOK, StepShape
<1>2. HomeShape'
  BY <1>1, WriterKeepsShape, LogIsInShape
<1>3. TypeOK'
  BY DEF TypeInv, TypeOK, WriterStep, Seg
<1>4. FiniteRows'
  <2>1. IsFiniteSet(queue')
    BY FS_Subset DEF TypeInv, FiniteRows
  <2> QED BY <2>1 DEF FiniteRows, WriterStep, Seg
<1>5. CanRoll' <=> CanRoll
  BY DEF CanRoll
<1>6. StepShape'
  BY <1>1, <1>5 DEF TypeInv, StepShape, WriterStep
<1> QED BY <1>2, <1>3, <1>4, <1>6 DEF TypeInv

LEMMA TypeInvTxn ==
  ASSUME TypeInv, Txn
  PROVE  TypeInv'
<1> USE DEF Down, PC, Opening, Writing, Switching, CurOpen, disk
<1>1. nextNum \in Nat /\ nextCommit \in Nat /\ rtOpen \in BOOLEAN
  BY DEF TypeInv, TypeOK
<1>2. BeginRow \in Row /\ OpRow \in Row
  BY <1>1 DEF BeginRow, OpRow, MakeRow, Row, RowKind
<1>3. CASE Execute
  <2>1. /\ pc = "idle"
        /\ userTxn' = [open |-> TRUE, effects |-> userTxn.effects \union {OpRow}]
        /\ queue' = queue \union {OpRow} \union (IF rtOpen THEN {} ELSE {BeginRow})
        /\ rtOpen' = TRUE /\ nextNum' = OpRow.num + 1
        /\ UNCHANGED <<disk, pc, cur, slot, nextCommit, buf, todo, closing>>
    BY <1>3 DEF Execute
  <2>2. OpRow.num \in Nat
    BY <1>2 DEF Row
  <2> HIDE DEF disk
  <2>3. TypeOK'
    BY <1>2, <2>1, <2>2 DEF TypeInv, TypeOK, Seg, disk
  <2>4. IsFiniteSet(queue')
    <3>1. IsFiniteSet(queue)
      BY DEF TypeInv, FiniteRows
    <3>2. IsFiniteSet(queue \union {OpRow})
      BY <3>1, FS_AddElement
    <3>3. IsFiniteSet((queue \union {OpRow}) \union {BeginRow})
      BY <3>2, FS_AddElement
    <3>4. CASE rtOpen
      BY <2>1, <3>2, <3>4
    <3>5. CASE ~ rtOpen
      BY <2>1, <3>3, <3>5
    <3> QED BY <3>4, <3>5
  <2>5. FiniteRows'
    BY <2>1, <2>4 DEF TypeInv, FiniteRows, Seg, disk
  <2>6. HomeShape' /\ StepShape'
    BY <2>1 DEF TypeInv, HomeShape, StepShape, Seg, disk
  <2> QED BY <2>3, <2>5, <2>6 DEF TypeInv
<1>4. CASE ExecuteUnlogged
  <2>1. /\ pc = "idle"
        /\ userTxn' = [userTxn EXCEPT !.open = TRUE]
        /\ queue' = queue \union {BeginRow}
        /\ rtOpen' = TRUE /\ nextNum' = nextNum + 1
        /\ UNCHANGED <<disk, pc, cur, slot, nextCommit, buf, todo, closing>>
    BY <1>4 DEF ExecuteUnlogged
  <2> HIDE DEF disk
  <2>5. userTxn' \in [open : BOOLEAN, effects : SUBSET Row]
    BY <2>1 DEF TypeInv, TypeOK
  <2>6. queue' \in SUBSET Row
    BY <1>2, <2>1 DEF TypeInv, TypeOK
  <2>2. TypeOK'
    <3> HIDE DEF PC
    <3> QED BY <1>1, <2>1, <2>5, <2>6 DEF TypeInv, TypeOK, Seg, disk
  <2> USE DEF disk
  <2>3. FiniteRows'
    BY <2>1, FS_AddElement DEF TypeInv, FiniteRows, Seg
  <2>4. HomeShape' /\ StepShape'
    BY <2>1 DEF TypeInv, HomeShape, StepShape, Seg
  <2> QED BY <2>2, <2>3, <2>4 DEF TypeInv
<1>5. CASE Drain
  <2>1. PICK r \in queue : AppendRow(r) /\ queue' = queue \ {r}
    BY <1>5 DEF Drain
  <2>2. r \in Row
    BY <2>1 DEF TypeInv, TypeOK
  <2>3. WriterStep
    BY <2>1, <2>2, AppendLogs, LogIsInShape
  <2>4. /\ pc \in {"flush_drain", "commit_drain", "rollback_drain", "roll_drain", "close_drain"}
        /\ UNCHANGED <<stage, persisted, db, pc, cur, slot, nextCommit, nextNum, rtOpen,
                       userTxn, todo, closing>>
    BY <1>5 DEF Drain
  <2>5. /\ closing => pc = "close_drain"
        /\ pc \in {"roll_drain", "roll_check"} => CanRoll
    BY <2>4 DEF TypeInv, StepShape
  <2>6. queue' \in SUBSET queue
    BY <2>1
  <2> QED BY <1>1, <2>3, <2>4, <2>5, <2>6, WriterKeepsTypeInv
<1>6. CASE FlushLog
  BY <1>6, HomeUntouched DEF FlushLog, TypeInv, TypeOK, StepShape
<1>7. CASE FlushLogDone
  BY <1>7, HomeUntouched DEF FlushLogDone, TypeInv, TypeOK, StepShape
<1> QED BY <1>3, <1>4, <1>5, <1>6, <1>7 DEF Txn

LEMMA TypeInvFateRow ==
  ASSUME TypeInv, NEW step, NEW kind \in RowKind, NEW next, FateRow(step, kind, next),
         step \in {"commit_row", "rollback_row"}, next \in {"commit_done", "rollback_done"}
  PROVE  TypeInv'
<1> USE DEF Down, PC, Opening, Writing, Switching, CurOpen
<1> DEFINE r == MakeRow(nextNum, nextCommit, kind)
<1>1. r \in Row
  BY DEF MakeRow, Row, TypeInv, TypeOK
<1>2. /\ pc = step /\ AppendRow(r) /\ nextNum' = nextNum + 1 /\ pc' = next
      /\ UNCHANGED <<stage, persisted, db, cur, slot, nextCommit, queue, rtOpen,
                     userTxn, todo, closing>>
  BY DEF FateRow
<1> HIDE DEF r
<1>3. WriterStep
  BY <1>1, <1>2, AppendLogs, LogIsInShape
<1>4. nextNum' \in Nat /\ nextCommit' \in Nat /\ rtOpen' \in BOOLEAN /\ queue' \in SUBSET queue
  BY <1>2 DEF TypeInv, TypeOK
<1>5. closing => pc' \in {"close_drain", "finalize", "mark_ready"}
  BY <1>2 DEF TypeInv, StepShape
<1> QED BY <1>2, <1>3, <1>4, <1>5, WriterKeepsTypeInv

\* The end of a transaction: the fate is flushed and the next commit id drawn.
LEMMA TypeInvEndTxn ==
  ASSUME TypeInv, pc \in {"commit_done", "rollback_done"}, Flush, nextCommit' \in Nat,
         pc' \in {"idle", "roll_check"}, pc' = "roll_check" => CanRoll,
         UNCHANGED <<stage, persisted, db, cur, slot, nextNum, queue, rtOpen, userTxn,
                     todo, closing>>
  PROVE  TypeInv'
<1> USE DEF Down, PC, Opening, Writing, Switching, CurOpen
<1>2. WriterStep
  BY FlushLogs, LogIsInShape
<1>4. ~ closing
  BY DEF TypeInv, StepShape
<1>5. nextNum' \in Nat /\ rtOpen' \in BOOLEAN /\ queue' \in SUBSET queue
  BY DEF TypeInv, TypeOK
<1> QED BY <1>2, <1>4, <1>5, WriterKeepsTypeInv

LEMMA TypeInvCommit ==
  ASSUME TypeInv, Commit
  PROVE  TypeInv'
<1> USE DEF Down, PC, Opening, Writing, Switching, CurOpen, disk
<1>1. CASE CommitStart
  BY <1>1, HomeUntouched DEF CommitStart, TypeInv, TypeOK, StepShape
<1>2. CASE CommitFlush
  <2>1. WriterStep
    BY <1>2, FlushLogs, LogIsInShape DEF CommitFlush
  <2>2. /\ pc = "commit_drain" /\ pc' = "commit_db"
        /\ UNCHANGED <<stage, persisted, db, cur, slot, nextCommit, nextNum, queue,
                       rtOpen, userTxn, todo, closing>>
    BY <1>2 DEF CommitFlush
  <2>3. ~ closing
    BY <2>2 DEF TypeInv, StepShape
  <2>4. nextNum' \in Nat /\ nextCommit' \in Nat /\ rtOpen' \in BOOLEAN /\ queue' \in SUBSET queue
    BY <2>2 DEF TypeInv, TypeOK
  <2> QED BY <2>1, <2>2, <2>3, <2>4, WriterKeepsTypeInv
<1>3. CASE CommitDb
  <2>1. db' \in [commitId : Nat, done : SUBSET Nat, effects : SUBSET Row]
    BY <1>3 DEF CommitDb, TypeInv, TypeOK
  <2>2. userTxn' \in [open : BOOLEAN, effects : SUBSET Row]
    BY <1>3 DEF CommitDb, NoUserTxn
  <2> QED BY <1>3, <2>1, <2>2, HomeUntouched DEF CommitDb, TypeInv, TypeOK, StepShape
<1>4. CASE CommitDbFails
  BY <1>4, HomeUntouched DEF CommitDbFails, TypeInv, TypeOK, StepShape
<1>5. CASE CommitRow
  BY <1>5, TypeInvFateRow DEF CommitRow, RowKind
<1>6. CASE CommitDone
  <2>1. /\ pc = "commit_done" /\ Flush /\ nextCommit' \in Nat
        /\ UNCHANGED <<stage, persisted, db, cur, slot, nextNum, queue, rtOpen, userTxn,
                       todo, closing>>
    BY <1>6, BoundsAssumption DEF CommitDone, EndTxn, NextMonotonic, TypeInv, TypeOK
  <2>2. CASE CanRoll
    <3>1. pc' \in {"idle", "roll_check"}
      BY <1>6, <2>2 DEF CommitDone, EndTxn, CanRoll
    <3> QED BY <2>1, <2>2, <3>1, TypeInvEndTxn
  <2>3. CASE ~ CanRoll
    <3>1. pc' = "idle"
      BY <1>6, <2>3 DEF CommitDone, EndTxn, CanRoll
    <3> QED BY <2>1, <3>1, TypeInvEndTxn
  <2> QED BY <2>2, <2>3
<1> QED BY <1>1, <1>2, <1>3, <1>4, <1>5, <1>6 DEF Commit

LEMMA TypeInvRollback ==
  ASSUME TypeInv, Rollback
  PROVE  TypeInv'
<1> USE DEF Down, PC, Opening, Writing, Switching, CurOpen, disk
<1>1. CASE RollbackStart
  BY <1>1, HomeUntouched DEF RollbackStart, TypeInv, TypeOK, StepShape
<1>2. CASE RollbackDb
  <2>1. userTxn' \in [open : BOOLEAN, effects : SUBSET Row]
    BY <1>2 DEF RollbackDb, NoUserTxn
  <2> QED BY <1>2, <2>1, HomeUntouched DEF RollbackDb, TypeInv, TypeOK, StepShape
<1>3. CASE RollbackRow
  BY <1>3, TypeInvFateRow DEF RollbackRow, RowKind
<1>4. CASE RollbackDone
  <2>1. /\ pc = "rollback_done" /\ Flush /\ nextCommit' \in Nat /\ pc' = "idle"
        /\ UNCHANGED <<stage, persisted, db, cur, slot, nextNum, queue, rtOpen, userTxn,
                       todo, closing>>
    BY <1>4, BoundsAssumption DEF RollbackDone, EndTxn, NextMonotonic, TypeInv, TypeOK
  <2> QED BY <2>1, TypeInvEndTxn
<1> QED BY <1>1, <1>2, <1>3, <1>4 DEF Rollback

LEMMA TypeInvRoll ==
  ASSUME TypeInv, Roll
  PROVE  TypeInv'
<1> USE DEF Down, PC, Opening, Writing, Switching, CurOpen, disk
<1>1. CASE RollRequested
  BY <1>1, HomeUntouched DEF RollRequested, TypeInv, TypeOK, StepShape, CanRoll
<1>2. CASE RollRefused
  BY <1>2, HomeUntouched DEF RollRefused, TypeInv, TypeOK, StepShape
<1>3. CASE RollClaim
  <2>1. /\ pc \in {"roll_drain", "roll_check"} /\ pc' = "finalize"
        /\ home' = Claimed(home, cur + 1) /\ slot' = FreeSlot(home, cur + 1)
        /\ todo' = cur .. (slot' - 1)
        /\ UNCHANGED <<stage, persisted, db, cur, nextCommit, nextNum, queue, rtOpen,
                       userTxn, buf, closing>>
    BY <1>3 DEF RollClaim
  <2>2. cur \in Nat /\ cur < MaxSegment /\ home[cur].status = "NEW" /\ ~ closing
    BY <2>1, BoundsAssumption DEF TypeInv, TypeOK, StepShape, CanRoll, Seg
  <2>3. cur \in Seg /\ cur + 1 \in Seg /\ home \in [Seg -> Segment]
    BY <2>2, BoundsAssumption DEF TypeInv, TypeOK, Seg
  <2>4. \A n \in Seg : n >= cur + 1 => home[n].status = "absent"
    BY <2>2, <2>3, BoundsAssumption DEF TypeInv, HomeShape, Seg
  <2>5. \A n \in Seg : home[n].status = "absent" => home[n].rows = {}
    BY DEF TypeInv, HomeShape
  <2>6. FreeSlot(home, cur + 1) = cur + 1 /\ Claimed(home, cur + 1) = home
    <3> DEFINE s == cur + 1
    <3>1. s \in Seg /\ \A n \in Seg : n >= s => home[n].status = "absent"
      BY <2>3, <2>4
    <3> HIDE DEF s
    <3>2. FreeSlot(home, s) = s /\ Claimed(home, s) = home
      BY <2>3, <2>5, <3>1, ClaimOfFreeSlot
    <3> QED BY <3>2 DEF s
  <2>7. home' = home /\ slot' = cur + 1 /\ todo' = {cur}
    <3>1. cur .. (cur + 1 - 1) = {cur}
      BY <2>2
    <3> QED BY <2>1, <2>6, <3>1
  <2>8. TypeOK'
    BY <2>1, <2>3, <2>7 DEF TypeInv, TypeOK
  <2>9. FiniteRows' /\ HomeShape'
    BY <2>1, <2>7, HomeUntouched
  <2>10. StepShape'
    BY <2>1, <2>2, <2>7 DEF TypeInv, StepShape
  <2> QED BY <2>8, <2>9, <2>10 DEF TypeInv
<1>4. CASE RollPersist
  <2>1. persisted' \in -1 .. MaxSegment
    BY <1>4, BoundsAssumption DEF RollPersist, PersistSequence, TypeInv, TypeOK, Seg
  <2> QED BY <1>4, <2>1, HomeUntouched DEF RollPersist, TypeInv, TypeOK, StepShape
<1> QED BY <1>1, <1>2, <1>3, <1>4 DEF Roll

LEMMA TypeInvClose ==
  ASSUME TypeInv, Close
  PROVE  TypeInv'
<1> USE DEF Down, PC, Opening, Writing, Switching, CurOpen, disk
<1>1. CASE CloseStart
  <2> DEFINE r == MakeRow(nextNum, nextCommit, "ROLLBACK")
  <2>1. r \in Row
    BY DEF MakeRow, Row, RowKind, TypeInv, TypeOK
  <2>2. /\ pc = "idle" /\ pc' = "close_drain" /\ rtOpen' = FALSE /\ closing' = TRUE
        /\ UNCHANGED <<home, stage, persisted, db, cur, slot, nextCommit, userTxn, buf, todo>>
    BY <1>1 DEF CloseStart
  <2>3. queue' \in {queue, queue \union {r}} /\ nextNum' \in {nextNum, nextNum + 1}
    BY <1>1 DEF CloseStart
  <2> HIDE DEF r
  <2>4. queue' \in SUBSET Row /\ nextNum' \in Nat
    BY <2>1, <2>3 DEF TypeInv, TypeOK
  <2>5. IsFiniteSet(queue')
    BY <2>3, FS_AddElement DEF TypeInv, FiniteRows
  <2>6. TypeOK'
    BY <2>2, <2>4 DEF TypeInv, TypeOK, Seg
  <2>7. FiniteRows'
    BY <2>2, <2>5 DEF TypeInv, FiniteRows, Seg
  <2>8. HomeShape' /\ StepShape'
    BY <2>2 DEF TypeInv, HomeShape, StepShape, Seg
  <2> QED BY <2>6, <2>7, <2>8 DEF TypeInv
<1>2. CASE CloseShips
  <2>1. /\ pc = "close_drain" /\ pc' = "finalize" /\ todo' = {cur}
        /\ UNCHANGED <<home, stage, persisted, db, cur, slot, nextCommit, nextNum, queue,
                       rtOpen, userTxn, buf, closing>>
    BY <1>2 DEF CloseShips
  <2>2. closing
    BY <2>1 DEF TypeInv, StepShape
  <2>3. TypeOK'
    BY <2>1 DEF TypeInv, TypeOK
  <2>4. FiniteRows' /\ HomeShape'
    BY <2>1, HomeUntouched
  <2>5. StepShape'
    BY <2>1, <2>2 DEF TypeInv, StepShape
  <2> QED BY <2>3, <2>4, <2>5 DEF TypeInv
<1>3. CASE CloseKeeps
  BY <1>3, ResetKeepsTypeInv DEF CloseKeeps
<1> QED BY <1>1, <1>2, <1>3 DEF Close

LEMMA TypeInvFinalize ==
  ASSUME TypeInv, Finalize
  PROVE  TypeInv'
<1> USE DEF Down, PC, Opening, Writing, Switching, CurOpen
<1>1. CASE FinalizeRows
  <2>1. WriterStep
    BY <1>1, FlushLogs, LogIsInShape DEF FinalizeRows
  <2>2. /\ pc = "finalize" /\ pc' = "mark_ready"
        /\ UNCHANGED <<stage, persisted, db, cur, slot, nextCommit, nextNum, queue,
                       rtOpen, userTxn, todo, closing>>
    BY <1>1 DEF FinalizeRows
  <2>3. nextNum' \in Nat /\ nextCommit' \in Nat /\ rtOpen' \in BOOLEAN /\ queue' \in SUBSET queue
    BY <2>2 DEF TypeInv, TypeOK
  <2> QED BY <2>1, <2>2, <2>3, WriterKeepsTypeInv
<1>2. CASE MarkReady
  <2>1. /\ pc = "mark_ready"
        /\ home' = [home EXCEPT ![cur].status = "READY"]
        /\ pc' = IF closing THEN "deliver" ELSE "roll_create"
        /\ UNCHANGED <<stage, persisted, db, cur, slot, nextCommit, nextNum, queue, rtOpen,
                       userTxn, buf, todo, closing>>
    BY <1>2 DEF MarkReady
  <2>2. cur \in Seg /\ home \in [Seg -> Segment] /\ home[cur].status = "NEW"
    BY <2>1 DEF TypeInv, TypeOK, StepShape
  <2>3. /\ home' \in [Seg -> Segment]
        /\ home'[cur].status = "READY" /\ home'[cur].rows = home[cur].rows
        /\ \A n \in Seg : n # cur => home'[n] = home[n]
    BY <2>1, <2>2 DEF Segment, Status
  <2>4. TypeOK'
    BY <2>1, <2>3 DEF TypeInv, TypeOK, Seg
  <2>5. FiniteRows'
    BY <2>1, <2>2, <2>3 DEF TypeInv, FiniteRows, Seg
  <2>6. \A n \in Seg : (n > cur => home[n].status = "absent")
                       /\ (n < cur => home[n].status \in {"absent", "READY"})
    <3>1. ASSUME NEW n \in Seg, n < cur PROVE home[n].status \notin {"half", "NEW"}
      BY <2>2, <3>1 DEF TypeInv, HomeShape
    <3>2. \A n \in Seg : home[n].status \in Status
      BY <2>2 DEF Segment
    <3> QED BY <2>2, <3>1, <3>2 DEF TypeInv, HomeShape, Status
  <2>7. HomeShape'
    BY <2>2, <2>3, BoundsAssumption DEF TypeInv, HomeShape, Seg
  <2>8. StepShape'
    <3>1. CASE closing
      BY <2>1, <3>1 DEF StepShape
    <3>2. CASE ~ closing
      <4>1. slot > cur /\ \A n \in todo : n < slot
        BY <2>1, <3>2 DEF TypeInv, StepShape
      <4>2. slot \in Nat /\ cur \in Nat
        BY BoundsAssumption DEF TypeInv, TypeOK, Seg
      <4>3. \A n \in Seg : home'[n].status \in {"absent", "READY"}
                           /\ (n >= slot => home'[n].status = "absent")
        BY <2>2, <2>3, <2>6, <4>1, <4>2, BoundsAssumption DEF Seg
      <4> QED BY <2>1, <3>2, <4>1, <4>3 DEF StepShape, Seg
    <3> QED BY <3>1, <3>2
  <2> QED BY <2>4, <2>5, <2>7, <2>8 DEF TypeInv
<1> QED BY <1>1, <1>2 DEF Finalize

LEMMA TypeInvMover ==
  ASSUME TypeInv, Mover
  PROVE  TypeInv'
<1> USE DEF Down, PC, Opening, Writing, Switching, CurOpen, disk
<1>1. CASE MoverCopies
  <2>1. PICK n \in todo : stage' = [stage EXCEPT ![n] = home[n]]
    BY <1>1 DEF MoverCopies
  <2>2. stage' \in [Seg -> Segment]
    BY <2>1 DEF TypeInv, TypeOK
  <2> QED BY <1>1, <2>2, HomeUntouched DEF MoverCopies, TypeInv, TypeOK, StepShape
<1>2. CASE MoverCopyFails
  BY <1>2, HomeUntouched DEF MoverCopyFails, TypeInv, TypeOK, StepShape
<1>3. CASE MoverRemoves
  <2>1. PICK n \in todo :
          /\ todo' = todo \ {n}
          /\ home' \in {[home EXCEPT ![n] = NoFile], home}
    BY <1>3 DEF MoverRemoves
  <2>2. /\ pc = "remove" /\ pc' = "deliver"
        /\ UNCHANGED <<stage, persisted, db, cur, slot, nextCommit, nextNum, queue, rtOpen,
                       userTxn, buf, closing>>
    BY <1>3 DEF MoverRemoves
  <2>3. home \in [Seg -> Segment] /\ NoFile \in Segment /\ n \in Seg
    BY <2>1 DEF NoFile, Segment, Status, TypeInv, TypeOK
  <2>4. /\ home' \in [Seg -> Segment]
        /\ \A m \in Seg : home'[m] \in {home[m], NoFile}
        /\ \A m \in Seg : m # n => home'[m] = home[m]
    BY <2>1, <2>3
  <2>5. TypeOK'
    BY <2>1, <2>2, <2>4 DEF TypeInv, TypeOK, Seg
  <2>6. FiniteRows'
    <3>1. IsFiniteSet(NoFile.rows)
      BY FS_EmptySet DEF NoFile
    <3> QED BY <2>2, <2>4, <3>1 DEF TypeInv, FiniteRows, Seg
  <2>7. HomeShape'
    BY <2>4 DEF TypeInv, HomeShape, NoFile, Seg
  <2>8. StepShape'
    <3>1. CASE closing
      BY <2>2, <3>1 DEF StepShape
    <3>2. CASE ~ closing
      <4>1. cur \in Nat /\ cur \in Seg /\ home[cur].status = "NEW" /\ \A m \in todo : m < cur
        BY <2>2, <3>2, BoundsAssumption DEF TypeInv, TypeOK, StepShape, Seg
      <4>2. n < cur /\ n # cur
        BY <2>1, <4>1
      <4>3. home'[cur] = home[cur]
        BY <2>4, <4>1, <4>2
      <4> QED BY <2>1, <2>2, <3>2, <4>1, <4>3 DEF StepShape
    <3> QED BY <3>1, <3>2
  <2> QED BY <2>5, <2>6, <2>7, <2>8 DEF TypeInv
<1>4. CASE Delivered
  <2>1. CASE closing
    BY <1>4, <2>1, ResetKeepsTypeInv DEF Delivered
  <2>2. CASE ~ closing
    <3>1. /\ pc = "deliver" /\ todo = {} /\ pc' = "idle"
          /\ UNCHANGED <<home, stage, persisted, db, cur, slot, nextCommit, nextNum, queue,
                         rtOpen, userTxn, buf, todo, closing>>
      BY <1>4, <2>2 DEF Delivered
    <3>2. home[cur].status = "NEW"
      BY <2>2, <3>1 DEF TypeInv, StepShape
    <3>3. TypeOK'
      BY <3>1 DEF TypeInv, TypeOK
    <3>4. FiniteRows' /\ HomeShape'
      BY <3>1, HomeUntouched
    <3>5. StepShape'
      BY <2>2, <3>1, <3>2 DEF StepShape
    <3> QED BY <3>3, <3>4, <3>5 DEF TypeInv
  <2> QED BY <2>1, <2>2
<1> QED BY <1>1, <1>2, <1>3, <1>4 DEF Mover

LEMMA TypeInvInit ==
  ASSUME Init
  PROVE  TypeInv
<1>1. NoFile \in Segment /\ NoUserTxn \in [open : BOOLEAN, effects : SUBSET Row]
  BY DEF NoFile, Segment, Status, NoUserTxn
<1>2. TypeOK
  <2>1. pc \in PC
    BY DEF Init, PC, Down
  <2>2. home \in [Seg -> Segment] /\ stage \in [Seg -> Segment]
    BY <1>1 DEF Init
  <2>3. persisted \in -1 .. MaxSegment /\ cur \in Seg /\ slot \in Seg
    BY BoundsAssumption DEF Init, Seg
  <2>4. db \in [commitId : Nat, done : SUBSET Nat, effects : SUBSET Row]
    BY DEF Init
  <2>5. userTxn \in [open : BOOLEAN, effects : SUBSET Row]
    BY <1>1 DEF Init
  <2> QED BY <2>1, <2>2, <2>3, <2>4, <2>5 DEF Init, TypeOK
<1>3. FiniteRows
  <2>1. \A n \in Seg : home[n].rows = {}
    BY DEF Init, NoFile
  <2> QED BY <2>1, FS_EmptySet DEF Init, FiniteRows
<1>4. HomeShape /\ StepShape
  BY DEF Init, HomeShape, StepShape, NoFile, CurOpen, Writing
<1> QED BY <1>2, <1>3, <1>4 DEF TypeInv

LEMMA TypeInvStep ==
  ASSUME TypeInv, [Next]_vars
  PROVE  TypeInv'
<1>1. CASE Crash
  BY <1>1, ResetKeepsTypeInv DEF Crash, Down
<1>2. CASE UNCHANGED vars
  BY <1>2 DEF vars, disk, memory, TypeInv, TypeOK, FiniteRows, HomeShape, StepShape, CanRoll, Seg
<1>3. CASE Next
  BY <1>1, <1>3, TypeInvOpen, TypeInvCreate, TypeInvTxn, TypeInvCommit, TypeInvRollback,
     TypeInvRoll, TypeInvClose, TypeInvFinalize, TypeInvMover DEF Next
<1> QED BY <1>2, <1>3

\* Every reachable state is well typed, at most one segment is open for writing,
\* and the running call works on the file the code says it does.
THEOREM TypeAndShape == Spec => []TypeInv
BY TypeInvInit, TypeInvStep, PTL DEF Spec

\* Every variable keeps its type, whatever the bounds and the switches.
THEOREM TypeCorrect == Spec => []TypeOK
<1>1. TypeInv => TypeOK
  BY DEF TypeInv
<1> QED BY <1>1, TypeAndShape, PTL

--------------------------------------------------------------------------------
(* The fate of transactions: what the log says of one is what the user database *)
(* did                                                                          *)

\* The rows of the log, durable or pending in the writer's transaction.
AllRows == DurableRows \union buf

LEMMA LogTyped ==
  ASSUME TypeInv
  PROVE  AllRows \in SUBSET Row
BY DEF TypeInv, TypeOK, AllRows, DurableRows, Segment

\* A flush brings no row into the log that was not there.
LEMMA FlushKeepsLog ==
  ASSUME TypeInv, Flush, UNCHANGED <<stage, cur>>
  PROVE  AllRows' \subseteq AllRows
<1>1. WriterStep /\ home'[cur].rows \union buf' = home[cur].rows \union buf
  BY FlushLogs, LogIsInShape DEF Logged
<1>2. cur \in Seg
  BY DEF TypeInv, TypeOK
<1> QED BY <1>1, <1>2 DEF WriterStep, AllRows, DurableRows, Seg

\* An append brings the row it appends, and nothing else.
LEMMA AppendGrowsLog ==
  ASSUME TypeInv, NEW STATE r, r \in Row, AppendRow(r), UNCHANGED <<stage, cur>>
  PROVE  AllRows' \subseteq AllRows \union {r}
<1>1. WriterStep /\ home'[cur].rows \union buf' = home[cur].rows \union buf \union {r}
  BY AppendLogs, LogIsInShape DEF Logged
<1>2. cur \in Seg
  BY DEF TypeInv, TypeOK
<1> QED BY <1>1, <1>2 DEF WriterStep, AllRows, DurableRows, Seg

\* A step under which no file of the device home gains a row.
LEMMA HomeShrinks ==
  ASSUME TypeInv, UNCHANGED <<stage, buf>>,
         \A n \in Seg : home'[n].rows \subseteq home[n].rows
  PROVE  AllRows' \subseteq AllRows
BY DEF AllRows, DurableRows, Seg

--------------------------------------------------------------------------------

\* A step that adds nothing to the log nor to the queue, and after which the call
\* still has to decide the fate it had to decide before.
LEMMA FateKept ==
  ASSUME FateInv, AllRows' \subseteq AllRows, queue' \in SUBSET queue,
         UNCHANGED <<db, nextCommit, closing>>,
         pc \notin Down, pc' \notin Down,
         pc \in {"commit_done", "rollback_done"} => pc' \in {"commit_done", "rollback_done"},
         pc' \in Opening => pc \in Opening,
         pc \in {"commit_row", "commit_done"} <=> pc' \in {"commit_row", "commit_done"},
         queue' # {} => pc' \in {"idle", "flush_drain", "commit_drain", "rollback_drain",
                                 "roll_drain", "close_drain"}
  PROVE  FateInv'
<1>1. DbShape' /\ DbFresh'
  BY DEF FateInv, DbShape, DbFresh
<1>2. RowsBelowNext'
  <2>1. FateDecided => FateDecided'
    BY DEF FateDecided
  <2> QED BY <2>1 DEF FateInv, RowsBelowNext, AllRows
<1>3. QueueShape'
  BY DEF FateInv, QueueShape
<1>4. FateIsTrue'
  BY DEF FateInv, FateIsTrue, AllRows
<1> QED BY <1>1, <1>2, <1>3, <1>4 DEF FateInv

\* The process ends: what is durable agrees as before.
LEMMA FateReset ==
  ASSUME FateInv, InMemoryReset, pc' \in Down, UNCHANGED disk
  PROVE  FateInv'
<1>1. UNCHANGED <<home, stage, db>> /\ buf' = {} /\ queue' = {} /\ pc' \in Down
  BY DEF InMemoryReset, disk
<1>2. AllRows' \subseteq AllRows
  BY <1>1 DEF AllRows, DurableRows, Seg
<1>3. DbShape' /\ DbFresh'
  BY <1>1 DEF FateInv, DbShape, DbFresh, Down
<1>4. RowsBelowNext' /\ QueueShape'
  BY <1>1 DEF RowsBelowNext, QueueShape
<1>5. FateIsTrue'
  BY <1>1, <1>2 DEF FateInv, FateIsTrue, AllRows
<1> QED BY <1>3, <1>4, <1>5 DEF FateInv

LEMMA FateOpenDevice ==
  ASSUME ~ ClockMayLag, TypeInv, FateInv, OpenDevice
  PROVE  FateInv'
<1>1. CASE ScanFails
  <2>1. /\ pc \in Down /\ pc' = "refused"
        /\ UNCHANGED <<disk, cur, slot, nextCommit, nextNum, queue, rtOpen, userTxn, buf,
                       todo, closing>>
    BY <1>1 DEF OpenDevice
  <2>2. AllRows' = AllRows
    BY <2>1 DEF AllRows, DurableRows, Seg, disk
  <2>3. DbShape' /\ DbFresh' /\ RowsBelowNext' /\ QueueShape'
    BY <2>1 DEF FateInv, DbShape, DbFresh, RowsBelowNext, QueueShape, Down, disk
  <2>4. FateIsTrue'
    BY <2>1, <2>2 DEF FateInv, FateIsTrue, AllRows, disk
  <2> QED BY <2>3, <2>4 DEF FateInv
<1>2. CASE ~ ScanFails
  <2>1. pc \in Down /\ OpenResolved
    BY <1>2 DEF OpenDevice
  <2>2. /\ pc' \in {"open_recover", "open_create"}
        /\ UNCHANGED <<stage, db, queue, buf, closing>>
    BY <2>1 DEF OpenResolved
  <2>3. queue = {} /\ buf = {}
    BY <2>1 DEF FateInv, QueueShape, Down
  <2>4. \A n \in Seg : home'[n].rows \subseteq home[n].rows
    <3>1. \A n \in Seg : Resolved[n].rows = home[n].rows
      BY ResolvedShape, LogIsInShape
    <3>2. CASE ActiveSegment >= 0
      BY <2>1, <3>1, <3>2 DEF OpenResolved
    <3>3. CASE ~ (ActiveSegment >= 0)
      <4>1. home' = Claimed(Resolved, NextSegment(Resolved))
        BY <2>1, <3>3 DEF OpenResolved
      <4>2. \A n \in Seg : home'[n].rows \subseteq Resolved[n].rows
        <5>1. Resolved \in [Seg -> Segment]
          BY ResolvedShape, LogIsInShape
        <5> HIDE DEF Resolved
        <5> QED BY <4>1, <5>1 DEF Claimed, NoFile, Segment
      <4> QED BY <3>1, <4>2
    <3> QED BY <3>2, <3>3
  <2>5. AllRows' \subseteq AllRows
    BY <2>2, <2>4, HomeShrinks
  <2>6. \A c \in Recorded : c < nextCommit'
    <3>1. PICK now \in ClockAtOpen : nextCommit' = NextMonotonic(now, ScanMaxCommitId)
      BY <2>1 DEF OpenResolved
    <3>2. now \in Nat /\ \A c \in Recorded : c < now
      BY <3>1, BoundsAssumption DEF ClockAtOpen
    <3>3. ScanMaxCommitId \in Nat
      BY ScanTyped, LogIsInShape
    <3>4. nextCommit' \in Nat /\ now <= nextCommit'
      BY <3>1, <3>2, <3>3 DEF NextMonotonic
    <3>5. Recorded \subseteq Nat
      BY DEF Recorded, CommitIds, TypeInv, TypeOK, Segment, Row
    <3> QED BY <3>2, <3>4, <3>5
  <2>7. db.commitId < nextCommit' /\ \A r \in AllRows : r.cid < nextCommit'
    <3>1. db.commitId \in Recorded
      BY DEF Recorded
    <3>2. \A r \in AllRows : r.cid \in Recorded
      BY <2>3 DEF AllRows, DurableRows, Recorded, CommitIds
    <3> QED BY <2>6, <3>1, <3>2
  <2>8. \A r \in AllRows : r.cid \in Nat
    BY LogTyped DEF Row
  <2>9. nextCommit' \in Nat
    <3>1. TypeInv'
      BY <2>1, TypeInvOpen DEF Open, OpenDevice
    <3> QED BY <3>1 DEF TypeInv, TypeOK
  <2>10. DbShape' /\ DbFresh'
    BY <2>2, <2>7 DEF FateInv, DbShape, DbFresh
  <2>11. RowsBelowNext'
    BY <2>5, <2>7, <2>8, <2>9 DEF RowsBelowNext, AllRows
  <2>12. QueueShape'
    BY <2>2, <2>3 DEF QueueShape
  <2>13. FateIsTrue'
    BY <2>2, <2>5 DEF FateInv, FateIsTrue, AllRows
  <2> QED BY <2>10, <2>11, <2>12, <2>13 DEF FateInv
<1> QED BY <1>1, <1>2

\* A row with the commit id the log may receive next: what its kind must satisfy.
LEMMA FateAppend ==
  ASSUME TypeInv, FateInv, NEW STATE r, r \in Row, AllRows' \subseteq AllRows \union {r},
         queue' \in SUBSET queue,
         UNCHANGED <<db, nextCommit, closing>>,
         pc \notin Down, pc' \notin Down,
         r.cid <= nextCommit, pc' \in Opening => r.cid < nextCommit,
         r.kind = "COMMIT" => r.cid \in db.done,
         r.kind = "ROLLBACK" => r.cid \notin db.done,
         r.kind \in {"COMMIT", "ROLLBACK"} => FateDecided' \/ r.cid < nextCommit,
         FateDecided => FateDecided',
         pc' \in Opening => pc \in Opening,
         pc \in {"commit_row", "commit_done"} <=> pc' \in {"commit_row", "commit_done"},
         queue' # {} => pc' \in {"idle", "flush_drain", "commit_drain", "rollback_drain",
                                 "roll_drain", "close_drain"}
  PROVE  FateInv'
<1>1. DbShape' /\ DbFresh'
  BY DEF FateInv, DbShape, DbFresh
<1>2. RowsBelowNext'
  <2>1. ASSUME NEW q \in AllRows'
        PROVE  /\ q.cid <= nextCommit'
               /\ ~ FateDecided' /\ q.kind \in {"COMMIT", "ROLLBACK"} => q.cid < nextCommit'
               /\ pc' \in Opening => q.cid < nextCommit'
    <3>1. CASE q = r
      BY <3>1
    <3>2. CASE q \in AllRows
      BY <3>2 DEF FateInv, RowsBelowNext, AllRows
    <3> QED BY <2>1, <3>1, <3>2
  <2> QED BY <2>1 DEF RowsBelowNext, AllRows
<1>3. QueueShape'
  BY DEF FateInv, QueueShape
<1>4. FateIsTrue'
  <2>1. ASSUME NEW q \in AllRows'
        PROVE  /\ q.kind = "COMMIT" => q.cid \in db'.done
               /\ q.kind = "ROLLBACK" => q.cid \notin db'.done
    <3>1. CASE q = r
      BY <3>1
    <3>2. CASE q \in AllRows
      BY <3>2 DEF FateInv, FateIsTrue, AllRows
    <3> QED BY <2>1, <3>1, <3>2
  <2> QED BY <2>1 DEF FateIsTrue, AllRows
<1> QED BY <1>1, <1>2, <1>3, <1>4 DEF FateInv

\* A transaction in doubt is decided the way the database decided it.
LEMMA FateRecover ==
  ASSUME TypeInv, FateInv, RecoverInDoubtTxn
  PROVE  FateInv'
<1> DEFINE rows == home[cur].rows
           slave == LastCommitId(rows)
           fate == FateOf(rows, slave)
           outcome == RecoveryOutcome(db.commitId, slave, fate)
<1>1. pc = "open_recover" /\ cur \in Seg /\ ~ closing
  BY DEF RecoverInDoubtTxn, TypeInv, TypeOK, StepShape
<1>2. CASE outcome = "refuse"
  <2>1. pc' = "refused" /\ InMemoryReset /\ UNCHANGED disk
    BY <1>2 DEF RecoverInDoubtTxn, disk
  <2> QED BY <2>1, FateReset DEF Down
<1>3. CASE outcome = "none"
  <2>1. pc' = "open_flush" /\ UNCHANGED <<home, stage, db, queue, buf, nextCommit, closing>>
    BY <1>3 DEF RecoverInDoubtTxn
  <2>2. AllRows' \subseteq AllRows
    BY <2>1 DEF AllRows, DurableRows, Seg
  <2>3. queue' = {}
    BY <1>1, <2>1 DEF FateInv, QueueShape
  <2> QED BY <1>1, <2>1, <2>2, <2>3, FateKept DEF Down, Opening
<1>4. CASE outcome \notin {"refuse", "none"}
  <2>1. rows \in SUBSET Row /\ IsFiniteSet(rows)
    BY <1>1 DEF TypeInv, TypeOK, FiniteRows, Segment
  <2>2. slave \in Nat /\ db.commitId \in Nat
    BY <2>1, LastCommitIdType DEF TypeInv, TypeOK
  <2>3. /\ db.commitId # 0 /\ slave # 0 /\ outcome \in {"COMMIT", "ROLLBACK"}
        /\ outcome = "COMMIT" => slave = db.commitId
        /\ outcome = "ROLLBACK" => slave > db.commitId
    <3> HIDE DEF slave
    <3> QED BY <1>4, <2>2 DEF RecoveryOutcome, FateOf
  <2>4. rows # {}
    BY <2>3 DEF LastCommitId
  <2>5. PICK q \in rows : q.cid = slave
    BY <2>1, <2>4, LastCommitIdIsMax
  <2>6. slave < nextCommit
    <3>1. q \in AllRows
      BY <1>1, <2>5 DEF AllRows, DurableRows
    <3> QED BY <1>1, <2>5, <3>1 DEF FateInv, RowsBelowNext, AllRows, Opening, Down
  <2> DEFINE r == MakeRow(nextNum, slave, outcome)
  <2>7. r \in Row /\ r.cid = slave /\ r.kind = outcome
    BY <2>2, <2>3 DEF MakeRow, Row, RowKind, TypeInv, TypeOK
  <2>8. /\ AppendRow(r) /\ pc' = "open_flush"
        /\ UNCHANGED <<stage, db, cur, nextCommit, queue, closing>>
    BY <1>4 DEF RecoverInDoubtTxn
  <2>9. r.kind = "COMMIT" => r.cid \in db.done
    BY <2>3, <2>7 DEF FateInv, DbShape
  <2>10. r.kind = "ROLLBACK" => r.cid \notin db.done
    <3>1. \A c \in db.done : c \in Nat /\ c <= db.commitId
      BY DEF FateInv, DbShape, TypeInv, TypeOK
    <3> QED BY <2>2, <2>3, <2>7, <3>1
  <2>11. nextCommit \in Nat /\ queue = {}
    BY <1>1 DEF TypeInv, TypeOK, FateInv, QueueShape
  <2>12. r.cid <= nextCommit /\ r.cid < nextCommit
    BY <2>2, <2>6, <2>7, <2>11
  <2> HIDE DEF r
  <2>13. AllRows' \subseteq AllRows \union {r}
    BY <2>7, <2>8, AppendGrowsLog
  <2>14. ~ FateDecided
    BY <1>1 DEF FateDecided
  <2> QED BY <1>1, <2>7, <2>8, <2>9, <2>10, <2>11, <2>12, <2>13, <2>14, FateAppend
          DEF Down, Opening
<1> QED BY <1>2, <1>3, <1>4

\* Steps of open and of file creation that add nothing.
LEMMA FateOpenOthers ==
  ASSUME TypeInv, FateInv, OpenFlush \/ OpenPersist \/ Create
  PROVE  FateInv'
<1> USE DEF Down, Opening
<1>1. CASE OpenFlush
  <2>1. pc = "open_flush" /\ pc' = "open_persist" /\ Flush
        /\ UNCHANGED <<stage, db, cur, nextCommit, queue, closing>>
    BY <1>1 DEF OpenFlush
  <2>2. AllRows' \subseteq AllRows /\ queue' = {}
    BY <2>1, FlushKeepsLog DEF FateInv, QueueShape
  <2> QED BY <2>1, <2>2, FateKept
<1>2. CASE OpenPersist
  <2>1. pc = "open_persist" /\ pc' = "deliver"
        /\ UNCHANGED <<home, stage, buf, db, nextCommit, queue, closing>>
    BY <1>2 DEF OpenPersist
  <2>2. AllRows' \subseteq AllRows /\ queue' = {}
    BY <2>1 DEF FateInv, QueueShape, AllRows, DurableRows, Seg
  <2> QED BY <2>1, <2>2, FateKept
<1>3. CASE Create
  <2>1. /\ pc \in {"open_create", "roll_create", "open_schema", "roll_schema"}
        /\ pc' \in {"open_schema", "roll_schema", "open_recover", "roll_persist"}
        /\ pc' \in Opening => pc \in Opening
        /\ UNCHANGED <<stage, buf, db, nextCommit, queue, closing>>
    BY <1>3 DEF Create, CreateFile, CreateSchema
  <2>2. \A n \in Seg : home'[n].rows \subseteq home[n].rows
    <3>1. home \in [Seg -> Segment] /\ slot \in Seg
      BY DEF TypeInv, TypeOK
    <3>2. \E st \in {"half", "NEW"} : home' = [home EXCEPT ![slot].status = st]
      BY <1>3 DEF Create, CreateFile, CreateSchema
    <3> QED BY <3>1, <3>2 DEF Segment
  <2>3. AllRows' \subseteq AllRows /\ queue' = {}
    BY <2>1, <2>2, HomeShrinks DEF FateInv, QueueShape
  <2> QED BY <2>1, <2>3, FateKept
<1> QED BY <1>1, <1>2, <1>3

LEMMA FateTxn ==
  ASSUME TypeInv, FateInv, Txn
  PROVE  FateInv'
<1> USE DEF Down, Opening, disk
<1>1. CASE Execute \/ ExecuteUnlogged
  <2>1. /\ pc = "idle" /\ pc' = "idle"
        /\ UNCHANGED <<home, stage, buf, db, nextCommit, closing>>
    BY <1>1 DEF Execute, ExecuteUnlogged
  <2>2. queue' \subseteq queue \union {BeginRow, OpRow}
    BY <1>1 DEF Execute, ExecuteUnlogged
  <2>3. \A r \in {BeginRow, OpRow} : r.cid = nextCommit /\ r.kind \in {"BEGIN", "OP"}
    BY DEF BeginRow, OpRow, MakeRow
  <2>4. QueueShape'
    BY <2>1, <2>2, <2>3 DEF FateInv, QueueShape
  <2>5. AllRows' = AllRows
    BY <2>1 DEF AllRows, DurableRows, Seg
  <2>6. DbShape' /\ DbFresh' /\ FateIsTrue'
    BY <2>1, <2>5 DEF FateInv, DbShape, DbFresh, FateIsTrue, AllRows
  <2>7. RowsBelowNext'
    BY <2>1, <2>5 DEF FateInv, RowsBelowNext, FateDecided, AllRows
  <2> QED BY <2>4, <2>6, <2>7 DEF FateInv
<1>2. CASE Drain
  <2>1. PICK r \in queue : AppendRow(r) /\ queue' = queue \ {r}
    BY <1>2 DEF Drain
  <2>2. /\ pc \in {"flush_drain", "commit_drain", "rollback_drain", "roll_drain", "close_drain"}
        /\ UNCHANGED <<stage, db, pc, cur, nextCommit, closing>>
    BY <1>2 DEF Drain
  <2>3. r \in Row /\ nextCommit \in Nat /\ db.commitId \in Nat /\ db.done \subseteq Nat
    BY <2>1 DEF TypeInv, TypeOK
  <2>4. r.cid = nextCommit /\ r.kind # "COMMIT" /\ (r.kind = "ROLLBACK" => closing)
    BY <2>1 DEF FateInv, QueueShape
  <2>5. r.cid <= nextCommit
    BY <2>3, <2>4
  <2>6. nextCommit \notin db.done
    <3>1. db.commitId < nextCommit /\ \A c \in db.done : c <= db.commitId
      BY <2>2 DEF FateInv, DbFresh, DbShape
    <3> QED BY <2>3, <3>1
  <2>7. AllRows' \subseteq AllRows \union {r}
    BY <2>1, <2>2, <2>3, AppendGrowsLog
  <2>8. (FateDecided' <=> FateDecided) /\ (closing => FateDecided)
    BY <2>2 DEF FateDecided
  <2>9. queue' \in SUBSET queue
    BY <2>1
  <2> QED BY <2>2, <2>3, <2>4, <2>5, <2>6, <2>7, <2>8, <2>9, FateAppend
<1>3. CASE FlushLog \/ FlushLogDone
  <2>1. /\ pc \in {"idle", "flush_drain"} /\ pc' \in {"idle", "flush_drain"}
        /\ UNCHANGED <<home, stage, buf, db, nextCommit, queue, closing>>
    BY <1>3 DEF FlushLog, FlushLogDone
  <2>2. AllRows' \subseteq AllRows
    BY <2>1 DEF AllRows, DurableRows, Seg
  <2> QED BY <2>1, <2>2, FateKept
<1> QED BY <1>1, <1>2, <1>3 DEF Txn

\* The fate is durable and the next commit id is above every row of the log.
LEMMA FateEndTxn ==
  ASSUME TypeInv, FateInv, NEW STATE step, NEW STATE nexts, EndTxn(step, nexts),
         pc \in {"commit_done", "rollback_done"}, pc' \in {"idle", "roll_check"}
  PROVE  FateInv'
<1> USE DEF Down, Opening
<1>1. Flush /\ UNCHANGED <<stage, db, cur, queue, closing>>
  BY DEF EndTxn
<1>2. AllRows' \subseteq AllRows
  BY <1>1, FlushKeepsLog
<1>3. nextCommit \in Nat /\ nextCommit' \in Nat /\ nextCommit < nextCommit'
  BY BoundsAssumption DEF EndTxn, NextMonotonic, TypeInv, TypeOK
<1>4. \A r \in AllRows : r.cid \in Nat /\ r.cid <= nextCommit
  BY LogTyped DEF Row, FateInv, RowsBelowNext, AllRows
<1>5. \A r \in AllRows' : r.cid <= nextCommit' /\ r.cid < nextCommit'
  BY <1>2, <1>3, <1>4
<1>6. queue = {}
  BY DEF FateInv, QueueShape
<1>7. DbShape' /\ DbFresh'
  <2>1. db.commitId \in Nat /\ db.commitId <= nextCommit
    BY <1>3 DEF FateInv, DbFresh, TypeInv, TypeOK
  <2> QED BY <1>1, <1>3, <2>1 DEF FateInv, DbShape, DbFresh
<1>8. RowsBelowNext' /\ QueueShape'
  BY <1>1, <1>5, <1>6 DEF RowsBelowNext, QueueShape, AllRows
<1>9. FateIsTrue'
  BY <1>1, <1>2 DEF FateInv, FateIsTrue, AllRows
<1> QED BY <1>7, <1>8, <1>9 DEF FateInv

LEMMA FateCommit ==
  ASSUME TypeInv, FateInv, Commit
  PROVE  FateInv'
<1> USE DEF Down, Opening, disk
<1>1. CASE CommitStart \/ CommitDbFails
  <2>1. /\ pc \in {"idle", "commit_db"} /\ pc' \in {"commit_drain", "idle"}
        /\ UNCHANGED <<home, stage, buf, db, nextCommit, queue, closing>>
    BY <1>1 DEF CommitStart, CommitDbFails
  <2>2. AllRows' \subseteq AllRows
    BY <2>1 DEF AllRows, DurableRows, Seg
  <2> QED BY <2>1, <2>2, FateKept
<1>2. CASE CommitFlush
  <2>1. /\ pc = "commit_drain" /\ pc' = "commit_db" /\ queue = {} /\ Flush
        /\ UNCHANGED <<stage, cur, db, nextCommit, queue, closing>>
    BY <1>2 DEF CommitFlush
  <2>2. AllRows' \subseteq AllRows
    BY <2>1, FlushKeepsLog
  <2> QED BY <2>1, <2>2, FateKept
<1>3. CASE CommitDb
  <2>1. /\ pc = "commit_db" /\ pc' = "commit_row"
        /\ db' = [commitId |-> nextCommit, done |-> db.done \union {nextCommit},
                  effects |-> db.effects \union userTxn.effects]
        /\ UNCHANGED <<home, stage, buf, nextCommit, queue, closing>>
    BY <1>3 DEF CommitDb
  <2>2. ~ FateDecided /\ queue = {}
    BY <2>1 DEF FateDecided, TypeInv, StepShape, FateInv, QueueShape
  <2>3. AllRows' = AllRows
    BY <2>1 DEF AllRows, DurableRows, Seg
  <2>4. nextCommit \in Nat /\ db.commitId \in Nat /\ db.done \subseteq Nat /\ db.commitId < nextCommit
    BY <2>1 DEF TypeInv, TypeOK, FateInv, DbFresh
  <2>5. \A r \in AllRows : /\ r.cid \in Nat /\ r.cid <= nextCommit
                           /\ r.kind \in {"COMMIT", "ROLLBACK"} => r.cid < nextCommit
    BY <2>1, <2>2, LogTyped DEF Row, FateInv, RowsBelowNext, AllRows
  <2>6. DbShape' /\ DbFresh'
    <3>1. \A c \in db.done : c <= nextCommit
      BY <2>4 DEF FateInv, DbShape
    <3> QED BY <2>1, <2>4, <3>1 DEF DbShape, DbFresh
  <2>7. RowsBelowNext' /\ QueueShape'
    BY <2>1, <2>2, <2>3, <2>5 DEF RowsBelowNext, QueueShape, AllRows
  <2>8. FateIsTrue'
    <3>1. ASSUME NEW r \in AllRows
          PROVE  /\ r.kind = "COMMIT" => r.cid \in db'.done
                 /\ r.kind = "ROLLBACK" => r.cid \notin db'.done
      <4>1. r.kind = "COMMIT" => r.cid \in db.done
        BY DEF FateInv, FateIsTrue, AllRows
      <4>2. r.kind = "ROLLBACK" => r.cid \notin db.done /\ r.cid # nextCommit
        BY <2>4, <2>5 DEF FateInv, FateIsTrue, AllRows
      <4> QED BY <2>1, <4>1, <4>2
    <3> QED BY <2>3, <3>1 DEF FateIsTrue, AllRows
  <2> QED BY <2>6, <2>7, <2>8 DEF FateInv
<1>4. CASE CommitRow
  <2> DEFINE r == MakeRow(nextNum, nextCommit, "COMMIT")
  <2>1. /\ pc = "commit_row" /\ pc' = "commit_done" /\ AppendRow(r)
        /\ UNCHANGED <<stage, db, cur, nextCommit, queue, closing>>
    BY <1>4 DEF CommitRow, FateRow
  <2>2. r \in Row /\ r.cid = nextCommit /\ r.kind = "COMMIT" /\ nextCommit \in Nat
    BY DEF MakeRow, Row, RowKind, TypeInv, TypeOK
  <2> HIDE DEF r
  <2>3. AllRows' \subseteq AllRows \union {r}
    BY <2>1, <2>2, AppendGrowsLog
  <2>4. r.cid \in db.done /\ queue = {} /\ FateDecided' /\ r.cid <= nextCommit
    BY <2>1, <2>2 DEF FateInv, DbFresh, QueueShape, FateDecided
  <2>5. queue' \in SUBSET queue
    BY <2>1
  <2> QED BY <2>1, <2>2, <2>3, <2>4, <2>5, FateAppend
<1>5. CASE CommitDone
  <2>1. pc = "commit_done" /\ pc' \in {"idle", "roll_check"}
    BY <1>5 DEF CommitDone, EndTxn
  <2>2. \E step, nexts : EndTxn(step, nexts)
    BY <1>5 DEF CommitDone
  <2> QED BY <1>5, <2>1, FateEndTxn DEF CommitDone
<1> QED BY <1>1, <1>2, <1>3, <1>4, <1>5 DEF Commit

LEMMA FateRollback ==
  ASSUME TypeInv, FateInv, Rollback
  PROVE  FateInv'
<1> USE DEF Down, Opening, disk
<1>1. CASE RollbackStart \/ RollbackDb
  <2>1. /\ pc \in {"idle", "rollback_drain"} /\ pc' \in {"rollback_drain", "rollback_row"}
        /\ pc' = "rollback_row" => queue = {}
        /\ UNCHANGED <<home, stage, buf, db, nextCommit, queue, closing>>
    BY <1>1 DEF RollbackStart, RollbackDb
  <2>2. AllRows' \subseteq AllRows
    BY <2>1 DEF AllRows, DurableRows, Seg
  <2> QED BY <2>1, <2>2, FateKept
<1>2. CASE RollbackRow
  <2> DEFINE r == MakeRow(nextNum, nextCommit, "ROLLBACK")
  <2>1. /\ pc = "rollback_row" /\ pc' = "rollback_done" /\ AppendRow(r)
        /\ UNCHANGED <<stage, db, cur, nextCommit, queue, closing>>
    BY <1>2 DEF RollbackRow, FateRow
  <2>2. r \in Row /\ r.cid = nextCommit /\ r.kind = "ROLLBACK" /\ nextCommit \in Nat
    BY DEF MakeRow, Row, RowKind, TypeInv, TypeOK
  <2> HIDE DEF r
  <2>3. AllRows' \subseteq AllRows \union {r}
    BY <2>1, <2>2, AppendGrowsLog
  <2>4. queue = {} /\ FateDecided' /\ r.cid <= nextCommit
    BY <2>1, <2>2 DEF FateInv, QueueShape, FateDecided
  <2>5. nextCommit \notin db.done
    <3>1. db.commitId < nextCommit /\ \A c \in db.done : c \in Nat /\ c <= db.commitId
      BY <2>1 DEF FateInv, DbFresh, DbShape, TypeInv, TypeOK
    <3> QED BY <2>2, <3>1 DEF TypeInv, TypeOK
  <2>6. queue' \in SUBSET queue
    BY <2>1
  <2> QED BY <2>1, <2>2, <2>3, <2>4, <2>5, <2>6, FateAppend
<1>3. CASE RollbackDone
  <2>1. pc = "rollback_done" /\ pc' \in {"idle", "roll_check"}
    BY <1>3 DEF RollbackDone, EndTxn
  <2> QED BY <1>3, <2>1, FateEndTxn DEF RollbackDone
<1> QED BY <1>1, <1>2, <1>3 DEF Rollback

LEMMA FateRoll ==
  ASSUME TypeInv, FateInv, Roll
  PROVE  FateInv'
<1> USE DEF Down, Opening, disk
<1>1. CASE RollRequested \/ RollRefused \/ RollPersist
  <2>1. /\ pc \in {"idle", "roll_drain", "roll_check", "roll_persist"}
        /\ pc' \in {"idle", "roll_drain", "deliver"}
        /\ pc' = "deliver" => pc = "roll_persist"
        /\ UNCHANGED <<home, stage, buf, db, nextCommit, queue, closing>>
    BY <1>1 DEF RollRequested, RollRefused, RollPersist
  <2>2. AllRows' \subseteq AllRows
    BY <2>1 DEF AllRows, DurableRows, Seg
  <2>3. pc' = "deliver" => queue' = {}
    BY <2>1 DEF FateInv, QueueShape
  <2> QED BY <2>1, <2>2, <2>3, FateKept
<1>2. CASE RollClaim
  <2>1. /\ pc \in {"roll_drain", "roll_check"} /\ pc' = "finalize" /\ queue = {}
        /\ home' = Claimed(home, cur + 1)
        /\ UNCHANGED <<stage, buf, db, nextCommit, queue, closing>>
    BY <1>2 DEF RollClaim
  <2>2. \A n \in Seg : home'[n].rows \subseteq home[n].rows
    BY <2>1 DEF Claimed, NoFile, TypeInv, TypeOK, Segment
  <2>3. AllRows' \subseteq AllRows
    BY <2>1, <2>2, HomeShrinks
  <2> QED BY <2>1, <2>3, FateKept
<1> QED BY <1>1, <1>2 DEF Roll

LEMMA FateClose ==
  ASSUME TypeInv, FateInv, Close
  PROVE  FateInv'
<1> USE DEF Down, Opening, disk
<1>1. CASE CloseStart
  <2> DEFINE r == MakeRow(nextNum, nextCommit, "ROLLBACK")
  <2>1. /\ pc = "idle" /\ pc' = "close_drain" /\ closing' = TRUE
        /\ queue' \subseteq queue \union {r}
        /\ UNCHANGED <<home, stage, buf, db, nextCommit>>
    BY <1>1 DEF CloseStart
  <2>2. r.cid = nextCommit /\ r.kind = "ROLLBACK"
    BY DEF MakeRow
  <2> HIDE DEF r
  <2>3. QueueShape'
    BY <2>1, <2>2 DEF FateInv, QueueShape
  <2>4. AllRows' = AllRows
    BY <2>1 DEF AllRows, DurableRows, Seg
  <2>5. DbShape' /\ DbFresh' /\ FateIsTrue'
    BY <2>1, <2>4 DEF FateInv, DbShape, DbFresh, FateIsTrue, AllRows
  <2>6. RowsBelowNext'
    BY <2>1, <2>4 DEF FateInv, RowsBelowNext, FateDecided, AllRows
  <2> QED BY <2>3, <2>5, <2>6 DEF FateInv
<1>2. CASE CloseShips
  <2>1. /\ pc = "close_drain" /\ pc' = "finalize" /\ queue = {}
        /\ UNCHANGED <<home, stage, buf, db, nextCommit, queue, closing>>
    BY <1>2 DEF CloseShips
  <2>2. AllRows' \subseteq AllRows
    BY <2>1 DEF AllRows, DurableRows, Seg
  <2> QED BY <2>1, <2>2, FateKept
<1>3. CASE CloseKeeps
  BY <1>3, FateReset DEF CloseKeeps
<1> QED BY <1>1, <1>2, <1>3 DEF Close

LEMMA FateFinalize ==
  ASSUME TypeInv, FateInv, Finalize
  PROVE  FateInv'
<1> USE DEF Down, Opening
<1>1. CASE FinalizeRows
  <2>1. /\ pc = "finalize" /\ pc' = "mark_ready" /\ Flush
        /\ UNCHANGED <<stage, cur, db, nextCommit, queue, closing>>
    BY <1>1 DEF FinalizeRows
  <2>2. AllRows' \subseteq AllRows /\ queue' = {}
    BY <2>1, FlushKeepsLog DEF FateInv, QueueShape
  <2> QED BY <2>1, <2>2, FateKept
<1>2. CASE MarkReady
  <2>1. /\ pc = "mark_ready" /\ pc' \in {"deliver", "roll_create"}
        /\ home' = [home EXCEPT ![cur].status = "READY"]
        /\ UNCHANGED <<stage, buf, db, nextCommit, queue, closing>>
    BY <1>2 DEF MarkReady
  <2>2. \A n \in Seg : home'[n].rows \subseteq home[n].rows
    BY <2>1 DEF TypeInv, TypeOK, Segment
  <2>3. AllRows' \subseteq AllRows /\ queue' = {}
    BY <2>1, <2>2, HomeShrinks DEF FateInv, QueueShape
  <2> QED BY <2>1, <2>3, FateKept
<1> QED BY <1>1, <1>2 DEF Finalize

LEMMA FateMover ==
  ASSUME TypeInv, FateInv, Mover
  PROVE  FateInv'
<1> USE DEF Down, Opening, disk
<1>1. CASE MoverCopies
  <2>1. PICK n \in todo : stage' = [stage EXCEPT ![n] = home[n]]
    BY <1>1 DEF MoverCopies
  <2>2. /\ pc = "deliver" /\ pc' = "remove"
        /\ UNCHANGED <<home, buf, db, nextCommit, queue, closing>>
    BY <1>1 DEF MoverCopies
  <2>3. \A m \in Seg : stage'[m] \in {stage[m], home[m]}
    BY <2>1 DEF TypeInv, TypeOK
  <2>4. AllRows' \subseteq AllRows
    BY <2>2, <2>3 DEF AllRows, DurableRows, Seg
  <2>5. queue' = {}
    BY <2>2 DEF FateInv, QueueShape
  <2> QED BY <2>2, <2>4, <2>5, FateKept
<1>2. CASE MoverCopyFails
  <2>1. /\ pc = "deliver" /\ pc' = "deliver"
        /\ UNCHANGED <<home, stage, buf, db, nextCommit, queue, closing>>
    BY <1>2 DEF MoverCopyFails
  <2>2. AllRows' \subseteq AllRows /\ queue' = {}
    BY <2>1 DEF FateInv, QueueShape, AllRows, DurableRows, Seg
  <2> QED BY <2>1, <2>2, FateKept
<1>3. CASE MoverRemoves
  <2>1. PICK n \in todo : home' \in {[home EXCEPT ![n] = NoFile], home}
    BY <1>3 DEF MoverRemoves
  <2>2. /\ pc = "remove" /\ pc' = "deliver"
        /\ UNCHANGED <<stage, buf, db, nextCommit, queue, closing>>
    BY <1>3 DEF MoverRemoves
  <2>3. \A m \in Seg : home'[m].rows \subseteq home[m].rows
    BY <2>1 DEF NoFile, TypeInv, TypeOK
  <2>4. AllRows' \subseteq AllRows /\ queue' = {}
    BY <2>2, <2>3, HomeShrinks DEF FateInv, QueueShape
  <2> QED BY <2>2, <2>4, FateKept
<1>4. CASE Delivered
  <2>1. CASE closing
    BY <1>4, <2>1, FateReset DEF Delivered
  <2>2. CASE ~ closing
    <3>1. /\ pc = "deliver" /\ pc' = "idle"
          /\ UNCHANGED <<home, stage, buf, db, nextCommit, queue, closing>>
      BY <1>4, <2>2 DEF Delivered
    <3>2. AllRows' \subseteq AllRows /\ queue' = {}
      BY <3>1 DEF FateInv, QueueShape, AllRows, DurableRows, Seg
    <3> QED BY <3>1, <3>2, FateKept
  <2> QED BY <2>1, <2>2
<1> QED BY <1>1, <1>2, <1>3, <1>4 DEF Mover

LEMMA FateInit ==
  ASSUME Init
  PROVE  FateInv
<1>1. \A n \in Seg : home[n].rows = {} /\ stage[n].rows = {}
  BY DEF Init, NoFile
<1>2. AllRows = {}
  BY <1>1 DEF AllRows, DurableRows, Init
<1> QED BY <1>2 DEF FateInv, DbShape, DbFresh, RowsBelowNext, QueueShape, FateIsTrue,
           AllRows, Init, Down

LEMMA FateStep ==
  ASSUME ~ ClockMayLag, TypeInv, FateInv, [Next]_vars
  PROVE  FateInv'
<1>1. CASE Crash
  BY <1>1, FateReset DEF Crash, Down
<1>2. CASE UNCHANGED vars
  <2>1. UNCHANGED <<home, stage, buf, db, nextCommit, queue, closing, pc>>
    BY <1>2 DEF vars, disk, memory
  <2>2. AllRows' = AllRows
    BY <2>1 DEF AllRows, DurableRows, Seg
  <2> QED BY <2>1, <2>2 DEF FateInv, DbShape, DbFresh, RowsBelowNext, FateDecided, QueueShape,
             FateIsTrue, AllRows
<1>3. CASE Open
  BY <1>3, FateOpenDevice, FateRecover, FateOpenOthers DEF Open
<1>4. CASE Create
  BY <1>4, FateOpenOthers
<1>5. CASE Next
  BY <1>1, <1>3, <1>4, <1>5, FateTxn, FateCommit, FateRollback, FateRoll, FateClose,
     FateFinalize, FateMover DEF Next
<1> QED BY <1>2, <1>5

--------------------------------------------------------------------------------
(* Recovery                                                                     *)

\* What a step does to the segments being written when it appends nothing.
NewUntouched ==
  \A n \in Seg : home'[n].status = "NEW" /\ home'[n].rows # {} =>
    home[n].status = "NEW" /\ home'[n].rows = home[n].rows

LEMMA ReachKept ==
  ASSUME ResumeInv, NewUntouched, buf' \subseteq buf, UNCHANGED db
  PROVE  NewReachesDb' /\ BufReachesDb'
<1>1. NewReachesDb'
  BY DEF ResumeInv, NewReachesDb, NewUntouched, Seg
<1>2. BufReachesDb'
  BY DEF ResumeInv, BufReachesDb
<1> QED BY <1>1, <1>2

\* Rows enter the log under a commit id that reaches the last database commit.
LEMMA ReachAppend ==
  ASSUME TypeInv, ResumeInv, NEW STATE r, r \in Row, AppendRow(r),
         r.cid >= db.commitId, UNCHANGED db
  PROVE  NewReachesDb' /\ BufReachesDb'
<1>1. WriterStep /\ home'[cur].rows \union buf' = home[cur].rows \union buf \union {r}
  BY AppendLogs, LogIsInShape DEF Logged
<1>2. \A q \in buf \union {r} : q.cid >= db.commitId
  BY DEF ResumeInv, BufReachesDb
<1>3. buf' \subseteq buf \union {r}
  BY DEF AppendRow
<1>4. NewReachesDb'
  <2>1. SUFFICES ASSUME NEW n \in Seg, home'[n].status = "NEW", home'[n].rows # {}
                 PROVE  \E q \in home'[n].rows : q.cid >= db.commitId
    BY DEF NewReachesDb, Seg
  <2>2. home[n].status = "NEW"
    BY <1>1, <2>1 DEF WriterStep
  <2>3. CASE home[n].rows # {}
    <3>1. PICK q \in home[n].rows : q.cid >= db.commitId
      BY <2>2, <2>3 DEF ResumeInv, NewReachesDb
    <3>2. q \in home'[n].rows
      BY <1>1, <3>1 DEF WriterStep
    <3> QED BY <3>1, <3>2
  <2>4. CASE home[n].rows = {}
    <3>1. n = cur
      BY <1>1, <2>1, <2>4 DEF WriterStep
    <3>2. home'[n].rows \subseteq buf \union {r}
      BY <1>1, <2>4, <3>1
    <3> QED BY <1>2, <2>1, <3>2
  <2> QED BY <2>3, <2>4
<1>5. BufReachesDb'
  BY <1>2, <1>3 DEF BufReachesDb
<1> QED BY <1>4, <1>5

LEMMA ReachFlush ==
  ASSUME TypeInv, ResumeInv, Flush, UNCHANGED db
  PROVE  NewReachesDb' /\ BufReachesDb'
<1>1. WriterStep /\ home'[cur].rows \union buf' = home[cur].rows \union buf /\ buf' = {}
  BY FlushLogs, LogIsInShape DEF Logged
<1>2. NewReachesDb'
  <2>1. SUFFICES ASSUME NEW n \in Seg, home'[n].status = "NEW", home'[n].rows # {}
                 PROVE  \E q \in home'[n].rows : q.cid >= db.commitId
    BY DEF NewReachesDb, Seg
  <2>2. home[n].status = "NEW"
    BY <1>1, <2>1 DEF WriterStep
  <2>3. CASE home[n].rows # {}
    <3>1. PICK q \in home[n].rows : q.cid >= db.commitId
      BY <2>2, <2>3 DEF ResumeInv, NewReachesDb
    <3>2. q \in home'[n].rows
      BY <1>1, <3>1 DEF WriterStep
    <3> QED BY <3>1, <3>2
  <2>4. CASE home[n].rows = {}
    <3>1. n = cur
      BY <1>1, <2>1, <2>4 DEF WriterStep
    <3>2. home'[n].rows \subseteq buf
      BY <1>1, <2>4, <3>1
    <3> QED BY <2>1, <3>2 DEF ResumeInv, BufReachesDb
  <2> QED BY <2>3, <2>4
<1>3. BufReachesDb'
  BY <1>1 DEF BufReachesDb
<1> QED BY <1>2, <1>3

\* A step after which no user transaction is open, nor about to commit.
LEMMA NoOpenTxn ==
  ASSUME pc' # "commit_db", pc' \notin {"commit_drain", "rollback_drain"},
         closing' \/ ~ userTxn'.open, pc' \in Down => ~ userTxn'.open
  PROVE  OpenTxnIsLogged'
BY DEF OpenTxnIsLogged

LEMMA ResumeReset ==
  ASSUME ResumeInv, InMemoryReset, pc' = "down", UNCHANGED disk
  PROVE  ResumeInv'
<1>1. UNCHANGED <<home, db>> /\ buf' = {} /\ ~ userTxn'.open
  BY DEF InMemoryReset, disk, NoUserTxn
<1>2. NewReachesDb' /\ BufReachesDb'
  BY <1>1, ReachKept DEF NewUntouched
<1>3. OpenTxnIsLogged'
  BY <1>1, NoOpenTxn
<1> QED BY <1>2, <1>3 DEF ResumeInv, NotRefused

--------------------------------------------------------------------------------
(* open                                                                        *)

\* The scan never meets a half-created file: the sweep came first.
LEMMA ScanSucceeds ==
  ASSUME TypeInv
  PROVE  ~ ScanFails
<1>1. CASE OnDisk(Resolved) = {}
  BY <1>1 DEF ScanFails, Highest
<1>2. CASE OnDisk(Resolved) # {}
  <2>1. OnDisk(Resolved) \in SUBSET Seg
    BY DEF OnDisk
  <2>2. Highest(OnDisk(Resolved)) \in Seg
    BY <1>2, <2>1, HighestIsMax
  <2> QED BY <2>2, ResolvedShape, LogIsInShape DEF ScanFails
<1> QED BY <1>1, <1>2

LEMMA ResumeOpenDevice ==
  ASSUME TypeInv, ResumeInv, OpenDevice
  PROVE  ResumeInv'
<1>1. pc \in Down /\ OpenResolved
  BY ScanSucceeds DEF OpenDevice
<1>2. /\ pc' \in {"open_recover", "open_create"}
      /\ UNCHANGED <<db, buf, userTxn, closing>>
  BY <1>1 DEF OpenResolved
<1>3. NewUntouched
  <2>1. \A n \in Seg : Resolved[n].status = "NEW" => Resolved[n] = home[n]
    BY ResolvedShape, LogIsInShape DEF NoFile
  <2>2. Resolved \in [Seg -> Segment]
    BY ResolvedShape, LogIsInShape
  <2>3. CASE ActiveSegment >= 0
    BY <1>1, <2>1, <2>3 DEF OpenResolved, NewUntouched
  <2>4. CASE ~ (ActiveSegment >= 0)
    <3>1. home' = Claimed(Resolved, NextSegment(Resolved))
      BY <1>1, <2>4 DEF OpenResolved
    <3>2. \A n \in Seg : home'[n].status = "NEW" => home'[n] = Resolved[n]
      <4> HIDE DEF Resolved
      <4> QED BY <2>2, <3>1 DEF Claimed, NoFile, Segment
    <3> QED BY <2>1, <3>2 DEF NewUntouched
  <2> QED BY <2>3, <2>4
<1>4. ~ userTxn'.open
  BY <1>1, <1>2 DEF ResumeInv, OpenTxnIsLogged
<1>5. OpenTxnIsLogged'
  BY <1>2, <1>4, NoOpenTxn DEF Down
<1>6. NewReachesDb' /\ BufReachesDb'
  BY <1>2, <1>3, ReachKept
<1> QED BY <1>2, <1>5, <1>6 DEF ResumeInv, NotRefused

\* The active segment reaches the last commit of the database, and its fate rows
\* agree with the database: none of the refusals of recovery can apply.
LEMMA ResumeRecover ==
  ASSUME TypeInv, FateInv, ResumeInv, RecoverInDoubtTxn
  PROVE  ResumeInv'
<1> DEFINE rows == home[cur].rows
           slave == LastCommitId(rows)
           fate == FateOf(rows, slave)
           outcome == RecoveryOutcome(db.commitId, slave, fate)
<1>1. pc = "open_recover" /\ cur \in Seg /\ ~ closing /\ home[cur].status = "NEW"
  BY DEF RecoverInDoubtTxn, TypeInv, TypeOK, StepShape, CurOpen
<1>2. rows \in SUBSET Row /\ IsFiniteSet(rows)
  BY <1>1 DEF TypeInv, TypeOK, FiniteRows, Segment
<1>3. slave \in Nat /\ db.commitId \in Nat /\ db.done \subseteq Nat
  BY <1>2, LastCommitIdType DEF TypeInv, TypeOK
<1>4. slave # 0 => slave >= db.commitId
  <2>1. SUFFICES ASSUME slave # 0 PROVE slave >= db.commitId
    OBVIOUS
  <2>2. rows # {}
    BY <2>1 DEF LastCommitId
  <2>3. PICK q \in rows : q.cid >= db.commitId
    BY <1>1, <2>2 DEF ResumeInv, NewReachesDb
  <2>4. q.cid <= slave /\ q.cid \in Nat
    BY <1>2, <2>2, <2>3, LastCommitIdIsMax DEF Row
  <2> HIDE DEF slave
  <2> QED BY <1>3, <2>3, <2>4
<1>5. /\ fate = "Commit" => slave \in db.done
      /\ fate = "Rollback" => slave \notin db.done
  <2>1. \A r \in rows : r \in DurableRows \union buf
    BY <1>1 DEF DurableRows
  <2> HIDE DEF slave
  <2> QED BY <2>1 DEF FateOf, Has, FateInv, FateIsTrue
<1>6. outcome # "refuse"
  <2>1. db.commitId # 0 => db.commitId \in db.done
    BY DEF FateInv, DbShape
  <2>2. \A c \in db.done : c <= db.commitId
    BY DEF FateInv, DbShape
  <2>3. fate \in {"Commit", "Rollback", "Unknown"}
    BY DEF FateOf
  <2> HIDE DEF slave, fate
  <2> QED BY <1>3, <1>4, <1>5, <2>1, <2>2, <2>3 DEF RecoveryOutcome
<1>7. ~ userTxn.open
  BY <1>1 DEF ResumeInv, OpenTxnIsLogged, TxnMayBeOpen
<1>8. pc' = "open_flush" /\ UNCHANGED <<db, userTxn>>
  BY <1>6 DEF RecoverInDoubtTxn
<1>9. OpenTxnIsLogged'
  BY <1>7, <1>8, NoOpenTxn DEF Down
<1>10. CASE outcome = "none"
  <2>1. UNCHANGED <<home, buf>>
    BY <1>10 DEF RecoverInDoubtTxn
  <2> QED BY <1>8, <1>9, <2>1, ReachKept DEF NewUntouched, ResumeInv, NotRefused
<1>11. CASE outcome # "none"
  <2> DEFINE r == MakeRow(nextNum, slave, outcome)
  <2>1. outcome \in {"COMMIT", "ROLLBACK"} /\ slave # 0
    BY <1>6, <1>11 DEF RecoveryOutcome, FateOf
  <2>2. r \in Row /\ r.cid = slave
    BY <1>3, <2>1 DEF MakeRow, Row, RowKind, TypeInv, TypeOK
  <2>3. AppendRow(r)
    BY <1>6, <1>11 DEF RecoverInDoubtTxn
  <2>4. r.cid >= db.commitId
    BY <1>4, <2>1, <2>2
  <2> HIDE DEF r
  <2>5. NewReachesDb' /\ BufReachesDb'
    BY <1>8, <2>2, <2>3, <2>4, ReachAppend
  <2> QED BY <1>8, <1>9, <2>5 DEF ResumeInv, NotRefused
<1> QED BY <1>10, <1>11

LEMMA ResumeOpenOthers ==
  ASSUME TypeInv, ResumeInv, OpenFlush \/ OpenPersist \/ Create
  PROVE  ResumeInv'
<1>1. CASE OpenFlush
  <2>1. /\ pc = "open_flush" /\ pc' = "open_persist" /\ Flush /\ UNCHANGED <<db, userTxn, closing>>
    BY <1>1 DEF OpenFlush
  <2>2. NewReachesDb' /\ BufReachesDb'
    BY <2>1, ReachFlush
  <2>3. closing' \/ ~ userTxn'.open
    BY <2>1 DEF ResumeInv, OpenTxnIsLogged, TxnMayBeOpen
  <2>4. OpenTxnIsLogged'
    BY <2>1, <2>3, NoOpenTxn DEF Down
  <2> QED BY <2>1, <2>2, <2>4 DEF ResumeInv, NotRefused
<1>2. CASE OpenPersist
  <2>1. /\ pc = "open_persist" /\ pc' = "deliver" /\ UNCHANGED <<home, buf, db, userTxn, closing>>
    BY <1>2 DEF OpenPersist
  <2>2. NewReachesDb' /\ BufReachesDb'
    BY <2>1, ReachKept DEF NewUntouched
  <2>3. closing' \/ ~ userTxn'.open
    BY <2>1 DEF ResumeInv, OpenTxnIsLogged, TxnMayBeOpen
  <2>4. OpenTxnIsLogged'
    BY <2>1, <2>3, NoOpenTxn DEF Down
  <2> QED BY <2>1, <2>2, <2>4 DEF ResumeInv, NotRefused
<1>3. CASE Create
  <2>1. /\ pc \in {"open_create", "roll_create", "open_schema", "roll_schema"}
        /\ pc' \in {"open_schema", "roll_schema", "open_recover", "roll_persist"}
        /\ UNCHANGED <<buf, db, userTxn, closing>>
    BY <1>3 DEF Create, CreateFile, CreateSchema
  <2>2. NewUntouched
    <3>1. slot \in Seg /\ home \in [Seg -> Segment]
      BY DEF TypeInv, TypeOK
    <3>2. CASE CreateFile
      BY <3>1, <3>2 DEF CreateFile, NewUntouched, Segment
    <3>3. CASE CreateSchema
      <4>1. home[slot].rows = {}
        BY <3>1, <3>3 DEF CreateSchema, TypeInv, StepShape, HomeShape
      <4>2. home' = [home EXCEPT ![slot].status = "NEW"]
        BY <3>3 DEF CreateSchema
      <4> QED BY <3>1, <4>1, <4>2 DEF NewUntouched, Segment
    <3> QED BY <1>3, <3>2, <3>3 DEF Create
  <2>3. NewReachesDb' /\ BufReachesDb'
    BY <2>1, <2>2, ReachKept
  <2>4. closing' \/ ~ userTxn'.open
    BY <2>1 DEF ResumeInv, OpenTxnIsLogged, TxnMayBeOpen
  <2>5. OpenTxnIsLogged'
    BY <2>1, <2>4, NoOpenTxn DEF Down
  <2> QED BY <2>1, <2>3, <2>5 DEF ResumeInv, NotRefused
<1> QED BY <1>1, <1>2, <1>3

--------------------------------------------------------------------------------
(* Transactions                                                                *)

LEMMA ResumeTxn ==
  ASSUME TypeInv, FateInv, ResumeInv, Txn
  PROVE  ResumeInv'
<1> USE DEF disk
<1>1. CASE Execute \/ ExecuteUnlogged
  <2>1. /\ pc = "idle" /\ pc' = "idle" /\ UNCHANGED <<home, buf, db, cur, nextCommit>>
    BY <1>1 DEF Execute, ExecuteUnlogged
  <2>2. NewReachesDb' /\ BufReachesDb'
    BY <2>1, ReachKept DEF NewUntouched
  <2>3. \E r \in queue' : r.cid = nextCommit
    <3>1. BeginRow.cid = nextCommit /\ OpRow.cid = nextCommit
      BY DEF BeginRow, OpRow, MakeRow
    <3>2. CASE Execute
      BY <3>1, <3>2 DEF Execute
    <3>3. CASE ExecuteUnlogged
      BY <3>1, <3>3 DEF ExecuteUnlogged
    <3> QED BY <1>1, <3>2, <3>3
  <2>4. OpenTxnIsLogged'
    BY <2>1, <2>3 DEF OpenTxnIsLogged, TxnMayBeOpen, Down
  <2> QED BY <2>1, <2>2, <2>4 DEF ResumeInv, NotRefused
<1>2. CASE Drain
  <2>1. PICK r \in queue : AppendRow(r) /\ queue' = queue \ {r}
    BY <1>2 DEF Drain
  <2>2. /\ pc \in {"flush_drain", "commit_drain", "rollback_drain", "roll_drain", "close_drain"}
        /\ UNCHANGED <<stage, db, pc, cur, nextCommit, userTxn, closing>>
    BY <1>2 DEF Drain
  <2>3. r \in Row /\ db.commitId \in Nat /\ nextCommit \in Nat
    BY <2>1 DEF TypeInv, TypeOK
  <2>4. r.cid = nextCommit /\ db.commitId < nextCommit
    BY <2>1, <2>2 DEF FateInv, QueueShape, DbFresh, Down
  <2>5. NewReachesDb' /\ BufReachesDb'
    <3>1. r.cid >= db.commitId
      BY <2>3, <2>4
    <3> QED BY <2>1, <2>2, <2>3, <3>1, ReachAppend
  <2>6. home'[cur].rows \union buf' = home[cur].rows \union buf \union {r}
    BY <2>1, <2>3, AppendLogs, LogIsInShape DEF Logged
  <2>7. \A q \in queue \union buf \union home[cur].rows :
          q \in queue' \union buf' \union home'[cur].rows
    BY <2>1, <2>6
  <2>8. OpenTxnIsLogged'
    BY <2>2, <2>7 DEF ResumeInv, OpenTxnIsLogged
  <2> QED BY <2>2, <2>5, <2>8 DEF ResumeInv, NotRefused
<1>3. CASE FlushLog \/ FlushLogDone
  <2>1. /\ pc \in {"idle", "flush_drain"} /\ pc' \in {"idle", "flush_drain"}
        /\ UNCHANGED <<home, buf, db, cur, nextCommit, queue, userTxn, closing>>
    BY <1>3 DEF FlushLog, FlushLogDone
  <2>2. NewReachesDb' /\ BufReachesDb'
    BY <2>1, ReachKept DEF NewUntouched
  <2>3. OpenTxnIsLogged'
    BY <2>1 DEF ResumeInv, OpenTxnIsLogged, TxnMayBeOpen, Down
  <2> QED BY <2>1, <2>2, <2>3 DEF ResumeInv, NotRefused
<1> QED BY <1>1, <1>2, <1>3 DEF Txn

\* When the database commits, the segment being written already has a durable row
\* of the transaction, and it is the only one being written.
LEMMA ResumeCommitDb ==
  ASSUME TypeInv, FateInv, ResumeInv, CommitDb
  PROVE  ResumeInv'
<1>1. /\ pc = "commit_db" /\ pc' = "commit_row" /\ db'.commitId = nextCommit
      /\ ~ userTxn'.open /\ UNCHANGED <<home, buf>>
  BY DEF CommitDb, NoUserTxn
<1>2. cur \in Seg /\ home[cur].status = "NEW" /\ cur \in Nat /\ Seg \subseteq Nat
  BY <1>1, BoundsAssumption DEF TypeInv, TypeOK, StepShape, CurOpen, Writing, Seg
<1>3. \A n \in Seg : home[n].status = "NEW" => n = cur
  <2>1. SUFFICES ASSUME NEW n \in Seg, home[n].status = "NEW", n # cur PROVE FALSE
    OBVIOUS
  <2>2. n < cur \/ cur < n
    BY <1>2, <2>1
  <2> QED BY <1>2, <2>1, <2>2 DEF TypeInv, HomeShape
<1>4. PICK r \in home[cur].rows : r.cid = nextCommit
  BY <1>1 DEF ResumeInv, OpenTxnIsLogged
<1>5. r.cid >= nextCommit
  BY <1>4 DEF TypeInv, TypeOK
<1>6. NewReachesDb'
  BY <1>1, <1>3, <1>4, <1>5 DEF NewReachesDb, Seg
<1>7. BufReachesDb'
  BY <1>1 DEF ResumeInv, OpenTxnIsLogged, BufReachesDb
<1>8. OpenTxnIsLogged'
  BY <1>1, NoOpenTxn DEF Down
<1> QED BY <1>1, <1>6, <1>7, <1>8 DEF ResumeInv, NotRefused

\* A fate row joins the log of a call whose user transaction is over.
LEMMA ResumeFateRow ==
  ASSUME TypeInv, FateInv, ResumeInv, CommitRow \/ RollbackRow
  PROVE  ResumeInv'
<1>1. PICK kind \in {"COMMIT", "ROLLBACK"} : AppendRow(MakeRow(nextNum, nextCommit, kind))
  BY DEF CommitRow, RollbackRow, FateRow
<1> DEFINE r == MakeRow(nextNum, nextCommit, kind)
<1>2. /\ pc \in {"commit_row", "rollback_row"} /\ pc' \in {"commit_done", "rollback_done"}
      /\ UNCHANGED <<db, userTxn, closing>>
  BY DEF CommitRow, RollbackRow, FateRow
<1>3. r \in Row /\ r.cid = nextCommit /\ nextCommit \in Nat /\ db.commitId \in Nat
  BY DEF MakeRow, Row, RowKind, TypeInv, TypeOK
<1>4. db.commitId <= nextCommit
  BY <1>2, <1>3 DEF FateInv, DbFresh, Down
<1> HIDE DEF r
<1>5. NewReachesDb' /\ BufReachesDb'
  <2>1. r.cid >= db.commitId
    BY <1>3, <1>4
  <2>2. AppendRow(r)
    BY <1>1 DEF r
  <2> QED BY <1>2, <1>3, <2>1, <2>2, ReachAppend
<1>6. closing' \/ ~ userTxn'.open
  BY <1>2 DEF ResumeInv, OpenTxnIsLogged, TxnMayBeOpen
<1>7. OpenTxnIsLogged'
  BY <1>2, <1>6, NoOpenTxn DEF Down
<1> QED BY <1>2, <1>5, <1>7 DEF ResumeInv, NotRefused

LEMMA ResumeEndTxn ==
  ASSUME TypeInv, ResumeInv, CommitDone \/ RollbackDone
  PROVE  ResumeInv'
<1>1. /\ pc \in {"commit_done", "rollback_done"} /\ pc' \in {"idle", "roll_check"} /\ Flush
      /\ UNCHANGED <<db, userTxn, closing>>
  BY DEF CommitDone, RollbackDone, EndTxn
<1>2. NewReachesDb' /\ BufReachesDb'
  BY <1>1, ReachFlush
<1>3. closing' \/ ~ userTxn'.open
  BY <1>1 DEF ResumeInv, OpenTxnIsLogged, TxnMayBeOpen
<1>4. OpenTxnIsLogged'
  BY <1>1, <1>3, NoOpenTxn DEF Down
<1> QED BY <1>1, <1>2, <1>4 DEF ResumeInv, NotRefused

LEMMA ResumeCommit ==
  ASSUME TypeInv, FateInv, ResumeInv, Commit
  PROVE  ResumeInv'
<1> USE DEF disk
<1>1. CASE CommitStart
  <2>1. /\ pc = "idle" /\ pc' = "commit_drain" /\ userTxn.open
        /\ UNCHANGED <<home, buf, db, cur, nextCommit, queue, userTxn, closing>>
    BY <1>1 DEF CommitStart
  <2>2. NewReachesDb' /\ BufReachesDb'
    BY <2>1, ReachKept DEF NewUntouched
  <2>3. OpenTxnIsLogged'
    BY <2>1 DEF ResumeInv, OpenTxnIsLogged, TxnMayBeOpen, Down
  <2> QED BY <2>1, <2>2, <2>3 DEF ResumeInv, NotRefused
<1>2. CASE CommitFlush
  <2>1. /\ pc = "commit_drain" /\ pc' = "commit_db" /\ queue = {} /\ Flush
        /\ UNCHANGED <<db, cur, nextCommit, queue, userTxn, closing>>
    BY <1>2 DEF CommitFlush
  <2>2. NewReachesDb' /\ BufReachesDb'
    BY <2>1, ReachFlush
  <2>3. home'[cur].rows = home[cur].rows \union buf /\ buf' = {}
    BY <2>1, FlushLogs, LogIsInShape DEF Logged
  <2>4. userTxn.open /\ ~ closing
    BY <2>1 DEF ResumeInv, OpenTxnIsLogged, TypeInv, StepShape
  <2>5. \E r \in home'[cur].rows : r.cid = nextCommit
    BY <2>1, <2>3, <2>4 DEF ResumeInv, OpenTxnIsLogged
  <2>6. OpenTxnIsLogged'
    BY <2>1, <2>3, <2>4, <2>5 DEF OpenTxnIsLogged, TxnMayBeOpen, Down
  <2> QED BY <2>1, <2>2, <2>6 DEF ResumeInv, NotRefused
<1>3. CASE CommitDbFails
  <2>1. /\ pc = "commit_db" /\ pc' = "idle"
        /\ UNCHANGED <<home, buf, db, cur, nextCommit, queue, userTxn, closing>>
    BY <1>3 DEF CommitDbFails
  <2>2. NewReachesDb' /\ BufReachesDb'
    BY <2>1, ReachKept DEF NewUntouched
  <2>3. OpenTxnIsLogged'
    BY <2>1 DEF ResumeInv, OpenTxnIsLogged, TxnMayBeOpen, Down
  <2> QED BY <2>1, <2>2, <2>3 DEF ResumeInv, NotRefused
<1> QED BY <1>1, <1>2, <1>3, ResumeCommitDb, ResumeFateRow, ResumeEndTxn DEF Commit

LEMMA ResumeRollback ==
  ASSUME TypeInv, FateInv, ResumeInv, Rollback
  PROVE  ResumeInv'
<1> USE DEF disk
<1>1. CASE RollbackStart
  <2>1. /\ pc = "idle" /\ pc' = "rollback_drain" /\ userTxn.open
        /\ UNCHANGED <<home, buf, db, cur, nextCommit, queue, userTxn, closing>>
    BY <1>1 DEF RollbackStart
  <2>2. NewReachesDb' /\ BufReachesDb'
    BY <2>1, ReachKept DEF NewUntouched
  <2>3. OpenTxnIsLogged'
    BY <2>1 DEF ResumeInv, OpenTxnIsLogged, TxnMayBeOpen, Down
  <2> QED BY <2>1, <2>2, <2>3 DEF ResumeInv, NotRefused
<1>2. CASE RollbackDb
  <2>1. /\ pc' = "rollback_row" /\ UNCHANGED <<home, buf, db>> /\ ~ userTxn'.open
    BY <1>2 DEF RollbackDb, NoUserTxn
  <2>2. NewReachesDb' /\ BufReachesDb'
    BY <2>1, ReachKept DEF NewUntouched
  <2>3. OpenTxnIsLogged'
    BY <2>1, NoOpenTxn DEF Down
  <2> QED BY <2>1, <2>2, <2>3 DEF ResumeInv, NotRefused
<1> QED BY <1>1, <1>2, ResumeFateRow, ResumeEndTxn DEF Rollback

--------------------------------------------------------------------------------
(* Switching segments                                                          *)

\* A segment with an open transaction is not at a commit boundary: the last commit
\* id in it is the one still to be decided.
LEMMA OpenTxnHoldsSegment ==
  ASSUME TypeInv, FateInv, ResumeInv, pc \in {"roll_drain", "roll_check"}, queue = {},
         userTxn.open
  PROVE  ~ AtCommitBoundary
<1>1. ~ closing /\ ~ FateDecided /\ cur \in Seg
  BY DEF TypeInv, TypeOK, StepShape, FateDecided
<1>2. PICK r \in LogRows : r.cid = nextCommit
  BY <1>1 DEF ResumeInv, OpenTxnIsLogged, LogRows
<1>3. LogRows \in SUBSET Row /\ IsFiniteSet(LogRows)
  BY <1>1, FS_Union DEF LogRows, TypeInv, TypeOK, FiniteRows, Segment
<1>4. \A q \in LogRows : /\ q.cid \in Nat /\ q.cid <= nextCommit
                         /\ q.kind \in {"COMMIT", "ROLLBACK"} => q.cid < nextCommit
  <2>1. \A q \in LogRows : q \in DurableRows \union buf
    BY <1>1 DEF LogRows, DurableRows
  <2> QED BY <1>1, <1>3, <2>1 DEF FateInv, RowsBelowNext, Row, Down
<1>5. nextCommit \in Nat
  BY DEF TypeInv, TypeOK
<1>6. LastCommitId(LogRows) = nextCommit
  <2>1. PICK q \in LogRows : q.cid = LastCommitId(LogRows)
    BY <1>2, <1>3, LastCommitIdIsMax
  <2>2. r.cid <= LastCommitId(LogRows)
    BY <1>2, <1>3, LastCommitIdIsMax
  <2> QED BY <1>2, <1>4, <1>5, <2>1, <2>2
<1>7. \A q \in LogRows : q.cid = nextCommit => q.kind \notin {"COMMIT", "ROLLBACK"}
  BY <1>4, <1>5
<1> QED BY <1>2, <1>6, <1>7 DEF AtCommitBoundary, LastFateDecided, FateOf, Has

LEMMA ResumeRoll ==
  ASSUME TypeInv, FateInv, ResumeInv, Roll
  PROVE  ResumeInv'
<1> USE DEF disk
<1>1. CASE RollRequested \/ RollRefused
  <2>1. /\ pc \in {"idle", "roll_drain", "roll_check"} /\ pc' \in {"idle", "roll_drain"}
        /\ UNCHANGED <<home, buf, db, cur, nextCommit, queue, userTxn, closing>>
    BY <1>1 DEF RollRequested, RollRefused
  <2>2. NewReachesDb' /\ BufReachesDb'
    BY <2>1, ReachKept DEF NewUntouched
  <2>3. OpenTxnIsLogged'
    BY <2>1 DEF ResumeInv, OpenTxnIsLogged, TxnMayBeOpen, Down
  <2> QED BY <2>1, <2>2, <2>3 DEF ResumeInv, NotRefused
<1>2. CASE RollClaim
  <2>1. /\ pc \in {"roll_drain", "roll_check"} /\ pc' = "finalize" /\ queue = {}
        /\ AtCommitBoundary /\ home' = Claimed(home, cur + 1)
        /\ UNCHANGED <<buf, db, userTxn, closing>>
    BY <1>2 DEF RollClaim
  <2>2. ~ userTxn.open
    BY <2>1, OpenTxnHoldsSegment
  <2>3. NewUntouched
    BY <2>1 DEF NewUntouched, Claimed, NoFile, TypeInv, TypeOK, Segment
  <2>4. NewReachesDb' /\ BufReachesDb'
    BY <2>1, <2>3, ReachKept
  <2>5. OpenTxnIsLogged'
    BY <2>1, <2>2, NoOpenTxn DEF Down
  <2> QED BY <2>1, <2>4, <2>5 DEF ResumeInv, NotRefused
<1>3. CASE RollPersist
  <2>1. /\ pc = "roll_persist" /\ pc' = "deliver" /\ UNCHANGED <<home, buf, db, userTxn, closing>>
    BY <1>3 DEF RollPersist
  <2>2. NewReachesDb' /\ BufReachesDb'
    BY <2>1, ReachKept DEF NewUntouched
  <2>3. closing' \/ ~ userTxn'.open
    BY <2>1 DEF ResumeInv, OpenTxnIsLogged, TxnMayBeOpen
  <2>4. OpenTxnIsLogged'
    BY <2>1, <2>3, NoOpenTxn DEF Down
  <2> QED BY <2>1, <2>2, <2>4 DEF ResumeInv, NotRefused
<1> QED BY <1>1, <1>2, <1>3 DEF Roll

LEMMA ResumeClose ==
  ASSUME TypeInv, ResumeInv, Close
  PROVE  ResumeInv'
<1> USE DEF disk
<1>1. CASE CloseStart \/ CloseShips
  <2>1. /\ pc' \in {"close_drain", "finalize"} /\ closing'
        /\ UNCHANGED <<home, buf, db>>
    BY <1>1 DEF CloseStart, CloseShips, TypeInv, StepShape
  <2>2. NewReachesDb' /\ BufReachesDb'
    BY <2>1, ReachKept DEF NewUntouched
  <2>3. OpenTxnIsLogged'
    BY <2>1, NoOpenTxn DEF Down
  <2> QED BY <2>1, <2>2, <2>3 DEF ResumeInv, NotRefused
<1>2. CASE CloseKeeps
  BY <1>2, ResumeReset DEF CloseKeeps
<1> QED BY <1>1, <1>2 DEF Close

LEMMA ResumeFinalize ==
  ASSUME TypeInv, ResumeInv, Finalize
  PROVE  ResumeInv'
<1>1. /\ pc \in {"finalize", "mark_ready"} /\ pc' \in {"mark_ready", "deliver", "roll_create"}
      /\ UNCHANGED <<db, userTxn, closing>>
  BY DEF Finalize, FinalizeRows, MarkReady
<1>2. closing' \/ ~ userTxn'.open
  BY <1>1 DEF ResumeInv, OpenTxnIsLogged, TxnMayBeOpen
<1>3. OpenTxnIsLogged'
  BY <1>1, <1>2, NoOpenTxn DEF Down
<1>4. CASE FinalizeRows
  <2>1. NewReachesDb' /\ BufReachesDb'
    BY <1>1, <1>4, ReachFlush DEF FinalizeRows
  <2> QED BY <1>1, <1>3, <2>1 DEF ResumeInv, NotRefused
<1>5. CASE MarkReady
  <2>1. NewUntouched /\ UNCHANGED buf
    BY <1>5 DEF MarkReady, NewUntouched, TypeInv, TypeOK, Segment
  <2>2. NewReachesDb' /\ BufReachesDb'
    BY <1>1, <2>1, ReachKept
  <2> QED BY <1>1, <1>3, <2>2 DEF ResumeInv, NotRefused
<1> QED BY <1>4, <1>5 DEF Finalize

LEMMA ResumeMover ==
  ASSUME TypeInv, ResumeInv, Mover
  PROVE  ResumeInv'
<1> USE DEF disk
<1>1. CASE Delivered /\ closing
  BY <1>1, ResumeReset DEF Delivered
<1>2. CASE ~ (Delivered /\ closing)
  <2>1. /\ pc \in {"deliver", "remove"} /\ pc' \in {"deliver", "remove", "idle"}
        /\ UNCHANGED <<buf, db, userTxn, closing>>
    BY <1>2 DEF Mover, MoverCopies, MoverCopyFails, MoverRemoves, Delivered
  <2>2. NewUntouched
    <3>1. CASE MoverRemoves
      <4>1. PICK n \in todo : home' \in {[home EXCEPT ![n] = NoFile], home}
        BY <3>1 DEF MoverRemoves
      <4> QED BY <4>1 DEF NewUntouched, NoFile, TypeInv, TypeOK
    <3>2. CASE MoverCopies \/ MoverCopyFails \/ Delivered
      BY <1>2, <3>2 DEF MoverCopies, MoverCopyFails, Delivered, NewUntouched
    <3> QED BY <3>1, <3>2 DEF Mover
  <2>3. NewReachesDb' /\ BufReachesDb'
    BY <2>1, <2>2, ReachKept
  <2>4. closing' \/ ~ userTxn'.open
    BY <2>1 DEF ResumeInv, OpenTxnIsLogged, TxnMayBeOpen
  <2>5. OpenTxnIsLogged'
    BY <2>1, <2>4, NoOpenTxn DEF Down
  <2> QED BY <2>1, <2>3, <2>5 DEF ResumeInv, NotRefused
<1> QED BY <1>1, <1>2

--------------------------------------------------------------------------------

LEMMA ResumeInit ==
  ASSUME Init
  PROVE  ResumeInv
<1>1. \A n \in Seg : home[n].status = "absent"
  BY DEF Init, NoFile
<1>2. pc = "down" /\ buf = {} /\ ~ userTxn.open
  BY DEF Init, NoUserTxn
<1> QED BY <1>1, <1>2 DEF ResumeInv, NotRefused, NewReachesDb, BufReachesDb, OpenTxnIsLogged

LEMMA ResumeStep ==
  ASSUME TypeInv, FateInv, ResumeInv, [Next]_vars
  PROVE  ResumeInv'
<1>1. CASE Crash
  BY <1>1, ResumeReset DEF Crash
<1>2. CASE UNCHANGED vars
  BY <1>2 DEF vars, disk, memory, ResumeInv, NotRefused, NewReachesDb, BufReachesDb,
     OpenTxnIsLogged, Seg
<1>3. CASE Open
  BY <1>3, ResumeOpenDevice, ResumeRecover, ResumeOpenOthers DEF Open
<1>4. CASE Create
  BY <1>4, ResumeOpenOthers
<1>5. CASE Next
  BY <1>1, <1>3, <1>4, <1>5, ResumeTxn, ResumeCommit, ResumeRollback, ResumeRoll, ResumeClose,
     ResumeFinalize, ResumeMover DEF Next
<1> QED BY <1>2, <1>5

\* Where the clock never stands behind a commit id already used, a COMMIT in the log
\* means the user database committed and a ROLLBACK that it did not, in every reachable
\* state; and the device opens after every crash: the scan finds a readable segment, and
\* none of the conditions under which resolve_in_doubt_txn_on_open returns an error can
\* arise.
THEOREM FateAgrees == ~ ClockMayLag => (Spec => []FateMatchesDb)
<1>1. SUFFICES ASSUME ~ ClockMayLag PROVE Spec => []FateMatchesDb
  OBVIOUS
<1>2. Init => FateInv /\ ResumeInv
  BY FateInit, ResumeInit
<1>3. TypeInv /\ FateInv /\ ResumeInv /\ [Next]_vars => FateInv' /\ ResumeInv'
  BY <1>1, FateStep, ResumeStep
<1>4. FateInv /\ ResumeInv => FateMatchesDb
  BY DEF FateInv, ResumeInv, NotRefused, FateIsTrue, FateMatchesDb
<1> QED BY <1>2, <1>3, <1>4, TypeAndShape, PTL DEF Spec

--------------------------------------------------------------------------------
(***************************************************************************)
(* What the log is for: it covers the user database, the numbers of the    *)
(* segments give the order of the history, what is finalized is whole, and *)
(* SqliteDevice implements CommitStream: whoever reads the staged segments *)
(* by number is always given a growing prefix of what the user database    *)
(* committed.                                                              *)
(*                                                                         *)
(* Two invariants say that nothing is lost, and hold as long as the        *)
(* sequence number is persisted; without it a number is used twice and the *)
(* mover writes over a staged segment:                                     *)
(*   StageInv    what is staged is finalized and never written again;      *)
(*   CoverInv    no statement takes effect whose row is not durable, and   *)
(*               no durable row is lost on the way to stage.               *)
(* Four more rest on these and on those of the first part:                 *)
(*   GapInv      no number is skipped: below what is in use every segment  *)
(*               is staged or waits, finalized, in the device home;        *)
(*   OrderInv    commit ids grow from segment to segment;                  *)
(*   LoggedInv   every commit of the database has its COMMIT row, but for  *)
(*               one that recovery will find in doubt in the open segment; *)
(*   DecidedInv  what is finalized ends with a decided transaction.        *)
(***************************************************************************)

\* The steps during which the sequence number of the open segment is persisted.
Numbered ==
  Writing \union
  {"idle", "roll_drain", "roll_check", "close_drain", "finalize", "mark_ready",
   "roll_create", "roll_schema", "deliver", "remove"}

\* A staged segment is finalized, its number is not above the persisted one, and
\* the file at home, if it is still there, is the same.  What is written has a
\* number that was not staged.
StageShape ==
  \A n \in Seg :
    /\ stage[n].status = "absent" => stage[n].rows = {}
    /\ stage[n].status # "absent" =>
         stage[n].status = "READY" /\ n <= persisted /\ home[n] \in {stage[n], NoFile}
    /\ home[n].status \in {"half", "NEW"} => n >= persisted

\* The persisted number follows the segment that is written.
NumberShape ==
  /\ pc \in Numbered => persisted = cur
  /\ pc \in {"open_create", "open_schema", "roll_create", "roll_schema"} => persisted < slot
  /\ pc \in {"open_recover", "open_flush", "open_persist", "roll_persist"} => persisted <= cur

\* What is handed to the mover is finalized, and what it removes it has copied.
TodoShape ==
  /\ pc \in {"finalize", "mark_ready"} => todo = {cur}
  /\ pc \in {"roll_create", "roll_schema", "roll_persist", "deliver", "remove"} =>
       \A n \in todo : n <= cur /\ home[n].status = "READY"
  /\ pc = "remove" => \A n \in todo : NextToDeliver(n) => stage[n] = home[n]

StageInv == StageShape /\ NumberShape /\ TodoShape

\* The statements of the open transaction are queued, pending or durable; when the
\* database commits, they are durable.
TxnIsQueued ==
  /\ userTxn.effects \subseteq queue \union buf \union DurableRows
  /\ pc = "commit_db" => queue = {} /\ buf = {}

CoverInv == LogCoversDb /\ TxnIsQueued

--------------------------------------------------------------------------------
(* What is staged                                                              *)

\* A step that leaves stage and the persisted number alone, and changes no file at
\* home but to remove it, or one that is not staged and not numbered below.
LEMMA StageKept ==
  ASSUME StageShape, UNCHANGED <<stage, persisted>>,
         \A n \in Seg : \/ home'[n] = home[n]
                        \/ home'[n] = NoFile
                        \/ n >= persisted /\ stage[n].status = "absent"
  PROVE  StageShape'
BY DEF StageShape, NoFile, Seg

\* What is being written is not staged.
LEMMA OpenIsNotStaged ==
  ASSUME StageShape, NEW n \in Seg, home[n].status \in {"half", "NEW"}
  PROVE  n >= persisted /\ stage[n].status = "absent"
BY DEF StageShape, NoFile

\* Nothing above the persisted number is staged.
LEMMA AboveIsNotStaged ==
  ASSUME TypeInv, StageShape, NEW n \in Seg, persisted < n
  PROVE  n >= persisted /\ stage[n].status = "absent"
<1>1. n \in Int /\ persisted \in Int
  BY BoundsAssumption DEF TypeInv, TypeOK, Seg
<1> QED BY <1>1 DEF StageShape

LEMMA StageReset ==
  ASSUME StageInv, InMemoryReset, pc' \in Down, UNCHANGED disk
  PROVE  StageInv'
<1>1. UNCHANGED <<home, stage, persisted>>
  BY DEF disk
<1>2. StageShape'
  BY <1>1, StageKept DEF StageInv
<1>3. NumberShape' /\ TodoShape'
  BY DEF NumberShape, TodoShape, Numbered, Writing, Down
<1> QED BY <1>2, <1>3 DEF StageInv

\* A step of the writer changes the open segment only.
LEMMA StageWriter ==
  ASSUME TypeInv, StageInv, WriterStep, home[cur].status = "NEW",
         UNCHANGED <<stage, persisted>>
  PROVE  StageShape'
<1>1. cur >= persisted /\ stage[cur].status = "absent"
  BY OpenIsNotStaged DEF StageInv, TypeInv, TypeOK
<1>2. \A n \in Seg : home'[n] = home[n] \/ n = cur
  BY DEF WriterStep
<1> QED BY <1>1, <1>2, StageKept DEF StageInv

\* A step of the writer while the segment stays open, and nothing is handed over.
LEMMA StageWriterStep ==
  ASSUME TypeInv, StageInv, WriterStep, home[cur].status = "NEW",
         UNCHANGED <<stage, persisted, cur>>,
         pc \in Numbered => pc' \in Numbered \ {"roll_create", "roll_schema", "deliver", "remove"},
         pc' \in Numbered \union {"open_recover", "open_flush", "open_persist", "roll_persist"},
         pc \in {"open_recover", "open_flush"} => pc' \in {"open_flush", "open_persist"},
         pc \in Numbered \union {"open_recover", "open_flush"},
         pc' \in {"finalize", "mark_ready"} => pc \in {"finalize", "mark_ready"} /\ todo' = todo
  PROVE  StageInv'
<1>1. StageShape'
  BY StageWriter
<1>2. NumberShape'
  BY DEF StageInv, NumberShape, Numbered, Writing
<1>3. TodoShape'
  BY DEF StageInv, TodoShape, Numbered, Writing
<1> QED BY <1>1, <1>2, <1>3 DEF StageInv

\* A step of memory only, among those during which the number is persisted and
\* nothing is handed over.
LEMMA StageMemory ==
  ASSUME StageInv, UNCHANGED <<home, stage, persisted, cur>>, pc \in Numbered,
         pc' \in Numbered \ {"finalize", "mark_ready", "roll_create", "roll_schema",
                            "deliver", "remove"}
  PROVE  StageInv'
<1>1. StageShape'
  BY StageKept DEF StageInv
<1>2. NumberShape' /\ TodoShape'
  BY DEF StageInv, NumberShape, TodoShape, Numbered, Writing
<1> QED BY <1>1, <1>2 DEF StageInv

--------------------------------------------------------------------------------
(* open                                                                        *)

\* open leaves what it finds, less the half-created files, and resumes the open
\* segment or takes a number above the persisted one.
LEMMA OpenTakes ==
  ASSUME TypeInv, OpenResolved
  PROVE  /\ home' = Resolved
         /\ UNCHANGED <<stage, persisted, db, queue, userTxn, buf, todo, closing>>
         /\ \/ pc' = "open_recover"
            \/ pc' = "open_create" /\ persisted < slot'
<1>1. CASE ActiveSegment >= 0
  BY <1>1 DEF OpenResolved
<1>2. CASE ~ (ActiveSegment >= 0)
  <2> DEFINE s == NextSegment(Resolved)
  <2>1. /\ s <= MaxSegment /\ home' = Claimed(Resolved, s) /\ slot' = FreeSlot(Resolved, s)
        /\ pc' = "open_create"
        /\ UNCHANGED <<stage, persisted, db, queue, userTxn, buf, todo, closing>>
    BY <1>2 DEF OpenResolved
  <2>2. persisted \in -1 .. MaxSegment
    BY DEF TypeInv, TypeOK
  <2>3. Highest(OnDisk(Resolved)) \in Int
    <3>1. OnDisk(Resolved) \in SUBSET Seg
      BY DEF OnDisk
    <3>2. CASE OnDisk(Resolved) = {}
      BY <3>2 DEF Highest
    <3>3. CASE OnDisk(Resolved) # {}
      BY <3>1, <3>3, HighestIsMax, BoundsAssumption DEF Seg
    <3> QED BY <3>2, <3>3
  <2>4. s \in Seg /\ persisted < s
    BY <2>1, <2>2, <2>3, BoundsAssumption DEF NextSegment, Seg
  <2>5. \A n \in Seg : n >= s => Resolved[n].status = "absent"
    BY NextSegmentIsFree, LogIsInShape
  <2>6. \A n \in Seg : Resolved[n].status = "absent" => Resolved[n].rows = {}
    BY ResolvedShape, LogIsInShape DEF TypeInv, HomeShape, NoFile
  <2>7. Resolved \in [Seg -> Segment]
    BY ResolvedShape, LogIsInShape
  <2> HIDE DEF s
  <2>8. FreeSlot(Resolved, s) = s /\ Claimed(Resolved, s) = Resolved
    BY <2>4, <2>5, <2>6, <2>7, ClaimOfFreeSlot
  <2> QED BY <2>1, <2>4, <2>8
<1> QED BY <1>1, <1>2

\* The number that is persisted becomes that of the open segment.
LEMMA NumberAdvances ==
  ASSUME TypeInv, StageShape, persisted <= cur, home[cur].status = "NEW",
         persisted' = cur, UNCHANGED <<home, stage>>
  PROVE  StageShape'
<1>1. cur \in Seg /\ persisted \in Int /\ \A n \in Seg : n \in Int
  BY BoundsAssumption DEF TypeInv, TypeOK, Seg
<1>2. ASSUME NEW n \in Seg, home[n].status \in {"half", "NEW"} PROVE n >= cur
  <2>1. CASE n < cur
    BY <1>1, <1>2, <2>1 DEF TypeInv, HomeShape
  <2> QED BY <1>1, <2>1
<1>3. ASSUME NEW n \in Seg, n <= persisted PROVE n <= cur
  BY <1>1, <1>3
<1> QED BY <1>2, <1>3 DEF StageShape, Seg

\* Recovery appends the fate it has decided.
LEMMA RecoverAppends ==
  ASSUME TypeInv, RecoverInDoubtTxn, 
         RecoveryOutcome(db.commitId, LastCommitId(home[cur].rows),
                         FateOf(home[cur].rows, LastCommitId(home[cur].rows)))
           \notin {"refuse", "none"}
  PROVE  /\ WriterStep /\ \E r \in Row : Logged({r})
         /\ pc' = "open_flush" /\ UNCHANGED <<cur, queue, userTxn, todo>>
<1> DEFINE rows == home[cur].rows
           slave == LastCommitId(rows)
           outcome == RecoveryOutcome(db.commitId, slave, FateOf(rows, slave))
<1>1. cur \in Seg
  BY DEF TypeInv, TypeOK
<1>2. slave \in Nat
  <2>1. rows \in SUBSET Row /\ IsFiniteSet(rows)
    BY <1>1 DEF TypeInv, TypeOK, FiniteRows, Segment
  <2> QED BY <2>1, LastCommitIdType
<1>3. outcome \in {"ROLLBACK", "COMMIT"}
  BY DEF RecoveryOutcome, FateOf
<1> DEFINE r == MakeRow(nextNum, slave, outcome)
<1>4. r \in Row
  BY <1>2, <1>3 DEF MakeRow, Row, RowKind, TypeInv, TypeOK
<1>5. AppendRow(r) /\ pc' = "open_flush" /\ UNCHANGED <<cur, queue, userTxn, todo>>
  BY DEF RecoverInDoubtTxn
<1> HIDE DEF r
<1> QED BY <1>4, <1>5, AppendLogs, LogIsInShape

LEMMA StageOpen ==
  ASSUME ~ PersistMayFail, TypeInv, TypeInv', StageInv, Open
  PROVE  StageInv'
<1> USE DEF disk, Down, Numbered, Writing
<1>1. CASE OpenDevice /\ ScanFails
  <2>1. pc' = "refused" /\ UNCHANGED <<home, stage, persisted>>
    BY <1>1 DEF OpenDevice
  <2>2. StageShape'
    BY <2>1, StageKept DEF StageInv
  <2> QED BY <2>1, <2>2 DEF StageInv, NumberShape, TodoShape
<1>2. CASE OpenDevice /\ ~ ScanFails
  <2>1. /\ home' = Resolved /\ UNCHANGED <<stage, persisted>>
        /\ pc' = "open_recover" \/ (pc' = "open_create" /\ persisted < slot')
    BY <1>2, OpenTakes DEF OpenDevice
  <2>2. \A n \in Seg : home'[n] \in {home[n], NoFile}
    BY <2>1, ResolvedShape, LogIsInShape
  <2>3. StageShape'
    BY <2>1, <2>2, StageKept DEF StageInv
  <2>4. NumberShape'
    <3>1. CASE pc' = "open_recover"
      <4>1. cur' \in Seg /\ home'[cur'].status = "NEW"
        BY <3>1 DEF TypeInv, TypeOK, StepShape, CurOpen, Seg
      <4>2. cur' >= persisted'
        BY <2>3, <4>1 DEF StageShape, Seg
      <4>3. cur' \in Int /\ persisted' \in Int
        BY <4>1, BoundsAssumption DEF TypeInv, TypeOK, Seg
      <4> QED BY <3>1, <4>2, <4>3 DEF NumberShape
    <3>2. CASE pc' = "open_create"
      BY <2>1, <3>2 DEF NumberShape
    <3> QED BY <2>1, <3>1, <3>2
  <2>5. TodoShape'
    BY <2>1 DEF TodoShape
  <2> QED BY <2>3, <2>4, <2>5 DEF StageInv
<1>3. CASE RecoverInDoubtTxn
  <2> DEFINE slave == LastCommitId(home[cur].rows)
             outcome == RecoveryOutcome(db.commitId, slave, FateOf(home[cur].rows, slave))
  <2>1. /\ pc = "open_recover" /\ home[cur].status = "NEW" /\ cur \in Seg
        /\ UNCHANGED <<stage, persisted, db>>
    BY <1>3 DEF RecoverInDoubtTxn, TypeInv, TypeOK, StepShape, CurOpen
  <2>2. CASE outcome = "refuse"
    BY <1>3, <2>2, StageReset DEF RecoverInDoubtTxn
  <2>3. CASE outcome = "none"
    <3>1. pc' = "open_flush" /\ UNCHANGED <<home, cur, todo>>
      BY <1>3, <2>3 DEF RecoverInDoubtTxn
    <3>2. StageShape'
      BY <2>1, <3>1, StageKept DEF StageInv
    <3> QED BY <2>1, <3>1, <3>2 DEF StageInv, NumberShape, TodoShape
  <2>4. CASE outcome \notin {"refuse", "none"}
    <3>1. pc' = "open_flush" /\ UNCHANGED cur /\ WriterStep
      BY <1>3, <2>4, RecoverAppends
    <3> QED BY <2>1, <3>1, StageWriterStep
  <2> QED BY <2>2, <2>3, <2>4
<1>4. CASE OpenFlush
  <2>1. /\ pc = "open_flush" /\ pc' = "open_persist" /\ home[cur].status = "NEW"
        /\ UNCHANGED <<stage, persisted, cur>>
    BY <1>4 DEF OpenFlush, TypeInv, StepShape, CurOpen
  <2>2. WriterStep
    BY <1>4, FlushLogs, LogIsInShape DEF OpenFlush
  <2> QED BY <2>1, <2>2, StageWriterStep
<1>5. CASE OpenPersist
  <2>1. /\ pc = "open_persist" /\ pc' = "deliver" /\ persisted' = cur
        /\ todo' = FinalizedBelow(cur) /\ UNCHANGED <<home, stage, cur>>
    BY <1>5 DEF OpenPersist, PersistSequence
  <2>2. home[cur].status = "NEW"
    BY <2>1 DEF TypeInv, StepShape, CurOpen
  <2>3. StageShape'
    BY <2>1, <2>2, NumberAdvances DEF StageInv, NumberShape
  <2>4. \A n \in todo' : n <= cur' /\ home'[n].status = "READY"
    BY <2>1, BoundsAssumption DEF FinalizedBelow, Seg, TypeInv, TypeOK
  <2> QED BY <2>1, <2>3, <2>4 DEF StageInv, NumberShape, TodoShape
<1> QED BY <1>1, <1>2, <1>3, <1>4, <1>5 DEF Open

LEMMA StageCreate ==
  ASSUME TypeInv, StageInv, Create
  PROVE  StageInv'
<1>1. slot \in Seg /\ home \in [Seg -> Segment] /\ persisted \in Int /\ \A n \in Seg : n \in Int
  BY BoundsAssumption DEF TypeInv, TypeOK, Seg
<1>2. /\ pc \in {"open_create", "open_schema", "roll_create", "roll_schema"}
      /\ UNCHANGED <<stage, persisted, todo>>
      /\ \A n \in Seg : n = slot \/ home'[n] = home[n]
  BY <1>1 DEF Create, CreateFile, CreateSchema
<1>3. persisted < slot
  BY <1>2 DEF StageInv, NumberShape
<1>4. slot >= persisted /\ stage[slot].status = "absent"
  BY <1>1, <1>3, AboveIsNotStaged DEF StageInv
<1>5. StageShape'
  BY <1>2, <1>4, StageKept DEF StageInv
<1>6. \/ pc = "open_create" /\ pc' = "open_schema" /\ UNCHANGED <<cur, slot>>
      \/ pc = "roll_create" /\ pc' = "roll_schema" /\ UNCHANGED <<cur, slot>>
      \/ pc = "open_schema" /\ pc' = "open_recover" /\ cur' = slot
      \/ pc = "roll_schema" /\ pc' = "roll_persist" /\ cur' = slot
  BY DEF Create, CreateFile, CreateSchema
<1>7. NumberShape'
  BY <1>1, <1>2, <1>3, <1>6 DEF StageInv, NumberShape, Numbered, Writing
<1>8. ASSUME pc \in {"roll_create", "roll_schema"}, NEW n \in todo
      PROVE  n <= cur' /\ home'[n].status = "READY"
  <2>1. n \in Seg /\ n <= cur /\ cur \in Int /\ home[n].status = "READY" /\ persisted = cur
    BY <1>8, BoundsAssumption DEF StageInv, TodoShape, NumberShape, Numbered, TypeInv, TypeOK, Seg
  <2>2. n # slot /\ n <= cur'
    BY <1>1, <1>3, <1>6, <2>1
  <2> QED BY <1>2, <2>1, <2>2
<1>9. TodoShape'
  BY <1>2, <1>6, <1>8 DEF TodoShape
<1> QED BY <1>5, <1>7, <1>9 DEF StageInv

--------------------------------------------------------------------------------
(* execute, commit, rollback                                                   *)

LEMMA StageTxn ==
  ASSUME TypeInv, StageInv, Txn
  PROVE  StageInv'
<1> USE DEF disk, Numbered, Writing
<1>1. CASE Execute \/ ExecuteUnlogged \/ FlushLog \/ FlushLogDone
  <2>1. /\ pc \in {"idle", "flush_drain"} /\ pc' \in {"idle", "flush_drain"}
        /\ UNCHANGED <<home, stage, persisted, cur>>
    BY <1>1 DEF Execute, ExecuteUnlogged, FlushLog, FlushLogDone
  <2> QED BY <2>1, StageMemory
<1>2. CASE Drain
  <2>1. /\ pc \in {"flush_drain", "commit_drain", "rollback_drain", "roll_drain", "close_drain"}
        /\ UNCHANGED <<stage, persisted, cur, pc>>
    BY <1>2 DEF Drain
  <2>2. home[cur].status = "NEW"
    BY <2>1 DEF TypeInv, StepShape, CurOpen
  <2>3. WriterStep
    BY <1>2, AppendLogs, LogIsInShape DEF Drain, TypeInv, TypeOK
  <2> QED BY <2>1, <2>2, <2>3, StageWriterStep
<1> QED BY <1>1, <1>2 DEF Txn

\* The fate row of a commit or a rollback is a row.
LEMMA FateRowAppends ==
  ASSUME TypeInv, NEW step, NEW kind \in {"COMMIT", "ROLLBACK"}, NEW next,
         FateRow(step, kind, next)
  PROVE  WriterStep /\ \E r \in Row : Logged({r})
<1> DEFINE r == MakeRow(nextNum, nextCommit, kind)
<1>1. r \in Row
  BY DEF MakeRow, Row, RowKind, TypeInv, TypeOK
<1>2. AppendRow(r)
  BY DEF FateRow
<1> HIDE DEF r
<1> QED BY <1>1, <1>2, AppendLogs, LogIsInShape

LEMMA StageCommit ==
  ASSUME TypeInv, StageInv, Commit
  PROVE  StageInv'
<1> USE DEF disk, Numbered, Writing
<1>1. CASE CommitStart \/ CommitDb \/ CommitDbFails
  <2>1. /\ pc \in {"idle", "commit_db"} /\ pc' \in {"commit_drain", "commit_row", "idle"}
        /\ UNCHANGED <<home, stage, persisted, cur>>
    BY <1>1 DEF CommitStart, CommitDb, CommitDbFails
  <2> QED BY <2>1, StageMemory
<1>2. CASE CommitFlush \/ CommitRow \/ CommitDone
  <2>1. /\ pc \in {"commit_drain", "commit_row", "commit_done"}
        /\ pc' \in {"commit_db", "commit_done", "idle", "roll_check"}
        /\ UNCHANGED <<stage, persisted, cur>>
    BY <1>2 DEF CommitFlush, CommitRow, FateRow, CommitDone, EndTxn
  <2>2. home[cur].status = "NEW"
    BY <2>1 DEF TypeInv, StepShape, CurOpen
  <2>3. WriterStep
    BY <1>2, FlushLogs, LogIsInShape, FateRowAppends DEF CommitFlush, CommitRow, CommitDone, EndTxn
  <2> QED BY <2>1, <2>2, <2>3, StageWriterStep
<1> QED BY <1>1, <1>2 DEF Commit

LEMMA StageRollback ==
  ASSUME TypeInv, StageInv, Rollback
  PROVE  StageInv'
<1> USE DEF disk, Numbered, Writing
<1>1. CASE RollbackStart \/ RollbackDb
  <2>1. /\ pc \in {"idle", "rollback_drain"} /\ pc' \in {"rollback_drain", "rollback_row"}
        /\ UNCHANGED <<home, stage, persisted, cur>>
    BY <1>1 DEF RollbackStart, RollbackDb
  <2> QED BY <2>1, StageMemory
<1>2. CASE RollbackRow \/ RollbackDone
  <2>1. /\ pc \in {"rollback_row", "rollback_done"} /\ pc' \in {"rollback_done", "idle"}
        /\ UNCHANGED <<stage, persisted, cur>>
    BY <1>2 DEF RollbackRow, FateRow, RollbackDone, EndTxn
  <2>2. home[cur].status = "NEW"
    BY <2>1 DEF TypeInv, StepShape, CurOpen
  <2>3. WriterStep
    BY <1>2, FlushLogs, LogIsInShape, FateRowAppends DEF RollbackRow, RollbackDone, EndTxn
  <2> QED BY <2>1, <2>2, <2>3, StageWriterStep
<1> QED BY <1>1, <1>2 DEF Rollback

--------------------------------------------------------------------------------
(* roll, close, finalize                                                       *)

\* A roll finalizes the open segment alone: there is nothing in the slot above.
LEMMA RollTakesNext ==
  ASSUME TypeInv, RollClaim
  PROVE  home' = home /\ slot' = cur + 1 /\ todo' = {cur}
<1>1. cur \in Nat /\ cur < MaxSegment /\ home[cur].status = "NEW"
  BY BoundsAssumption DEF RollClaim, TypeInv, TypeOK, StepShape, CanRoll, CurOpen, Seg
<1> DEFINE s == cur + 1
<1>2. s \in Seg /\ cur \in Seg /\ home \in [Seg -> Segment]
  BY <1>1, BoundsAssumption DEF TypeInv, TypeOK, Seg
<1>3. \A n \in Seg : n >= s => home[n].status = "absent"
  BY <1>1, <1>2, BoundsAssumption DEF TypeInv, HomeShape, Seg
<1>4. \A n \in Seg : home[n].status = "absent" => home[n].rows = {}
  BY DEF TypeInv, HomeShape
<1>5. home' = Claimed(home, s) /\ slot' = FreeSlot(home, s) /\ todo' = cur .. (slot' - 1)
  BY DEF RollClaim
<1>6. cur .. (s - 1) = {cur}
  BY <1>1
<1> HIDE DEF s
<1>7. FreeSlot(home, s) = s /\ Claimed(home, s) = home
  BY <1>2, <1>3, <1>4, ClaimOfFreeSlot
<1> QED BY <1>5, <1>6, <1>7 DEF s

LEMMA StageRoll ==
  ASSUME ~ PersistMayFail, TypeInv, StageInv, Roll
  PROVE  StageInv'
<1> USE DEF disk, Numbered, Writing
<1>1. CASE RollRequested \/ RollRefused
  <2>1. /\ pc \in {"idle", "roll_drain", "roll_check"} /\ pc' \in {"idle", "roll_drain"}
        /\ UNCHANGED <<home, stage, persisted, cur>>
    BY <1>1 DEF RollRequested, RollRefused
  <2> QED BY <2>1, StageMemory
<1>2. CASE RollClaim
  <2>1. /\ pc \in {"roll_drain", "roll_check"} /\ pc' = "finalize"
        /\ UNCHANGED <<stage, persisted, cur>>
    BY <1>2 DEF RollClaim
  <2>2. home' = home /\ todo' = {cur}
    BY <1>2, RollTakesNext
  <2>3. StageShape'
    BY <2>1, <2>2, StageKept DEF StageInv
  <2> QED BY <2>1, <2>2, <2>3 DEF StageInv, NumberShape, TodoShape
<1>3. CASE RollPersist
  <2>1. /\ pc = "roll_persist" /\ pc' = "deliver" /\ persisted' = cur
        /\ UNCHANGED <<home, stage, cur, todo>>
    BY <1>3 DEF RollPersist, PersistSequence
  <2>2. home[cur].status = "NEW"
    BY <2>1 DEF TypeInv, StepShape, CurOpen
  <2>3. StageShape'
    BY <2>1, <2>2, NumberAdvances DEF StageInv, NumberShape
  <2> QED BY <2>1, <2>3 DEF StageInv, NumberShape, TodoShape
<1> QED BY <1>1, <1>2, <1>3 DEF Roll

LEMMA StageClose ==
  ASSUME TypeInv, StageInv, Close
  PROVE  StageInv'
<1> USE DEF disk, Numbered, Writing
<1>1. CASE CloseStart
  <2>1. pc = "idle" /\ pc' = "close_drain" /\ UNCHANGED <<home, stage, persisted, cur>>
    BY <1>1 DEF CloseStart
  <2> QED BY <2>1, StageMemory
<1>2. CASE CloseShips
  <2>1. /\ pc = "close_drain" /\ pc' = "finalize" /\ todo' = {cur}
        /\ UNCHANGED <<home, stage, persisted, cur>>
    BY <1>2 DEF CloseShips
  <2>2. StageShape'
    BY <2>1, StageKept DEF StageInv
  <2> QED BY <2>1, <2>2 DEF StageInv, NumberShape, TodoShape
<1>3. CASE CloseKeeps
  BY <1>3, StageReset DEF CloseKeeps, Down
<1> QED BY <1>1, <1>2, <1>3 DEF Close

LEMMA StageFinalize ==
  ASSUME TypeInv, StageInv, Finalize
  PROVE  StageInv'
<1> USE DEF Numbered, Writing
<1>1. pc \in {"finalize", "mark_ready"} /\ home[cur].status = "NEW" /\ cur \in Seg
  BY DEF Finalize, FinalizeRows, MarkReady, TypeInv, TypeOK, StepShape, CurOpen
<1>2. CASE FinalizeRows
  <2>1. /\ pc = "finalize" /\ pc' = "mark_ready"
        /\ UNCHANGED <<stage, persisted, cur, todo>>
    BY <1>2 DEF FinalizeRows
  <2>2. WriterStep
    BY <1>2, FlushLogs, LogIsInShape DEF FinalizeRows
  <2> QED BY <1>1, <2>1, <2>2, StageWriterStep
<1>3. CASE MarkReady
  <2>1. /\ pc = "mark_ready" /\ pc' = IF closing THEN "deliver" ELSE "roll_create"
        /\ home' = [home EXCEPT ![cur].status = "READY"]
        /\ UNCHANGED <<stage, persisted, cur, slot, todo>>
    BY <1>3 DEF MarkReady
  <2>2. cur >= persisted /\ stage[cur].status = "absent"
    BY <1>1, OpenIsNotStaged DEF StageInv
  <2>3. /\ \A n \in Seg : n = cur \/ home'[n] = home[n]
        /\ home'[cur].status = "READY"
    BY <1>1, <2>1 DEF TypeInv, TypeOK, Segment
  <2>4. StageShape'
    BY <2>1, <2>2, <2>3, StageKept DEF StageInv
  <2>5. todo = {cur} /\ persisted = cur /\ cur \in Int
    BY <1>1, <2>1, BoundsAssumption DEF StageInv, TodoShape, NumberShape, Seg
  <2>6. TodoShape'
    BY <2>1, <2>3, <2>5 DEF TodoShape
  <2>7. ~ closing => slot > cur /\ slot \in Int
    BY <2>1, BoundsAssumption DEF TypeInv, TypeOK, StepShape, Seg
  <2>8. NumberShape'
    BY <2>1, <2>5, <2>7 DEF NumberShape
  <2> QED BY <2>4, <2>6, <2>8 DEF StageInv
<1> QED BY <1>2, <1>3 DEF Finalize

--------------------------------------------------------------------------------
(* The mover                                                                   *)

\* Segments are handed over one at a time.
LEMMA NextIsOne ==
  ASSUME TypeInv, NEW m \in todo, NEW n \in todo, NextToDeliver(m), NextToDeliver(n)
  PROVE  m = n
<1>1. m \in Int /\ n \in Int
  BY BoundsAssumption DEF TypeInv, TypeOK, Seg
<1> QED BY <1>1 DEF NextToDeliver

LEMMA StageMover ==
  ASSUME TypeInv, StageInv, Mover
  PROVE  StageInv'
<1> USE DEF disk, Numbered, Writing
<1>1. todo \subseteq Seg /\ home \in [Seg -> Segment] /\ stage \in [Seg -> Segment]
  BY DEF TypeInv, TypeOK
<1>2. CASE MoverCopies
  <2>1. PICK n \in todo : NextToDeliver(n) /\ stage' = [stage EXCEPT ![n] = home[n]]
    BY <1>2 DEF MoverCopies
  <2>2. pc = "deliver" /\ pc' = "remove" /\ UNCHANGED <<home, persisted, cur, todo>>
    BY <1>2 DEF MoverCopies
  <2>3. persisted = cur /\ n <= cur /\ home[n].status = "READY"
    BY <2>1, <2>2 DEF StageInv, NumberShape, TodoShape
  <2>4. stage'[n] = home[n] /\ \A m \in Seg : m # n => stage'[m] = stage[m]
    BY <1>1, <2>1
  <2>5. StageShape'
    BY <2>2, <2>3, <2>4 DEF StageInv, StageShape, Seg
  <2>6. \A m \in todo : NextToDeliver(m) => stage'[m] = home[m]
    BY <2>1, <2>4, NextIsOne
  <2>7. TodoShape'
    BY <2>2, <2>6 DEF StageInv, TodoShape, NextToDeliver
  <2> QED BY <2>2, <2>5, <2>7 DEF StageInv, NumberShape
<1>3. CASE MoverCopyFails
  <2>1. /\ pc = "deliver" /\ pc' = "deliver" /\ todo' \subseteq todo
        /\ UNCHANGED <<home, stage, persisted, cur>>
    BY <1>3 DEF MoverCopyFails
  <2>2. StageShape'
    BY <2>1, StageKept DEF StageInv
  <2> QED BY <2>1, <2>2 DEF StageInv, NumberShape, TodoShape
<1>4. CASE MoverRemoves
  <2>1. PICK n \in todo :
          todo' = todo \ {n} /\ home' \in {[home EXCEPT ![n] = NoFile], home}
    BY <1>4 DEF MoverRemoves
  <2>2. pc = "remove" /\ pc' = "deliver" /\ UNCHANGED <<stage, persisted, cur>>
    BY <1>4 DEF MoverRemoves
  <2>3. /\ \A m \in Seg : home'[m] \in {home[m], NoFile}
        /\ \A m \in todo' : home'[m] = home[m]
    BY <1>1, <2>1
  <2>4. StageShape'
    BY <2>2, <2>3, StageKept DEF StageInv
  <2> QED BY <2>1, <2>2, <2>3, <2>4 DEF StageInv, NumberShape, TodoShape
<1>5. CASE Delivered
  <2>1. CASE closing
    BY <1>5, <2>1, StageReset DEF Delivered, Down
  <2>2. CASE ~ closing
    <3>1. pc = "deliver" /\ pc' = "idle" /\ UNCHANGED <<home, stage, persisted, cur>>
      BY <1>5, <2>2 DEF Delivered
    <3> QED BY <3>1, StageMemory
  <2> QED BY <2>1, <2>2
<1> QED BY <1>2, <1>3, <1>4, <1>5 DEF Mover

LEMMA StageInit ==
  ASSUME Init
  PROVE  StageInv
<1>1. \A n \in Seg : home[n] = NoFile /\ stage[n] = NoFile
  BY DEF Init
<1>2. StageShape
  BY <1>1 DEF StageShape, NoFile
<1> QED BY <1>2 DEF Init, StageInv, NumberShape, TodoShape, Numbered, Writing

LEMMA StageStep ==
  ASSUME ~ PersistMayFail, TypeInv, TypeInv', StageInv, [Next]_vars
  PROVE  StageInv'
<1>1. CASE Crash
  BY <1>1, StageReset DEF Crash, Down
<1>2. CASE UNCHANGED vars
  BY <1>2 DEF vars, disk, memory, StageInv, StageShape, NumberShape, TodoShape, NextToDeliver, Seg
<1>3. CASE Next
  BY <1>1, <1>3, StageOpen, StageCreate, StageTxn, StageCommit, StageRollback, StageRoll,
     StageClose, StageFinalize, StageMover DEF Next
<1> QED BY <1>2, <1>3

--------------------------------------------------------------------------------
(* What is durable                                                             *)

\* A step that takes no row from any file loses nothing.
LEMMA NothingLost ==
  ASSUME \A n \in Seg : home[n].rows \union stage[n].rows \subseteq home'[n].rows \union stage'[n].rows
  PROVE  DurableRows \subseteq DurableRows'
BY DEF DurableRows, Seg

\* The writer keeps what it has, and what it is given.
LEMMA WriterCovers ==
  ASSUME TypeInv, WriterStep, UNCHANGED stage, NEW new, Logged(new)
  PROVE  /\ DurableRows \subseteq DurableRows'
         /\ DurableRows \union buf \union new \subseteq DurableRows' \union buf'
<1>1. cur \in Seg
  BY DEF TypeInv, TypeOK
<1>2. \A n \in Seg : home[n].rows \subseteq home'[n].rows
  BY <1>1 DEF WriterStep
<1>3. DurableRows \subseteq DurableRows'
  BY <1>2, NothingLost
<1>4. home'[cur].rows \subseteq DurableRows'
  BY <1>1 DEF DurableRows, Seg
<1> QED BY <1>3, <1>4 DEF Logged

\* A step that leaves the database alone and takes no statement from the log.
LEMMA CoverKept ==
  ASSUME CoverInv, UNCHANGED db, DurableRows \subseteq DurableRows',
         \/ userTxn'.effects = {}
         \/ /\ userTxn' = userTxn
            /\ queue \union buf \union DurableRows \subseteq queue' \union buf' \union DurableRows',
         pc' # "commit_db"
  PROVE  CoverInv'
<1>1. LogCoversDb'
  BY DEF CoverInv, LogCoversDb
<1>2. TxnIsQueued'
  BY DEF CoverInv, TxnIsQueued
<1> QED BY <1>1, <1>2 DEF CoverInv

\* A step of memory only.
LEMMA CoverMemory ==
  ASSUME CoverInv, UNCHANGED <<home, stage, db, queue, buf, userTxn>>, pc' # "commit_db"
  PROVE  CoverInv'
<1>1. DurableRows' = DurableRows
  BY DEF DurableRows, Seg
<1> QED BY <1>1, CoverKept

LEMMA CoverReset ==
  ASSUME CoverInv, InMemoryReset, pc' \in Down, UNCHANGED disk
  PROVE  CoverInv'
<1>1. UNCHANGED <<home, stage, db>> /\ userTxn'.effects = {}
  BY DEF InMemoryReset, disk, NoUserTxn
<1>2. DurableRows' = DurableRows
  BY <1>1 DEF DurableRows, Seg
<1> QED BY <1>1, <1>2, CoverKept DEF Down

\* A step of the writer and of no other variable of the transaction.
LEMMA CoverWriter ==
  ASSUME TypeInv, CoverInv, WriterStep, NEW new, Logged(new),
         UNCHANGED <<stage, db, userTxn>>, queue \subseteq queue' \union new, pc' # "commit_db"
  PROVE  CoverInv'
<1>1. /\ DurableRows \subseteq DurableRows'
      /\ DurableRows \union buf \union new \subseteq DurableRows' \union buf'
  BY WriterCovers
<1> QED BY <1>1, CoverKept

LEMMA CoverOpen ==
  ASSUME TypeInv, CoverInv, Open
  PROVE  CoverInv'
<1> USE DEF disk, Down
<1>1. CASE OpenDevice /\ ScanFails
  <2>1. pc' = "refused" /\ UNCHANGED <<home, stage, db, queue, buf, userTxn>>
    BY <1>1 DEF OpenDevice
  <2> QED BY <2>1, CoverMemory
<1>2. CASE OpenDevice /\ ~ ScanFails
  <2>1. /\ home' = Resolved /\ UNCHANGED <<stage, db, queue, buf, userTxn>>
        /\ pc' \in {"open_recover", "open_create"}
    BY <1>2, OpenTakes DEF OpenDevice
  <2>2. \A n \in Seg : home'[n].rows = home[n].rows
    BY <2>1, ResolvedShape, LogIsInShape
  <2>3. DurableRows \subseteq DurableRows'
    BY <2>1, <2>2, NothingLost
  <2> QED BY <2>1, <2>3, CoverKept
<1>3. CASE RecoverInDoubtTxn
  <2> DEFINE slave == LastCommitId(home[cur].rows)
             outcome == RecoveryOutcome(db.commitId, slave, FateOf(home[cur].rows, slave))
  <2>1. UNCHANGED <<stage, persisted, db>>
    BY <1>3 DEF RecoverInDoubtTxn
  <2>2. CASE outcome = "refuse"
    BY <1>3, <2>2, CoverReset DEF RecoverInDoubtTxn
  <2>3. CASE outcome = "none"
    <3>1. pc' = "open_flush" /\ UNCHANGED <<home, queue, buf, userTxn>>
      BY <1>3, <2>3 DEF RecoverInDoubtTxn
    <3> QED BY <2>1, <3>1, CoverMemory
  <2>4. CASE outcome \notin {"refuse", "none"}
    <3>1. /\ WriterStep /\ pc' = "open_flush" /\ UNCHANGED <<queue, userTxn>>
          /\ \E r \in Row : Logged({r})
      BY <1>3, <2>4, RecoverAppends
    <3> QED BY <2>1, <3>1, CoverWriter
  <2> QED BY <2>2, <2>3, <2>4
<1>4. CASE OpenFlush
  <2>1. pc' = "open_persist" /\ UNCHANGED <<stage, db, queue, userTxn>>
    BY <1>4 DEF OpenFlush
  <2>2. WriterStep /\ Logged({})
    BY <1>4, FlushLogs, LogIsInShape DEF OpenFlush
  <2> QED BY <2>1, <2>2, CoverWriter
<1>5. CASE OpenPersist
  <2>1. pc' = "deliver" /\ UNCHANGED <<home, stage, db, queue, buf, userTxn>>
    BY <1>5 DEF OpenPersist
  <2> QED BY <2>1, CoverMemory
<1> QED BY <1>1, <1>2, <1>3, <1>4, <1>5 DEF Open

LEMMA CoverCreate ==
  ASSUME TypeInv, CoverInv, Create
  PROVE  CoverInv'
<1>1. slot \in Seg /\ home \in [Seg -> Segment]
  BY DEF TypeInv, TypeOK
<1>2. /\ pc' \in {"open_schema", "roll_schema", "open_recover", "roll_persist"}
      /\ UNCHANGED <<stage, db, queue, buf, userTxn>>
      /\ \A n \in Seg : home'[n].rows = home[n].rows
  BY <1>1 DEF Create, CreateFile, CreateSchema, Segment
<1>3. DurableRows \subseteq DurableRows'
  BY <1>2, NothingLost
<1> QED BY <1>2, <1>3, CoverKept

LEMMA CoverTxn ==
  ASSUME TypeInv, CoverInv, Txn
  PROVE  CoverInv'
<1> USE DEF disk
<1>1. CASE Execute
  <2>1. /\ pc' = "idle" /\ UNCHANGED <<home, stage, db, buf>>
        /\ userTxn'.effects = userTxn.effects \union {OpRow}
        /\ queue \union {OpRow} \subseteq queue'
    BY <1>1 DEF Execute
  <2>2. DurableRows' = DurableRows
    BY <2>1 DEF DurableRows, Seg
  <2> QED BY <2>1, <2>2 DEF CoverInv, LogCoversDb, TxnIsQueued
<1>2. CASE ExecuteUnlogged
  <2>1. /\ pc' = "idle" /\ UNCHANGED <<home, stage, db, buf>>
        /\ userTxn'.effects = userTxn.effects /\ queue \subseteq queue'
    BY <1>2 DEF ExecuteUnlogged, TypeInv, TypeOK
  <2>2. DurableRows' = DurableRows
    BY <2>1 DEF DurableRows, Seg
  <2> QED BY <2>1, <2>2 DEF CoverInv, LogCoversDb, TxnIsQueued
<1>3. CASE Drain
  <2>1. PICK r \in queue : AppendRow(r) /\ queue' = queue \ {r}
    BY <1>3 DEF Drain
  <2>2. pc' # "commit_db" /\ UNCHANGED <<stage, db, userTxn>>
    BY <1>3 DEF Drain
  <2>3. r \in Row
    BY DEF TypeInv, TypeOK
  <2>4. WriterStep /\ Logged({r})
    BY <2>1, <2>3, AppendLogs, LogIsInShape
  <2> QED BY <2>1, <2>2, <2>4, CoverWriter
<1>4. CASE FlushLog \/ FlushLogDone
  <2>1. pc' \in {"idle", "flush_drain"} /\ UNCHANGED <<home, stage, db, queue, buf, userTxn>>
    BY <1>4 DEF FlushLog, FlushLogDone
  <2> QED BY <2>1, CoverMemory
<1> QED BY <1>1, <1>2, <1>3, <1>4 DEF Txn

\* The rows are durable before the database commits.
LEMMA CoverCommit ==
  ASSUME TypeInv, CoverInv, Commit
  PROVE  CoverInv'
<1> USE DEF disk
<1>1. CASE CommitStart \/ CommitDbFails
  <2>1. /\ pc' \in {"commit_drain", "idle"}
        /\ UNCHANGED <<home, stage, db, queue, buf, userTxn>>
    BY <1>1 DEF CommitStart, CommitDbFails
  <2> QED BY <2>1, CoverMemory
<1>2. CASE CommitFlush
  <2>1. queue = {} /\ UNCHANGED <<stage, db, queue, userTxn>>
    BY <1>2 DEF CommitFlush
  <2>2. WriterStep /\ Logged({}) /\ buf' = {}
    BY <1>2, FlushLogs, LogIsInShape DEF CommitFlush
  <2>3. /\ DurableRows \subseteq DurableRows'
        /\ DurableRows \union buf \subseteq DurableRows' \union buf'
    BY <2>1, <2>2, WriterCovers
  <2> QED BY <2>1, <2>2, <2>3 DEF CoverInv, LogCoversDb, TxnIsQueued
<1>3. CASE CommitDb
  <2>1. /\ pc = "commit_db" /\ pc' = "commit_row" /\ UNCHANGED <<home, stage, queue, buf>>
        /\ db'.effects = db.effects \union userTxn.effects /\ userTxn'.effects = {}
    BY <1>3 DEF CommitDb, NoUserTxn
  <2>2. DurableRows' = DurableRows
    BY <2>1 DEF DurableRows, Seg
  <2>3. userTxn.effects \subseteq DurableRows
    BY <2>1 DEF CoverInv, TxnIsQueued
  <2> QED BY <2>1, <2>2, <2>3 DEF CoverInv, LogCoversDb, TxnIsQueued
<1>4. CASE CommitRow
  <2>1. /\ pc' = "commit_done" /\ UNCHANGED <<stage, db, queue, userTxn>>
    BY <1>4 DEF CommitRow, FateRow
  <2>2. WriterStep /\ \E r \in Row : Logged({r})
    BY <1>4, FateRowAppends DEF CommitRow
  <2> QED BY <2>1, <2>2, CoverWriter
<1>5. CASE CommitDone
  <2>1. pc' \in {"idle", "roll_check"} /\ UNCHANGED <<stage, db, queue, userTxn>>
    BY <1>5 DEF CommitDone, EndTxn
  <2>2. WriterStep /\ Logged({})
    BY <1>5, FlushLogs, LogIsInShape DEF CommitDone, EndTxn
  <2> QED BY <2>1, <2>2, CoverWriter
<1> QED BY <1>1, <1>2, <1>3, <1>4, <1>5 DEF Commit

LEMMA CoverRollback ==
  ASSUME TypeInv, CoverInv, Rollback
  PROVE  CoverInv'
<1> USE DEF disk
<1>1. CASE RollbackStart
  <2>1. pc' = "rollback_drain" /\ UNCHANGED <<home, stage, db, queue, buf, userTxn>>
    BY <1>1 DEF RollbackStart
  <2> QED BY <2>1, CoverMemory
<1>2. CASE RollbackDb
  <2>1. /\ pc' = "rollback_row" /\ UNCHANGED <<home, stage, db>>
        /\ userTxn'.effects = {}
    BY <1>2 DEF RollbackDb, NoUserTxn
  <2>2. DurableRows' = DurableRows
    BY <2>1 DEF DurableRows, Seg
  <2> QED BY <2>1, <2>2, CoverKept
<1>3. CASE RollbackRow
  <2>1. pc' = "rollback_done" /\ UNCHANGED <<stage, db, queue, userTxn>>
    BY <1>3 DEF RollbackRow, FateRow
  <2>2. WriterStep /\ \E r \in Row : Logged({r})
    BY <1>3, FateRowAppends DEF RollbackRow
  <2> QED BY <2>1, <2>2, CoverWriter
<1>4. CASE RollbackDone
  <2>1. pc' = "idle" /\ UNCHANGED <<stage, db, queue, userTxn>>
    BY <1>4 DEF RollbackDone, EndTxn
  <2>2. WriterStep /\ Logged({})
    BY <1>4, FlushLogs, LogIsInShape DEF RollbackDone, EndTxn
  <2> QED BY <2>1, <2>2, CoverWriter
<1> QED BY <1>1, <1>2, <1>3, <1>4 DEF Rollback

LEMMA CoverRoll ==
  ASSUME TypeInv, CoverInv, Roll
  PROVE  CoverInv'
<1> USE DEF disk
<1>1. /\ pc' \in {"roll_drain", "idle", "finalize", "deliver"}
      /\ UNCHANGED <<stage, db, queue, buf, userTxn>>
  BY DEF Roll, RollRequested, RollRefused, RollClaim, RollPersist
<1>2. UNCHANGED home
  BY RollTakesNext DEF Roll, RollRequested, RollRefused, RollPersist
<1> QED BY <1>1, <1>2, CoverMemory

LEMMA CoverClose ==
  ASSUME TypeInv, CoverInv, Close
  PROVE  CoverInv'
<1> USE DEF disk
<1>1. CASE CloseStart
  <2>1. /\ pc' = "close_drain" /\ queue \subseteq queue'
        /\ UNCHANGED <<home, stage, db, buf, userTxn>>
    BY <1>1 DEF CloseStart
  <2>2. DurableRows' = DurableRows
    BY <2>1 DEF DurableRows, Seg
  <2> QED BY <2>1, <2>2, CoverKept
<1>2. CASE CloseShips
  <2>1. pc' = "finalize" /\ UNCHANGED <<home, stage, db, queue, buf, userTxn>>
    BY <1>2 DEF CloseShips
  <2> QED BY <2>1, CoverMemory
<1>3. CASE CloseKeeps
  BY <1>3, CoverReset DEF CloseKeeps, Down
<1> QED BY <1>1, <1>2, <1>3 DEF Close

LEMMA CoverFinalize ==
  ASSUME TypeInv, CoverInv, Finalize
  PROVE  CoverInv'
<1>1. CASE FinalizeRows
  <2>1. pc' = "mark_ready" /\ UNCHANGED <<stage, db, queue, userTxn>>
    BY <1>1 DEF FinalizeRows
  <2>2. WriterStep /\ Logged({})
    BY <1>1, FlushLogs, LogIsInShape DEF FinalizeRows
  <2> QED BY <2>1, <2>2, CoverWriter
<1>2. CASE MarkReady
  <2>1. /\ pc' \in {"deliver", "roll_create"} /\ UNCHANGED <<stage, db, queue, buf, userTxn>>
        /\ home' = [home EXCEPT ![cur].status = "READY"]
    BY <1>2 DEF MarkReady
  <2>2. \A n \in Seg : home'[n].rows = home[n].rows
    BY <2>1 DEF TypeInv, TypeOK, Segment
  <2>3. DurableRows \subseteq DurableRows'
    BY <2>1, <2>2, NothingLost
  <2> QED BY <2>1, <2>3, CoverKept
<1> QED BY <1>1, <1>2 DEF Finalize

\* The mover overwrites nothing but an equal file, and removes only what it copied.
LEMMA MoverLosesNothing ==
  ASSUME TypeInv, StageInv, Mover
  PROVE  DurableRows \subseteq DurableRows'
<1>1. todo \subseteq Seg /\ home \in [Seg -> Segment] /\ stage \in [Seg -> Segment]
  BY DEF TypeInv, TypeOK
<1>2. CASE MoverCopies
  <2>1. PICK n \in todo : stage' = [stage EXCEPT ![n] = home[n]]
    BY <1>2 DEF MoverCopies
  <2>2. pc = "deliver" /\ UNCHANGED home
    BY <1>2 DEF MoverCopies
  <2>3. home[n].status = "READY" /\ n \in Seg
    BY <1>1, <2>1, <2>2 DEF StageInv, TodoShape
  <2>4. stage[n].rows \subseteq home[n].rows
    BY <2>3 DEF StageInv, StageShape, NoFile
  <2>5. \A m \in Seg : home[m].rows \union stage[m].rows \subseteq home'[m].rows \union stage'[m].rows
    BY <1>1, <2>1, <2>2, <2>4
  <2> QED BY <2>5, NothingLost
<1>3. CASE MoverRemoves
  <2>1. PICK n \in todo : NextToDeliver(n) /\ home' \in {[home EXCEPT ![n] = NoFile], home}
    BY <1>3 DEF MoverRemoves
  <2>2. pc = "remove" /\ UNCHANGED stage
    BY <1>3 DEF MoverRemoves
  <2>3. stage[n] = home[n]
    BY <2>1, <2>2 DEF StageInv, TodoShape
  <2>4. \A m \in Seg : home[m].rows \union stage[m].rows \subseteq home'[m].rows \union stage'[m].rows
    BY <1>1, <2>1, <2>2, <2>3
  <2> QED BY <2>4, NothingLost
<1>4. CASE MoverCopyFails \/ Delivered
  <2>1. UNCHANGED <<home, stage>>
    BY <1>4 DEF MoverCopyFails, Delivered, disk
  <2> QED BY <2>1 DEF DurableRows, Seg
<1> QED BY <1>2, <1>3, <1>4 DEF Mover

LEMMA CoverMover ==
  ASSUME TypeInv, StageInv, CoverInv, Mover
  PROVE  CoverInv'
<1>1. /\ pc' \in {"deliver", "remove", "idle", "down"} /\ UNCHANGED db
      /\ userTxn'.effects = {} \/ UNCHANGED <<queue, buf, userTxn>>
  BY DEF Mover, MoverCopies, MoverCopyFails, MoverRemoves, Delivered, InMemoryReset, NoUserTxn, disk
<1>2. DurableRows \subseteq DurableRows'
  BY MoverLosesNothing
<1> QED BY <1>1, <1>2, CoverKept

LEMMA CoverInit ==
  ASSUME Init
  PROVE  CoverInv
BY DEF Init, CoverInv, LogCoversDb, TxnIsQueued, NoUserTxn

LEMMA CoverStep ==
  ASSUME TypeInv, StageInv, CoverInv, [Next]_vars
  PROVE  CoverInv'
<1>1. CASE Crash
  BY <1>1, CoverReset DEF Crash, Down
<1>2. CASE UNCHANGED vars
  BY <1>2 DEF vars, disk, memory, CoverInv, LogCoversDb, TxnIsQueued, DurableRows, Seg
<1>3. CASE Next
  BY <1>1, <1>3, CoverOpen, CoverCreate, CoverTxn, CoverCommit, CoverRollback, CoverRoll,
     CoverClose, CoverFinalize, CoverMover DEF Next
<1> QED BY <1>2, <1>3

\* Where the sequence number is always persisted, every statement that took effect
\* in the user database has its row in a segment, at home or in stage: across
\* crashes, failed commits, and a mover that fails, whatever the clock says.
THEOREM LogCovers == ~ PersistMayFail => (Spec => []LogCoversDb)
<1>1. SUFFICES ASSUME ~ PersistMayFail PROVE Spec => []LogCoversDb
  OBVIOUS
<1>2. Init => StageInv /\ CoverInv
  BY StageInit, CoverInit
<1>3. TypeInv /\ TypeInv' /\ StageInv /\ CoverInv /\ [Next]_vars => StageInv' /\ CoverInv'
  BY <1>1, StageStep, CoverStep
<1>4. CoverInv => LogCoversDb
  BY DEF CoverInv
<1> QED BY <1>2, <1>3, <1>4, TypeAndShape, PTL DEF Spec

\* What the consolidator reads from stage does not change any more.
StagedIsFrozen == \A n \in Seg : stage[n].status # "absent" => stage'[n] = stage[n]

\* The mover is the only one that writes to stage.
LEMMA OnlyMoverStages ==
  ASSUME Next, ~ MoverCopies
  PROVE  UNCHANGED stage
<1> USE DEF disk
<1>1. CASE Crash \/ Open
  BY <1>1 DEF Crash, Open, OpenDevice, OpenResolved, RecoverInDoubtTxn, OpenFlush, OpenPersist
<1>2. CASE Create \/ Txn
  BY <1>2 DEF Create, CreateFile, CreateSchema, Txn, Execute, ExecuteUnlogged, Drain, FlushLog,
              FlushLogDone
<1>3. CASE Commit \/ Rollback
  BY <1>3 DEF Commit, CommitStart, CommitFlush, CommitDb, CommitDbFails, CommitRow, CommitDone,
              Rollback, RollbackStart, RollbackDb, RollbackRow, RollbackDone, FateRow, EndTxn
<1>4. CASE Roll \/ Close
  BY <1>4 DEF Roll, RollRequested, RollRefused, RollClaim, RollPersist, Close, CloseStart,
              CloseShips, CloseKeeps
<1>5. CASE Finalize \/ Mover
  BY <1>5 DEF Finalize, FinalizeRows, MarkReady, Mover, MoverCopyFails, MoverRemoves, Delivered
<1> QED BY <1>1, <1>2, <1>3, <1>4, <1>5 DEF Next

LEMMA FrozenStep ==
  ASSUME TypeInv, StageInv, [Next]_vars
  PROVE  StagedIsFrozen
<1>1. CASE MoverCopies
  <2>1. PICK n \in todo : stage' = [stage EXCEPT ![n] = home[n]]
    BY <1>1 DEF MoverCopies
  <2>2. n \in Seg /\ stage \in [Seg -> Segment]
    BY DEF TypeInv, TypeOK
  <2>3. home[n].status = "READY"
    BY <1>1 DEF MoverCopies, StageInv, TodoShape
  <2>4. stage[n].status # "absent" => home[n] = stage[n]
    BY <2>2, <2>3 DEF StageInv, StageShape, NoFile
  <2> QED BY <2>1, <2>2, <2>4 DEF StagedIsFrozen
<1>2. CASE Next /\ ~ MoverCopies
  BY <1>2, OnlyMoverStages DEF StagedIsFrozen
<1>3. CASE UNCHANGED vars
  BY <1>3 DEF vars, disk, StagedIsFrozen
<1> QED BY <1>1, <1>2, <1>3

\* A segment that is in stage is never written again: the sequence number that
\* survives every restart keeps the device from using its number a second time, and
\* the mover that tries again copies what is already there.
THEOREM StageNeverRewritten ==
  ~ PersistMayFail => (Spec => [][StagedIsFrozen]_vars)
<1>1. SUFFICES ASSUME ~ PersistMayFail PROVE Spec => [][StagedIsFrozen]_vars
  OBVIOUS
<1>2. Init => StageInv
  BY StageInit
<1>3. TypeInv /\ TypeInv' /\ StageInv /\ [Next]_vars => StageInv'
  BY <1>1, StageStep
<1>4. TypeInv /\ StageInv /\ [Next]_vars => StagedIsFrozen
  BY FrozenStep
<1> QED BY <1>2, <1>3, <1>4, TypeAndShape, PTL DEF Spec

--------------------------------------------------------------------------------
(* The stream of the history                                                    *)

RowsOf(n) == home[n].rows \union stage[n].rows

Held(n) == stage[n].status # "absent" \/ home[n].status = "READY"

\* Below a number in use every segment is held, and the persisted number is that of
\* one that is held or is being written.
GapInv ==
  /\ \A n \in Seg : n <= persisted \/ home[n].status # "absent" =>
       \A m \in Seg : m < n => Held(m)
  /\ \A n \in Seg : n = persisted => Held(n) \/ home[n].status = "NEW"
  /\ pc \in {"open_create", "roll_create"} => \A m \in Seg : m < slot => Held(m)
  /\ pc \in {"finalize", "mark_ready"} /\ ~ closing => slot = cur + 1

\* The id the open transaction runs under is above all that earlier segments hold.
BelowNext ==
  pc \notin Down =>
    \A m \in Seg : m < cur => \A r \in RowsOf(m) : r.cid < nextCommit

\* What is pending belongs to the running call, or decides a transaction of the segment,
\* and nothing is pending while there is no open segment.
BufOrder ==
  /\ \A b \in buf : b.cid = nextCommit \/ b.cid \in CommitIds(home[cur].rows)
  /\ pc \in Down \union {"open_create", "open_schema", "open_recover", "mark_ready", "roll_create",
                        "roll_schema"}
       => buf = {}
  /\ pc \in {"deliver", "remove"} /\ closing => buf = {}

\* When the segment is switched the next id has no row yet.
RolledBelow ==
  pc \in {"finalize", "mark_ready", "roll_create", "roll_schema"} /\ ~ closing =>
    \A r \in DurableRows \union buf : r.cid < nextCommit

OrderInv == CommitIdsGrow /\ BelowNext /\ BufOrder /\ RolledBelow

\* The steps at which the last commit may still lack its COMMIT row.
Unsettled == Down \union {"open_recover", "open_flush", "commit_row", "commit_done"}

\* Recovery will find the last commit of the database as the last one of the log.
InDoubt ==
  \E n \in Seg :
    /\ home[n].status = "NEW"
    /\ db.commitId \in CommitIds(home[n].rows)
    /\ \A r \in home[n].rows : r.cid <= db.commitId

LoggedInv ==
  /\ \A c \in db.done : c # 0 /\ (c # db.commitId => Has(DurableRows, c, "COMMIT"))
  /\ db.commitId \in db.done =>
       \/ Has(DurableRows, db.commitId, "COMMIT")
       \/ pc \in Unsettled /\ InDoubt
  /\ db.commitId \in db.done /\ pc \in {"open_flush", "commit_done"} =>
       Has(DurableRows \union buf, db.commitId, "COMMIT")

DecidedInv ==
  /\ \A n \in Seg : \A seg \in {home[n], stage[n]} :
       seg.status = "READY" => LastFateDecided(seg.rows)
  /\ pc \in {"finalize", "mark_ready"} => LastFateDecided(LogRows)

NextBound == nextCommit <= MaxCommitId

--------------------------------------------------------------------------------
(* What a step does to the segments                                            *)

\* The steps that append to the open segment, or leave all segments alone.
AppendStep ==
  \/ Crash \/ RecoverInDoubtTxn \/ OpenFlush \/ Txn \/ Commit \/ Rollback \/ Close
  \/ RollRequested \/ RollRefused \/ FinalizeRows \/ MoverCopyFails \/ Delivered

\* Rows are added to the open segment only, from the queue, under the next commit id or
\* under one the segment has.
Appends ==
  /\ UNCHANGED <<stage, persisted>>
  /\ \A n \in Seg : home'[n].status = home[n].status
  /\ \A n \in Seg : n # cur => home'[n] = home[n]
  /\ home[cur].rows \subseteq home'[cur].rows
  /\ home'[cur] # home[cur] => home[cur].status = "NEW"
  /\ \A r \in home'[cur].rows \union buf' :
       \/ r \in home[cur].rows \union buf \union queue
       \/ r.cid \in {nextCommit} \union CommitIds(home[cur].rows)

\* A step that leaves the segments alone.
LEMMA QuietAppends ==
  ASSUME TypeInv, UNCHANGED <<home, stage, persisted>>, buf' \in {buf, {}}
  PROVE  Appends
BY DEF Appends

\* A step of the writer.
LEMMA WriterAppends ==
  ASSUME TypeInv, WriterStep, UNCHANGED <<stage, persisted>>, home[cur].status = "NEW",
         NEW new, Logged(new),
         \A r \in new : r \in queue \/ r.cid \in {nextCommit} \union CommitIds(home[cur].rows)
  PROVE  Appends
BY DEF Appends, WriterStep, Logged

\* What recovery appends decides the last transaction of the segment.
LEMMA RecoverRow ==
  ASSUME TypeInv, RecoverInDoubtTxn
  PROVE  \/ UNCHANGED home /\ buf' \in {buf, {}} /\ pc' = "refused" /\ InMemoryReset
         \/ /\ UNCHANGED <<home, buf, cur>> /\ pc' = "open_flush"
            /\ RecoveryOutcome(db.commitId, LastCommitId(home[cur].rows),
                               FateOf(home[cur].rows, LastCommitId(home[cur].rows))) = "none"
         \/ \E r \in Row :
              /\ AppendRow(r) /\ r.cid = LastCommitId(home[cur].rows)
              /\ r.kind = RecoveryOutcome(db.commitId, r.cid, FateOf(home[cur].rows, r.cid))
              /\ home[cur].rows # {} /\ pc' = "open_flush" /\ UNCHANGED cur
<1> DEFINE rows == home[cur].rows
           slave == LastCommitId(rows)
           outcome == RecoveryOutcome(db.commitId, slave, FateOf(rows, slave))
           r == MakeRow(nextNum, slave, outcome)
<1>1. rows \in SUBSET Row /\ IsFiniteSet(rows)
  BY DEF TypeInv, TypeOK, FiniteRows, Segment
<1>2. slave \in Nat
  BY <1>1, LastCommitIdType
<1>3. CASE outcome = "refuse"
  BY <1>3 DEF RecoverInDoubtTxn, InMemoryReset
<1>4. CASE outcome = "none"
  BY <1>4 DEF RecoverInDoubtTxn
<1>5. CASE outcome \notin {"refuse", "none"}
  <2>1. outcome \in {"ROLLBACK", "COMMIT"} /\ slave # 0
    BY <1>5 DEF RecoveryOutcome, FateOf
  <2>2. rows # {}
    BY <2>1 DEF LastCommitId
  <2>3. r \in Row /\ r.cid = slave /\ r.kind = outcome
    BY <1>2, <2>1 DEF MakeRow, Row, RowKind, TypeInv, TypeOK
  <2>4. AppendRow(r) /\ pc' = "open_flush" /\ UNCHANGED cur
    BY <1>5 DEF RecoverInDoubtTxn
  <2> HIDE DEF r, outcome, slave
  <2> QED BY <2>2, <2>3, <2>4 DEF slave, outcome
<1> QED BY <1>3, <1>4, <1>5

LEMMA AppendStepAppends ==
  ASSUME TypeInv, AppendStep
  PROVE  Appends
<1> USE DEF disk
<1>1. CASE Crash \/ MoverCopyFails \/ Delivered \/ RollRequested \/ RollRefused
  BY <1>1, QuietAppends DEF Crash, MoverCopyFails, Delivered, RollRequested, RollRefused,
                            InMemoryReset
<1>2. CASE RecoverInDoubtTxn
  <2>1. UNCHANGED <<stage, persisted>> /\ home[cur].status = "NEW"
    BY <1>2 DEF RecoverInDoubtTxn, TypeInv, StepShape, CurOpen
  <2>2. CASE UNCHANGED home /\ buf' \in {buf, {}}
    BY <2>1, <2>2, QuietAppends
  <2>3. CASE \E r \in Row : /\ AppendRow(r) /\ r.cid = LastCommitId(home[cur].rows)
                            /\ home[cur].rows # {}
    <3>1. PICK r \in Row : /\ AppendRow(r) /\ r.cid = LastCommitId(home[cur].rows)
                           /\ home[cur].rows # {}
      BY <2>3
    <3>2. home[cur].rows \in SUBSET Row /\ IsFiniteSet(home[cur].rows)
      BY DEF TypeInv, TypeOK, FiniteRows, Segment
    <3>3. r.cid \in CommitIds(home[cur].rows)
      BY <3>1, <3>2, LastCommitIdIsMax DEF CommitIds
    <3>4. WriterStep /\ Logged({r})
      BY <3>1, AppendLogs, LogIsInShape
    <3> QED BY <2>1, <3>3, <3>4, WriterAppends
  <2> QED BY <1>2, <2>2, <2>3, RecoverRow
<1>3. CASE OpenFlush \/ CommitFlush \/ CommitDone \/ RollbackDone \/ FinalizeRows
  <2>1. /\ Flush /\ UNCHANGED <<stage, persisted>>
        /\ pc \in {"open_flush", "commit_drain", "commit_done", "rollback_done", "finalize"}
    BY <1>3 DEF OpenFlush, CommitFlush, CommitDone, RollbackDone, FinalizeRows, EndTxn
  <2>2. home[cur].status = "NEW"
    BY <2>1 DEF TypeInv, StepShape, CurOpen, Writing
  <2>3. WriterStep /\ Logged({})
    BY <2>1, FlushLogs, LogIsInShape
  <2> QED BY <2>1, <2>2, <2>3, WriterAppends
<1>4. CASE Drain
  <2>1. PICK r \in queue : AppendRow(r)
    BY <1>4 DEF Drain
  <2>2. r \in Row
    BY DEF TypeInv, TypeOK
  <2>3. UNCHANGED <<stage, persisted>> /\ home[cur].status = "NEW"
    BY <1>4 DEF Drain, TypeInv, StepShape, CurOpen, Writing
  <2>4. WriterStep /\ Logged({r})
    BY <2>1, <2>2, AppendLogs, LogIsInShape
  <2> QED BY <2>2, <2>3, <2>4, WriterAppends
<1>5. CASE CommitRow \/ RollbackRow
  <2>1. PICK kind \in {"COMMIT", "ROLLBACK"} : AppendRow(MakeRow(nextNum, nextCommit, kind))
    BY <1>5 DEF CommitRow, RollbackRow, FateRow
  <2> DEFINE r == MakeRow(nextNum, nextCommit, kind)
  <2>2. r \in Row /\ r.cid = nextCommit
    BY DEF MakeRow, Row, RowKind, TypeInv, TypeOK
  <2>3. UNCHANGED <<stage, persisted>> /\ home[cur].status = "NEW"
    BY <1>5 DEF CommitRow, RollbackRow, FateRow, TypeInv, StepShape, CurOpen, Writing
  <2> HIDE DEF r
  <2>4. WriterStep /\ Logged({r})
    BY <2>1, <2>2, AppendLogs, LogIsInShape DEF r
  <2> QED BY <2>2, <2>3, <2>4, WriterAppends
<1>6. CASE Execute \/ ExecuteUnlogged \/ FlushLog \/ FlushLogDone \/ CommitStart \/ CommitDb
             \/ CommitDbFails \/ RollbackStart \/ RollbackDb \/ Close
  BY <1>6, QuietAppends DEF Execute, ExecuteUnlogged, FlushLog, FlushLogDone, CommitStart,
       CommitDb, CommitDbFails, RollbackStart, RollbackDb, Close, CloseStart, CloseShips,
       CloseKeeps, InMemoryReset
<1> QED BY <1>1, <1>2, <1>3, <1>4, <1>5, <1>6 DEF AppendStep, Txn, Commit, Rollback

LEMMA NextSplits ==
  ASSUME Next
  PROVE  \/ AppendStep \/ OpenDevice \/ CreateFile \/ CreateSchema \/ OpenPersist
         \/ RollPersist \/ RollClaim \/ MarkReady \/ MoverCopies \/ MoverRemoves
BY DEF Next, AppendStep, Open, Create, Roll, Finalize, Mover

--------------------------------------------------------------------------------
(* No number is skipped                                                        *)

\* A step that makes no file, gives up none that was held, and opens no call.
LEMMA GapKept ==
  ASSUME GapInv, UNCHANGED persisted,
         \A n \in Seg : Held(n) => Held(n)',
         \A n \in Seg : home'[n].status # "absent" => home[n].status # "absent",
         \A n \in Seg : home[n].status = "NEW" => home'[n].status = "NEW" \/ Held(n)',
         pc' \notin {"open_create", "roll_create"},
         pc' \in {"finalize", "mark_ready"} /\ ~ closing' => slot' = cur' + 1
  PROVE  GapInv'
BY DEF GapInv, Seg

LEMMA GapAppend ==
  ASSUME TypeInv, GapInv, AppendStep
  PROVE  GapInv'
<1> USE DEF disk
<1>1. Appends
  BY AppendStepAppends
<1>2. /\ \A n \in Seg : Held(n) => Held(n)'
      /\ \A n \in Seg : home'[n].status = home[n].status
  BY <1>1 DEF Appends, Held
<1>3. pc' \notin {"open_create", "roll_create"}
  BY RecoverRow DEF AppendStep, Crash, OpenFlush, Txn, Execute, ExecuteUnlogged, Drain, FlushLog,
     FlushLogDone, Commit, CommitStart, CommitFlush, CommitDb, CommitDbFails, CommitRow, CommitDone,
     Rollback, RollbackStart, RollbackDb, RollbackRow, RollbackDone, FateRow, EndTxn, Close,
     CloseStart, CloseShips, CloseKeeps, RollRequested, RollRefused, FinalizeRows,
     MoverCopyFails, Delivered, Down
<1>4. pc' \in {"finalize", "mark_ready"} /\ ~ closing' => slot' = cur' + 1
  <2>1. SUFFICES ASSUME pc' \in {"finalize", "mark_ready"}, ~ closing'
                 PROVE  slot' = cur' + 1
    OBVIOUS
  <2>2. CloseShips \/ FinalizeRows
    BY <2>1, RecoverRow DEF AppendStep, Crash, OpenFlush, Txn, Execute, ExecuteUnlogged, Drain,
       FlushLog, FlushLogDone, Commit, CommitStart, CommitFlush, CommitDb, CommitDbFails, CommitRow,
       CommitDone, Rollback, RollbackStart, RollbackDb, RollbackRow, RollbackDone, FateRow, EndTxn,
       Close, CloseStart, CloseKeeps, RollRequested, RollRefused, MoverCopyFails, Delivered, Down
  <2>3. ~ CloseShips
    BY <2>1 DEF CloseShips, TypeInv, StepShape
  <2>4. pc = "finalize" /\ UNCHANGED <<slot, cur, closing>>
    BY <2>2, <2>3 DEF FinalizeRows
  <2> QED BY <2>1, <2>4 DEF GapInv
<1>5. UNCHANGED persisted
  BY <1>1 DEF Appends
<1> QED BY <1>2, <1>3, <1>4, <1>5, GapKept

\* A new segment takes the first number that was never used: whatever has a file or was
\* persisted is below, and none of it is being written.
LEMMA GapOpenDevice ==
  ASSUME TypeInv, GapInv, OpenDevice
  PROVE  GapInv'
<1>1. OpenResolved
  BY ScanSucceeds DEF OpenDevice
<1>2. home' = Resolved /\ UNCHANGED <<stage, persisted, closing>>
  BY <1>1, OpenTakes
<1>3. pc' \in {"open_recover", "open_create"}
  BY <1>1 DEF OpenResolved
<1>4. \A n \in Seg : home'[n] = home[n] \/ (home'[n] = NoFile /\ home[n].status = "half")
  <2>1. \A n \in Seg : Resolved[n] = home[n] \/ (Resolved[n] = NoFile /\ home[n].status = "half")
    BY DEF Resolved, Sweep, TypeInv, TypeOK
  <2> QED BY <1>2, <2>1
<1>5. /\ \A n \in Seg : Held(n) => Held(n)'
      /\ \A n \in Seg : home'[n].status # "absent" => home[n].status # "absent"
      /\ \A n \in Seg : home[n].status = "NEW" => home'[n].status = "NEW"
  BY <1>2, <1>4 DEF Held, NoFile
<1>6. CASE pc' = "open_recover"
  BY <1>2, <1>5, <1>6, GapKept
<1>7. CASE pc' = "open_create"
  <2> DEFINE s == NextSegment(Resolved)
             top == Highest(OnDisk(Resolved))
  <2>1. ~ (ActiveSegment >= 0) /\ s <= MaxSegment /\ slot' = FreeSlot(Resolved, s)
    BY <1>1, <1>7 DEF OpenResolved
  <2>2. persisted \in -1 .. MaxSegment
    BY DEF TypeInv, TypeOK
  <2>3. OnDisk(Resolved) \in SUBSET Seg /\ Writable(Resolved) \in SUBSET Seg
    BY DEF OnDisk, Writable
  <2>4. Writable(Resolved) = {}
    <3>1. SUFFICES ASSUME Writable(Resolved) # {} PROVE FALSE
      OBVIOUS
    <3>2. Highest(Writable(Resolved)) \in Seg
      BY <2>3, <3>1, HighestIsMax
    <3>3. CASE PersistedIsWritable
      <4>1. ActiveSegment = persisted /\ persisted \in Seg
        BY <3>3 DEF ActiveSegment, PersistedIsWritable, Writable
      <4> QED BY <2>1, <4>1, BoundsAssumption DEF Seg
    <3>4. CASE ~ PersistedIsWritable
      BY <2>1, <3>2, <3>4, BoundsAssumption DEF ActiveSegment, Seg
    <3> QED BY <3>3, <3>4
  <2>5. \A n \in Seg : Resolved[n].status \in {"absent", "READY"}
    BY <2>4, ResolvedShape, LogIsInShape DEF Writable, Segment, Status
  <2>6. s \in Seg /\ s = IF top + 1 > persisted + 1 THEN top + 1 ELSE persisted + 1
    <3>1. top \in Int /\ top >= -1
      <4>1. CASE OnDisk(Resolved) = {}
        BY <4>1 DEF Highest
      <4>2. CASE OnDisk(Resolved) # {}
        BY <2>3, <4>2, HighestIsMax, BoundsAssumption DEF Seg
      <4> QED BY <4>1, <4>2
    <3> QED BY <2>1, <2>2, <3>1, BoundsAssumption DEF NextSegment, Seg
  <2>7. slot' = s
    <3>1. \A n \in Seg : n >= s => Resolved[n].status = "absent"
      BY NextSegmentIsFree, LogIsInShape
    <3>2. \A n \in Seg : Resolved[n].status = "absent" => Resolved[n].rows = {}
      BY ResolvedShape, LogIsInShape DEF TypeInv, HomeShape, NoFile
    <3>3. Resolved \in [Seg -> Segment]
      BY ResolvedShape, LogIsInShape
    <3> HIDE DEF s
    <3> QED BY <2>1, <2>6, <3>1, <3>2, <3>3, ClaimOfFreeSlot
  <2>8. ASSUME NEW m \in Seg, m < s PROVE Held(m)'
    <3>1. m \in Int /\ top \in Int
      <4>1. top \in Int
        BY <2>3, HighestIsMax, BoundsAssumption DEF Highest, Seg
      <4> QED BY <4>1, BoundsAssumption DEF Seg
    <3>2. CASE m <= persisted
      <4>1. CASE m < persisted
        <5>1. persisted \in Seg
          BY <2>2, <3>1, <4>1, BoundsAssumption DEF Seg
        <5>2. Held(m)
          BY <4>1, <5>1, <2>2 DEF GapInv
        <5> QED BY <1>5, <5>2
      <4>2. CASE m = persisted
        <5>1. Held(m) \/ home[m].status = "NEW"
          BY <4>2 DEF GapInv
        <5>2. home[m].status # "NEW"
          BY <1>2, <1>5, <2>5
        <5> QED BY <1>5, <5>1, <5>2
      <4> QED BY <2>2, <3>1, <3>2, <4>1, <4>2
    <3>3. CASE m <= top
      <4>1. OnDisk(Resolved) # {}
        BY <3>1, <3>3, BoundsAssumption DEF Highest, Seg
      <4>2. top \in Seg /\ Resolved[top].status # "absent"
        BY <2>3, <4>1, HighestIsMax DEF OnDisk
      <4>3. Resolved[top].status = "READY"
        BY <2>5, <4>2
      <4>4. CASE m = top
        BY <1>2, <4>3, <4>4 DEF Held
      <4>5. CASE m < top
        <5>1. home[top].status # "absent"
          BY <1>2, <1>5, <4>2
        <5>2. Held(m)
          BY <4>2, <4>5, <5>1 DEF GapInv
        <5> QED BY <1>5, <5>2
      <4> QED BY <3>1, <3>3, <4>4, <4>5
    <3> HIDE DEF top, s
    <3> QED BY <2>2, <2>6, <2>8, <3>1, <3>2, <3>3
  <2> HIDE DEF s
  <2>9. /\ \A n \in Seg : n <= persisted' \/ home'[n].status # "absent" =>
             \A m \in Seg : m < n => Held(m)'
        /\ \A n \in Seg : n = persisted' => Held(n)' \/ home'[n].status = "NEW"
    BY <1>2, <1>5 DEF GapInv
  <2> QED BY <1>7, <2>7, <2>8, <2>9 DEF GapInv
<1> QED BY <1>3, <1>6, <1>7

LEMMA GapCreate ==
  ASSUME TypeInv, GapInv, CreateFile \/ CreateSchema
  PROVE  GapInv'
<1>1. slot \in Seg /\ home \in [Seg -> Segment]
  BY DEF TypeInv, TypeOK
<1>2. CASE CreateFile
  <2>1. /\ pc \in {"open_create", "roll_create"} /\ pc' \in {"open_schema", "roll_schema"}
        /\ home[slot].status = "absent" /\ home' = [home EXCEPT ![slot].status = "half"]
        /\ UNCHANGED <<stage, persisted>>
    BY <1>2 DEF CreateFile
  <2>2. \A n \in Seg : n # slot => home'[n] = home[n]
    BY <1>1, <2>1
  <2>3. \A n \in Seg : Held(n) => Held(n)'
    BY <1>1, <2>1, <2>2 DEF Held
  <2>4. \A n \in Seg : n <= persisted \/ home'[n].status # "absent" =>
          \A m \in Seg : m < n => Held(m)'
    BY <2>1, <2>2, <2>3 DEF GapInv
  <2>5. \A n \in Seg : n = persisted => Held(n)' \/ home'[n].status = "NEW"
    BY <1>1, <2>1, <2>2, <2>3 DEF GapInv
  <2> QED BY <2>1, <2>4, <2>5 DEF GapInv
<1>3. CASE CreateSchema
  <2>1. /\ pc \in {"open_schema", "roll_schema"} /\ pc' \in {"open_recover", "roll_persist"}
        /\ home' = [home EXCEPT ![slot].status = "NEW"] /\ UNCHANGED <<stage, persisted>>
    BY <1>3 DEF CreateSchema
  <2>2. home[slot].status = "half"
    BY <2>1 DEF TypeInv, StepShape
  <2>3. \A n \in Seg : n # slot => home'[n] = home[n]
    BY <1>1, <2>1
  <2>4. \A n \in Seg : Held(n) => Held(n)'
    BY <2>1, <2>2, <2>3 DEF Held
  <2> QED BY <1>1, <2>1, <2>2, <2>3, <2>4, GapKept
<1> QED BY <1>2, <1>3

\* The number that is persisted is that of the segment being written.
LEMMA GapPersist ==
  ASSUME ~ PersistMayFail, TypeInv, GapInv, OpenPersist \/ RollPersist
  PROVE  GapInv'
<1>1. /\ pc \in {"open_persist", "roll_persist"} /\ pc' = "deliver" /\ persisted' = cur
      /\ UNCHANGED <<home, stage>>
  BY DEF OpenPersist, RollPersist, PersistSequence
<1>2. cur \in Seg /\ home[cur].status = "NEW" /\ cur \in Int /\ \A n \in Seg : n \in Int
  BY <1>1, BoundsAssumption DEF TypeInv, TypeOK, StepShape, CurOpen, Seg
<1>3. \A n \in Seg : Held(n)' <=> Held(n)
  BY <1>1 DEF Held
<1>4. ASSUME NEW n \in Seg, n <= persisted' \/ home[n].status # "absent", NEW m \in Seg, m < n
      PROVE  Held(m)
  <2>1. CASE home[n].status # "absent"
    BY <1>4, <2>1 DEF GapInv
  <2>2. CASE n <= cur
    <3>1. m \in Int /\ n \in Int
      BY <1>2
    <3>2. m < cur
      BY <1>2, <1>4, <2>2, <3>1
    <3> QED BY <1>2, <3>2 DEF GapInv
  <2> QED BY <1>1, <1>4, <2>1, <2>2
<1> QED BY <1>1, <1>2, <1>3, <1>4 DEF GapInv

LEMMA GapRollClaim ==
  ASSUME TypeInv, GapInv, RollClaim
  PROVE  GapInv'
<1>1. home' = home /\ slot' = cur + 1
  BY RollTakesNext
<1>2. pc' = "finalize" /\ UNCHANGED <<stage, persisted, cur, closing>>
  BY DEF RollClaim
<1>3. \A n \in Seg : Held(n) <=> Held(n)'
  BY <1>1, <1>2 DEF Held
<1> QED BY <1>1, <1>2, <1>3, GapKept

LEMMA GapMarkReady ==
  ASSUME TypeInv, GapInv, MarkReady
  PROVE  GapInv'
<1>1. /\ pc = "mark_ready" /\ home' = [home EXCEPT ![cur].status = "READY"]
      /\ pc' = IF closing THEN "deliver" ELSE "roll_create"
      /\ UNCHANGED <<stage, persisted, cur, slot, closing>>
  BY DEF MarkReady
<1>2. cur \in Seg /\ home \in [Seg -> Segment] /\ home[cur].status = "NEW"
  BY <1>1 DEF TypeInv, TypeOK, StepShape, CurOpen
<1>3. /\ home'[cur].status = "READY"
      /\ \A n \in Seg : n # cur => home'[n] = home[n]
  BY <1>1, <1>2 DEF Segment
<1>4. \A n \in Seg : Held(n) \/ n = cur => Held(n)'
  BY <1>1, <1>3 DEF Held
<1>5. \A n \in Seg : home'[n].status # "absent" => home[n].status # "absent"
  BY <1>2, <1>3
<1>6. ASSUME pc' = "roll_create", NEW m \in Seg, m < slot PROVE Held(m)'
  <2>1. slot = cur + 1 /\ m \in Int /\ cur \in Int
    BY <1>1, <1>2, <1>6, BoundsAssumption DEF GapInv, Seg
  <2>2. CASE m < cur
    <3>1. Held(m)
      BY <1>2, <2>2 DEF GapInv
    <3> QED BY <1>4, <3>1
  <2>3. CASE m = cur
    BY <1>4, <2>3
  <2> QED BY <1>6, <2>1, <2>2, <2>3
<1>7. /\ \A n \in Seg : n <= persisted' \/ home'[n].status # "absent" =>
           \A m \in Seg : m < n => Held(m)'
      /\ \A n \in Seg : n = persisted' => Held(n)' \/ home'[n].status = "NEW"
  BY <1>1, <1>3, <1>4, <1>5 DEF GapInv
<1> QED BY <1>1, <1>6, <1>7 DEF GapInv

LEMMA GapMover ==
  ASSUME TypeInv, StageInv, GapInv, MoverCopies \/ MoverRemoves
  PROVE  GapInv'
<1>1. todo \subseteq Seg /\ home \in [Seg -> Segment] /\ stage \in [Seg -> Segment]
  BY DEF TypeInv, TypeOK
<1>2. CASE MoverCopies
  <2>1. PICK n \in todo : NextToDeliver(n) /\ stage' = [stage EXCEPT ![n] = home[n]]
    BY <1>2 DEF MoverCopies
  <2>2. pc = "deliver" /\ pc' = "remove" /\ UNCHANGED <<home, persisted>>
    BY <1>2 DEF MoverCopies
  <2>3. home[n].status = "READY"
    BY <2>1, <2>2 DEF StageInv, TodoShape
  <2>4. \A m \in Seg : Held(m) => Held(m)'
    BY <1>1, <2>1, <2>2, <2>3 DEF Held
  <2> QED BY <2>2, <2>4, GapKept
<1>3. CASE MoverRemoves
  <2>1. PICK n \in todo : NextToDeliver(n) /\ home' \in {[home EXCEPT ![n] = NoFile], home}
    BY <1>3 DEF MoverRemoves
  <2>2. pc = "remove" /\ pc' = "deliver" /\ UNCHANGED <<stage, persisted>>
    BY <1>3 DEF MoverRemoves
  <2>3. home[n].status = "READY" /\ stage[n] = home[n]
    BY <2>1, <2>2 DEF StageInv, TodoShape
  <2>4. \A m \in Seg : home'[m] = home[m] \/ (m = n /\ home'[m] = NoFile)
    BY <1>1, <2>1
  <2>5. \A m \in Seg : Held(m) => Held(m)'
    BY <2>2, <2>3, <2>4 DEF Held
  <2>6. /\ \A m \in Seg : home'[m].status # "absent" => home[m].status # "absent"
        /\ \A m \in Seg : home[m].status = "NEW" => home'[m].status = "NEW" \/ Held(m)'
    BY <2>3, <2>4 DEF NoFile
  <2> QED BY <2>2, <2>5, <2>6, GapKept
<1> QED BY <1>2, <1>3

LEMMA GapInit ==
  ASSUME Init
  PROVE  GapInv
<1>1. \A n \in Seg : home[n].status = "absent"
  BY DEF Init, NoFile
<1>2. \A n \in Seg : ~ (n <= -1)
  BY BoundsAssumption DEF Seg
<1> QED BY <1>1, <1>2 DEF Init, GapInv

LEMMA GapStep ==
  ASSUME ~ PersistMayFail, TypeInv, StageInv, GapInv, [Next]_vars
  PROVE  GapInv'
<1>1. CASE Next
  BY <1>1, NextSplits, GapAppend, GapOpenDevice, GapCreate, GapPersist, GapRollClaim,
     GapMarkReady, GapMover
<1>2. CASE UNCHANGED vars
  <2>1. UNCHANGED <<home, stage, persisted, pc, cur, slot, closing>>
    BY <1>2 DEF vars, disk, memory
  <2>2. \A n \in Seg : Held(n) <=> Held(n)'
    BY <2>1 DEF Held
  <2> QED BY <2>1, <2>2 DEF GapInv, Seg
<1> QED BY <1>1, <1>2

--------------------------------------------------------------------------------
(* Commit ids grow from segment to segment                                     *)

\* CommitIdsGrow in terms of the rows.
LEMMA GrowthOfRows ==
  /\ CommitIdsGrow <=>
       \A m, n \in Seg : m < n => \A r \in RowsOf(m), q \in RowsOf(n) : r.cid < q.cid
  /\ CommitIdsGrow' <=>
       \A m, n \in Seg : m < n => \A r \in RowsOf(m)', q \in RowsOf(n)' : r.cid < q.cid
BY DEF CommitIdsGrow, CommitIds, RowsOf, Seg

\* The segment that is written is the last one with rows.
LEMMA NothingAbove ==
  ASSUME TypeInv, StageInv, home[cur].status = "NEW", NEW n \in Seg, n > cur
  PROVE  RowsOf(n) = {}
<1>1. cur \in Seg /\ cur \in Int /\ n \in Int /\ persisted \in Int
  BY BoundsAssumption DEF TypeInv, TypeOK, Seg
<1>2. home[n].rows = {}
  BY <1>1 DEF TypeInv, HomeShape
<1>3. cur >= persisted /\ (stage[n].status # "absent" => n <= persisted)
  BY <1>1 DEF StageInv, StageShape
<1>4. stage[n].rows = {}
  BY <1>1, <1>3 DEF StageInv, StageShape
<1> QED BY <1>2, <1>4 DEF RowsOf

LEMMA GrowAppend ==
  ASSUME TypeInv, FateInv, StageInv, OrderInv, Appends, pc \notin Down
  PROVE  CommitIdsGrow'
<1>1. cur \in Seg /\ \A n \in Seg : n \in Int
  BY BoundsAssumption DEF TypeInv, TypeOK, Seg
<1>2. /\ \A n \in Seg : n # cur => RowsOf(n)' = RowsOf(n)
      /\ \A n \in Seg : home'[n] = home[n] => RowsOf(n)' = RowsOf(n)
  BY DEF Appends, RowsOf
<1>3. SUFFICES ASSUME NEW m \in Seg, NEW n \in Seg, m < n, NEW r \in RowsOf(m)', NEW q \in RowsOf(n)'
               PROVE  r.cid < q.cid
  BY GrowthOfRows
<1>4. \A i, j \in Seg : i < j => \A x \in RowsOf(i), y \in RowsOf(j) : x.cid < y.cid
  BY GrowthOfRows DEF OrderInv
<1>5. CASE n # cur /\ m # cur
  BY <1>2, <1>3, <1>4, <1>5
<1>6. CASE n = cur
  <2>1. r \in RowsOf(m)
    BY <1>1, <1>2, <1>3, <1>6
  <2>2. q \in stage[cur].rows \/ q \in home'[cur].rows
    BY <1>6 DEF RowsOf, Appends
  <2>3. CASE q \in RowsOf(cur)
    BY <1>4, <1>3, <1>6, <2>1, <2>3
  <2>4. CASE q \notin RowsOf(cur)
    <3>1. q.cid = nextCommit \/ q.cid \in CommitIds(home[cur].rows)
      BY <2>2, <2>4 DEF RowsOf, Appends, OrderInv, BufOrder, FateInv, QueueShape
    <3>2. CASE q.cid = nextCommit
      BY <1>3, <1>6, <2>1, <3>2 DEF OrderInv, BelowNext
    <3>3. CASE q.cid \in CommitIds(home[cur].rows)
      <4>1. PICK y \in RowsOf(cur) : y.cid = q.cid
        BY <3>3 DEF CommitIds, RowsOf
      <4> QED BY <1>3, <1>4, <1>6, <2>1, <4>1
    <3> QED BY <3>1, <3>2, <3>3
  <2> QED BY <2>3, <2>4
<1>7. CASE m = cur
  <2>1. q \in RowsOf(n)
    BY <1>1, <1>2, <1>3, <1>7
  <2>2. CASE home'[cur] = home[cur]
    <3>1. r \in RowsOf(cur)
      BY <1>2, <1>7, <2>2 DEF RowsOf, Appends
    <3> QED BY <1>3, <1>4, <1>7, <2>1, <3>1
  <2>3. CASE home'[cur] # home[cur]
    <3>1. home[cur].status = "NEW"
      BY <2>3 DEF Appends
    <3>2. n > cur
      BY <1>1, <1>3, <1>7
    <3> QED BY <2>1, <3>1, <3>2, NothingAbove
  <2> QED BY <2>2, <2>3
<1> QED BY <1>5, <1>6, <1>7

\* A step under which no segment gains a row.
LEMMA GrowKept ==
  ASSUME CommitIdsGrow, \A n \in Seg : RowsOf(n)' \subseteq RowsOf(n)
  PROVE  CommitIdsGrow'
<1>1. \A i, j \in Seg : i < j => \A x \in RowsOf(i), y \in RowsOf(j) : x.cid < y.cid
  BY GrowthOfRows
<1> QED BY <1>1, GrowthOfRows

\* Where a step that appends leaves the call.
LEMMA AppendFrame ==
  ASSUME TypeInv, AppendStep
  PROVE  /\ pc \notin Down
         /\ \/ pc' \in Down /\ buf' = {} /\ nextCommit' = 0
            \/ /\ cur' = cur /\ pc' \notin Down
               /\ pc' \notin {"open_create", "open_schema", "open_recover", "roll_create",
                             "roll_schema"}
               /\ \/ nextCommit' = nextCommit
                  \/ buf' = {} /\ nextCommit' > nextCommit /\ nextCommit' <= MaxCommitId
                     /\ pc' \in {"idle", "roll_check"}
               /\ pc' = "mark_ready" => pc = "finalize" /\ Flush /\ UNCHANGED <<closing, nextCommit>>
               /\ pc' = "finalize" => closing' /\ buf' = buf
               /\ pc' \in {"deliver", "remove"} => pc = pc' /\ UNCHANGED <<closing, buf>>
<1> USE DEF disk, Down
<1>1. CASE Crash \/ MoverCopyFails \/ Delivered \/ RollRequested \/ RollRefused
  BY <1>1 DEF Crash, MoverCopyFails, Delivered, RollRequested, RollRefused, InMemoryReset
<1>2. CASE RecoverInDoubtTxn
  <2>1. pc = "open_recover" /\ (InMemoryReset \/ UNCHANGED nextCommit)
    BY <1>2 DEF RecoverInDoubtTxn
  <2>2. InMemoryReset => buf' = {} /\ nextCommit' = 0
    BY DEF InMemoryReset
  <2>3. pc' = "refused" \/ (pc' = "open_flush" /\ cur' = cur /\ UNCHANGED nextCommit)
    BY <1>2 DEF RecoverInDoubtTxn
  <2>4. pc' = "refused" => InMemoryReset
    BY <1>2 DEF RecoverInDoubtTxn
  <2> QED BY <2>1, <2>2, <2>3, <2>4
<1>3. CASE OpenFlush \/ CommitFlush \/ FinalizeRows
  BY <1>3 DEF OpenFlush, CommitFlush, FinalizeRows
<1>4. CASE CommitDone \/ RollbackDone
  <2>1. /\ pc \in {"commit_done", "rollback_done"} /\ pc' \in {"idle", "roll_check"} /\ buf' = {}
        /\ UNCHANGED cur
    BY <1>4 DEF CommitDone, RollbackDone, EndTxn, Flush
  <2>2. PICK now \in 0 .. MaxCommitId :
          NextMonotonic(now, nextCommit) <= MaxCommitId /\ nextCommit' = NextMonotonic(now, nextCommit)
    BY <1>4 DEF CommitDone, RollbackDone, EndTxn
  <2>3. nextCommit' > nextCommit
    BY <2>2 DEF NextMonotonic, TypeInv, TypeOK
  <2> QED BY <2>1, <2>2, <2>3
<1>5. CASE Txn
  BY <1>5 DEF Txn, Execute, ExecuteUnlogged, Drain, FlushLog, FlushLogDone
<1>6. CASE CommitStart \/ CommitDb \/ CommitDbFails \/ CommitRow \/ RollbackRow
  BY <1>6 DEF CommitStart, CommitDb, CommitDbFails, CommitRow, RollbackRow, FateRow
<1>7. CASE RollbackStart \/ RollbackDb
  BY <1>7 DEF RollbackStart, RollbackDb
<1>8. CASE Close
  BY <1>8 DEF Close, CloseStart, CloseShips, CloseKeeps, InMemoryReset, TypeInv, StepShape
<1> QED BY <1>1, <1>2, <1>3, <1>4, <1>5, <1>6, <1>7, <1>8 DEF AppendStep, Commit, Rollback

LEMMA OrderAppend ==
  ASSUME TypeInv, TypeInv', FateInv, StageInv, OrderInv, AppendStep
  PROVE  OrderInv'
<1> USE DEF Down
<1>1. Appends /\ pc \notin Down
  BY AppendStepAppends, AppendFrame
<1>2. CommitIdsGrow'
  BY <1>1, GrowAppend
<1>3. CASE pc' \in Down
  BY <1>2, <1>3, AppendFrame DEF OrderInv, BelowNext, BufOrder, RolledBelow
<1>4. CASE pc' \notin Down
  <2>1. /\ cur' = cur
        /\ pc' \notin {"open_create", "open_schema", "open_recover", "roll_create", "roll_schema"}
        /\ \/ nextCommit' = nextCommit
           \/ buf' = {} /\ nextCommit' > nextCommit /\ pc' \in {"idle", "roll_check"}
        /\ pc' = "mark_ready" => pc = "finalize" /\ Flush /\ UNCHANGED <<closing, nextCommit>>
        /\ pc' = "finalize" => closing' /\ buf' = buf
        /\ pc' \in {"deliver", "remove"} => pc = pc' /\ UNCHANGED <<closing, buf>>
    BY <1>4, AppendFrame
  <2>2. cur \in Seg /\ nextCommit \in Nat /\ nextCommit' \in Nat
    BY DEF TypeInv, TypeOK
  <2>3. BelowNext'
    <3>1. SUFFICES ASSUME NEW m \in Seg, m < cur, NEW r \in RowsOf(m)'
                   PROVE  r.cid < nextCommit'
      BY <2>1 DEF BelowNext, Seg
    <3>2. m # cur
      BY <2>2, <3>1, BoundsAssumption DEF Seg
    <3>3. r \in RowsOf(m)
      BY <1>1, <3>1, <3>2 DEF Appends, RowsOf
    <3>4. r.cid < nextCommit
      BY <1>1, <3>1, <3>3 DEF OrderInv, BelowNext
    <3>5. r.cid \in Int
      BY <3>3 DEF TypeInv, TypeOK, Segment, Row, RowsOf
    <3> QED BY <2>1, <2>2, <3>4, <3>5
  <2>4. BufOrder'
    <3>1. \A b \in buf' : b.cid = nextCommit \/ b.cid \in CommitIds(home[cur].rows)
      BY <1>1 DEF Appends, OrderInv, BufOrder, CommitIds, FateInv, QueueShape
    <3>2. CommitIds(home[cur].rows) \subseteq CommitIds(home'[cur].rows)
      BY <1>1 DEF Appends, CommitIds
    <3>3. \A b \in buf' : b.cid = nextCommit' \/ b.cid \in CommitIds(home'[cur'].rows)
      BY <2>1, <3>1, <3>2
    <3>4. pc' = "mark_ready" \/ (pc' \in {"deliver", "remove"} /\ closing') => buf' = {}
      BY <2>1 DEF Flush, OrderInv, BufOrder
    <3> QED BY <1>4, <2>1, <3>3, <3>4 DEF BufOrder
  <2>5. RolledBelow'
    <3>1. SUFFICES ASSUME pc' \in {"finalize", "mark_ready"}, ~ closing'
                   PROVE  \A r \in (DurableRows \union buf)' : r.cid < nextCommit'
      BY <2>1 DEF RolledBelow
    <3>2. pc = "finalize" /\ Flush /\ UNCHANGED <<closing, nextCommit>>
      BY <2>1, <3>1
    <3>3. AllRows' \subseteq AllRows
      BY <1>1, <2>1, <3>2, FlushKeepsLog DEF Appends
    <3> QED BY <3>1, <3>2, <3>3 DEF OrderInv, RolledBelow, AllRows
  <2> QED BY <1>2, <2>3, <2>4, <2>5 DEF OrderInv
<1> QED BY <1>3, <1>4

\* Whatever has a row is below the id that open draws.
LEMMA OrderOpenDevice ==
  ASSUME TypeInv, TypeInv', FateInv', OrderInv, OpenDevice
  PROVE  OrderInv'
<1>1. pc \in Down /\ OpenResolved
  BY ScanSucceeds DEF OpenDevice
<1>2. home' = Resolved /\ UNCHANGED <<stage, buf>> /\ pc' \in {"open_recover", "open_create"}
  BY <1>1, OpenTakes
<1>3. \A n \in Seg : RowsOf(n)' = RowsOf(n)
  BY <1>2, ResolvedShape, LogIsInShape DEF RowsOf
<1>4. CommitIdsGrow'
  BY <1>3, GrowKept DEF OrderInv
<1>5. buf' = {}
  BY <1>1, <1>2 DEF OrderInv, BufOrder
<1>6. \A r \in DurableRows' : r.cid < nextCommit'
  BY <1>2 DEF FateInv, RowsBelowNext, Opening, Down
<1>7. BelowNext'
  BY <1>6 DEF BelowNext, DurableRows, RowsOf, Seg
<1> QED BY <1>2, <1>4, <1>5, <1>7 DEF OrderInv, BufOrder, RolledBelow

LEMMA OrderCreate ==
  ASSUME TypeInv, FateInv, OrderInv, CreateFile \/ CreateSchema
  PROVE  OrderInv'
<1>1. slot \in Seg /\ home \in [Seg -> Segment]
  BY DEF TypeInv, TypeOK
<1>2. /\ pc \in {"open_create", "open_schema", "roll_create", "roll_schema"}
      /\ pc' \in {"open_schema", "roll_schema", "open_recover", "roll_persist"}
      /\ UNCHANGED <<stage, buf, nextCommit, closing>>
      /\ \A n \in Seg : home'[n].rows = home[n].rows
  BY <1>1 DEF CreateFile, CreateSchema, Segment
<1>3. \A n \in Seg : RowsOf(n)' = RowsOf(n)
  BY <1>2 DEF RowsOf
<1>4. CommitIdsGrow'
  BY <1>3, GrowKept DEF OrderInv
<1>5. buf = {}
  BY <1>2 DEF OrderInv, BufOrder
<1>6. \A r \in DurableRows \union buf : r.cid < nextCommit
  <2>1. CASE pc \in {"open_create", "open_schema"}
    BY <2>1 DEF FateInv, RowsBelowNext, Opening, Down
  <2>2. CASE pc \in {"roll_create", "roll_schema"}
    <3>1. ~ closing
      BY <2>2 DEF TypeInv, StepShape
    <3> QED BY <2>2, <3>1 DEF OrderInv, RolledBelow
  <2> QED BY <1>2, <2>1, <2>2
<1>7. DurableRows' = DurableRows
  BY <1>2 DEF DurableRows, Seg
<1>8. BelowNext' /\ RolledBelow'
  BY <1>2, <1>5, <1>6, <1>7 DEF BelowNext, RolledBelow, DurableRows, RowsOf, Seg
<1> QED BY <1>2, <1>4, <1>5, <1>8 DEF OrderInv, BufOrder

\* The segment is switched at a commit boundary: its last transaction is decided, so
\* that the id of the next one is above.
LEMMA BoundaryIsBelow ==
  ASSUME TypeInv, FateInv, pc \in {"roll_drain", "roll_check"}, AtCommitBoundary
  PROVE  \A r \in LogRows : r.cid < nextCommit
<1>1. ~ closing /\ ~ FateDecided /\ cur \in Seg
  BY DEF TypeInv, TypeOK, StepShape, FateDecided
<1>2. LogRows \in SUBSET Row /\ IsFiniteSet(LogRows) /\ LogRows # {}
  BY <1>1, FS_Union DEF LogRows, AtCommitBoundary, TypeInv, TypeOK, FiniteRows, Segment
<1>3. LogRows \subseteq DurableRows \union buf
  BY <1>1 DEF LogRows, DurableRows
<1> DEFINE last == LastCommitId(LogRows)
<1>4. \E r \in LogRows : r.cid = last /\ r.kind \in {"COMMIT", "ROLLBACK"}
  BY <1>2 DEF AtCommitBoundary, LastFateDecided, FateOf, Has
<1>5. last < nextCommit
  BY <1>1, <1>3, <1>4 DEF FateInv, RowsBelowNext, Down
<1>6. \A r \in LogRows : r.cid <= last
  BY <1>2, LastCommitIdIsMax
<1>7. last \in Int /\ nextCommit \in Int /\ \A r \in LogRows : r.cid \in Int
  BY <1>2, LastCommitIdType DEF Row, TypeInv, TypeOK
<1> HIDE DEF last
<1> QED BY <1>5, <1>6, <1>7

LEMMA OrderRollClaim ==
  ASSUME TypeInv, FateInv, StageInv, OrderInv, RollClaim
  PROVE  OrderInv'
<1>1. home' = home
  BY RollTakesNext
<1>2. /\ pc \in {"roll_drain", "roll_check"} /\ AtCommitBoundary /\ pc' = "finalize"
      /\ UNCHANGED <<stage, cur, nextCommit, buf>>
  BY DEF RollClaim
<1>3. CommitIdsGrow' /\ BelowNext' /\ BufOrder'
  BY <1>1, <1>2 DEF OrderInv, CommitIdsGrow, BelowNext, BufOrder, RowsOf, Seg, Down
<1>4. ASSUME NEW r \in DurableRows \union buf PROVE r.cid < nextCommit
  <2>1. cur \in Seg /\ cur \in Int /\ home[cur].status = "NEW"
    BY <1>2, BoundsAssumption DEF TypeInv, TypeOK, StepShape, CurOpen, Seg
  <2>2. CASE r \in LogRows
    BY <1>2, <2>2, BoundaryIsBelow
  <2>3. CASE r \notin LogRows
    <3>1. PICK n \in Seg : r \in RowsOf(n)
      BY <2>3 DEF DurableRows, RowsOf, LogRows
    <3>2. n \in Int
      BY BoundsAssumption DEF Seg
    <3>3. ~ (n > cur)
      BY <2>1, <3>1, NothingAbove
    <3>4. n # cur
      <4>1. stage[cur].rows = {}
        BY <2>1, OpenIsNotStaged DEF StageInv, StageShape
      <4> QED BY <2>3, <3>1, <4>1 DEF LogRows, RowsOf
    <3>5. n < cur
      BY <2>1, <3>2, <3>3, <3>4
    <3> QED BY <1>2, <3>1, <3>5 DEF OrderInv, BelowNext, Down
  <2> QED BY <2>2, <2>3
<1>5. RolledBelow'
  BY <1>1, <1>2, <1>4 DEF RolledBelow, DurableRows, Seg
<1> QED BY <1>3, <1>5 DEF OrderInv

\* A step that changes the status of a file or where it is, not what is logged.
LEMMA OrderMoves ==
  ASSUME TypeInv, StageInv, OrderInv, OpenPersist \/ RollPersist \/ MarkReady \/ MoverCopies \/ MoverRemoves
  PROVE  OrderInv'
<1>1. todo \subseteq Seg /\ home \in [Seg -> Segment] /\ stage \in [Seg -> Segment] /\ cur \in Seg
  BY DEF TypeInv, TypeOK
<1>2. /\ pc \in {"open_persist", "roll_persist", "mark_ready", "deliver", "remove"}
      /\ UNCHANGED <<cur, nextCommit, buf, closing>>
  BY DEF OpenPersist, RollPersist, MarkReady, MoverCopies, MoverRemoves
<1>3. \A n \in Seg : RowsOf(n)' \subseteq RowsOf(n)
  <2>1. CASE OpenPersist \/ RollPersist
    BY <2>1 DEF OpenPersist, RollPersist, RowsOf
  <2>2. CASE MarkReady
    BY <1>1, <2>2 DEF MarkReady, RowsOf, Segment
  <2>3. CASE MoverCopies
    BY <1>1, <2>3 DEF MoverCopies, RowsOf
  <2>4. CASE MoverRemoves
    BY <1>1, <2>4 DEF MoverRemoves, RowsOf, NoFile
  <2> QED BY <2>1, <2>2, <2>3, <2>4
<1>4. CommitIdsGrow'
  BY <1>3, GrowKept DEF OrderInv
<1>5. BelowNext'
  BY <1>2, <1>3 DEF OrderInv, BelowNext, Down, Seg
<1>6. CASE MarkReady
  <2>1. /\ pc = "mark_ready" /\ pc' \in {"deliver", "roll_create"}
        /\ home' = [home EXCEPT ![cur].status = "READY"] /\ UNCHANGED stage
    BY <1>6 DEF MarkReady
  <2>2. buf = {}
    BY <2>1 DEF OrderInv, BufOrder
  <2>3. \A n \in Seg : home'[n].rows = home[n].rows
    BY <1>1, <2>1 DEF Segment
  <2>4. DurableRows' = DurableRows
    BY <2>1, <2>3 DEF DurableRows, Seg
  <2>5. BufOrder'
    BY <1>2, <2>1, <2>2 DEF BufOrder
  <2>6. RolledBelow'
    BY <1>2, <2>1, <2>2, <2>4 DEF OrderInv, RolledBelow
  <2> QED BY <1>4, <1>5, <2>5, <2>6 DEF OrderInv
<1>7. CASE ~ MarkReady
  <2>1. /\ pc \in {"open_persist", "roll_persist", "deliver", "remove"}
        /\ pc' \in {"deliver", "remove"}
    BY <1>7 DEF OpenPersist, RollPersist, MoverCopies, MoverRemoves
  <2>2. buf = {} \/ home'[cur].rows = home[cur].rows
    <3>1. CASE OpenPersist \/ RollPersist \/ MoverCopies
      BY <3>1 DEF OpenPersist, RollPersist, MoverCopies
    <3>2. CASE MoverRemoves
      <4>1. CASE closing
        BY <3>2, <4>1 DEF MoverRemoves, OrderInv, BufOrder
      <4>2. CASE ~ closing
        <5>1. \A n \in todo : n < cur
          BY <3>2, <4>2 DEF MoverRemoves, TypeInv, StepShape
        <5>2. cur \in Int
          BY <1>1, BoundsAssumption DEF Seg
        <5>3. cur \notin todo
          BY <5>1, <5>2
        <5> QED BY <1>1, <3>2, <5>3 DEF MoverRemoves
      <4> QED BY <4>1, <4>2
    <3> QED BY <1>7, <3>1, <3>2
  <2>3. closing => pc \in {"deliver", "remove"}
    BY <2>1 DEF TypeInv, StepShape
  <2>4. BufOrder'
    BY <1>2, <2>1, <2>2, <2>3 DEF OrderInv, BufOrder, Down
  <2>5. RolledBelow'
    BY <2>1 DEF RolledBelow
  <2> QED BY <1>4, <1>5, <2>4, <2>5 DEF OrderInv
<1> QED BY <1>6, <1>7

LEMMA OrderInit ==
  ASSUME Init
  PROVE  OrderInv
<1>1. \A n \in Seg : RowsOf(n) = {}
  BY DEF Init, NoFile, RowsOf
<1>2. CommitIdsGrow
  BY <1>1, GrowthOfRows
<1> QED BY <1>2 DEF Init, OrderInv, BelowNext, BufOrder, RolledBelow, Down

LEMMA OrderStep ==
  ASSUME TypeInv, TypeInv', FateInv, FateInv', StageInv, OrderInv, [Next]_vars
  PROVE  OrderInv'
<1>1. CASE Next
  BY <1>1, NextSplits, OrderAppend, OrderOpenDevice, OrderCreate, OrderRollClaim, OrderMoves
<1>2. CASE UNCHANGED vars
  <2>1. UNCHANGED <<home, stage, pc, cur, nextCommit, buf, closing>>
    BY <1>2 DEF vars, disk, memory
  <2>2. \A n \in Seg : RowsOf(n)' = RowsOf(n)
    BY <2>1 DEF RowsOf
  <2>3. CommitIdsGrow'
    BY <2>2, GrowKept DEF OrderInv
  <2>4. BelowNext' /\ BufOrder' /\ RolledBelow'
    BY <2>1, <2>2 DEF OrderInv, BelowNext, BufOrder, RolledBelow, DurableRows, Seg
  <2> QED BY <2>3, <2>4 DEF OrderInv
<1> QED BY <1>1, <1>2

--------------------------------------------------------------------------------
(* What the log has of the commits of the database                             *)

\* No step loses a durable row.
LEMMA DurableStep ==
  ASSUME TypeInv, StageInv, Next
  PROVE  DurableRows \subseteq DurableRows'
<1>1. CASE AppendStep
  <2>1. Appends
    BY <1>1, AppendStepAppends
  <2>2. \A n \in Seg : home[n].rows \union stage[n].rows \subseteq home'[n].rows \union stage'[n].rows
    BY <2>1 DEF Appends
  <2> QED BY <2>2, NothingLost
<1>2. CASE OpenDevice
  <2>1. home' = Resolved /\ UNCHANGED stage
    BY <1>2, ScanSucceeds, OpenTakes DEF OpenDevice
  <2> QED BY <2>1, ResolvedShape, LogIsInShape, NothingLost
<1>3. CASE CreateFile \/ CreateSchema \/ MarkReady
  <2>1. home \in [Seg -> Segment] /\ slot \in Seg /\ cur \in Seg
    BY DEF TypeInv, TypeOK
  <2>2. UNCHANGED stage /\ \A n \in Seg : home'[n].rows = home[n].rows
    BY <1>3, <2>1 DEF CreateFile, CreateSchema, MarkReady, Segment
  <2> QED BY <2>2, NothingLost
<1>4. CASE RollClaim
  <2>1. UNCHANGED <<home, stage>>
    BY <1>4, RollTakesNext DEF RollClaim
  <2> QED BY <2>1, NothingLost
<1>5. CASE OpenPersist \/ RollPersist
  <2>1. UNCHANGED <<home, stage>>
    BY <1>5 DEF OpenPersist, RollPersist
  <2> QED BY <2>1, NothingLost
<1>6. CASE MoverCopies \/ MoverRemoves
  BY <1>6, MoverLosesNothing DEF Mover
<1> QED BY <1>1, <1>2, <1>3, <1>4, <1>5, <1>6, NextSplits

\* A step that commits nothing and is not one that settles the last commit.
LEMMA LoggedKept ==
  ASSUME LoggedInv, UNCHANGED db, DurableRows \subseteq DurableRows',
         pc \in Unsettled /\ InDoubt => pc' \in Unsettled /\ InDoubt',
         pc' \in {"open_flush", "commit_done"} =>
           (db.commitId \in db.done => Has(DurableRows' \union buf', db.commitId, "COMMIT"))
  PROVE  LoggedInv'
<1>1. \A c \in Nat : Has(DurableRows, c, "COMMIT") => Has(DurableRows', c, "COMMIT")
  BY DEF Has
<1> QED BY <1>1 DEF LoggedInv, Has

\* A step of the call in progress that is neither recovery nor commit.
LEMMA LoggedFrame ==
  ASSUME Next, ~ OpenDevice, ~ RecoverInDoubtTxn, ~ OpenFlush, ~ CommitDb, ~ CommitRow, ~ CommitDone
  PROVE  /\ UNCHANGED db
         /\ \/ pc' \in Down /\ UNCHANGED <<home, stage>>
            \/ pc \notin Unsettled /\ pc' \notin {"open_flush", "commit_done"}
<1> USE DEF disk, Down, Unsettled
<1>1. CASE Crash \/ MoverCopyFails \/ Delivered \/ MoverCopies \/ MoverRemoves
  BY <1>1 DEF Crash, MoverCopyFails, Delivered, MoverCopies, MoverRemoves
<1>2. CASE OpenPersist \/ Create \/ Finalize
  BY <1>2 DEF OpenPersist, Create, CreateFile, CreateSchema, Finalize, FinalizeRows, MarkReady
<1>3. CASE Txn
  BY <1>3 DEF Txn, Execute, ExecuteUnlogged, Drain, FlushLog, FlushLogDone
<1>4. CASE CommitStart \/ CommitFlush \/ CommitDbFails
  BY <1>4 DEF CommitStart, CommitFlush, CommitDbFails
<1>5. CASE Rollback
  BY <1>5 DEF Rollback, RollbackStart, RollbackDb, RollbackRow, RollbackDone, FateRow, EndTxn
<1>6. CASE Roll
  BY <1>6 DEF Roll, RollRequested, RollRefused, RollClaim, RollPersist
<1>7. CASE Close
  BY <1>7 DEF Close, CloseStart, CloseShips, CloseKeeps
<1> QED BY <1>1, <1>2, <1>3, <1>4, <1>5, <1>6, <1>7 DEF Next, Open, Commit, Mover

\* The last commit can only be in doubt in the segment that is open.
LEMMA InDoubtIsOpen ==
  ASSUME TypeInv, InDoubt, home[cur].status = "NEW"
  PROVE  /\ db.commitId \in CommitIds(home[cur].rows)
         /\ \A r \in home[cur].rows : r.cid <= db.commitId
<1>1. PICK n \in Seg :
        /\ home[n].status = "NEW"
        /\ db.commitId \in CommitIds(home[n].rows)
        /\ \A r \in home[n].rows : r.cid <= db.commitId
  BY DEF InDoubt
<1>2. cur \in Seg /\ cur \in Int /\ n \in Int
  BY BoundsAssumption DEF TypeInv, TypeOK, Seg
<1>3. ~ (n > cur) /\ ~ (cur > n)
  BY <1>1, <1>2 DEF TypeInv, HomeShape
<1>4. n = cur
  BY <1>2, <1>3
<1> QED BY <1>1, <1>4

\* What is pending becomes durable with the flush.
LEMMA FlushMakesDurable ==
  ASSUME TypeInv, Flush, UNCHANGED stage
  PROVE  DurableRows \union buf \subseteq DurableRows'
<1>1. WriterStep /\ Logged({}) /\ buf' = {}
  BY FlushLogs, LogIsInShape
<1> QED BY <1>1, WriterCovers

LEMMA LoggedOpenDevice ==
  ASSUME TypeInv, FateInv, StageInv, LoggedInv, Next, OpenDevice
  PROVE  LoggedInv'
<1>1. OpenResolved /\ pc \in Down
  BY ScanSucceeds DEF OpenDevice
<1>2. home' = Resolved /\ UNCHANGED <<stage, db>> /\ pc' \in {"open_recover", "open_create"}
  BY <1>1, OpenTakes
<1>3. ASSUME InDoubt PROVE InDoubt' /\ pc' = "open_recover"
  <2>1. PICK n \in Seg :
          /\ home[n].status = "NEW"
          /\ db.commitId \in CommitIds(home[n].rows)
          /\ \A r \in home[n].rows : r.cid <= db.commitId
    BY <1>3 DEF InDoubt
  <2>2. home'[n] = home[n]
    BY <1>2, <2>1, ResolvedShape, LogIsInShape
  <2>3. InDoubt'
    BY <1>2, <2>1, <2>2 DEF InDoubt, Seg
  <2>4. n \in Writable(Resolved)
    BY <1>2, <2>1, <2>2 DEF Writable
  <2>5. ActiveSegment >= 0
    <3>1. CASE PersistedIsWritable
      BY <3>1, BoundsAssumption DEF ActiveSegment, PersistedIsWritable, Writable, Seg
    <3>2. CASE ~ PersistedIsWritable
      <4>1. Writable(Resolved) \in SUBSET Seg
        BY DEF Writable
      <4>2. Highest(Writable(Resolved)) \in Seg
        BY <2>4, <4>1, HighestIsMax
      <4> QED BY <3>2, <4>2, BoundsAssumption DEF ActiveSegment, Seg
    <3> QED BY <3>1, <3>2
  <2>6. pc' = "open_recover"
    BY <1>1, <2>5 DEF OpenResolved
  <2> QED BY <2>3, <2>6
<1>4. DurableRows \subseteq DurableRows'
  BY DurableStep
<1> QED BY <1>2, <1>3, <1>4, LoggedKept DEF Unsettled

\* Recovery decides the transaction in doubt for the database, or finds it decided.
LEMMA LoggedRecover ==
  ASSUME TypeInv, FateInv, StageInv, OrderInv, LoggedInv, Next, RecoverInDoubtTxn
  PROVE  LoggedInv'
<1> DEFINE rows == home[cur].rows
           slave == LastCommitId(rows)
<1>1. /\ pc = "open_recover" /\ pc' \in {"open_flush", "refused"} /\ UNCHANGED <<stage, db>>
      /\ buf = {}
  BY DEF RecoverInDoubtTxn, OrderInv, BufOrder
<1>2. DurableRows \subseteq DurableRows'
  BY DurableStep
<1>3. cur \in Seg /\ home[cur].status = "NEW" /\ rows \in SUBSET Row /\ IsFiniteSet(rows)
  BY <1>1 DEF TypeInv, TypeOK, FiniteRows, StepShape, CurOpen, Segment
<1>4. CASE UNCHANGED home /\ pc' = "refused"
  <2>1. InDoubt => InDoubt'
    BY <1>1, <1>4 DEF InDoubt, Seg
  <2> QED BY <1>1, <1>2, <1>4, <2>1, LoggedKept DEF Unsettled, Down
<1>5. CASE /\ UNCHANGED <<home, buf, cur>> /\ pc' = "open_flush"
           /\ RecoveryOutcome(db.commitId, slave, FateOf(rows, slave)) = "none"
  <2>1. InDoubt => InDoubt'
    BY <1>1, <1>5 DEF InDoubt, Seg
  <2>2. ASSUME db.commitId \in db.done PROVE Has(DurableRows', db.commitId, "COMMIT")
    <3>1. CASE Has(DurableRows, db.commitId, "COMMIT")
      BY <1>2, <3>1 DEF Has
    <3>2. CASE InDoubt
      <4>1. db.commitId \in CommitIds(rows) /\ \A r \in rows : r.cid <= db.commitId
        BY <1>3, <3>2, InDoubtIsOpen
      <4>2. slave = db.commitId
        BY <1>3, <4>1, LastCommitIdIsMax DEF CommitIds, Row, TypeInv, TypeOK
      <4>3. db.commitId # 0 /\ db.commitId \in Nat
        BY <2>2 DEF LoggedInv, TypeInv, TypeOK
      <4>4. RecoveryOutcome(db.commitId, slave, FateOf(rows, slave)) = "none"
        BY <1>5
      <4>5. FateOf(rows, slave) = "Commit"
        BY <4>2, <4>3, <4>4 DEF RecoveryOutcome, FateOf
      <4>6. Has(rows, db.commitId, "COMMIT")
        BY <4>2, <4>5 DEF FateOf
      <4>7. rows \subseteq DurableRows
        BY <1>3 DEF DurableRows
      <4> QED BY <1>2, <4>6, <4>7 DEF Has
    <3> QED BY <2>2, <3>1, <3>2 DEF LoggedInv
  <2>3. db.commitId \in db.done => Has(DurableRows' \union buf', db.commitId, "COMMIT")
    BY <2>2 DEF Has
  <2> QED BY <1>1, <1>2, <1>5, <2>1, <2>3, LoggedKept DEF Unsettled
<1>6. CASE \E r \in Row :
             /\ AppendRow(r) /\ r.cid = slave
             /\ r.kind = RecoveryOutcome(db.commitId, slave, FateOf(rows, slave))
             /\ rows # {} /\ pc' = "open_flush" /\ UNCHANGED cur
  <2>1. PICK r \in Row :
             /\ AppendRow(r) /\ r.cid = slave
             /\ r.kind = RecoveryOutcome(db.commitId, slave, FateOf(rows, slave))
             /\ rows # {} /\ pc' = "open_flush" /\ UNCHANGED cur
    BY <1>6
  <2>2. WriterStep /\ Logged({r})
    BY <2>1, AppendLogs, LogIsInShape
  <2>3. home'[cur].status = "NEW" /\ rows \subseteq home'[cur].rows
        /\ home'[cur].rows \subseteq rows \union {r}
    BY <1>1, <1>3, <2>2 DEF WriterStep, Logged
  <2>4. DurableRows \union {r} \subseteq DurableRows' \union buf'
    BY <1>1, <2>2, WriterCovers
  <2>5. ASSUME InDoubt PROVE slave = db.commitId
    <3>1. db.commitId \in CommitIds(rows) /\ \A q \in rows : q.cid <= db.commitId
      BY <1>3, <2>5, InDoubtIsOpen
    <3> QED BY <1>3, <3>1, LastCommitIdIsMax DEF CommitIds, Row, TypeInv, TypeOK
  <2>6. ASSUME InDoubt PROVE InDoubt'
    <3>1. db.commitId \in CommitIds(rows) /\ \A q \in rows : q.cid <= db.commitId
      BY <1>3, <2>6, InDoubtIsOpen
    <3>2. r.cid <= db.commitId
      BY <2>1, <2>5, <2>6 DEF TypeInv, TypeOK
    <3>3. db'.commitId \in CommitIds(home'[cur].rows)
      BY <1>1, <2>3, <3>1 DEF CommitIds
    <3>4. \A q \in home'[cur].rows : q.cid <= db'.commitId
      BY <1>1, <2>3, <3>1, <3>2
    <3> QED BY <1>3, <2>3, <3>3, <3>4 DEF InDoubt
  <2>7. ASSUME db.commitId \in db.done
        PROVE  Has(DurableRows' \union buf', db.commitId, "COMMIT")
    <3>1. CASE Has(DurableRows, db.commitId, "COMMIT")
      BY <1>2, <3>1 DEF Has
    <3>2. CASE InDoubt
      <4>1. slave = db.commitId
        BY <2>5, <3>2
      <4>2. db.commitId # 0 /\ db.commitId \in Nat
        BY <2>7 DEF LoggedInv, TypeInv, TypeOK
      <4>3. r.kind \in {"COMMIT", "refuse", "none"}
        BY <2>1, <4>1, <4>2 DEF RecoveryOutcome, FateOf
      <4>4. r.kind = "COMMIT"
        BY <4>3 DEF Row, RowKind
      <4> QED BY <2>1, <2>4, <4>1, <4>4 DEF Has
    <3> QED BY <2>7, <3>1, <3>2 DEF LoggedInv
  <2> QED BY <1>1, <1>2, <2>1, <2>6, <2>7, LoggedKept DEF Unsettled
<1>7. \/ UNCHANGED home /\ pc' = "refused"
      \/ /\ UNCHANGED <<home, buf, cur>> /\ pc' = "open_flush"
         /\ RecoveryOutcome(db.commitId, slave, FateOf(rows, slave)) = "none"
      \/ \E r \in Row :
             /\ AppendRow(r) /\ r.cid = slave
             /\ r.kind = RecoveryOutcome(db.commitId, slave, FateOf(rows, slave))
             /\ rows # {} /\ pc' = "open_flush" /\ UNCHANGED cur
  BY RecoverRow
<1> HIDE DEF rows, slave
<1> QED BY <1>4, <1>5, <1>6, <1>7

\* The flush of open and of commit settle the last commit.
LEMMA LoggedFlush ==
  ASSUME TypeInv, LoggedInv, OpenFlush \/ CommitDone
  PROVE  LoggedInv'
<1>1. /\ pc \in {"open_flush", "commit_done"} /\ pc' \notin {"open_flush", "commit_done"}
      /\ Flush /\ UNCHANGED <<stage, db>>
  BY DEF OpenFlush, CommitDone, EndTxn
<1>2. DurableRows \union buf \subseteq DurableRows'
  BY <1>1, FlushMakesDurable
<1> QED BY <1>1, <1>2 DEF LoggedInv, Has

\* The database commits a transaction whose rows are durable in the open segment.
LEMMA LoggedCommitDb ==
  ASSUME TypeInv, FateInv, ResumeInv, LoggedInv, CommitDb
  PROVE  LoggedInv'
<1>1. /\ pc = "commit_db" /\ pc' = "commit_row" /\ UNCHANGED <<home, stage, buf>>
      /\ db'.commitId = nextCommit /\ db'.done = db.done \union {nextCommit}
  BY DEF CommitDb
<1>2. DurableRows' = DurableRows
  BY <1>1 DEF DurableRows, Seg
<1>3. nextCommit \in Nat /\ db.commitId \in Nat /\ db.commitId < nextCommit
  BY <1>1 DEF FateInv, DbFresh, TypeInv, TypeOK, Down
<1>4. db.commitId \in db.done => Has(DurableRows, db.commitId, "COMMIT")
  BY <1>1 DEF LoggedInv, Unsettled, Down
<1>5. InDoubt'
  <2>1. cur \in Seg /\ home[cur].status = "NEW" /\ nextCommit \in CommitIds(home[cur].rows)
    BY <1>1 DEF TypeInv, TypeOK, StepShape, CurOpen, Writing, ResumeInv, OpenTxnIsLogged, CommitIds
  <2>2. home[cur].rows \subseteq DurableRows
    BY <2>1 DEF DurableRows
  <2>3. \A r \in home[cur].rows : r.cid <= nextCommit
    BY <1>1, <2>2 DEF FateInv, RowsBelowNext, Down
  <2> QED BY <1>1, <2>1, <2>3 DEF InDoubt
<1>6. \A c \in db'.done : c # 0 /\ (c # db'.commitId => Has(DurableRows', c, "COMMIT"))
  BY <1>1, <1>2, <1>3, <1>4 DEF LoggedInv
<1> QED BY <1>1, <1>5, <1>6 DEF LoggedInv, Unsettled

LEMMA LoggedCommitRow ==
  ASSUME TypeInv, FateInv, LoggedInv, CommitRow
  PROVE  LoggedInv'
<1> DEFINE r == MakeRow(nextNum, nextCommit, "COMMIT")
<1>1. /\ pc = "commit_row" /\ pc' = "commit_done" /\ AppendRow(r)
      /\ UNCHANGED <<stage, db, cur>>
  BY DEF CommitRow, FateRow
<1>2. r \in Row /\ r.cid = nextCommit /\ r.kind = "COMMIT"
  BY DEF MakeRow, Row, RowKind, TypeInv, TypeOK
<1> HIDE DEF r
<1>3. WriterStep /\ Logged({r})
  BY <1>1, <1>2, AppendLogs, LogIsInShape
<1>4. DurableRows \subseteq DurableRows' /\ r \in DurableRows' \union buf'
  BY <1>1, <1>3, WriterCovers
<1>5. db.commitId = nextCommit
  BY <1>1 DEF FateInv, DbFresh
<1>6. ASSUME InDoubt PROVE InDoubt'
  <2>1. cur \in Seg /\ home[cur].status = "NEW"
    BY <1>1 DEF TypeInv, TypeOK, StepShape, CurOpen, Writing
  <2>2. db.commitId \in CommitIds(home[cur].rows)
    BY <1>6, <2>1, InDoubtIsOpen
  <2>3. /\ home'[cur].status = "NEW" /\ home[cur].rows \subseteq home'[cur].rows
        /\ home'[cur].rows \subseteq home[cur].rows \union buf \union {r}
    BY <1>3, <2>1 DEF WriterStep, Logged
  <2>4. home[cur].rows \subseteq DurableRows
    BY <2>1 DEF DurableRows
  <2>5. \A q \in home'[cur].rows : q.cid <= nextCommit
    <3>1. \A q \in DurableRows \union buf : q.cid <= nextCommit
      BY <1>1 DEF FateInv, RowsBelowNext, Down
    <3>2. r.cid <= nextCommit
      BY <1>2 DEF TypeInv, TypeOK
    <3> QED BY <2>3, <2>4, <3>1, <3>2
  <2>6. db'.commitId \in CommitIds(home'[cur].rows)
    BY <1>1, <2>2, <2>3 DEF CommitIds
  <2> QED BY <1>1, <1>5, <2>1, <2>3, <2>5, <2>6 DEF InDoubt
<1>7. Has(DurableRows' \union buf', db.commitId, "COMMIT")
  BY <1>2, <1>4, <1>5 DEF Has
<1> QED BY <1>1, <1>4, <1>6, <1>7, LoggedKept DEF Unsettled

LEMMA LoggedStep ==
  ASSUME TypeInv, FateInv, ResumeInv, StageInv, OrderInv, LoggedInv, [Next]_vars
  PROVE  LoggedInv'
<1>1. CASE UNCHANGED vars
  <2>1. UNCHANGED <<home, stage, db, pc, buf>>
    BY <1>1 DEF vars, disk, memory
  <2>2. DurableRows' = DurableRows /\ (InDoubt' <=> InDoubt)
    BY <2>1 DEF DurableRows, InDoubt, Seg
  <2> QED BY <2>1, <2>2 DEF LoggedInv
<1>2. CASE Next /\ ~ OpenDevice /\ ~ RecoverInDoubtTxn /\ ~ OpenFlush /\ ~ CommitDb
           /\ ~ CommitRow /\ ~ CommitDone
  <2>1. DurableRows \subseteq DurableRows'
    BY <1>2, DurableStep
  <2>2. /\ UNCHANGED db
        /\ \/ pc' \in Down /\ UNCHANGED <<home, stage>>
           \/ pc \notin Unsettled /\ pc' \notin {"open_flush", "commit_done"}
    BY <1>2, LoggedFrame
  <2>3. CASE pc' \in Down /\ UNCHANGED home
    <3>1. InDoubt => InDoubt'
      BY <2>2, <2>3 DEF InDoubt, Seg
    <3> QED BY <2>1, <2>2, <2>3, <3>1, LoggedKept DEF Unsettled, Down
  <2>4. CASE pc \notin Unsettled /\ pc' \notin {"open_flush", "commit_done"}
    BY <2>1, <2>2, <2>4, LoggedKept
  <2> QED BY <2>2, <2>3, <2>4
<1> QED BY <1>1, <1>2, LoggedOpenDevice, LoggedRecover, LoggedFlush, LoggedCommitDb,
           LoggedCommitRow

LEMMA LoggedInit ==
  ASSUME Init
  PROVE  LoggedInv
BY DEF Init, LoggedInv

--------------------------------------------------------------------------------
(* What is finalized is decided                                                *)

\* No segment becomes finalized, and none that is finalized changes or is copied.
LEMMA DecidedKept ==
  ASSUME DecidedInv,
         \A n \in Seg : home'[n].status = "READY" => home'[n] = home[n],
         \A n \in Seg : stage'[n] = stage[n] \/ stage'[n] = home[n],
         pc' \in {"finalize", "mark_ready"} => LastFateDecided(LogRows')
  PROVE  DecidedInv'
<1>1. /\ \A n \in Seg : home[n].status = "READY" => LastFateDecided(home[n].rows)
      /\ \A n \in Seg : stage[n].status = "READY" => LastFateDecided(stage[n].rows)
  BY DEF DecidedInv
<1>2. \A n \in Seg : home'[n].status = "READY" => LastFateDecided(home'[n].rows)
  <2>1. SUFFICES ASSUME NEW n \in Seg, home'[n].status = "READY"
                 PROVE  LastFateDecided(home'[n].rows)
    OBVIOUS
  <2>2. home'[n] = home[n]
    BY <2>1
  <2> QED BY <1>1, <2>1, <2>2
<1>3. \A n \in Seg : stage'[n].status = "READY" => LastFateDecided(stage'[n].rows)
  <2>1. SUFFICES ASSUME NEW n \in Seg, stage'[n].status = "READY"
                 PROVE  LastFateDecided(stage'[n].rows)
    OBVIOUS
  <2>2. CASE stage'[n] = stage[n]
    BY <1>1, <2>1, <2>2
  <2>3. CASE stage'[n] = home[n]
    BY <1>1, <2>1, <2>3
  <2> QED BY <2>2, <2>3
<1>4. \A n \in Seg : \A seg \in {home'[n], stage'[n]} :
        seg.status = "READY" => LastFateDecided(seg.rows)
  BY <1>2, <1>3
<1>5. pc' \in {"finalize", "mark_ready"} => LastFateDecided(LogRows)'
  OBVIOUS
<1> QED BY <1>4, <1>5 DEF DecidedInv

LEMMA DecidedAppend ==
  ASSUME TypeInv, DecidedInv, AppendStep
  PROVE  DecidedInv'
<1> USE DEF disk
<1>1. Appends
  BY AppendStepAppends
<1>2. \A n \in Seg : home'[n].status = "READY" => home'[n] = home[n]
  BY <1>1 DEF Appends
<1>3. ASSUME pc' \in {"finalize", "mark_ready"} PROVE LastFateDecided(LogRows')
  <2>1. CloseShips \/ FinalizeRows
    BY <1>3, RecoverRow DEF AppendStep, Crash, OpenFlush, Txn, Execute, ExecuteUnlogged, Drain,
       FlushLog, FlushLogDone, Commit, CommitStart, CommitFlush, CommitDb, CommitDbFails, CommitRow,
       CommitDone, Rollback, RollbackStart, RollbackDb, RollbackRow, RollbackDone, FateRow, EndTxn,
       Close, CloseStart, CloseKeeps, RollRequested, RollRefused, MoverCopyFails, Delivered, Down
  <2>2. CASE CloseShips
    <3>1. LogRows' = LogRows /\ AtCommitBoundary
      BY <2>2 DEF CloseShips, LogRows
    <3> QED BY <3>1 DEF AtCommitBoundary
  <2>3. CASE FinalizeRows
    <3>1. pc = "finalize" /\ Flush /\ UNCHANGED cur
      BY <2>3 DEF FinalizeRows
    <3>2. LogRows' = LogRows
      BY <3>1, FlushLogs, LogIsInShape DEF Logged, LogRows
    <3> QED BY <3>1, <3>2 DEF DecidedInv
  <2> QED BY <2>1, <2>2, <2>3
<1>4. \A n \in Seg : stage'[n] = stage[n]
  BY <1>1 DEF Appends
<1> QED BY <1>2, <1>3, <1>4, DecidedKept

LEMMA DecidedStep ==
  ASSUME TypeInv, OrderInv, DecidedInv, [Next]_vars
  PROVE  DecidedInv'
<1>1. home \in [Seg -> Segment] /\ stage \in [Seg -> Segment] /\ cur \in Seg /\ slot \in Seg
  BY DEF TypeInv, TypeOK
<1>2. CASE OpenDevice
  <2>1. home' = Resolved /\ UNCHANGED stage /\ pc' \notin {"finalize", "mark_ready"}
    BY <1>2, ScanSucceeds, OpenTakes DEF OpenDevice
  <2>2. \A n \in Seg : home'[n].status = "READY" => home'[n] = home[n]
    BY <2>1, ResolvedShape, LogIsInShape DEF NoFile
  <2> QED BY <2>1, <2>2, DecidedKept
<1>3. CASE CreateFile \/ CreateSchema
  <2>1. /\ UNCHANGED stage /\ pc' \notin {"finalize", "mark_ready"}
        /\ \A n \in Seg : home'[n].status = "READY" => home'[n] = home[n]
    BY <1>1, <1>3 DEF CreateFile, CreateSchema, Segment
  <2> QED BY <2>1, DecidedKept
<1>4. CASE OpenPersist \/ RollPersist
  <2>1. UNCHANGED <<home, stage>> /\ pc' \notin {"finalize", "mark_ready"}
    BY <1>4 DEF OpenPersist, RollPersist
  <2> QED BY <2>1, DecidedKept
<1>5. CASE RollClaim
  <2>1. UNCHANGED <<home, stage, cur, buf>> /\ AtCommitBoundary
    BY <1>5, RollTakesNext DEF RollClaim
  <2>2. LogRows' = LogRows
    BY <2>1 DEF LogRows
  <2> QED BY <2>1, <2>2, DecidedKept DEF AtCommitBoundary
<1>6. CASE MarkReady
  <2>1. /\ pc = "mark_ready" /\ pc' \in {"deliver", "roll_create"}
        /\ home' = [home EXCEPT ![cur].status = "READY"] /\ UNCHANGED stage
    BY <1>6 DEF MarkReady
  <2>2. LastFateDecided(home[cur].rows)
    <3>1. LogRows = home[cur].rows
      BY <2>1 DEF LogRows, OrderInv, BufOrder
    <3> QED BY <2>1, <3>1 DEF DecidedInv
  <2>3. \A n \in Seg : home'[n].rows = home[n].rows /\ (n # cur => home'[n] = home[n])
    BY <1>1, <2>1 DEF Segment
  <2>4. \A n \in Seg : home'[n].status = "READY" => LastFateDecided(home'[n].rows)
    <3>1. SUFFICES ASSUME NEW n \in Seg, home'[n].status = "READY"
                   PROVE  LastFateDecided(home'[n].rows)
      OBVIOUS
    <3>2. CASE n = cur
      BY <2>2, <2>3, <3>2
    <3>3. CASE n # cur
      <4>1. home'[n] = home[n]
        BY <2>3, <3>3
      <4> QED BY <3>1, <4>1 DEF DecidedInv
    <3> QED BY <3>2, <3>3
  <2>5. \A n \in Seg : stage'[n].status = "READY" => LastFateDecided(stage'[n].rows)
    BY <2>1 DEF DecidedInv
  <2>6. \A n \in Seg : \A seg \in {home'[n], stage'[n]} :
          seg.status = "READY" => LastFateDecided(seg.rows)
    BY <2>4, <2>5
  <2> QED BY <2>1, <2>6 DEF DecidedInv
<1>7. CASE MoverCopies \/ MoverRemoves
  <2>1. pc' \notin {"finalize", "mark_ready"}
    BY <1>7 DEF MoverCopies, MoverRemoves
  <2>2. \A n \in Seg : stage'[n] = stage[n] \/ stage'[n] = home[n]
    BY <1>1, <1>7 DEF MoverCopies, MoverRemoves
  <2>3. \A n \in Seg : home'[n].status = "READY" => home'[n] = home[n]
    BY <1>1, <1>7 DEF MoverCopies, MoverRemoves, NoFile
  <2> QED BY <2>1, <2>2, <2>3, DecidedKept
<1>8. CASE UNCHANGED vars
  <2>1. UNCHANGED <<home, stage, pc, cur, buf>>
    BY <1>8 DEF vars, disk, memory
  <2>2. LogRows' = LogRows
    BY <2>1 DEF LogRows
  <2> QED BY <2>1, <2>2 DEF DecidedInv
<1> QED BY <1>2, <1>3, <1>4, <1>5, <1>6, <1>7, <1>8, NextSplits, DecidedAppend

LEMMA DecidedInit ==
  ASSUME Init
  PROVE  DecidedInv
BY DEF Init, DecidedInv, NoFile

LEMMA BoundInit ==
  ASSUME Init
  PROVE  NextBound
BY BoundsAssumption DEF Init, NextBound

LEMMA BoundStep ==
  ASSUME TypeInv, NextBound, [Next]_vars
  PROVE  NextBound'
<1>1. CASE AppendStep
  BY <1>1, AppendFrame, BoundsAssumption DEF NextBound
<1>2. CASE OpenDevice
  BY <1>2, ScanSucceeds DEF OpenDevice, OpenResolved, NextBound
<1>3. CASE UNCHANGED nextCommit
  BY <1>3 DEF NextBound
<1> QED BY <1>1, <1>2, <1>3, NextSplits
        DEF CreateFile, CreateSchema, OpenPersist, RollPersist, RollClaim, MarkReady,
            MoverCopies, MoverRemoves, vars, disk, memory

--------------------------------------------------------------------------------
(* The three promises                                                          *)

StreamInv ==
  /\ TypeInv /\ FateInv /\ ResumeInv /\ StageInv /\ CoverInv
  /\ GapInv /\ OrderInv /\ LoggedInv /\ DecidedInv /\ NextBound

LEMMA StreamInvInit ==
  ASSUME Init
  PROVE  StreamInv
BY TypeInvInit, FateInit, ResumeInit, StageInit, CoverInit, GapInit, OrderInit, LoggedInit,
   DecidedInit, BoundInit DEF StreamInv

LEMMA StreamInvStep ==
  ASSUME ~ ClockMayLag, ~ PersistMayFail, StreamInv, [Next]_vars
  PROVE  StreamInv'
<1> USE DEF StreamInv
<1>1. TypeInv'
  BY TypeInvStep
<1>2. FateInv'
  BY FateStep
<1>3. ResumeInv' /\ CoverInv' /\ GapInv'
  BY ResumeStep, CoverStep, GapStep
<1>4. StageInv'
  BY <1>1, StageStep
<1>5. OrderInv'
  BY <1>1, <1>2, OrderStep
<1>6. LoggedInv' /\ DecidedInv' /\ NextBound'
  BY LoggedStep, DecidedStep, BoundStep
<1> QED BY <1>1, <1>2, <1>3, <1>4, <1>5, <1>6

\* What is staged has a number that was persisted, so that all below it are held.
LEMMA GapIsHeld ==
  ASSUME StageInv, GapInv
  PROVE  GapIsHeldAtHome
<1> SUFFICES ASSUME NEW n \in OnStage, NEW m \in 0 .. (n - 1)
             PROVE  m \in OnStage \/ home[m].status = "READY"
  BY DEF GapIsHeldAtHome
<1>1. n \in Seg /\ m \in Seg /\ m < n
  BY BoundsAssumption DEF OnStage, Seg
<1>2. n <= persisted
  BY <1>1 DEF StageInv, StageShape, OnStage
<1>3. Held(m)
  BY <1>1, <1>2 DEF GapInv
<1> QED BY <1>1, <1>3 DEF Held, OnStage

\* What reached stage left no number behind, except one whose finalized segment still
\* waits in the device home.  This needs no clock: it holds where commit ids may repeat.
THEOREM NoGapInStage == ~ PersistMayFail => (Spec => []GapIsHeldAtHome)
<1> SUFFICES ASSUME ~ PersistMayFail PROVE Spec => []GapIsHeldAtHome
  OBVIOUS
<1> DEFINE I == TypeInv /\ StageInv /\ GapInv
<1>1. Init => I
  BY TypeInvInit, StageInit, GapInit
<1>2. I /\ [Next]_vars => I'
  BY TypeInvStep, StageStep, GapStep
<1>3. I => GapIsHeldAtHome
  BY GapIsHeld
<1> QED BY <1>1, <1>2, <1>3, PTL DEF Spec

\* The numbers of the segments give the order of the history: commit ids grow from
\* segment to segment, and what reached stage left no number behind, except one whose
\* finalized segment still waits in the device home.
THEOREM NumbersOrderHistory ==
  ~ ClockMayLag /\ ~ PersistMayFail => (Spec => []SegmentsInOrder)
<1> SUFFICES ASSUME ~ ClockMayLag /\ ~ PersistMayFail PROVE Spec => []SegmentsInOrder
  OBVIOUS
<1>1. Init => StreamInv
  BY StreamInvInit
<1>2. StreamInv /\ [Next]_vars => StreamInv'
  BY StreamInvStep
<1>3. StreamInv => SegmentsInOrder
  BY GapIsHeld DEF StreamInv, OrderInv, SegmentsInOrder
<1> QED BY <1>1, <1>2, <1>3, PTL DEF Spec

\* A commit id has its rows in one segment.
LEMMA OneSegmentPerCommit ==
  ASSUME TypeInv, CommitIdsGrow, NEW m \in Seg, NEW n \in Seg,
         NEW r \in RowsOf(m), NEW q \in RowsOf(n), r.cid = q.cid
  PROVE  m = n
<1>1. r.cid \in Int /\ m \in Int /\ n \in Int
  BY BoundsAssumption DEF TypeInv, TypeOK, Segment, Row, RowsOf, Seg
<1>2. \A i, j \in Seg : i < j => \A x \in RowsOf(i), y \in RowsOf(j) : x.cid < y.cid
  BY GrowthOfRows
<1>3. ~ (m < n) /\ ~ (n < m)
  BY <1>1, <1>2
<1> QED BY <1>1, <1>3

\* A finalized segment and its copy have the same rows.
LEMMA OneContent ==
  ASSUME TypeInv, StageInv, NEW n \in Seg, NEW seg \in {home[n], stage[n]},
         seg.status = "READY"
  PROVE  RowsOf(n) = seg.rows /\ home[n].status # "NEW"
BY DEF StageInv, StageShape, RowsOf, NoFile

\* A finalized segment is whole, at home and in stage: each transaction that committed
\* and has a row in it has its COMMIT and all its statements there, and the fate of its
\* last transaction is decided, so that the consolidator never waits at it.
THEOREM FinalizedIsWhole ==
  ~ ClockMayLag /\ ~ PersistMayFail => (Spec => []ReadyIsWhole)
<1> SUFFICES ASSUME ~ ClockMayLag /\ ~ PersistMayFail PROVE Spec => []ReadyIsWhole
  OBVIOUS
<1>1. Init => StreamInv
  BY StreamInvInit
<1>2. StreamInv /\ [Next]_vars => StreamInv'
  BY StreamInvStep
<1>3. StreamInv => ReadyIsWhole
  <2> SUFFICES ASSUME StreamInv, NEW n \in Seg, NEW seg \in {home[n], stage[n]},
                      seg.status = "READY"
               PROVE  /\ LastTxnFateDecided(seg.rows, {})
                      /\ \A c \in CommitIds(seg.rows) \intersect db.done :
                           /\ Has(seg.rows, c, "COMMIT")
                           /\ \A e \in db.effects : e.cid = c => e \in seg.rows
    BY DEF ReadyIsWhole
  <2> USE DEF StreamInv
  <2>1. LastTxnFateDecided(seg.rows, {})
    BY DEF DecidedInv, LastTxnFateDecided
  <2>2. RowsOf(n) = seg.rows /\ home[n].status # "NEW"
    BY OneContent
  <2>3. ASSUME NEW c \in CommitIds(seg.rows), NEW q \in DurableRows, q.cid = c
        PROVE  q \in seg.rows
    <3>1. PICK r \in RowsOf(n) : r.cid = c
      BY <2>2 DEF CommitIds
    <3>2. PICK m \in Seg : q \in RowsOf(m)
      BY DEF DurableRows, RowsOf
    <3>3. m = n
      BY <2>3, <3>1, <3>2, OneSegmentPerCommit DEF OrderInv
    <3> QED BY <2>2, <3>2, <3>3
  <2>4. ASSUME NEW c \in CommitIds(seg.rows) \intersect db.done
        PROVE  Has(DurableRows, c, "COMMIT")
    <3>1. CASE c # db.commitId
      BY <3>1 DEF LoggedInv
    <3>2. CASE c = db.commitId /\ ~ Has(DurableRows, c, "COMMIT")
      <4>1. InDoubt
        BY <3>2 DEF LoggedInv
      <4>2. PICK m \in Seg : home[m].status = "NEW" /\ c \in CommitIds(home[m].rows)
        BY <3>2, <4>1 DEF InDoubt
      <4>3. PICK q \in RowsOf(m) : q.cid = c
        BY <4>2 DEF CommitIds, RowsOf
      <4>4. PICK r \in RowsOf(n) : r.cid = c
        BY <2>2 DEF CommitIds
      <4>5. m = n
        BY <4>3, <4>4, OneSegmentPerCommit DEF OrderInv
      <4> QED BY <2>2, <4>2, <4>5
    <3> QED BY <3>1, <3>2
  <2>5. ASSUME NEW c \in CommitIds(seg.rows) \intersect db.done
        PROVE  /\ Has(seg.rows, c, "COMMIT")
               /\ \A e \in db.effects : e.cid = c => e \in seg.rows
    <3>1. PICK q \in DurableRows : q.cid = c /\ q.kind = "COMMIT"
      BY <2>4 DEF Has
    <3>2. q \in seg.rows
      BY <2>3, <3>1
    <3>3. \A e \in db.effects : e \in DurableRows
      BY DEF CoverInv, LogCoversDb
    <3> QED BY <2>3, <3>1, <3>2, <3>3 DEF Has
  <2> QED BY <2>1, <2>5
<1> QED BY <1>1, <1>2, <1>3, PTL DEF Spec

--------------------------------------------------------------------------------
(* SqliteDevice implements CommitStream                                        *)

\* A commit whose COMMIT row is in stage is one of the database.
LEMMA PublishedCommitted ==
  ASSUME StreamInv
  PROVE  Published \subseteq db.done
<1> SUFFICES ASSUME NEW n \in Readable, NEW c \in CommittedIds(stage[n].rows)
             PROVE  c \in db.done
  BY DEF Published
<1>1. n \in Seg /\ Has(stage[n].rows, c, "COMMIT")
  BY DEF Readable, CommittedIds, FateOf
<1>2. PICK r \in DurableRows : r.cid = c /\ r.kind = "COMMIT"
  BY <1>1 DEF Has, DurableRows
<1> QED BY <1>2 DEF StreamInv, FateInv, FateIsTrue

\* A commit that has a row in a readable segment, or in one below, is published as soon
\* as it has its COMMIT row there.
LEMMA ReadableBelow ==
  ASSUME StreamInv, NEW n \in Readable, NEW m \in Seg, m <= n,
         NEW r \in RowsOf(m), r.kind = "COMMIT"
  PROVE  r.cid \in Published
<1>1. n \in Seg /\ n \in Int /\ m \in Int /\ \A k \in 0 .. n : k \in OnStage
  BY BoundsAssumption DEF Readable, Seg
<1>2. m \in Readable
  BY <1>1, BoundsAssumption DEF Readable, Seg
<1>3. stage[m].status # "absent"
  BY <1>1, BoundsAssumption DEF OnStage, Seg
<1>4. r \in stage[m].rows
  BY <1>3 DEF StreamInv, StageInv, StageShape, RowsOf, NoFile
<1>5. r.cid \in CommittedIds(stage[m].rows)
  BY <1>4 DEF CommittedIds, CommitIds, FateOf, Has
<1> QED BY <1>2, <1>5 DEF Published

\* What is published is a prefix of what the database committed.
LEMMA PublishedIsPrefix ==
  ASSUME StreamInv
  PROVE  Stream!PrefixOf(Published, db.done)
<1> USE DEF StreamInv
<1>1. Published \subseteq db.done
  BY PublishedCommitted
<1> SUFFICES ASSUME NEW c \in db.done \ Published, NEW d \in Published PROVE d < c
  BY <1>1 DEF Stream!PrefixOf
<1>2. c \in Nat /\ d \in Nat /\ d \in db.done
  BY <1>1 DEF TypeInv, TypeOK
<1>3. PICK n \in Readable : d \in CommittedIds(stage[n].rows)
  BY DEF Published
<1>4. PICK q \in stage[n].rows : q.cid = d
  BY <1>3 DEF CommittedIds, CommitIds
<1>5. n \in Seg /\ n \in Int /\ q \in RowsOf(n)
  BY <1>4, BoundsAssumption DEF Readable, RowsOf, Seg
<1>6. CASE Has(DurableRows, c, "COMMIT")
  <2>1. PICK r \in DurableRows : r.cid = c /\ r.kind = "COMMIT"
    BY <1>6 DEF Has
  <2>2. PICK m \in Seg : r \in RowsOf(m)
    BY DEF DurableRows, RowsOf
  <2>3. ~ (m <= n)
    BY <2>1, <2>2, ReadableBelow
  <2>4. n < m
    BY <1>5, <2>3, BoundsAssumption DEF Seg
  <2>5. \A i, j \in Seg : i < j => \A x \in RowsOf(i), y \in RowsOf(j) : x.cid < y.cid
    BY GrowthOfRows DEF OrderInv
  <2> QED BY <1>4, <1>5, <2>1, <2>2, <2>4, <2>5
<1>7. CASE ~ Has(DurableRows, c, "COMMIT")
  <2>1. c = db.commitId
    BY <1>7 DEF LoggedInv
  <2>2. d <= c /\ d # c
    BY <1>2, <2>1 DEF FateInv, DbShape
  <2> QED BY <1>2, <2>2
<1> QED BY <1>6, <1>7

\* A segment that reaches stage makes a longer prefix visible.
LEMMA PublishedGrows ==
  ASSUME StreamInv, StreamInv', [Next]_vars
  PROVE  Stream!PrefixOf(Published, Published')
<1> USE DEF StreamInv
<1>1. \A n \in Seg : stage[n].status # "absent" => stage'[n] = stage[n]
  BY FrozenStep DEF StagedIsFrozen
<1>2. \A n \in Readable : n \in Readable' /\ stage'[n] = stage[n]
  <2>1. \A n \in Readable : n \in OnStage /\ n \in Seg
    BY BoundsAssumption DEF Readable, Seg
  <2>2. OnStage \subseteq OnStage'
    BY <1>1 DEF OnStage, Seg
  <2> QED BY <1>1, <2>1, <2>2 DEF Readable, OnStage, Seg
<1>3. Published \subseteq Published'
  BY <1>2 DEF Published
<1> SUFFICES ASSUME NEW c \in Published' \ Published, NEW d \in Published PROVE d < c
  BY <1>3 DEF Stream!PrefixOf
<1>4. PICK n \in Readable : d \in CommittedIds(stage[n].rows)
  BY DEF Published
<1>5. PICK k \in Readable' : c \in CommittedIds(stage'[k].rows)
  BY DEF Published
<1>6. k \in Seg /\ n \in Seg /\ k \in Int /\ n \in Int
  BY BoundsAssumption DEF Readable, Seg
<1>7. ~ (k <= n)
  <2>1. SUFFICES ASSUME k <= n PROVE FALSE
    OBVIOUS
  <2>2. k \in Readable
    BY <1>6, <2>1, BoundsAssumption DEF Readable, Seg
  <2>3. c \in Published
    BY <1>2, <1>5, <2>2 DEF Published
  <2> QED BY <2>3
<1>8. PICK q \in stage[n].rows : q.cid = d
  BY <1>4 DEF CommittedIds, CommitIds
<1>9. PICK r \in stage'[k].rows : r.cid = c
  BY <1>5 DEF CommittedIds, CommitIds
<1>10. q \in RowsOf(n)' /\ r \in RowsOf(k)'
  BY <1>2, <1>8, <1>9 DEF RowsOf
<1>11. n < k
  BY <1>6, <1>7
<1>12. \A i, j \in Seg : i < j => \A x \in RowsOf(i)', y \in RowsOf(j)' : x.cid < y.cid
  BY GrowthOfRows DEF OrderInv
<1> QED BY <1>6, <1>8, <1>9, <1>10, <1>11, <1>12

\* Only the COMMIT of the user database changes what it holds.
LEMMA OnlyCommitDbCommits ==
  ASSUME Next, ~ CommitDb
  PROVE  UNCHANGED db
<1>1. CASE OpenDevice \/ RecoverInDoubtTxn \/ OpenFlush \/ CommitRow \/ CommitDone
  BY <1>1 DEF OpenDevice, OpenResolved, RecoverInDoubtTxn, OpenFlush, CommitRow, FateRow,
              CommitDone, EndTxn, disk
<1>2. CASE ~ OpenDevice /\ ~ RecoverInDoubtTxn /\ ~ OpenFlush /\ ~ CommitRow /\ ~ CommitDone
  BY <1>2, LoggedFrame
<1> QED BY <1>1, <1>2

\* Each step of the device is one of the stream or leaves it alone.
LEMMA StreamStep ==
  ASSUME StreamInv, StreamInv', [Next]_vars
  PROVE  [Stream!StreamNext]_(Stream!streamVars)
<1>1. CASE CommitDb
  <2>1. /\ pc = "commit_db" /\ db'.done = db.done \union {nextCommit} /\ UNCHANGED stage
    BY <1>1 DEF CommitDb
  <2>2. /\ nextCommit \in 1 .. MaxCommitId /\ nextCommit # 0
        /\ \A d \in db.done : d < nextCommit
    <3>1. db.commitId \in Nat /\ nextCommit \in Nat /\ db.commitId < nextCommit
          /\ \A d \in db.done : d \in Nat /\ d <= db.commitId
      BY <2>1 DEF StreamInv, FateInv, DbFresh, DbShape, TypeInv, TypeOK, Down
    <3> QED BY <3>1, BoundsAssumption DEF StreamInv, NextBound
  <2>3. Published' = Published
    BY <2>1 DEF Published, Readable, OnStage, Seg
  <2>4. Stream!CommitTxn
    BY <2>1, <2>2, <2>3 DEF Stream!CommitTxn
  <2> QED BY <2>4 DEF Stream!StreamNext
<1>2. CASE MoverCopies
  <2>1. UNCHANGED db
    BY <1>2 DEF MoverCopies
  <2>2. Published' \subseteq db.done
    <3>1. (Published \subseteq db.done)'
      BY PublishedCommitted, PTL
    <3> QED BY <2>1, <3>1
  <2>3. Stream!PrefixOf(Published, Published')
    BY PublishedGrows
  <2>4. Stream!PrefixOf(Published', db.done)
    <3>1. Stream!PrefixOf(Published, db.done)'
      BY PublishedIsPrefix, PTL
    <3> QED BY <2>1, <3>1 DEF Stream!PrefixOf
  <2>5. Stream!Publish
    BY <2>1, <2>2, <2>3, <2>4 DEF Stream!Publish
  <2> QED BY <2>5 DEF Stream!StreamNext
<1>3. CASE Next /\ ~ CommitDb /\ ~ MoverCopies
  <2>1. UNCHANGED <<db, stage>>
    BY <1>3, OnlyCommitDbCommits, OnlyMoverStages
  <2>2. Published' = Published
    BY <2>1 DEF Published, Readable, OnStage, Seg
  <2> QED BY <2>1, <2>2 DEF Stream!streamVars
<1>4. CASE UNCHANGED vars
  <2>1. UNCHANGED <<db, stage>>
    BY <1>4 DEF vars, disk
  <2>2. Published' = Published
    BY <2>1 DEF Published, Readable, OnStage, Seg
  <2> QED BY <2>1, <2>2 DEF Stream!streamVars
<1> QED BY <1>1, <1>2, <1>3, <1>4

\* The device implements CommitStream: whoever takes the staged segments by number and
\* waits for a missing one is given, at any time and across crashes, some prefix of the
\* history of commits, which only grows.
THEOREM DeviceImplementsStream ==
  ~ ClockMayLag /\ ~ PersistMayFail => (Spec => StreamSpec)
<1> SUFFICES ASSUME ~ ClockMayLag /\ ~ PersistMayFail PROVE Spec => StreamSpec
  OBVIOUS
<1>1. Init => StreamInv
  BY StreamInvInit
<1>2. StreamInv /\ [Next]_vars => StreamInv'
  BY StreamInvStep
<1>3. Init => Stream!StreamInit
  <2>1. SUFFICES ASSUME Init PROVE Published = {} /\ db.done = {}
    BY DEF Stream!StreamInit
  <2>2. \A n \in Readable : stage[n].rows = {}
    BY <2>1, BoundsAssumption DEF Init, NoFile, Readable, Seg
  <2>3. \A n \in Readable : CommittedIds(stage[n].rows) = {}
    BY <2>2 DEF CommittedIds, CommitIds
  <2> QED BY <2>1, <2>3 DEF Published, Init
<1>4. StreamInv /\ StreamInv' /\ [Next]_vars => [Stream!StreamNext]_(Stream!streamVars)
  BY StreamStep
<1> QED BY <1>1, <1>2, <1>3, <1>4, PTL DEF Spec, StreamSpec, Stream!StreamSpec

===============================================================================
