------------------------- MODULE DeviceLifecycleProofs -------------------------
(***************************************************************************)
(* A device is seeded once: whatever is opened, paused, interrupted and    *)
(* reinitialized, the checkpoint at the destination never goes back, what  *)
(* the worker takes to be initialized is, and, where a reinitialize or the *)
(* copy after it can be relied on, the destination has each row once.      *)
(*                                                                         *)
(* On top of the types, ShapeInv relates the home, the stage directory and *)
(* the steps of application and worker: what is staged is the backup at    *)
(* home, the segments after it carry newer rows and commits, and nobody    *)
(* works while a reinitialize removes files.  CkptInv says what the        *)
(* checkpoint stands for, BackedInv what was written before a worker takes *)
(* the device to be initialized.  RowsInv and RepeatInv count the rows,    *)
(* for copies that are made once, and for those that can be made again.    *)
(***************************************************************************)
EXTENDS DeviceLifecycle, SequenceTheorems, FiniteSetTheorems, TLAPS

--------------------------------------------------------------------------------
(* Types                                                                       *)

NRows == Cardinality(Rows)

AppPcs == {"closed", "backup", "stage", "spawn", "session",
           "stopping", "cleaning", "unstaging", "unworking", "unhoming"}
WorkerPcs == {"off", "start", "idle", "exit", "mirror", "mark", "seed", "record", "complete",
  "publish"}

Modes == {l.init : l \in Layouts} \union {"none", "OVERWRITE_OBJECT"}

BackupType == [is : {"none", "empty", "torn", "whole"}, rows : SUBSET Rows, base : Nat]
Segment == [row : Rows, commit : Nat]
SrcType == [rows : SUBSET Rows, commit : Nat]
HomeType == [meta : BOOLEAN, taken : BOOLEAN, backup : BackupType, sentinel : BOOLEAN,
  paused : BOOLEAN]
StageType == [backup : BackupType, meta : BOOLEAN, segs : Seq(Segment)]
StateType == [init : BOOLEAN, cleaned : Nat]
WorkType == [replica : {"none", "empty", "torn", "whole"}, table : Statuses, complete : BOOLEAN,
  next : Nat]
CkptType == [commit : Nat, upto : Nat, init : BOOLEAN, there : BOOLEAN]
DstType == [rows : [Rows -> Nat], others : Nat, ckpt : CkptType, marker : SUBSET Nat,
            table : Statuses, complete : BOOLEAN]
WorkerType == [pc : WorkerPcs, boot : BOOLEAN, mode : Modes, asked : Modes, later : Modes,
               pending : BOOLEAN, final : BOOLEAN, stopping : BOOLEAN, retiring : BOOLEAN]
Message == [to : {"boot", "shutdown"}] \union [to : {"update"}, mode : Modes]
AppType == [pc : AppPcs, kind : {"none", "initialize", "session"}, mode : Modes, reinits : Nat,
            half : BOOLEAN]

FileTypes == src \in SrcType /\ home \in HomeType /\ stage \in StageType
  /\ state \in StateType /\ work \in WorkType
ThreadTypes == worker \in WorkerType /\ inbox \in Seq(Message) /\ app \in AppType
TypeInv == layout \in Layouts /\ FileTypes /\ dst \in DstType /\ ThreadTypes /\ deaths \in Nat

--------------------------------------------------------------------------------
(* Files and steps                                                             *)

Removing == {"unstaging", "unworking", "unhoming"}

\* The rows of the source are numbered as they come.
SrcShape == src.rows = 1 .. Cardinality(src.rows) /\ src.commit <= Cardinality(src.rows)

\* The backup in the stage directory is that at home, or a file without a byte.
HomeShape ==
  /\ home.backup.is \in {"none", "whole"} /\ (home.taken <=> home.backup.is = "whole")
  /\ home.backup.rows \subseteq src.rows /\ home.backup.base <= src.commit
StagedBackup ==
  IF stage.backup.is = "none" THEN stage.backup = NoBackup /\ stage.segs = <<>>
  ELSE /\ home.taken
       /\ IF stage.backup.is = "empty" THEN stage.backup = EmptyFile
          ELSE stage.backup.rows = home.backup.rows /\ stage.backup.base = home.backup.base

\* The segments follow it, each with a row and a commit of its own.
SegShape ==
  /\ Len(stage.segs) <= src.commit
  /\ \A i \in DOMAIN stage.segs :
       /\ stage.segs[i].row \in src.rows \ stage.backup.rows
       /\ stage.backup.base < stage.segs[i].commit /\ stage.segs[i].commit <= src.commit
       /\ \A j \in DOMAIN stage.segs :
            i < j => stage.segs[i].row # stage.segs[j].row
              /\ stage.segs[i].commit < stage.segs[j].commit

\* How far the application has come, and who may be at work
AppShape ==
  /\ app.pc = "stage" => home.taken
  /\ app.pc \in {"spawn", "session"} => stage.backup.is # "none"
  /\ app.pc \in {"cleaning"} \union Removing => worker.pc = "off"
  /\ app.pc \in Removing => app.half /\ dst.ckpt = NoRow /\ dst.marker = {}
  /\ app.pc \in {"unworking", "unhoming"} => stage = NewStage
  /\ app.pc = "unhoming" => work = NewWork /\ (Local => state = NewState)
  /\ app.reinits <= layout.reinits
  /\ app.pc \in {"stopping", "cleaning"} \union Removing => app.reinits >= 1
  /\ app.half /\ layout.deaths = 0 => app.pc \in Removing

InboxShape ==
  /\ worker.pc = "off" => worker = Off /\ inbox = <<>>
  /\ app.pc \in {"backup", "stage", "spawn"} => Len(inbox) + 2 <= MaxInbox
  /\ Len(inbox) <= MaxInbox + app.reinits

\* What the worker knows of its own database
WorkerShape ==
  /\ worker.boot => state.init
  /\ worker.pc \in {"idle", "mirror"} => (worker.boot <=> state.init)
  /\ worker.pc \in {"mark", "seed", "record", "complete", "publish"} => ~ state.init
  /\ state.cleaned <= src.commit /\ work.next <= src.commit
  /\ state.cleaned > 0 => state.init
  /\ Local /\ work.next > 0 => state.init

ShapeInv == SrcShape /\ HomeShape /\ StagedBackup /\ SegShape /\ AppShape /\ InboxShape
  /\ WorkerShape

--------------------------------------------------------------------------------
(* The checkpoint                                                              *)

\* It covers the snapshot, or the segments up to one with their last commit; what else the
\* worker remembers of segments is not ahead of it.
CkptInv ==
  IF ~ dst.ckpt.there THEN dst.ckpt = NoRow /\ dst.marker = {}
  ELSE /\ dst.ckpt.upto <= Len(stage.segs)
       /\ IF dst.ckpt.upto = 0 THEN dst.ckpt.commit <= stage.backup.base
          ELSE dst.ckpt.init /\ dst.ckpt.commit = stage.segs[dst.ckpt.upto].commit
       /\ state.cleaned <= dst.ckpt.upto
       /\ Local /\ layout.device = "store" => work.next = dst.ckpt.upto
       /\ dst.marker # {} => /\ dst.ckpt.init /\ dst.ckpt.commit >= stage.backup.base
                            /\ stage.backup.is # "none"

--------------------------------------------------------------------------------
(* What was written before                                                     *)

\* The worker's own database goes when the device is taken back.
Resets == Local \/ layout.reinits = 0

BackedInv ==
  /\ dst.marker # {} /\ HasTable(stage.backup) => dst.table = "INITIALIZED"
  /\ layout.reinits = 0 => ~ app.half
  /\ ~ app.half =>
       /\ dst.ckpt.init => dst.marker # {}
       /\ state.init \/ worker.pc \in {"record", "complete", "publish"} => dst.marker # {}
       /\ state.init \/ worker.pc \in {"complete", "publish"} =>
            (Local /\ HasTable(stage.backup) => work.table = "INITIALIZED")
       /\ state.init \/ worker.pc = "publish" => IF Local THEN work.complete ELSE dst.complete

--------------------------------------------------------------------------------
(* The rows                                                                    *)

\* A reinitialize that is not interrupted, and not followed by one that fails
Reliable == layout.reinits = 0 \/ (Local /\ layout.reinits = 1 /\ layout.deaths = 0)

Blank == \A r \in Rows : dst.rows[r] = 0

\* A worker that has been told to delete the rows, and nobody stops it.
ToOverwrite ==
  /\ worker.pc \notin {"off", "exit"} /\ worker.mode = "OVERWRITE_OBJECT"
  /\ ~ worker.stopping /\ ~ worker.final /\ ~ worker.retiring
  /\ \A i \in DOMAIN inbox : inbox[i].to # "shutdown"
  /\ app.pc \notin {"stopping", "cleaning"} \union Removing

\* The rows of an earlier life are on their way to be deleted.
Overwriting ==
  /\ app.reinits = 1 /\ layout.reinits = 1
  /\ \/ app.pc \in Removing
     \/ app.pc = "closed" /\ worker.pc = "off" /\ home.sentinel /\ ~ home.taken
     \/ app.pc \in {"backup", "stage", "spawn"} /\ worker.pc = "off"
        /\ app.mode = "OVERWRITE_OBJECT"
     \/ ToOverwrite

\* The rows of the backup and of the segments that the checkpoint covers
Sent == stage.backup.rows \union {stage.segs[i].row : i \in 1 .. dst.ckpt.upto}

Exact == \A r \in Rows : dst.rows[r] = IF r \in Sent THEN 1 ELSE 0

\* An empty copy of the backup brings no row, and deletes none.
RowsInv == IF dst.marker = {} THEN Blank \/ Overwriting ELSE HasTable(stage.backup) => Exact

\* A copy that can be made again: it deletes what is there, or replaces it by key.
Repeatable == Local /\ (layout.keyed \/ EmitsTruncate(layout.init))

\* Whoever asks for a copy has it begin with a deletion.
ModesTruncate ==
  /\ app.pc \in {"backup", "stage", "spawn"} => EmitsTruncate(app.mode)
  /\ worker.pc # "off" => EmitsTruncate(worker.mode)
  /\ worker.later # "none" => EmitsTruncate(worker.later)
  /\ \A i \in DOMAIN inbox : inbox[i].to = "update" => EmitsTruncate(inbox[i].mode)

\* What an earlier life has left is in the backup of the next one.
KeyedRows ==
  /\ \A r \in Rows : dst.rows[r] \in {0, 1} /\ (dst.rows[r] = 1 => r \in src.rows)
  /\ ~ app.half /\ dst.marker = {} /\ home.taken =>
       \A r \in Rows : dst.rows[r] = 1 => r \in home.backup.rows

RepeatInv ==
  /\ ~ app.half /\ dst.marker # {} /\ HasTable(stage.backup) => Exact
  /\ layout.keyed => KeyedRows
  /\ EmitsTruncate(layout.init) => ModesTruncate

IInv ==
  /\ TypeInv /\ ShapeInv /\ CkptInv /\ OthersKept
  /\ Resets => BackedInv
  /\ Reliable => RowsInv
  /\ Repeatable => RepeatInv

--------------------------------------------------------------------------------
(* The destination                                                             *)

\* A checkpoint that a snapshot or a segment leaves
Ckpt(commit, upto) == [commit |-> commit, upto |-> upto, init |-> TRUE, there |-> TRUE]

LEMMA CkptIs ==
  ASSUME NEW commit \in Nat, NEW upto \in Nat
  PROVE  /\ Ckpt(commit, upto) \in CkptType /\ Ckpt(commit, upto).commit = commit
         /\ Ckpt(commit, upto).upto = upto /\ Ckpt(commit, upto).init /\ Ckpt(commit, upto).there
BY DEF Ckpt, CkptType

LEMMA SameCkpt ==
  ASSUME NEW a \in CkptType, NEW b \in CkptType,
         a.commit = b.commit, a.upto = b.upto, a.init = b.init, a.there = b.there
  PROVE  a = b
BY DEF CkptType

LEMMA SeededIs ==
  ASSUME NEW d \in DstType
  PROVE  /\ Seeded(d) \in DstType
         /\ Seeded(d).rows = d.rows /\ Seeded(d).others = d.others /\ Seeded(d).marker = d.marker
         /\ Seeded(d).table = d.table /\ Seeded(d).complete = d.complete
         /\ Seeded(d).ckpt = IF d.ckpt.there THEN d.ckpt
                             ELSE [commit |-> 0, upto |-> 0, init |-> FALSE, there |-> TRUE]
<1> DEFINE k == [commit |-> 0, upto |-> 0, init |-> FALSE, there |-> TRUE]
<1>1. k \in CkptType /\ k = [NoRow EXCEPT !.there = TRUE]
  <2>1. k \in CkptType
    BY DEF CkptType
  <2>2. NoRow \in CkptType
    BY DEF CkptType, NoRow
  <2> DEFINE h == [NoRow EXCEPT !.there = TRUE]
  <2>3. h \in CkptType /\ h.commit = 0 /\ h.upto = 0 /\ h.init = FALSE /\ h.there = TRUE
    BY <2>2 DEF CkptType, NoRow
  <2>4. k.commit = 0 /\ k.upto = 0 /\ k.init = FALSE /\ k.there = TRUE
    OBVIOUS
  <2> HIDE DEF h, k
  <2>5. h = k
    BY <2>1, <2>3, <2>4, SameCkpt
  <2> QED BY <2>1, <2>5 DEF h
<1>2. CASE d.ckpt.there
  BY <1>2 DEF Seeded
<1>3. CASE ~ d.ckpt.there
  <2>1. Seeded(d) = [d EXCEPT !.ckpt = k]
    BY <1>1, <1>3 DEF Seeded
  <2> HIDE DEF k
  <2>2. /\ Seeded(d) \in DstType /\ Seeded(d).ckpt = k
        /\ Seeded(d).rows = d.rows /\ Seeded(d).others = d.others /\ Seeded(d).marker = d.marker
        /\ Seeded(d).table = d.table /\ Seeded(d).complete = d.complete
    BY <1>1, <2>1 DEF DstType
  <2> QED BY <1>3, <2>2 DEF k
<1> QED BY <1>2, <1>3

LEMMA SeededApartIs ==
  ASSUME NEW l, NEW d \in DstType
  PROVE  /\ SeededApart(l, d) \in {d, Seeded(d)}
         /\ SeededApart(l, d) \in DstType
BY SeededIs DEF SeededApart

\* What the copy of a backup starts from, and what it makes of it
RowsLeft(mode, d) == IF EmitsTruncate(mode) THEN [r \in Rows |-> 0] ELSE d.rows

LEMMA ClearedIs ==
  ASSUME NEW l, NEW mode, NEW d \in DstType
  PROVE  LET e == Cleared(l, mode, d)
         IN  /\ e \in DstType /\ e.rows = RowsLeft(mode, d)
             /\ e.marker = d.marker /\ e.table = d.table /\ e.complete = d.complete
                /\ e.ckpt = d.ckpt
             /\ (l.mode = "consolidation" => e.others = d.others)
BY DEF Cleared, DeviceRowsDeleted, Dropped, RowsLeft, DstType

\* The table in e is what backup b makes of that in d: nothing else, if it has none.
TableFrom(l, mode, d, b, e) ==
  IF HasTable(b)
  THEN /\ e.table = "INITIALIZED"
       /\ \A r \in Rows : e.rows[r] = IF r \in b.rows THEN InsertRow(l, RowsLeft(mode, d)[r])
                                     ELSE RowsLeft(mode, d)[r]
  ELSE e.table = d.table /\ e.rows = d.rows

\* The destination e is what the copy of backup b makes of d.
IsCopy(l, mode, d, b, e) ==
  /\ e \in DstType
  /\ e.marker = {b.base} /\ e.complete = d.complete
  /\ e.ckpt = Ckpt(b.base, 0)
  /\ l.mode = "consolidation" => e.others = d.others
  /\ TableFrom(l, mode, d, b, e)

LEMMA CopiedIs ==
  ASSUME NEW l, NEW mode, NEW d \in DstType, NEW b \in BackupType, b.base \notin d.marker
  PROVE  IsCopy(l, mode, d, b, CopySnapshot(l, mode, d, b))
<1> DEFINE s == Seeded(d)
           m == TableMarked(s, "INITIALIZING")
           c == Cleared(l, mode, m)
           r0 == RowsCopied(l, c, b)
           t0 == TableMarked(r0, "INITIALIZED")
           t == IF HasTable(b) THEN t0 ELSE s
           e == [t EXCEPT !.ckpt = Ckpt(b.base, 0),
                          !.marker = {b.base}]
<1>1. /\ s \in DstType /\ s.rows = d.rows /\ s.others = d.others /\ s.complete = d.complete
      /\ s.table = d.table
  BY SeededIs
<1> HIDE DEF s
<1>2. /\ m \in DstType /\ m.rows = d.rows /\ m.others = d.others /\ m.complete = d.complete
  BY <1>1 DEF TableMarked, DstType, Statuses
<1> HIDE DEF m
<1>3. /\ c \in DstType /\ c.rows = RowsLeft(mode, d) /\ c.complete = d.complete
      /\ l.mode = "consolidation" => c.others = d.others
  BY <1>2, ClearedIs DEF RowsLeft
<1> HIDE DEF c
<1>4. /\ r0 \in DstType /\ r0.complete = d.complete /\ r0.others = c.others
      /\ \A r \in Rows : r0.rows[r] = IF r \in b.rows THEN InsertRow(l, c.rows[r]) ELSE c.rows[r]
  BY <1>3 DEF RowsCopied, DstType, InsertRow
<1> HIDE DEF r0
<1>5. /\ t0 \in DstType /\ t0.complete = d.complete /\ t0.others = c.others /\ t0.rows = r0.rows
      /\ t0.table = "INITIALIZED"
  BY <1>4 DEF TableMarked, DstType, Statuses
<1> HIDE DEF t0
<1>10. /\ t \in DstType /\ t.complete = d.complete /\ (l.mode = "consolidation"
          => t.others = d.others)
       /\ IF HasTable(b) THEN t.rows = r0.rows /\ t.table = "INITIALIZED"
          ELSE t.rows = d.rows /\ t.table = d.table
  BY <1>1, <1>3, <1>4, <1>5
<1> HIDE DEF t
<1>6. b.base \in Nat
  BY DEF BackupType
<1>7. /\ e \in DstType /\ e.complete = d.complete /\ e.others = t.others /\ e.rows = t.rows
      /\ e.table = t.table /\ e.marker = {b.base}
      /\ e.ckpt = Ckpt(b.base, 0)
  BY <1>6, <1>10, CkptIs DEF DstType
<1>8. CopySnapshot(l, mode, d, b) = e
  BY DEF CopySnapshot, TableCopied, Ckpt, e, t, t0, r0, c, m, s
<1> HIDE DEF e
<1>9. IsCopy(l, mode, d, b, e)
  BY <1>3, <1>4, <1>7, <1>10 DEF IsCopy, TableFrom
<1> QED BY <1>8, <1>9

\* The destination e is what segment seg, number n, makes of d.
IsApplied(l, d, n, seg, e) ==
  /\ e \in DstType
  /\ e.marker = d.marker /\ e.table = d.table /\ e.complete = d.complete
  /\ e.others = d.others /\ e.ckpt = Ckpt(seg.commit, n + 1)
  /\ \A r \in Rows : e.rows[r] = IF r = seg.row THEN InsertRow(l, d.rows[r]) ELSE d.rows[r]

LEMMA AppliedIs ==
  ASSUME NEW l, NEW d \in DstType, NEW n \in Nat, NEW seg \in Segment
  PROVE  IsApplied(l, d, n, seg, SegmentApplied(l, d, n, seg))
<1> DEFINE s == Seeded(d)
           q == [s.rows EXCEPT ![seg.row] = InsertRow(l, @)]
           k == Ckpt(seg.commit, n + 1)
           e == [s EXCEPT !.rows = q, !.ckpt = k]
<1>1. /\ s \in DstType /\ s.rows = d.rows /\ s.others = d.others /\ s.marker = d.marker
      /\ s.table = d.table /\ s.complete = d.complete /\ s.ckpt.there
  BY SeededIs
<1>2. seg.row \in Rows /\ seg.commit \in Nat
  BY DEF Segment
<1>3. SegmentApplied(l, d, n, seg) = e
  <2> DEFINE u == [s EXCEPT !.rows[seg.row] = InsertRow(l, @), !.ckpt.commit = seg.commit,
        !.ckpt.upto = n + 1]
             j == [s.ckpt EXCEPT !.commit = seg.commit, !.upto = n + 1]
  <2>1. SegmentApplied(l, d, n, seg) = [u EXCEPT !.ckpt.init = TRUE]
    BY DEF SegmentApplied, Synced
  <2>2. u = [s EXCEPT !.rows = q, !.ckpt = j]
    BY <1>1 DEF DstType
  <2>3. s.ckpt \in CkptType
    BY <1>1 DEF DstType
  <2>4. [j EXCEPT !.init = TRUE] = k
    <3> DEFINE c == s.ckpt
               m == n + 1
               jj == [c EXCEPT !.commit = seg.commit, !.upto = m]
               h == [jj EXCEPT !.init = TRUE]
    <3>0. c \in CkptType /\ c.there = TRUE /\ m \in Nat
      BY <1>1, <2>3 DEF CkptType
    <3> HIDE DEF c, m
    <3>1. /\ h \in CkptType /\ h.commit = seg.commit /\ h.upto = m /\ h.init = TRUE
             /\ h.there = TRUE
      BY <1>2, <3>0 DEF CkptType
    <3>2. k \in CkptType /\ k.commit = seg.commit /\ k.upto = n + 1 /\ k.init = TRUE
            /\ k.there = TRUE
      BY <1>2 DEF CkptType, Ckpt
    <3> HIDE DEF h, k
    <3>3. h = k
      BY <3>1, <3>2, SameCkpt DEF m
    <3> QED BY <3>3 DEF h, c, m
  <2> HIDE DEF q, j, k, s
  <2>5. u.ckpt = j
    BY <1>1, <2>2 DEF DstType
  <2>6. [u EXCEPT !.ckpt.init = TRUE] = [u EXCEPT !.ckpt = k]
    BY <2>4, <2>5
  <2> HIDE DEF u
  <2>7. [u EXCEPT !.ckpt = k] = e
    BY <1>1, <2>2 DEF DstType
  <2> QED BY <2>1, <2>6, <2>7
<1> HIDE DEF s
<1>4. /\ q \in [Rows -> Nat]
      /\ \A r \in Rows : q[r] = IF r = seg.row THEN InsertRow(l, d.rows[r]) ELSE d.rows[r]
  BY <1>1, <1>2 DEF DstType, InsertRow
<1>5. k \in CkptType
  BY <1>2, CkptIs
<1> HIDE DEF q, k
<1>6. /\ e \in DstType /\ e.rows = q /\ e.ckpt = k /\ e.marker = s.marker /\ e.table = s.table
      /\ e.complete = s.complete /\ e.others = s.others
  BY <1>1, <1>4, <1>5 DEF DstType
<1> HIDE DEF e
<1> QED BY <1>1, <1>3, <1>4, <1>6 DEF k, IsApplied

\* apply_bootstrap_snapshot finds the snapshot completed, or its marker, or copies it.
\* The destination e is what an attempt to copy backup b makes of d.
IsSeeding(l, mode, d, b, e) ==
  /\ e \in DstType /\ e.complete = d.complete
  /\ l.mode = "consolidation" => e.others = d.others
  /\ \/ d.ckpt.there /\ d.ckpt.init /\ d.ckpt.commit >= b.base /\ e = d
     \/ b.base \in d.marker /\ e = SeededApart(l, d)
     \/ /\ ~ (d.ckpt.there /\ d.ckpt.init /\ d.ckpt.commit >= b.base)
        /\ e.ckpt = Ckpt(b.base, 0)
        /\ e.marker = {b.base} /\ TableFrom(l, mode, d, b, e)

LEMMA SeedIs ==
  ASSUME NEW l, NEW mode, NEW d \in DstType, NEW b \in BackupType
  PROVE  IsSeeding(l, mode, d, b, Initialized(l, mode, SeededApart(l, d), b))
<1> DEFINE a == SeededApart(l, d)
           e == Initialized(l, mode, a, b)
<1>1. /\ a \in DstType /\ a.rows = d.rows /\ a.others = d.others /\ a.marker = d.marker
      /\ a.complete = d.complete /\ a.table = d.table /\ (d.ckpt.there => a = d)
      /\ ~ d.ckpt.there => ~ a.ckpt.there \/ ~ a.ckpt.init
  <2>1. a \in {d, Seeded(d)} /\ a \in DstType
    BY SeededApartIs
  <2>2. /\ Seeded(d).rows = d.rows /\ Seeded(d).others = d.others /\ Seeded(d).marker = d.marker
        /\ Seeded(d).complete = d.complete /\ Seeded(d).table = d.table
        /\ (~ d.ckpt.there => ~ Seeded(d).ckpt.init)
    BY SeededIs
  <2>3. d.ckpt.there => Seeded(d) = d
    BY DEF Seeded
  <2> HIDE DEF a
  <2> QED BY <2>1, <2>2, <2>3
<1> HIDE DEF a
<1>2. CASE SnapshotCompleted(a, b.base)
  <2>1. e = a
    BY <1>2 DEF Initialized
  <2> QED BY <1>1, <1>2, <2>1 DEF SnapshotCompleted, IsSeeding, a
<1>3. CASE ~ SnapshotCompleted(a, b.base) /\ b.base \in a.marker
  <2>1. e = a
    BY <1>3 DEF Initialized, CopySnapshot
  <2> QED BY <1>1, <1>3, <2>1 DEF IsSeeding, a
<1>4. CASE ~ SnapshotCompleted(a, b.base) /\ b.base \notin a.marker
  <2>1. e = CopySnapshot(l, mode, a, b)
    BY <1>4 DEF Initialized
  <2>2. RowsLeft(mode, a) = RowsLeft(mode, d)
    BY <1>1 DEF RowsLeft
  <2>3. ~ (d.ckpt.there /\ d.ckpt.init /\ d.ckpt.commit >= b.base)
    BY <1>1, <1>4 DEF SnapshotCompleted
  <2>5. b.base \notin a.marker /\ a \in DstType
    BY <1>1, <1>4
  <2> HIDE DEF e
  <2>4. IsCopy(l, mode, a, b, e)
    <3>1. IsCopy(l, mode, a, b, CopySnapshot(l, mode, a, b))
      BY <2>5, CopiedIs
    <3> QED BY <2>1, <3>1
  <2> QED BY <1>1, <2>2, <2>3, <2>4 DEF IsCopy, IsSeeding, TableFrom, a, e
<1> QED BY <1>2, <1>3, <1>4

--------------------------------------------------------------------------------
(* What a step changes                                                         *)

LEMMA Frame ==
  [Next]_vars =>
    /\ layout' = layout
    /\ src' = src \/ Commit
    /\ home' = home \/ Initialize \/ TakeBackup \/ PauseSync \/ ResumeSync \/ Rehome
    /\ stage' = stage \/ StageBackup \/ Commit \/ Unstage \/ Die
    /\ state' = state \/ Publish \/ Apply \/ Unwork \/ LoseTemp
    /\ work' = work \/ Mirror \/ MarkInitializing \/ Record \/ Complete \/ Apply \/ Unwork \/ Die
    /\ dst' = dst \/ Seed \/ SeedFails \/ Complete \/ Apply \/ CleanDestination
    /\ deaths' = deaths \/ Die \/ LoseTemp
<1> SUFFICES ASSUME [Next]_vars
             PROVE  /\ layout' = layout
                    /\ src' = src \/ Commit
                    /\ home' = home \/ Initialize \/ TakeBackup \/ PauseSync \/ ResumeSync
                       \/ Rehome
                    /\ stage' = stage \/ StageBackup \/ Commit \/ Unstage \/ Die
                    /\ state' = state \/ Publish \/ Apply \/ Unwork \/ LoseTemp
                    /\ work' = work \/ Mirror \/ MarkInitializing \/ Record \/ Complete
                       \/ Apply \/ Unwork \/ Die
                    /\ dst' = dst \/ Seed \/ SeedFails \/ Complete \/ Apply \/ CleanDestination
                    /\ deaths' = deaths \/ Die \/ LoseTemp
  OBVIOUS
<1>1. CASE WorkerStarts \/ ReceiveUpdate \/ ReceiveBoot \/ ReceiveShutdown \/ Leave \/ Tick
             \/ WorkerExits
  BY <1>1 DEF WorkerStarts, ReceiveUpdate, ReceiveBoot, ReceiveShutdown, Leave, Tick, WorkerExits
<1>2. CASE Mirror \/ MarkInitializing \/ Seed \/ SeedFails \/ Record
  BY <1>2 DEF Mirror, MarkInitializing, Seed, SeedFails, Record
<1>3. CASE Complete \/ Publish \/ BootstrapFails \/ Apply
  BY <1>3 DEF Complete, Publish, BootstrapFails, Apply
<1>4. CASE Initialize \/ Connect \/ TakeBackup \/ StageBackup \/ Spawn \/ Commit \/ Close
  BY <1>4 DEF Initialize, Connect, TakeBackup, StageBackup, Spawn, Commit, Close
<1>5. CASE PauseSync \/ ResumeSync \/ ReinitStart \/ ReinitStopped \/ ReinitGivesUp
             \/ CleanDestination
  BY <1>5 DEF PauseSync, ResumeSync, ReinitStart, ReinitStopped, ReinitGivesUp, CleanDestination
<1>6. CASE CleanFails \/ Unstage \/ Unwork \/ Rehome \/ Die \/ LoseTemp
  BY <1>6 DEF CleanFails, Unstage, Unwork, Rehome, Die, LoseTemp
<1>7. CASE UNCHANGED vars
  BY <1>7 DEF vars
<1> QED BY <1>1, <1>2, <1>3, <1>4, <1>5, <1>6, <1>7 DEF Next, WorkerNext, AppNext

LEMMA ThreadFrame ==
  [Next]_vars =>
    /\ \/ worker' = worker \/ Spawn \/ ReinitStart \/ ReinitGivesUp \/ Die
       \/ WorkerStarts \/ ReceiveUpdate \/ ReceiveBoot \/ ReceiveShutdown \/ Leave \/ Tick
          \/ WorkerExits
       \/ Mirror \/ MarkInitializing \/ Seed \/ SeedFails \/ Record \/ Complete \/ Publish
          \/ BootstrapFails
    /\ \/ inbox' = inbox \/ Spawn \/ ReinitStart \/ Die
       \/ ReceiveUpdate \/ ReceiveBoot \/ ReceiveShutdown \/ WorkerExits
    /\ \/ app' = app \/ Initialize \/ Connect \/ TakeBackup \/ StageBackup \/ Spawn \/ Close
       \/ Die
       \/ ReinitStart \/ ReinitStopped \/ ReinitGivesUp \/ CleanDestination \/ CleanFails
       \/ Unstage \/ Unwork \/ Rehome
<1> SUFFICES ASSUME [Next]_vars
             PROVE  /\ \/ worker' = worker \/ Spawn \/ ReinitStart \/ ReinitGivesUp \/ Die
                       \/ WorkerStarts \/ ReceiveUpdate \/ ReceiveBoot \/ ReceiveShutdown
                          \/ Leave \/ Tick \/ WorkerExits
                       \/ Mirror \/ MarkInitializing \/ Seed \/ SeedFails \/ Record
                          \/ Complete \/ Publish \/ BootstrapFails
                    /\ \/ inbox' = inbox \/ Spawn \/ ReinitStart \/ Die
                       \/ ReceiveUpdate \/ ReceiveBoot \/ ReceiveShutdown \/ WorkerExits
                    /\ \/ app' = app \/ Initialize \/ Connect \/ TakeBackup \/ StageBackup
                       \/ Spawn \/ Close \/ Die
                       \/ ReinitStart \/ ReinitStopped \/ ReinitGivesUp \/ CleanDestination
                          \/ CleanFails
                       \/ Unstage \/ Unwork \/ Rehome
  OBVIOUS
<1>1. CASE WorkerStarts \/ Leave \/ Tick \/ Mirror \/ MarkInitializing \/ Seed \/ SeedFails
             \/ Record
           \/ Complete \/ Publish \/ BootstrapFails
  BY <1>1 DEF WorkerStarts, Leave, Tick, Mirror, MarkInitializing, Seed, SeedFails, Record,
      Complete, Publish,
     BootstrapFails
<1>2. CASE ReceiveUpdate \/ ReceiveBoot \/ ReceiveShutdown \/ WorkerExits
  BY <1>2 DEF ReceiveUpdate, ReceiveBoot, ReceiveShutdown, WorkerExits
<1>3. CASE Apply \/ Commit \/ PauseSync \/ ResumeSync \/ LoseTemp
  BY <1>3 DEF Apply, Commit, PauseSync, ResumeSync, LoseTemp
<1>4. CASE Initialize \/ Connect \/ TakeBackup \/ StageBackup \/ Close
  BY <1>4 DEF Initialize, Connect, TakeBackup, StageBackup, Close
<1>5. CASE Spawn \/ ReinitStart \/ Die
  BY <1>5
<1>6. CASE ReinitStopped \/ ReinitGivesUp \/ CleanDestination \/ CleanFails \/ Unstage
             \/ Unwork \/ Rehome
  BY <1>6 DEF ReinitStopped, ReinitGivesUp, CleanDestination, CleanFails, Unstage, Unwork, Rehome
<1>7. CASE UNCHANGED vars
  BY <1>7 DEF vars
<1> QED BY <1>1, <1>2, <1>3, <1>4, <1>5, <1>6, <1>7 DEF Next, WorkerNext, AppNext

--------------------------------------------------------------------------------
(* Types                                                                       *)

LEMMA NewTyped ==
  NoBackup \in BackupType /\ NewState \in StateType /\ NewWork \in WorkType /\ NRows \in Nat
<1>1. NRows \in Nat
  BY LifecycleAssumption, FS_CardinalityType DEF NRows
<1>2. NoBackup \in BackupType
  BY DEF NoBackup, BackupType
<1>3. NewState \in StateType
  BY DEF NewState, StateType
<1>4. NewWork \in WorkType
  BY DEF NewWork, WorkType, Statuses
<1> QED BY <1>1, <1>2, <1>3, <1>4

\* What the process leaves in the stage directory, if it ends while the backup is copied
LEMMA StageLeft ==
  ASSUME TypeInv, Die, stage' # stage
  PROVE  /\ app.pc = "stage" /\ stage.backup.is = "none"
         /\ \E b \in BackupType :
              /\ stage' = [stage EXCEPT !.backup = b]
              /\ b.is = "none" => home.backup.is = "none"
              /\ IF b.is = "empty" THEN b = EmptyFile
                 ELSE b.rows = home.backup.rows /\ b.base = home.backup.base
<1>1. home.backup \in BackupType
  BY DEF TypeInv, FileTypes, HomeType
<1>2. PICK copy \in CutShort(home.backup.is) :
        stage' = [stage EXCEPT !.backup = IF copy
          = "empty" THEN EmptyFile ELSE [home.backup EXCEPT !.is = copy]]
  BY DEF Die
<1>3. app.pc = "stage" /\ stage.backup.is = "none"
  BY DEF Die
<1>4. copy \in Copies /\ (copy = "none" => home.backup.is = "none")
  BY <1>1 DEF BackupType, CutShort, Copies
<1>5. CASE copy = "empty"
  <2>1. EmptyFile \in BackupType /\ EmptyFile.is = "empty"
    BY DEF EmptyFile, BackupType
  <2> QED BY <1>2, <1>3, <1>5, <2>1
<1>6. CASE copy # "empty"
  <2> DEFINE b == [home.backup EXCEPT !.is = copy]
  <2>1. b \in BackupType /\ b.is = copy /\ b.rows = home.backup.rows /\ b.base = home.backup.base
    BY <1>1, <1>4 DEF BackupType, Copies
  <2>2. stage' = [stage EXCEPT !.backup = b]
    BY <1>2, <1>6
  <2> HIDE DEF b
  <2> QED BY <1>3, <1>4, <1>6, <2>1, <2>2
<1> QED BY <1>5, <1>6

LEMMA InitTypes == Init => TypeInv
<1> SUFFICES ASSUME Init PROVE TypeInv
  OBVIOUS
<1>1. layout \in Layouts /\ layout.before \subseteq Rows
  BY LifecycleAssumption DEF Init
<1>2. FileTypes
  BY <1>1, NewTyped DEF Init, FileTypes, SrcType, HomeType, StageType, StateType, WorkType,
      NewHome, NewStage,
     Statuses
<1>3. dst \in DstType
  BY DEF Init, NewDestination, DstType, CkptType, NoRow, Statuses
<1>4. ThreadTypes
  BY DEF Init, ThreadTypes, Off, WorkerType, WorkerPcs, Modes, AppType, AppPcs
<1>5. deaths \in Nat
  BY DEF Init
<1> QED BY <1>1, <1>2, <1>3, <1>4, <1>5 DEF TypeInv

LEMMA FileTypesStep == TypeInv /\ [Next]_vars => FileTypes'
<1> SUFFICES ASSUME TypeInv, [Next]_vars PROVE FileTypes'
  OBVIOUS
<1> USE DEF TypeInv, FileTypes
<1>1. src' \in SrcType
  BY Frame DEF Commit, SrcType
<1>2. home' \in HomeType
  <2>1. CASE TakeBackup
    <3>1. [is |-> "whole", rows |-> src.rows,
            base |-> IF layout.engine = "duckdb" THEN src.commit ELSE 0]
            \in BackupType
      BY DEF SrcType, BackupType
    <3> QED BY <2>1, <3>1 DEF TakeBackup, HomeType
  <2>2. CASE Initialize \/ PauseSync \/ ResumeSync
    BY <2>2 DEF Initialize, PauseSync, ResumeSync, HomeType
  <2>3. CASE Rehome
    BY <2>3, NewTyped DEF Rehome, NewHome, HomeType
  <2> QED BY <2>1, <2>2, <2>3, Frame
<1>3. stage' \in StageType
  <2>1. CASE StageBackup
    BY <2>1 DEF StageBackup, StageType, HomeType
  <2>2. CASE Commit
    <3>1. [row |-> NextRow, commit |-> src.commit + 1] \in Segment
      BY <2>2 DEF Commit, Segment, SrcType
    <3>2. Append(stage.segs, [row |-> NextRow, commit |-> src.commit + 1]) \in Seq(Segment)
      BY <3>1 DEF StageType
    <3> QED BY <2>2, <3>2 DEF Commit, StageType
  <2>3. CASE Unstage
    BY <2>3, NewTyped DEF Unstage, NewStage, StageType
  <2>4. CASE Die
    <3>1. ASSUME NEW b \in BackupType, stage' = [stage EXCEPT !.backup = b]
          PROVE  stage' \in StageType
      BY <3>1 DEF StageType
    <3>2. CASE stage' = stage
      BY <3>2
    <3>3. CASE stage' # stage
      BY <2>4, <3>1, <3>3, StageLeft
    <3> QED BY <3>2, <3>3
  <2> QED BY <2>1, <2>2, <2>3, <2>4, Frame
<1>4. state' \in StateType
  <2>1. CASE Apply
    BY <2>1 DEF Apply, Unhandled, StateType
  <2>2. CASE Publish
    BY <2>2 DEF Publish, StateType
  <2>3. CASE Unwork \/ LoseTemp
    BY <2>3, NewTyped DEF Unwork, LoseTemp
  <2> QED BY <2>1, <2>2, <2>3, Frame
<1>5. work' \in WorkType
  <2>1. CASE Apply
    BY <2>1 DEF Apply, Unhandled, WorkType
  <2>2. CASE Mirror \/ MarkInitializing \/ Record \/ Complete
    BY <2>2 DEF Mirror, MarkInitializing, Record, Complete, WorkType, Statuses, StageType,
        BackupType
  <2>3. CASE Unwork
    BY <2>3, NewTyped DEF Unwork
  <2>4. CASE Die
    <3>1. CutShort(stage.backup.is) \subseteq Copies
      BY DEF CutShort, Copies, StageType, BackupType
    <3> QED BY <2>4, <3>1 DEF Die, WorkType, Copies
  <2> QED BY <2>1, <2>2, <2>3, <2>4, Frame
<1> QED BY <1>1, <1>2, <1>3, <1>4, <1>5

LEMMA DstTypesStep == TypeInv /\ [Next]_vars => dst' \in DstType
<1> SUFFICES ASSUME TypeInv, [Next]_vars PROVE dst' \in DstType
  OBVIOUS
<1>1. stage.backup \in BackupType /\ dst \in DstType
  BY DEF TypeInv, FileTypes, StageType
<1>2. CASE Seed \/ SeedFails
  <2>1. \/ dst' = SeededApart(layout, dst)
        \/ dst' = Initialized(layout, worker.mode, SeededApart(layout, dst), stage.backup)
    BY <1>2 DEF Seed, SeedFails
  <2>2. SeededApart(layout, dst) \in DstType
    BY <1>1, SeededApartIs
  <2>3. Initialized(layout, worker.mode, SeededApart(layout, dst), stage.backup) \in DstType
    BY <1>1, SeedIs DEF IsSeeding
  <2> QED BY <2>1, <2>2, <2>3
<1>3. CASE Apply
  <2>1. PICK n \in Unhandled : dst' = SegmentApplied(layout, dst, n, stage.segs[n + 1])
    BY <1>3 DEF Apply
  <2>2. stage.segs \in Seq(Segment)
    BY DEF TypeInv, FileTypes, StageType
  <2>3. n \in Nat /\ stage.segs[n + 1] \in Segment
    BY <2>2 DEF Unhandled
  <2> QED BY <1>1, <2>1, <2>3, AppliedIs DEF IsApplied
<1>4. CASE Complete
  BY <1>1, <1>4 DEF Complete, DstType
<1>5. CASE CleanDestination
  <2>1. NoRow \in CkptType
    BY DEF NoRow, CkptType
  <2> QED BY <1>1, <1>5, <2>1 DEF CleanDestination, DeviceForgotten, DstType, Statuses
<1> QED BY <1>1, <1>2, <1>3, <1>4, <1>5, Frame

LEMMA MessageTypes ==
  /\ Boot \in Message /\ Shutdown \in Message
  /\ "none" \in Modes /\ "OVERWRITE_OBJECT" \in Modes
  /\ TypeInv => layout.init \in Modes
  /\ \A m \in Modes : Update(m) \in Message
  /\ \A m \in Message : m.to = "update" => m.mode \in Modes
<1>1. "none" \in Modes /\ "OVERWRITE_OBJECT" \in Modes /\ (TypeInv => layout.init \in Modes)
  BY DEF Modes, TypeInv
<1> QED BY <1>1 DEF Message, Boot, Shutdown, Update

LEMMA ThreadTypesStep == TypeInv /\ [Next]_vars => ThreadTypes'
<1> SUFFICES ASSUME TypeInv, [Next]_vars PROVE ThreadTypes'
  OBVIOUS
<1>1. worker \in WorkerType /\ inbox \in Seq(Message) /\ app \in AppType /\ state \in StateType
  BY DEF TypeInv, ThreadTypes, FileTypes
<1>2. Off \in WorkerType /\ \A m \in Modes : Started(m) \in WorkerType
  BY MessageTypes DEF Off, WorkerType, WorkerPcs, Started
<1>3. inbox # <<>> => Head(inbox) \in Message /\ Tail(inbox) \in Seq(Message)
  BY <1>1
<1>4. app.mode \in Modes
  BY <1>1 DEF AppType
<1>5. worker' \in WorkerType
  <2>1. CASE ReceiveUpdate
    <3>1. Head(inbox).mode \in Modes
      BY <1>3, <2>1, MessageTypes DEF ReceiveUpdate
    <3> QED BY <1>1, <2>1, <3>1 DEF ReceiveUpdate, WorkerType
  <2>2. CASE WorkerStarts
    BY <1>1, <2>2 DEF WorkerStarts, WorkerType, WorkerPcs, StateType
  <2>11. CASE ReceiveBoot
    <3> DEFINE heard == [worker EXCEPT !.pending = TRUE]
    <3>1. heard \in WorkerType
      BY <1>1 DEF WorkerType
    <3>2. Attempt(heard) \in WorkerType
      BY <3>1 DEF Attempt, WorkerType, WorkerPcs
    <3> QED BY <2>11, <3>1, <3>2 DEF ReceiveBoot
  <2>10. CASE ReceiveShutdown
    <3> DEFINE last == [worker EXCEPT !.final = TRUE, !.pending = TRUE]
    <3>1. last \in WorkerType
      BY <1>1 DEF WorkerType
    <3>2. Attempt(last) \in WorkerType
      BY <3>1 DEF Attempt, WorkerType, WorkerPcs
    <3>3. [worker EXCEPT !.pc = "exit"] \in WorkerType
      BY <1>1 DEF WorkerType, WorkerPcs
    <3> QED BY <2>10, <3>1, <3>2, <3>3 DEF ReceiveShutdown
  <2>3. CASE Leave \/ Tick \/ Mirror \/ MarkInitializing \/ BootstrapFails
    BY <1>1, <2>3 DEF Leave, Tick, Mirror, MarkInitializing, BootstrapFails, Attempt, ToLoop,
        WorkerType, WorkerPcs
  <2>4. CASE Seed \/ SeedFails \/ Record \/ Complete
    BY <1>1, <2>4 DEF Seed, SeedFails, Record, Complete, ToLoop, WorkerType, WorkerPcs
  <2>5. CASE Publish
    BY <1>1, <2>5, MessageTypes DEF Publish, ToLoop, WorkerType, WorkerPcs
  <2>6. CASE WorkerExits \/ Die
    BY <1>2, <2>6 DEF WorkerExits, Die
  <2>7. CASE Spawn
    <3>1. [worker EXCEPT !.asked = app.mode] \in WorkerType
      BY <1>1, <1>4 DEF WorkerType
    <3> QED BY <1>1, <1>2, <1>4, <2>7, <3>1 DEF Spawn
  <2>8. CASE ReinitStart \/ ReinitGivesUp
    BY <1>1, <2>8 DEF ReinitStart, ReinitGivesUp, WorkerType
  <2>9. CASE worker' = worker
    BY <1>1, <2>9
  <2> QED BY <2>1, <2>2, <2>3, <2>4, <2>5, <2>6, <2>7, <2>8, <2>9, <2>10, <2>11, ThreadFrame
<1>6. inbox' \in Seq(Message)
  <2>1. CASE Spawn
    <3>1. Append(inbox, Boot) \in Seq(Message)
      BY <1>1, MessageTypes
    <3>2. inbox \o <<Update(app.mode), Boot>> \in Seq(Message)
      <4>1. <<Update(app.mode), Boot>> \in Seq(Message)
        BY <1>4, MessageTypes
      <4> QED BY <1>1, <4>1
    <3> QED BY <1>1, <2>1, <3>1, <3>2 DEF Spawn
  <2>2. CASE ReinitStart
    <3>1. Append(inbox, Shutdown) \in Seq(Message)
      BY <1>1, MessageTypes
    <3> QED BY <1>1, <2>2, <3>1 DEF ReinitStart
  <2>3. CASE ReceiveUpdate \/ ReceiveBoot \/ ReceiveShutdown
    BY <1>3, <2>3 DEF ReceiveUpdate, ReceiveBoot, ReceiveShutdown
  <2>4. CASE WorkerExits \/ Die
    <3>1. inbox' = <<>>
      BY <2>4 DEF WorkerExits, Die
    <3> QED BY <3>1
  <2>5. CASE inbox' = inbox
    BY <1>1, <2>5
  <2> QED BY <2>1, <2>2, <2>3, <2>4, <2>5, ThreadFrame
<1>7. app' \in AppType
  <2>1. CASE Initialize \/ Connect
    BY <1>1, <2>1, MessageTypes DEF Initialize, Connect, AppType, AppPcs
  <2>2. CASE TakeBackup \/ StageBackup \/ Spawn \/ Close \/ ReinitStopped \/ ReinitGivesUp
    BY <1>1, <2>2 DEF TakeBackup, StageBackup, Spawn, Close, ReinitStopped, ReinitGivesUp, Goto,
        Opened, AppType, AppPcs
  <2>3. CASE CleanFails \/ Unstage \/ Unwork
    BY <1>1, <2>3 DEF CleanFails, Unstage, Unwork, Goto, AppType, AppPcs
  <2>6. CASE ReinitStart
    <3> DEFINE k == app.reinits + 1
    <3>1. app' = [app EXCEPT !.pc = "stopping", !.reinits = k]
      BY <2>6 DEF ReinitStart
    <3>2. k \in Nat
      BY <1>1 DEF AppType
    <3> HIDE DEF k
    <3>3. [app EXCEPT !.pc = "stopping", !.reinits = k] \in AppType
      BY <1>1, <3>2 DEF AppType, AppPcs
    <3> QED BY <3>1, <3>3
  <2>4. CASE CleanDestination \/ Rehome \/ Die
    BY <1>1, <2>4 DEF CleanDestination, Rehome, Die, AppType, AppPcs
  <2>5. CASE app' = app
    BY <1>1, <2>5
  <2> QED BY <2>1, <2>2, <2>3, <2>4, <2>5, <2>6, ThreadFrame
<1> QED BY <1>5, <1>6, <1>7 DEF ThreadTypes

LEMMA TypesStep == TypeInv /\ [Next]_vars => TypeInv'
<1> SUFFICES ASSUME TypeInv, [Next]_vars PROVE TypeInv'
  OBVIOUS
<1>1. layout' \in Layouts
  BY Frame DEF TypeInv
<1>2. deaths' \in Nat
  BY Frame DEF TypeInv, Die, LoseTemp
<1> QED BY <1>1, <1>2, FileTypesStep, DstTypesStep, ThreadTypesStep DEF TypeInv

--------------------------------------------------------------------------------
(* Files and steps                                                             *)

LEMMA Numbered ==
  ASSUME TypeInv, SrcShape
  PROVE  /\ Cardinality(src.rows) \in Nat /\ Cardinality(src.rows) <= NRows
         /\ NextRow \in Nat /\ NextRow \notin src.rows
         /\ src.rows \union {NextRow} = 1 .. NextRow
         /\ Cardinality(src.rows \union {NextRow}) = NextRow
<1> DEFINE n == Cardinality(src.rows)
<1>1. src.rows \subseteq Rows /\ IsFiniteSet(Rows)
  BY LifecycleAssumption DEF TypeInv, FileTypes, SrcType
<1>2. IsFiniteSet(src.rows) /\ n <= Cardinality(Rows)
  BY <1>1, FS_Subset
<1>3. n \in Nat
  BY <1>2, FS_CardinalityType
<1>4. src.rows = 1 .. n
  BY DEF SrcShape
<1> HIDE DEF n
<1>5. n + 1 \notin src.rows /\ src.rows \union {n + 1} = 1 .. n + 1
  BY <1>3, <1>4
<1>6. Cardinality(src.rows \union {n + 1}) = n + 1
  BY <1>2, <1>5, FS_AddElement DEF n
<1> QED BY <1>2, <1>3, <1>5, <1>6 DEF NextRow, n, NRows

LEMMA SrcShapeStep == TypeInv /\ SrcShape /\ [Next]_vars => SrcShape'
<1> SUFFICES ASSUME TypeInv, SrcShape, [Next]_vars PROVE SrcShape'
  OBVIOUS
<1>1. CASE src' = src
  BY <1>1 DEF SrcShape
<1>2. CASE Commit
  <2>1. src'.rows = src.rows \union {NextRow} /\ src'.commit = src.commit + 1
    BY <1>2 DEF Commit
  <2>2. src.commit \in Nat
    BY DEF TypeInv, FileTypes, SrcType
  <2>3. Cardinality(src'.rows) = NextRow /\ src'.rows = 1 .. NextRow
    BY <2>1, Numbered
  <2>4. src.commit + 1 <= NextRow
    BY <2>2, Numbered DEF SrcShape, NextRow
  <2> QED BY <2>1, <2>3, <2>4 DEF SrcShape
<1> QED BY <1>1, <1>2, Frame

LEMMA HomeShapeStep == TypeInv /\ HomeShape /\ [Next]_vars => HomeShape'
<1> SUFFICES ASSUME TypeInv, HomeShape, [Next]_vars PROVE HomeShape'
  OBVIOUS
<1>1. home \in HomeType /\ src \in SrcType
  BY DEF TypeInv, FileTypes
<1>2. CASE Commit
  BY <1>1, <1>2 DEF Commit, HomeShape, SrcType, HomeType, BackupType
<1>3. CASE src' = src
  <2>1. CASE home' = home
    BY <1>3, <2>1 DEF HomeShape
  <2>2. CASE Initialize \/ PauseSync \/ ResumeSync
    <3>1. home'.backup = home.backup /\ home'.taken = home.taken
      BY <1>1, <2>2 DEF Initialize, PauseSync, ResumeSync, HomeType
    <3> QED BY <1>3, <3>1 DEF HomeShape
  <2>3. CASE TakeBackup
    <3> DEFINE b == [is |-> "whole", rows |-> src.rows,
          base |-> IF layout.engine = "duckdb" THEN src.commit ELSE 0]
    <3>1. b.is = "whole" /\ b.rows = src.rows /\ b.base <= src.commit
      BY <1>1 DEF SrcType
    <3> HIDE DEF b
    <3>2. home' = home \/ home' = [home EXCEPT !.taken = TRUE, !.backup = b]
      BY <2>3 DEF TakeBackup, b
    <3>3. CASE home' = [home EXCEPT !.taken = TRUE, !.backup = b]
      <4>1. home'.backup = b /\ home'.taken = TRUE
        BY <1>1, <3>3 DEF HomeType
      <4> QED BY <1>3, <3>1, <4>1 DEF HomeShape
    <3> QED BY <2>1, <3>2, <3>3
  <2>4. CASE Rehome
    BY <1>1, <1>3, <2>4 DEF Rehome, NewHome, NoBackup, HomeShape, SrcType
  <2> QED BY <2>1, <2>2, <2>3, <2>4, Frame
<1> QED BY <1>2, <1>3, Frame

LEMMA StagedBackupStep == TypeInv /\ ShapeInv /\ [Next]_vars => StagedBackup'
<1> SUFFICES ASSUME TypeInv, ShapeInv, [Next]_vars PROVE StagedBackup'
  OBVIOUS
<1>1. /\ home \in HomeType /\ stage \in StageType /\ HomeShape /\ StagedBackup
      /\ home.backup \in BackupType /\ stage.backup \in BackupType
  BY DEF TypeInv, FileTypes, ShapeInv, HomeType, StageType
<1>2. CASE stage' = stage
  <2>1. CASE home' = home
    BY <1>1, <1>2, <2>1 DEF StagedBackup
  <2>2. CASE Initialize \/ PauseSync \/ ResumeSync
    <3>1. home'.backup = home.backup /\ home'.taken = home.taken
      BY <1>1, <2>2 DEF Initialize, PauseSync, ResumeSync, HomeType
    <3> QED BY <1>1, <1>2, <3>1 DEF StagedBackup
  <2>3. CASE TakeBackup
    BY <1>1, <1>2, <2>1, <2>3 DEF TakeBackup, StagedBackup, HomeShape
  <2>4. CASE Rehome
    <3>1. stage = NewStage
      BY <2>4 DEF Rehome, ShapeInv, AppShape
    <3> QED BY <1>2, <3>1 DEF StagedBackup, NewStage, NoBackup
  <2> QED BY <2>1, <2>2, <2>3, <2>4, Frame
<1>3. CASE StageBackup
  <2>1. home' = home /\ home.taken
    BY <1>3 DEF StageBackup, ShapeInv, AppShape
  <2>2. stage'.backup = IF stage.backup.is = "none" THEN home.backup ELSE stage.backup
    BY <1>1, <1>3 DEF StageBackup, StageType
  <2>3. stage'.segs = stage.segs
    BY <1>1, <1>3 DEF StageBackup, StageType
  <2>4. home.backup.is = "whole"
    BY <1>1, <2>1 DEF HomeShape
  <2> QED BY <1>1, <2>1, <2>2, <2>3, <2>4 DEF StagedBackup
<1>4. CASE Commit
  <2>1. stage.backup.is # "none"
    BY <1>4 DEF Commit, ShapeInv, AppShape
  <2>2. stage'.backup = stage.backup /\ home' = home
    BY <1>1, <1>4 DEF Commit, StageType
  <2> QED BY <1>1, <2>1, <2>2 DEF StagedBackup
<1>5. CASE Unstage
  BY <1>5 DEF Unstage, NewStage, StagedBackup, NoBackup
<1>6. CASE Die
  <2>1. home' = home
    BY <1>6 DEF Die
  <2>2. CASE stage' # stage
    <3>1. PICK b \in BackupType :
            /\ stage' = [stage EXCEPT !.backup = b]
            /\ b.is = "none" => home.backup.is = "none"
            /\ IF b.is = "empty" THEN b = EmptyFile
               ELSE b.rows = home.backup.rows /\ b.base = home.backup.base
      BY <1>6, <2>2, StageLeft
    <3>2. stage'.backup = b
      BY <1>1, <3>1 DEF StageType
    <3>3. home.taken /\ home.backup.is = "whole"
      BY <1>1, <1>6, <2>2, StageLeft DEF ShapeInv, AppShape, HomeShape
    <3> QED BY <2>1, <3>1, <3>2, <3>3 DEF StagedBackup
  <2> QED BY <1>2, <2>2
<1> QED BY <1>2, <1>3, <1>4, <1>5, <1>6, Frame

LEMMA SegShapeStep == TypeInv /\ ShapeInv /\ [Next]_vars => SegShape'
<1> SUFFICES ASSUME TypeInv, ShapeInv, [Next]_vars PROVE SegShape'
  OBVIOUS
<1>1. /\ stage \in StageType /\ stage.segs \in Seq(Segment) /\ stage.backup \in BackupType
      /\ src.commit \in Nat
      /\ HomeShape /\ StagedBackup /\ SegShape
  BY DEF TypeInv, FileTypes, ShapeInv, StageType, SrcType
<1>2. CASE Commit
  <2> DEFINE row == NextRow
             seg == [row |-> row, commit |-> src.commit + 1]
             segs == Append(stage.segs, seg)
  <2>1. stage'.backup = stage.backup /\ stage'.segs = segs
    BY <1>1, <1>2 DEF Commit, StageType
  <2>2. src'.rows = src.rows \union {row} /\ src'.commit = src.commit + 1
    BY <1>2 DEF Commit
  <2>3. row \notin src.rows
    BY Numbered DEF ShapeInv
  <2>4. stage.backup.rows \subseteq src.rows /\ stage.backup.base <= src.commit
    BY <1>1, <1>2 DEF Commit, ShapeInv, AppShape, StagedBackup, HomeShape, EmptyFile
  <2>5. row \in Rows
    BY <1>2 DEF Commit
  <2> HIDE DEF row
  <2>6. seg.row = row /\ seg.commit = src.commit + 1 /\ seg \in Segment
    BY <1>1, <2>5 DEF Segment
  <2> HIDE DEF seg
  <2>7. /\ Len(segs) = Len(stage.segs) + 1 /\ DOMAIN segs = 1 .. Len(stage.segs) + 1
        /\ segs[Len(stage.segs) + 1] = seg
        /\ \A i \in 1 .. Len(stage.segs) : segs[i] = stage.segs[i]
    BY <1>1, <2>6
  <2> HIDE DEF segs
  <2>8. Len(stage.segs) \in Nat /\ DOMAIN stage.segs = 1 .. Len(stage.segs)
    BY <1>1
  <2>9. Len(segs) <= src.commit + 1
    BY <1>1, <2>7, <2>8 DEF SegShape
  <2>10. ASSUME NEW i \in DOMAIN segs
         PROVE  /\ segs[i].row \in (src.rows \union {row}) \ stage.backup.rows
                /\ stage.backup.base < segs[i].commit /\ segs[i].commit <= src.commit + 1
                /\ \A j \in DOMAIN segs :
                     i < j => segs[i].row # segs[j].row /\ segs[i].commit < segs[j].commit
    <3>0. stage.backup.base \in Nat
      BY <1>1 DEF BackupType
    <3>1. CASE i = Len(stage.segs) + 1
      <4>1. segs[i] = seg
        BY <2>7, <3>1
      <4> QED BY <1>1, <2>3, <2>4, <2>6, <2>7, <2>8, <3>0, <3>1, <4>1
    <3>2. CASE i \in 1 .. Len(stage.segs)
      <4>0. stage.segs[i] \in Segment
        BY <1>1, <2>8, <3>2
      <4>1. /\ segs[i] = stage.segs[i]
            /\ stage.segs[i].commit \in Nat
        BY <2>7, <3>2, <4>0 DEF Segment
      <4>2. /\ segs[i].row \in src.rows \ stage.backup.rows
            /\ stage.backup.base < segs[i].commit /\ segs[i].commit <= src.commit
        BY <1>1, <2>8, <3>2, <4>1 DEF SegShape
      <4>3. ASSUME NEW j \in DOMAIN segs, i < j
            PROVE  segs[i].row # segs[j].row /\ segs[i].commit < segs[j].commit
        <5>1. CASE j = Len(stage.segs) + 1
          <6>1. segs[j] = seg
            BY <2>7, <5>1
          <6> QED BY <1>1, <2>3, <2>6, <4>1, <4>2, <6>1
        <5>2. CASE j \in 1 .. Len(stage.segs)
          BY <1>1, <2>7, <2>8, <3>2, <4>1, <4>3, <5>2 DEF SegShape
        <5> QED BY <2>7, <2>8, <4>3, <5>1, <5>2
      <4> QED BY <1>1, <4>1, <4>2, <4>3, <3>0
    <3> QED BY <2>7, <2>8, <3>1, <3>2
  <2> QED BY <2>1, <2>2, <2>9, <2>10 DEF SegShape
<1>3. CASE stage' = stage /\ src' = src
  BY <1>1, <1>3 DEF SegShape
<1>4. CASE (StageBackup \/ Die) /\ stage' # stage
  <2>1. src' = src
    BY <1>4 DEF StageBackup, Die
  <2>2. stage'.segs = stage.segs
    BY <1>1, <1>4 DEF StageBackup, Die, StageType
  <2>3. CASE stage.backup.is = "none"
    <3>1. stage.segs = <<>>
      BY <1>1, <2>3 DEF StagedBackup
    <3> QED BY <1>1, <2>1, <2>2, <3>1 DEF SegShape
  <2>4. CASE stage.backup.is # "none"
    <3>1. stage'.backup = stage.backup
      BY <1>1, <1>4, <2>4 DEF StageBackup, Die, StageType
    <3> QED BY <1>1, <2>1, <2>2, <3>1 DEF SegShape
  <2> QED BY <2>3, <2>4
<1>5. CASE Unstage
  <2>1. stage'.segs = <<>> /\ src' = src
    BY <1>5 DEF Unstage, NewStage
  <2> QED BY <1>1, <2>1 DEF SegShape
<1> QED BY <1>2, <1>3, <1>4, <1>5, Frame

LEMMA AppShapeStep == TypeInv /\ ShapeInv /\ [Next]_vars => AppShape'
<1> SUFFICES ASSUME TypeInv, ShapeInv, [Next]_vars PROVE AppShape'
  OBVIOUS
<1>1. /\ home \in HomeType /\ stage \in StageType /\ app \in AppType /\ worker \in WorkerType
      /\ HomeShape /\ AppShape /\ layout.reinits \in Nat /\ layout' = layout /\ InboxShape
  BY Frame, LifecycleAssumption DEF TypeInv, FileTypes, ThreadTypes, ShapeInv
<1>2. app'.pc = "stage" => home'.taken
  <2>1. CASE app' = app /\ home' = home
    BY <1>1, <2>1 DEF AppShape
  <2>2. CASE PauseSync \/ ResumeSync
    <3>1. app' = app /\ home'.taken = home.taken
      BY <1>1, <2>2 DEF PauseSync, ResumeSync, HomeType
    <3> QED BY <1>1, <3>1 DEF AppShape
  <2>3. CASE TakeBackup
    <3>1. home' = home \/ home'.taken = TRUE
      BY <1>1, <2>3 DEF TakeBackup, HomeType
    <3> QED BY <1>1, <2>3, <3>1 DEF TakeBackup, HomeShape
  <2>4. CASE Initialize \/ Connect \/ StageBackup \/ Spawn \/ Close \/ Die
    <3>1. app'.pc # "stage"
      BY <1>1, <2>4 DEF Initialize, Connect, StageBackup, Spawn, Close, Die, Goto, Opened, AppType
    <3> QED BY <3>1
  <2>5. CASE ReinitStart \/ ReinitStopped \/ ReinitGivesUp \/ CleanDestination \/ CleanFails
              \/ Unstage \/ Unwork \/ Rehome
    <3>1. app'.pc # "stage"
      BY <1>1, <2>5 DEF ReinitStart, ReinitStopped, ReinitGivesUp, CleanDestination, CleanFails,
          Unstage, Unwork,
         Rehome, Goto, AppType
    <3> QED BY <3>1
  <2> QED BY <2>1, <2>2, <2>3, <2>4, <2>5, Frame, ThreadFrame
<1>3. app'.pc \in {"spawn", "session"} => stage'.backup.is # "none"
  <2>1. CASE app' = app /\ stage' = stage
    BY <1>1, <2>1 DEF AppShape
  <2>2. CASE StageBackup
    <3>1. home.backup.is = "whole"
      BY <1>1, <2>2 DEF StageBackup, AppShape, HomeShape
    <3>2. stage'.backup = IF stage.backup.is = "none" THEN home.backup ELSE stage.backup
      BY <1>1, <2>2 DEF StageBackup, StageType
    <3> QED BY <3>1, <3>2
  <2>3. CASE Commit
    <3>1. stage'.backup = stage.backup /\ app' = app
      BY <1>1, <2>3 DEF Commit, StageType
    <3> QED BY <1>1, <3>1 DEF AppShape
  <2>4. CASE Spawn
    <3>1. stage' = stage /\ app.pc = "spawn"
      BY <2>4 DEF Spawn
    <3> QED BY <1>1, <3>1 DEF AppShape
  <2>5. CASE Initialize \/ Connect \/ TakeBackup \/ Close \/ Die
    <3>1. app'.pc \notin {"spawn", "session"}
      BY <1>1, <2>5 DEF Initialize, Connect, TakeBackup, Close, Die, Goto, AppType
    <3> QED BY <3>1
  <2>6. CASE ReinitStart \/ ReinitStopped \/ ReinitGivesUp \/ CleanDestination \/ CleanFails
              \/ Unstage \/ Unwork \/ Rehome
    <3>1. app'.pc \notin {"spawn", "session"}
      BY <1>1, <2>6 DEF ReinitStart, ReinitStopped, ReinitGivesUp, CleanDestination, CleanFails,
          Unstage, Unwork,
         Rehome, Goto, AppType
    <3> QED BY <3>1
  <2> QED BY <2>1, <2>2, <2>3, <2>4, <2>5, <2>6, Frame, ThreadFrame
<1>4. app'.pc \in {"cleaning"} \union Removing => worker'.pc = "off"
  <2>1. CASE worker' = worker /\ (app' = app \/ ReinitStopped \/ CleanDestination \/ Unstage
               \/ Unwork)
    BY <1>1, <2>1 DEF AppShape, ReinitStopped, CleanDestination, Unstage, Unwork, Goto, AppType,
        Removing
  <2>2. CASE Initialize \/ Connect \/ TakeBackup \/ StageBackup \/ Spawn \/ Close
    <3>1. app'.pc \notin {"cleaning"} \union Removing
      BY <1>1, <2>2 DEF Initialize, Connect, TakeBackup, StageBackup, Spawn, Close, Goto, Opened,
          AppType, Removing
    <3> QED BY <3>1
  <2>3. CASE ReinitStart \/ ReinitGivesUp \/ CleanFails \/ Rehome \/ Die
    <3>1. app'.pc \notin {"cleaning"} \union Removing
      BY <1>1, <2>3 DEF ReinitStart, ReinitGivesUp, CleanFails, Rehome, Die, Goto, AppType,
          Removing
    <3> QED BY <3>1
  <2>4. CASE app' = app /\ worker.pc # "off"
    BY <1>1, <2>4 DEF AppShape
  <2>5. CASE WorkerStarts \/ ReceiveUpdate \/ ReceiveBoot \/ ReceiveShutdown \/ Leave \/ Tick
               \/ WorkerExits
    BY <2>4, <2>5 DEF WorkerStarts, ReceiveUpdate, ReceiveBoot, ReceiveShutdown, Leave, Tick,
        WorkerExits, Idle
  <2>6. CASE Mirror \/ MarkInitializing \/ Seed \/ SeedFails \/ Record \/ Complete \/ Publish
               \/ BootstrapFails
    BY <2>4, <2>6 DEF Mirror, MarkInitializing, Seed, SeedFails, Record, Complete, Publish,
        BootstrapFails
  <2>7. CASE ReinitStopped \/ CleanDestination \/ Unstage \/ Unwork
    <3>1. worker' = worker
      BY <2>7 DEF ReinitStopped, CleanDestination, Unstage, Unwork
    <3> QED BY <2>1, <2>7, <3>1
  <2> QED BY <2>1, <2>2, <2>3, <2>5, <2>6, <2>7, ThreadFrame
<1>5. app'.pc \in Removing => app'.half /\ dst'.ckpt = NoRow /\ dst'.marker = {}
  <2>1. CASE CleanDestination
    <3>1. dst \in DstType
      BY DEF TypeInv
    <3>2. dst'.ckpt = NoRow /\ dst'.marker = {}
      BY <2>1, <3>1 DEF CleanDestination, DeviceForgotten, DstType
    <3>3. app'.half = TRUE
      BY <1>1, <2>1 DEF CleanDestination, AppType
    <3> QED BY <3>2, <3>3
  <2>2. CASE dst' = dst /\ (app' = app \/ Unstage \/ Unwork)
    BY <1>1, <2>2 DEF AppShape, Unstage, Unwork, Goto, AppType, Removing
  <2>3. CASE Seed \/ SeedFails \/ Complete \/ Apply
    <3>1. app' = app /\ worker.pc # "off"
      BY <2>3 DEF Seed, SeedFails, Complete, Apply
    <3> QED BY <1>1, <3>1 DEF AppShape
  <2>4. CASE Initialize \/ Connect \/ TakeBackup \/ StageBackup \/ Spawn \/ Close
    <3>1. app'.pc \notin Removing
      BY <1>1, <2>4 DEF Initialize, Connect, TakeBackup, StageBackup, Spawn, Close, Goto, Opened,
          AppType, Removing
    <3> QED BY <3>1
  <2>5. CASE ReinitStart \/ ReinitStopped \/ ReinitGivesUp \/ CleanFails \/ Rehome \/ Die
    <3>1. app'.pc \notin Removing
      BY <1>1, <2>5 DEF ReinitStart, ReinitStopped, ReinitGivesUp, CleanFails, Rehome, Die, Goto,
          AppType, Removing
    <3> QED BY <3>1
  <2>6. CASE Unstage \/ Unwork
    <3>1. dst' = dst
      BY <2>6 DEF Unstage, Unwork
    <3> QED BY <2>2, <2>6, <3>1
  <2> QED BY <2>1, <2>2, <2>3, <2>4, <2>5, <2>6, Frame, ThreadFrame
<1>6. app'.pc \in {"unworking", "unhoming"} => stage' = NewStage
  <2>1. CASE stage' = stage /\ app' = app
    BY <1>1, <2>1 DEF AppShape
  <2>2. CASE Unstage
    BY <2>2 DEF Unstage
  <2>3. CASE Unwork
    BY <1>1, <2>3 DEF Unwork, AppShape
  <2>4. CASE Commit \/ StageBackup \/ Die
    <3>1. app'.pc \in {"session", "spawn", "closed"}
      BY <1>1, <2>4 DEF Commit, StageBackup, Die, Goto, AppType
    <3> QED BY <3>1
  <2>5. CASE Initialize \/ Connect \/ TakeBackup \/ Spawn \/ Close
    <3>1. app'.pc \notin {"unworking", "unhoming"}
      BY <1>1, <2>5 DEF Initialize, Connect, TakeBackup, Spawn, Close, Goto, Opened, AppType
    <3> QED BY <3>1
  <2>6. CASE ReinitStart \/ ReinitStopped \/ ReinitGivesUp \/ CleanDestination \/ CleanFails
               \/ Rehome
    <3>1. app'.pc \notin {"unworking", "unhoming"}
      BY <1>1, <2>6 DEF ReinitStart, ReinitStopped, ReinitGivesUp, CleanDestination, CleanFails,
          Rehome, Goto, AppType
    <3> QED BY <3>1
  <2> QED BY <2>1, <2>2, <2>3, <2>4, <2>5, <2>6, Frame, ThreadFrame
<1>7. app'.pc = "unhoming" => work' = NewWork /\ (Local' => state' = NewState)
  <2>0. Local' <=> Local
    BY <1>1 DEF Local
  <2>1. CASE app' = app /\ work' = work /\ state' = state
    BY <1>1, <2>0, <2>1 DEF AppShape
  <2>2. CASE Unwork
    BY <2>0, <2>2 DEF Unwork
  <2>3. CASE LoseTemp
    BY <2>3 DEF LoseTemp
  <2>4. CASE Mirror \/ MarkInitializing \/ Record \/ Complete \/ Publish \/ Apply
    <3>1. app' = app /\ worker.pc # "off"
      BY <2>4 DEF Mirror, MarkInitializing, Record, Complete, Publish, Apply
    <3> QED BY <1>1, <3>1 DEF AppShape, Removing
  <2>5. CASE Initialize \/ Connect \/ TakeBackup \/ StageBackup \/ Spawn \/ Close \/ Die
    <3>1. app'.pc # "unhoming"
      BY <1>1, <2>5 DEF Initialize, Connect, TakeBackup, StageBackup, Spawn, Close, Die, Goto,
          Opened, AppType
    <3> QED BY <3>1
  <2>6. CASE ReinitStart \/ ReinitStopped \/ ReinitGivesUp \/ CleanDestination \/ CleanFails
               \/ Unstage \/ Rehome
    <3>1. app'.pc # "unhoming"
      BY <1>1, <2>6 DEF ReinitStart, ReinitStopped, ReinitGivesUp, CleanDestination, CleanFails,
          Unstage, Rehome,
         Goto, AppType
    <3> QED BY <3>1
  <2> QED BY <2>1, <2>2, <2>3, <2>4, <2>5, <2>6, Frame, ThreadFrame
<1>8. app'.reinits <= layout'.reinits
  <2>1. CASE ReinitStart
    BY <1>1, <2>1 DEF ReinitStart, AppType
  <2>2. CASE app' = app
    BY <1>1, <2>2 DEF AppShape
  <2>3. CASE Initialize \/ Connect \/ TakeBackup \/ StageBackup \/ Spawn \/ Close \/ Die
    <3>1. app'.reinits = app.reinits
      BY <1>1, <2>3 DEF Initialize, Connect, TakeBackup, StageBackup, Spawn, Close, Die, Goto,
          Opened, AppType
    <3> QED BY <1>1, <3>1 DEF AppShape
  <2>4. CASE ReinitStopped \/ ReinitGivesUp \/ CleanDestination \/ CleanFails \/ Unstage
               \/ Unwork \/ Rehome
    <3>1. app'.reinits = app.reinits
      BY <1>1, <2>4 DEF ReinitStopped, ReinitGivesUp, CleanDestination, CleanFails, Unstage,
          Unwork, Rehome, Goto,
         AppType
    <3> QED BY <1>1, <3>1 DEF AppShape
  <2> QED BY <2>1, <2>2, <2>3, <2>4, ThreadFrame
<1>9. app'.pc \in {"stopping", "cleaning"} \union Removing => app'.reinits >= 1
  <2>1. CASE ReinitStart
    BY <1>1, <2>1 DEF ReinitStart, AppType
  <2>2. CASE app' = app
    BY <1>1, <2>2 DEF AppShape
  <2>3. CASE ReinitStopped \/ CleanDestination \/ Unstage \/ Unwork
    <3>1. app'.reinits = app.reinits /\ app.pc \in {"stopping", "cleaning"} \union Removing
      BY <1>1, <2>3 DEF ReinitStopped, CleanDestination, Unstage, Unwork, Goto, AppType, Removing
    <3> QED BY <1>1, <3>1 DEF AppShape
  <2>4. CASE Initialize \/ Connect \/ TakeBackup \/ StageBackup \/ Spawn \/ Close
    <3>1. app'.pc \notin {"stopping", "cleaning"} \union Removing
      BY <1>1, <2>4 DEF Initialize, Connect, TakeBackup, StageBackup, Spawn, Close, Goto, Opened,
          AppType, Removing
    <3> QED BY <3>1
  <2>5. CASE ReinitGivesUp \/ CleanFails \/ Rehome \/ Die
    <3>1. app'.pc \notin {"stopping", "cleaning"} \union Removing
      BY <1>1, <2>5 DEF ReinitGivesUp, CleanFails, Rehome, Die, Goto, AppType, Removing
    <3> QED BY <3>1
  <2> QED BY <2>1, <2>2, <2>3, <2>4, <2>5, ThreadFrame
<1>10. app'.half /\ layout'.deaths = 0 => app'.pc \in Removing
  <2>1. CASE app' = app
    BY <1>1, <2>1 DEF AppShape
  <2>2. CASE Initialize \/ Connect \/ TakeBackup \/ StageBackup \/ Spawn \/ Close
    <3>1. app'.half = app.half /\ app.pc \notin Removing
      BY <1>1, <2>2 DEF Initialize, Connect, TakeBackup, StageBackup, Spawn, Close, Goto,
          AppType, Removing
    <3> QED BY <1>1, <3>1 DEF AppShape
  <2>3. CASE ReinitStart \/ ReinitStopped \/ ReinitGivesUp \/ CleanFails
    <3>1. app'.half = app.half /\ app.pc \notin Removing
      BY <1>1, <2>3 DEF ReinitStart, ReinitStopped, ReinitGivesUp, CleanFails, Goto, AppType,
          Removing
    <3> QED BY <1>1, <3>1 DEF AppShape
  <2>4. CASE CleanDestination \/ Unstage \/ Unwork
    BY <1>1, <2>4 DEF CleanDestination, Unstage, Unwork, Goto, AppType, Removing
  <2>5. CASE Rehome
    BY <1>1, <2>5 DEF Rehome, AppType
  <2>6. CASE Die
    BY <1>1, <2>6 DEF Die, TypeInv
  <2> QED BY <2>1, <2>2, <2>3, <2>4, <2>5, <2>6, ThreadFrame
<1> QED BY <1>2, <1>3, <1>4, <1>5, <1>6, <1>7, <1>8, <1>9, <1>10 DEF AppShape

LEMMA InboxShapeStep == TypeInv /\ ShapeInv /\ [Next]_vars => InboxShape'
<1> SUFFICES ASSUME TypeInv, ShapeInv, [Next]_vars PROVE InboxShape'
  OBVIOUS
<1>1. /\ app \in AppType /\ worker \in WorkerType /\ inbox \in Seq(Message)
      /\ InboxShape /\ MaxInbox \in Nat /\ Len(inbox) \in Nat /\ app.reinits \in Nat
  BY LifecycleAssumption DEF TypeInv, ThreadTypes, ShapeInv, AppType
<1>2. worker'.pc = "off" => worker' = Off /\ inbox' = <<>>
  <2>1. CASE worker' = worker /\ inbox' = inbox
    BY <1>1, <2>1 DEF InboxShape
  <2>2. CASE WorkerExits \/ Die
    BY <2>2 DEF WorkerExits, Die
  <2>3. CASE Spawn
    <3>1. Started(app.mode).pc = "start"
      BY DEF Started, Off
    <3>2. [worker EXCEPT !.asked = app.mode].pc = worker.pc
      BY <1>1 DEF WorkerType
    <3>3. \/ worker' = worker /\ inbox' = inbox
          \/ worker'.pc = "start"
          \/ worker'.pc = worker.pc /\ worker.pc # "off"
      BY <2>3, <3>1, <3>2 DEF Spawn
    <3> QED BY <2>1, <3>3
  <2>4. CASE ReinitStart \/ ReinitGivesUp
    <3>1. \/ worker' = worker /\ inbox' = inbox
          \/ worker'.pc = worker.pc /\ worker.pc # "off"
      BY <1>1, <2>4 DEF ReinitStart, ReinitGivesUp, WorkerType
    <3> QED BY <2>1, <3>1
  <2>5. CASE WorkerStarts \/ ReceiveUpdate \/ ReceiveBoot \/ ReceiveShutdown \/ Leave \/ Tick
    <3>1. worker'.pc # "off"
      BY <1>1, <2>5 DEF WorkerStarts, ReceiveUpdate, ReceiveBoot, ReceiveShutdown, Leave, Tick,
          Idle, Attempt,
         WorkerType
    <3> QED BY <3>1
  <2>6. CASE Mirror \/ MarkInitializing \/ Seed \/ SeedFails \/ Record \/ Complete \/ Publish
               \/ BootstrapFails
    <3>1. worker'.pc # "off"
      BY <1>1, <2>6 DEF Mirror, MarkInitializing, Seed, SeedFails, Record, Complete, Publish,
          BootstrapFails, ToLoop,
         WorkerType
    <3> QED BY <3>1
  <2> QED BY <2>1, <2>2, <2>3, <2>4, <2>5, <2>6, ThreadFrame
<1>3. app'.pc \in {"backup", "stage", "spawn"} => Len(inbox') + 2 <= MaxInbox
  <2>1. CASE (app' = app \/ TakeBackup \/ StageBackup) /\ inbox' = inbox
    BY <1>1, <2>1 DEF InboxShape, TakeBackup, StageBackup, Goto, AppType
  <2>2. CASE Initialize \/ Connect
    BY <1>1, <2>2 DEF Initialize, Connect
  <2>3. CASE ReceiveUpdate \/ ReceiveBoot \/ ReceiveShutdown
    <3>1. inbox # <<>> /\ inbox' = Tail(inbox) /\ app' = app
      BY <2>3 DEF ReceiveUpdate, ReceiveBoot, ReceiveShutdown
    <3>2. Len(inbox') <= Len(inbox) /\ Len(inbox') \in Nat
      BY <1>1, <3>1
    <3> QED BY <1>1, <3>1, <3>2 DEF InboxShape
  <2>4. CASE WorkerExits
    <3>1. inbox' = <<>> /\ app' = app
      BY <2>4 DEF WorkerExits
    <3> QED BY <1>1, <3>1 DEF InboxShape
  <2>5. CASE Spawn \/ Close \/ Die
    <3>1. app'.pc \notin {"backup", "stage", "spawn"}
      BY <1>1, <2>5 DEF Spawn, Close, Die, Goto, Opened, AppType
    <3> QED BY <3>1
  <2>6. CASE ReinitStart \/ ReinitStopped \/ ReinitGivesUp \/ CleanDestination \/ CleanFails
              \/ Unstage \/ Unwork \/ Rehome
    <3>1. app'.pc \notin {"backup", "stage", "spawn"}
      BY <1>1, <2>6 DEF ReinitStart, ReinitStopped, ReinitGivesUp, CleanDestination, CleanFails,
          Unstage, Unwork,
         Rehome, Goto, AppType
    <3> QED BY <3>1
  <2>7. CASE TakeBackup \/ StageBackup
    <3>1. inbox' = inbox
      BY <2>7 DEF TakeBackup, StageBackup
    <3> QED BY <2>1, <2>7, <3>1
  <2> QED BY <2>1, <2>2, <2>3, <2>4, <2>5, <2>6, <2>7, ThreadFrame
<1>4. Len(inbox') <= MaxInbox + app'.reinits
  <2>1. CASE Spawn
    <3>1. inbox' = inbox \/ inbox' = Append(inbox, Boot) \/ inbox' = inbox \o <<Update(app.mode),
            Boot>>
      BY <2>1 DEF Spawn
    <3>2. Len(inbox') <= Len(inbox) + 2
      BY <1>1, <3>1
    <3>3. app'.reinits = app.reinits /\ app.pc = "spawn"
      BY <1>1, <2>1 DEF Spawn, Goto, Opened, AppType
    <3>4. Len(inbox) + 2 <= MaxInbox
      BY <1>1, <3>3 DEF InboxShape
    <3>5. Len(inbox') \in Nat
      BY <1>1, <3>1
    <3> QED BY <1>1, <3>2, <3>3, <3>4, <3>5
  <2>2. CASE ReinitStart
    <3>1. app'.reinits = app.reinits + 1
      BY <1>1, <2>2 DEF ReinitStart, AppType
    <3>2. Len(inbox') \in Nat /\ Len(inbox') <= Len(inbox) + 1
      BY <1>1, <2>2 DEF ReinitStart
    <3> QED BY <1>1, <3>1, <3>2 DEF InboxShape
  <2>3. CASE ReceiveUpdate \/ ReceiveBoot \/ ReceiveShutdown
    <3>1. inbox # <<>> /\ inbox' = Tail(inbox) /\ app' = app
      BY <2>3 DEF ReceiveUpdate, ReceiveBoot, ReceiveShutdown
    <3>2. Len(inbox') <= Len(inbox) /\ Len(inbox') \in Nat
      BY <1>1, <3>1
    <3> QED BY <1>1, <3>1, <3>2 DEF InboxShape
  <2>4. CASE WorkerExits \/ Die
    <3>1. inbox' = <<>> /\ app'.reinits = app.reinits
      BY <1>1, <2>4 DEF WorkerExits, Die, AppType
    <3> QED BY <1>1, <3>1
  <2>5. CASE inbox' = inbox /\ app'.reinits = app.reinits
    BY <1>1, <2>5 DEF InboxShape
  <2>6. CASE Initialize \/ Connect \/ TakeBackup \/ StageBackup \/ Close \/ ReinitStopped
    BY <1>1, <2>5, <2>6 DEF Initialize, Connect, TakeBackup, StageBackup, Close, ReinitStopped,
        Goto, AppType
  <2>7. CASE ReinitGivesUp \/ CleanDestination \/ CleanFails \/ Unstage \/ Unwork \/ Rehome
    BY <1>1, <2>5, <2>7 DEF ReinitGivesUp, CleanDestination, CleanFails, Unstage, Unwork, Rehome,
        Goto, AppType
  <2> QED BY <2>1, <2>2, <2>3, <2>4, <2>5, <2>6, <2>7, ThreadFrame
<1> QED BY <1>2, <1>3, <1>4 DEF InboxShape

LEMMA WorkerShapeStep == TypeInv /\ ShapeInv /\ [Next]_vars => WorkerShape'
<1> SUFFICES ASSUME TypeInv, ShapeInv, [Next]_vars PROVE WorkerShape'
  OBVIOUS
<1>1. /\ worker \in WorkerType /\ state \in StateType /\ work \in WorkType /\ src.commit \in Nat
      /\ SegShape /\ AppShape /\ InboxShape /\ WorkerShape /\ layout' = layout
         /\ (Local' <=> Local)
      /\ stage.segs \in Seq(Segment)
  BY Frame DEF TypeInv, FileTypes, ThreadTypes, ShapeInv, SrcType, StageType, Local
<1>2. /\ worker.pc = "off" => ~ worker.boot
      /\ Off.pc = "off" /\ ~ Off.boot
  BY <1>1 DEF InboxShape, Off
<1>3. src'.commit \in Nat /\ src'.commit >= src.commit
  BY <1>1, Frame DEF Commit
<1>4. CASE worker' = worker /\ state' = state /\ work'.next = work.next
  BY <1>1, <1>3, <1>4 DEF WorkerShape, StateType, WorkType
<1>5. CASE Apply
  <2>1. PICK n \in Unhandled : /\ work' = [work EXCEPT !.next = n + 1]
                               /\ state' = [state EXCEPT !.cleaned = IF n > @ THEN n ELSE @]
    BY <1>5 DEF Apply
  <2>2. n \in Nat /\ n + 1 <= src.commit
    BY <1>1 DEF Unhandled, SegShape
  <2>3. work'.next = n + 1 /\ work'.next \in Nat
    BY <1>1, <2>1, <2>2 DEF WorkType
  <2>4. /\ state'.init = state.init /\ state'.cleaned \in Nat
        /\ state'.cleaned = (IF n > state.cleaned THEN n ELSE state.cleaned)
    BY <1>1, <2>1, <2>2 DEF StateType
  <2>5. worker' = worker /\ src' = src /\ worker.boot
    BY <1>5 DEF Apply
  <2> QED BY <1>1, <2>2, <2>3, <2>4, <2>5 DEF WorkerShape
<1>6. CASE Publish
  <2>1. /\ state'.init = TRUE /\ state'.cleaned = state.cleaned /\ work' = work
        /\ worker'.pc = "idle" /\ worker'.boot = TRUE
    BY <1>1, <1>6 DEF Publish, ToLoop, WorkerType, WorkerPcs, StateType
  <2> QED BY <1>1, <1>3, <2>1 DEF WorkerShape, StateType, WorkType
<1>7. CASE (Unwork \/ LoseTemp)
  <2>1. worker' = worker /\ worker.pc = "off" /\ src' = src
    BY <1>1, <1>7 DEF Unwork, LoseTemp, AppShape, Removing
  <2>2. \/ state' = NewState /\ work'.next <= src.commit
        \/ state' = state /\ work' = NewWork
    BY <1>1, <1>7 DEF Unwork, LoseTemp, NewWork, WorkerShape
  <2>3. Local => work' = NewWork
    BY <1>7 DEF Unwork, LoseTemp
  <2>4. NewState.cleaned = 0 /\ ~ NewState.init /\ NewWork.next = 0
    BY DEF NewState, NewWork
  <2>5. /\ state'.cleaned <= src'.commit /\ work'.next <= src'.commit
        /\ state'.cleaned > 0 => state'.init
    BY <1>1, <2>1, <2>2, <2>4 DEF WorkerShape, StateType
  <2>6. Local /\ work'.next > 0 => state'.init
    BY <2>3, <2>4
  <2> QED BY <1>1, <1>2, <2>1, <2>5, <2>6 DEF WorkerShape
<1>8. CASE worker'.pc \in {"off", "start", "exit"} /\ state' = state /\ work'.next = work.next
           /\ (worker'.boot => worker.boot)
  BY <1>1, <1>3, <1>8 DEF WorkerShape, StateType, WorkType
<1>9. CASE WorkerStarts
  BY <1>1, <1>3, <1>4, <1>8, <1>9 DEF WorkerStarts, WorkerType, WorkerShape, StateType, WorkType
<1>10. CASE WorkerExits \/ Die
  <2>1. worker' = Off /\ state' = state /\ work'.next = work.next
    BY <1>1, <1>10 DEF WorkerExits, Die, WorkType
  <2> QED BY <1>2, <1>8, <2>1
<1>11. CASE Spawn
  <2>1. Started(app.mode).pc = "start" /\ ~ Started(app.mode).boot
    BY DEF Started, Off
  <2>2. \/ worker' = worker
        \/ worker'.pc = "start" /\ ~ worker'.boot
        \/ worker'.pc = worker.pc /\ worker'.boot = worker.boot
    BY <1>1, <1>11, <2>1 DEF Spawn, WorkerType
  <2>3. src' = src /\ state' = state /\ work' = work
    BY <1>11 DEF Spawn
  <2> QED BY <1>1, <2>2, <2>3 DEF WorkerShape
<1>12. CASE ReinitStart \/ ReinitGivesUp \/ ReceiveUpdate
  <2>1. worker'.pc = worker.pc /\ worker'.boot = worker.boot
    BY <1>1, <1>12 DEF ReinitStart, ReinitGivesUp, ReceiveUpdate, WorkerType
  <2>2. src' = src /\ state' = state /\ work' = work
    BY <1>12 DEF ReinitStart, ReinitGivesUp, ReceiveUpdate
  <2> QED BY <1>1, <2>1, <2>2 DEF WorkerShape
<1>13. CASE ReceiveBoot \/ ReceiveShutdown \/ Leave \/ Tick
  <2>1. worker.pc = "idle" /\ worker'.boot = worker.boot /\ worker'.pc \in {"idle", "mirror",
          "exit"}
    BY <1>1, <1>13 DEF ReceiveBoot, ReceiveShutdown, Leave, Tick, Idle, Attempt, WorkerType
  <2>2. src' = src /\ state' = state /\ work' = work
    BY <1>13 DEF ReceiveBoot, ReceiveShutdown, Leave, Tick
  <2> QED BY <1>1, <2>1, <2>2 DEF WorkerShape
<1>14. CASE Mirror
  <2>1. /\ worker.pc = "mirror" /\ worker'.boot = worker.boot
        /\ \/ worker'.pc = "idle"
           \/ worker'.pc \in {"mark", "seed"} /\ ~ worker.boot
    BY <1>1, <1>14 DEF Mirror, ToLoop, WorkerType
  <2>2. src' = src /\ state' = state /\ work'.next = work.next
    BY <1>1, <1>14 DEF Mirror, WorkType
  <2> QED BY <1>1, <2>1, <2>2 DEF WorkerShape
<1>15. CASE MarkInitializing \/ Seed \/ SeedFails \/ Record \/ Complete \/ BootstrapFails
  <2>1. /\ worker.pc \in {"mirror", "mark", "seed", "record", "complete", "publish"}
           /\ worker'.boot = worker.boot
        /\ \/ worker'.pc = "idle"
           \/ worker'.pc \in {"mark", "seed", "record", "complete", "publish"}
              /\ worker.pc # "mirror"
    BY <1>1, <1>15 DEF MarkInitializing, Seed, SeedFails, Record, Complete, BootstrapFails,
        ToLoop, WorkerType
  <2>2. src' = src /\ state' = state /\ work'.next = work.next
    BY <1>1, <1>15 DEF MarkInitializing, Seed, SeedFails, Record, Complete, BootstrapFails,
        WorkType
  <2> QED BY <1>1, <2>1, <2>2 DEF WorkerShape
<1>16. worker' = worker /\ state' = state /\ work' = work => WorkerShape'
  BY <1>4
<1> QED BY <1>5, <1>6, <1>7, <1>9, <1>10, <1>11, <1>12, <1>13, <1>14, <1>15, <1>16, Frame,
        ThreadFrame

LEMMA ShapeStep == TypeInv /\ ShapeInv /\ [Next]_vars => ShapeInv'
BY SrcShapeStep, HomeShapeStep, StagedBackupStep, SegShapeStep, AppShapeStep, InboxShapeStep,
    WorkerShapeStep
   DEF ShapeInv

LEMMA InitShape == Init => ShapeInv
<1> SUFFICES ASSUME Init PROVE ShapeInv
  OBVIOUS
<1>1. layout.before = 1 .. Cardinality(layout.before) /\ layout.reinits \in Nat
        /\ MaxInbox \in Nat
  BY LifecycleAssumption DEF Init
<1>2. layout.before \subseteq Rows /\ Cardinality(layout.before) \in Nat
  BY LifecycleAssumption, FS_Subset, FS_CardinalityType DEF Init
<1>3. SrcShape
  BY <1>1, <1>2 DEF Init, SrcShape
<1>4. HomeShape /\ StagedBackup
  BY DEF Init, HomeShape, StagedBackup, NewHome, NewStage, NoBackup
<1>5. SegShape
  BY DEF Init, SegShape, NewStage
<1>6. AppShape /\ InboxShape
  BY <1>1 DEF Init, AppShape, InboxShape, Removing, Off
<1>7. WorkerShape
  BY DEF Init, WorkerShape, NewState, NewWork, Off
<1> QED BY <1>3, <1>4, <1>5, <1>6, <1>7 DEF ShapeInv

--------------------------------------------------------------------------------
(* The checkpoint                                                              *)

\* Until the stage directory is removed, what is staged stays.
LEMMA StageGrows ==
  ASSUME TypeInv, ShapeInv, [Next]_vars, ~ Unstage
  PROVE  /\ Len(stage'.segs) \in Nat /\ Len(stage'.segs) >= Len(stage.segs)
         /\ \A k \in 1 .. Len(stage.segs) : stage'.segs[k] = stage.segs[k]
         /\ stage'.backup.base = stage.backup.base \/ stage.backup = NoBackup
         /\ stage'.backup.base \in Nat
         /\ stage.backup.is # "none" => stage'.backup = stage.backup
<1>1. /\ stage \in StageType /\ stage.segs \in Seq(Segment) /\ stage.backup \in BackupType
      /\ home \in HomeType /\ StagedBackup
  BY DEF TypeInv, FileTypes, ShapeInv, StageType
<1>2. stage.backup.base \in Nat /\ home.backup.base \in Nat /\ Len(stage.segs) \in Nat
  BY <1>1 DEF BackupType, HomeType
<1>3. CASE stage' = stage
  BY <1>1, <1>2, <1>3
<1>4. CASE Commit
  <2> DEFINE seg == [row |-> NextRow, commit |-> src.commit + 1]
  <2>1. seg \in Segment
    BY <1>4 DEF Commit, Segment, TypeInv, FileTypes, SrcType
  <2> HIDE DEF seg
  <2>2. stage'.segs = Append(stage.segs, seg) /\ stage'.backup = stage.backup
    BY <1>1, <1>4 DEF Commit, StageType, seg
  <2> QED BY <1>1, <1>2, <2>1, <2>2
<1>5. CASE StageBackup \/ Die
  <2>1. stage' \in StageType
    BY FileTypesStep DEF FileTypes
  <2>2. stage'.segs = stage.segs
    BY <1>1, <1>5 DEF StageBackup, Die, StageType
  <2>3. stage'.backup = stage.backup \/ stage.backup.is = "none"
    BY <1>1, <1>5 DEF StageBackup, Die, StageType
  <2>4. stage'.backup.base \in Nat
    BY <2>1 DEF StageType, BackupType
  <2> QED BY <1>1, <1>2, <2>2, <2>3, <2>4 DEF StagedBackup
<1> QED BY <1>3, <1>4, <1>5, Frame

\* What the destination keeps for the device, after a copy of the snapshot that is
\* committed or fails
LEMMA SeedingIs ==
  ASSUME TypeInv, ShapeInv, CkptInv, Seed \/ SeedFails
  PROVE  \/ dst' = dst
         \/ ~ dst.ckpt.there /\ dst' = Seeded(dst)
         \/ /\ Readable /\ dst' \in DstType
            /\ dst'.ckpt = Ckpt(stage.backup.base, 0) /\ dst'.marker = {stage.backup.base}
            /\ dst'.complete = dst.complete
            /\ dst.ckpt.there => dst.ckpt.upto = 0 /\ dst.ckpt.commit <= stage.backup.base
            /\ ~ (dst.ckpt.there /\ dst.ckpt.init /\ dst.ckpt.commit >= stage.backup.base)
            /\ TableFrom(layout, worker.mode, dst, stage.backup, dst')
<1> DEFINE b == stage.backup
           d == Initialized(layout, worker.mode, SeededApart(layout, dst), b)
<1>1. b \in BackupType /\ dst \in DstType /\ b.base \in Nat /\ stage.segs \in Seq(Segment)
  BY DEF TypeInv, FileTypes, StageType, BackupType
<1>2. SeededApart(layout, dst) = dst \/ (~ dst.ckpt.there /\ SeededApart(layout,
        dst) = Seeded(dst))
  BY DEF SeededApart, Seeded
<1>3. CASE dst' = SeededApart(layout, dst)
  BY <1>2, <1>3
<1>4. CASE dst' = d /\ Readable
  <2>1. CASE dst.ckpt.there /\ dst.ckpt.init /\ dst.ckpt.commit >= b.base /\ d = dst
    BY <1>4, <2>1
  <2>2. CASE b.base \in dst.marker /\ d = SeededApart(layout, dst)
    BY <1>2, <1>4, <2>2
  <2>3. CASE /\ ~ (dst.ckpt.there /\ dst.ckpt.init /\ dst.ckpt.commit >= b.base)
             /\ d.ckpt = Ckpt(b.base, 0) /\ d \in DstType
             /\ d.marker = {b.base} /\ d.complete = dst.complete
             /\ TableFrom(layout, worker.mode, dst, b, d)
    <3>1. ASSUME dst.ckpt.there PROVE dst.ckpt.upto = 0 /\ dst.ckpt.commit <= b.base
      <4>1. dst.ckpt.upto \in Nat
        BY <1>1 DEF DstType, CkptType
      <4>2. CASE dst.ckpt.upto = 0
        BY <3>1, <4>2 DEF CkptInv
      <4>3. CASE dst.ckpt.upto > 0
        <5>1. /\ dst.ckpt.init /\ dst.ckpt.commit = stage.segs[dst.ckpt.upto].commit
              /\ dst.ckpt.upto \in DOMAIN stage.segs
          BY <1>1, <3>1, <4>1, <4>3 DEF CkptInv
        <5>2. b.base < stage.segs[dst.ckpt.upto].commit /\ stage.segs[dst.ckpt.upto] \in Segment
          BY <1>1, <5>1 DEF ShapeInv, SegShape
        <5>3. stage.segs[dst.ckpt.upto].commit \in Nat
          BY <5>2 DEF Segment
        <5> QED BY <1>1, <2>3, <3>1, <5>1, <5>2, <5>3
      <4> QED BY <4>1, <4>2, <4>3
    <3> HIDE DEF d, b
    <3> QED BY <1>4, <2>3, <3>1 DEF b
  <2>4. IsSeeding(layout, worker.mode, dst, b, d)
    BY <1>1, SeedIs
  <2> HIDE DEF d, b
  <2> QED BY <2>1, <2>2, <2>3, <2>4 DEF IsSeeding
<1> QED BY <1>3, <1>4 DEF Seed, SeedFails

\* The segment that is applied is the one after the checkpoint, where there is one.
LEMMA ApplyingIs ==
  ASSUME TypeInv, ShapeInv, CkptInv, Apply
  PROVE  \E n \in Nat :
           /\ n < Len(stage.segs) /\ stage.segs[n + 1] \in Segment
           /\ n >= state.cleaned /\ (Local /\ layout.device = "store" => n >= work.next)
           /\ dst.ckpt.there => n = dst.ckpt.upto
           /\ IsApplied(layout, dst, n, stage.segs[n + 1], dst')
           /\ work'.next = n + 1 /\ work'.table = work.table /\ work'.complete = work.complete
           /\ state'.cleaned = n /\ state'.init = state.init
<1>1. /\ stage.segs \in Seq(Segment) /\ dst \in DstType /\ state \in StateType
         /\ work \in WorkType
      /\ Len(stage.segs) \in Nat /\ dst.ckpt.upto \in Nat /\ state.cleaned \in Nat
         /\ work.next \in Nat
  BY DEF TypeInv, FileTypes, StageType, DstType, CkptType, StateType, WorkType
<1>2. PICK n \in Unhandled :
        /\ \A o \in Unhandled : n <= o
        /\ dst' = SegmentApplied(layout, dst, n, stage.segs[n + 1])
        /\ work' = [work EXCEPT !.next = n + 1]
        /\ state' = [state EXCEPT !.cleaned = IF n > @ THEN n ELSE @]
  BY DEF Apply
<1>3. n \in Nat /\ n < Len(stage.segs) /\ ~ Handled(n)
  BY <1>1, <1>2 DEF Unhandled
<1>4. stage.segs[n + 1] \in Segment
  BY <1>1, <1>3
<1>5. n >= state.cleaned /\ (Local /\ layout.device = "store" => n >= work.next)
  BY <1>1, <1>3 DEF Handled
<1>6. ASSUME dst.ckpt.there PROVE n = dst.ckpt.upto
  <2> DEFINE u == dst.ckpt.upto
  <2>1. n >= u
    BY <1>1, <1>3, <1>5, <1>6 DEF Handled, Covers, CkptInv
  <2>2. ~ Handled(u)
    BY <1>1, <1>6 DEF Handled, Covers, CkptInv
  <2>3. u \in Unhandled
    BY <1>1, <1>3, <2>1, <2>2 DEF Unhandled
  <2> QED BY <1>1, <1>2, <1>3, <2>1, <2>3
<1>7. /\ work'.next = n + 1 /\ work'.table = work.table /\ work'.complete = work.complete
      /\ state'.cleaned = n /\ state'.init = state.init
  BY <1>1, <1>2, <1>3, <1>5 DEF WorkType, StateType
<1>8. IsApplied(layout, dst, n, stage.segs[n + 1], dst')
  <2>1. IsApplied(layout, dst, n, stage.segs[n + 1], SegmentApplied(layout, dst, n,
          stage.segs[n + 1]))
    BY <1>1, <1>3, <1>4, AppliedIs
  <2> QED BY <1>2, <2>1
<1> QED BY <1>3, <1>4, <1>5, <1>6, <1>7, <1>8

LEMMA CkptStep == TypeInv /\ ShapeInv /\ CkptInv /\ [Next]_vars => CkptInv'
<1> SUFFICES ASSUME TypeInv, ShapeInv, CkptInv, [Next]_vars PROVE CkptInv'
  OBVIOUS
<1>1. /\ stage \in StageType /\ stage.segs \in Seq(Segment) /\ stage.backup \in BackupType
      /\ dst \in DstType /\ state \in StateType /\ work \in WorkType /\ home \in HomeType
      /\ AppShape /\ InboxShape /\ WorkerShape /\ StagedBackup /\ HomeShape
      /\ layout' = layout /\ (Local' <=> Local)
  BY Frame DEF TypeInv, FileTypes, ShapeInv, StageType, Local
<1>2. /\ dst.ckpt \in CkptType /\ dst.ckpt.upto \in Nat /\ dst.ckpt.commit \in Nat
         /\ state.cleaned \in Nat
      /\ work.next \in Nat /\ stage.backup.base \in Nat /\ home.backup.base \in Nat
  BY <1>1 DEF DstType, CkptType, StateType, WorkType, BackupType, HomeType
<1>3. CASE Seed \/ SeedFails
  <2>1. stage' = stage /\ state' = state /\ work' = work /\ ~ state.init
    BY <1>1, <1>3 DEF Seed, SeedFails, WorkerShape
  <2>2. state.cleaned = 0 /\ (Local => work.next = 0)
    BY <1>1, <1>2, <2>1 DEF WorkerShape
  <2>3. CASE dst' = dst
    BY <1>1, <2>1, <2>3 DEF CkptInv
  <2>4. CASE ~ dst.ckpt.there /\ dst' = Seeded(dst)
    <3>1. /\ dst'.ckpt.there /\ dst'.ckpt.upto = 0 /\ dst'.ckpt.commit = 0
             /\ dst'.marker = dst.marker
      BY <1>1, <2>4, SeededIs
    <3>2. dst.marker = {}
      BY <2>4 DEF CkptInv
    <3> QED BY <1>1, <1>2, <2>1, <2>2, <3>1, <3>2 DEF CkptInv
  <2>5. CASE dst'.ckpt = Ckpt(stage.backup.base, 0) /\ Readable
    <3>1. /\ dst'.ckpt.there /\ dst'.ckpt.upto = 0 /\ dst'.ckpt.commit = stage.backup.base
             /\ dst'.ckpt.init
          /\ stage.backup.is # "none"
      BY <2>5 DEF Ckpt, Readable
    <3> QED BY <1>1, <1>2, <2>1, <2>2, <3>1 DEF CkptInv
  <2> QED BY <1>3, <2>3, <2>4, <2>5, SeedingIs
<1>4. CASE Apply
  <2>1. PICK n \in Nat :
           /\ n < Len(stage.segs) /\ stage.segs[n + 1] \in Segment
           /\ IsApplied(layout, dst, n, stage.segs[n + 1], dst')
           /\ work'.next = n + 1 /\ state'.cleaned = n
    BY <1>4, ApplyingIs
  <2>2. dst'.ckpt = Ckpt(stage.segs[n + 1].commit, n + 1)
    BY <2>1 DEF IsApplied
  <2>3. /\ dst'.ckpt.there /\ dst'.ckpt.upto = n + 1
           /\ dst'.ckpt.commit = stage.segs[n + 1].commit
        /\ dst'.ckpt.init
    BY <2>2 DEF Ckpt
  <2>4. stage' = stage
    BY <1>4 DEF Apply
  <2>5. Len(stage.segs) \in Nat
    BY <1>1
  <2>6. stage.backup.is # "none"
    <3>1. stage.segs # <<>>
      BY <1>1, <2>1, <2>5
    <3> QED BY <1>1, <3>1 DEF StagedBackup
  <2>7. stage.backup.base <= stage.segs[n + 1].commit
    <3>1. n + 1 \in DOMAIN stage.segs /\ stage.segs[n + 1].commit \in Nat
      BY <1>1, <2>1, <2>5 DEF Segment
    <3>2. stage.backup.base < stage.segs[n + 1].commit
      BY <3>1 DEF ShapeInv, SegShape
    <3> QED BY <1>2, <3>1, <3>2
  <2>8. n + 1 # 0 /\ n <= n + 1 /\ n + 1 <= Len(stage.segs) /\ n + 1 \in Nat
    BY <2>1, <2>5
  <2> QED BY <1>1, <2>1, <2>3, <2>4, <2>6, <2>7, <2>8 DEF CkptInv
<1>5. CASE CleanDestination
  <2>1. dst'.ckpt = NoRow /\ dst'.marker = {}
    BY <1>1, <1>5 DEF CleanDestination, DeviceForgotten, DstType
  <2>2. ~ dst'.ckpt.there
    BY <2>1 DEF NoRow
  <2> QED BY <2>1, <2>2 DEF CkptInv
<1>6. ASSUME dst'.ckpt = dst.ckpt, dst'.marker = dst.marker
      PROVE  CkptInv'
  <2>1. CASE ~ dst.ckpt.there
    BY <1>6, <2>1 DEF CkptInv
  <2>2. CASE dst.ckpt.there
    <3>1. app.pc \notin Removing
      BY <1>1, <2>2 DEF AppShape, NoRow
    <3>2. ~ Unwork /\ ~ Unstage
      BY <3>1 DEF Unwork, Unstage, Removing
    <3>3. CASE Apply
      BY <1>4, <3>3
    <3>4. ASSUME ~ Apply
          PROVE  state'.cleaned <= dst.ckpt.upto /\ work'.next = work.next
      <4>1. state'.cleaned <= dst.ckpt.upto
        <5>1. CASE LoseTemp
          BY <1>2, <5>1 DEF LoseTemp, NewState
        <5>2. CASE Publish
          BY <1>1, <2>2, <5>2 DEF Publish, StateType, CkptInv
        <5> QED BY <2>2, <3>2, <3>4, <5>1, <5>2, Frame DEF CkptInv
      <4>2. work'.next = work.next
        <5>1. CASE Mirror \/ MarkInitializing \/ Record
          BY <1>1, <5>1 DEF Mirror, MarkInitializing, Record, WorkType
        <5>2. CASE Complete \/ Die
          BY <1>1, <5>2 DEF Complete, Die, WorkType
        <5> QED BY <3>2, <3>4, <5>1, <5>2, Frame
      <4> QED BY <4>1, <4>2
    <3>5. /\ Len(stage'.segs) \in Nat /\ Len(stage'.segs) >= Len(stage.segs)
          /\ \A k \in 1 .. Len(stage.segs) : stage'.segs[k] = stage.segs[k]
          /\ stage'.backup.base = stage.backup.base \/ stage.backup = NoBackup
          /\ stage'.backup.base \in Nat
          /\ stage.backup.is # "none" => stage'.backup = stage.backup
      BY <3>2, StageGrows
    <3>6. stage.backup = NoBackup => stage.backup.base = 0
      BY DEF NoBackup
    <3>7. Len(stage.segs) \in Nat
      BY <1>1
    <3>8. CASE ~ Apply
      <4>1. /\ dst'.ckpt.there /\ dst'.ckpt.upto = dst.ckpt.upto
               /\ dst'.ckpt.commit = dst.ckpt.commit
            /\ dst'.ckpt.init = dst.ckpt.init
        BY <1>6, <2>2
      <4>2. dst.ckpt.upto <= Len(stage'.segs)
        BY <1>2, <2>2, <3>5, <3>7 DEF CkptInv
      <4>3. IF dst.ckpt.upto = 0 THEN dst.ckpt.commit <= stage'.backup.base
            ELSE dst.ckpt.init /\ dst.ckpt.commit = stage'.segs[dst.ckpt.upto].commit
        <5>1. CASE dst.ckpt.upto = 0
          <6>1. dst.ckpt.commit <= stage.backup.base
            BY <2>2, <5>1 DEF CkptInv
          <6>2. CASE stage.backup = NoBackup
            BY <1>2, <3>5, <3>6, <5>1, <6>1, <6>2
          <6>3. CASE stage'.backup.base = stage.backup.base
            BY <5>1, <6>1, <6>3
          <6> QED BY <3>5, <6>2, <6>3
        <5>2. CASE dst.ckpt.upto # 0
          <6>1. /\ dst.ckpt.init /\ dst.ckpt.commit = stage.segs[dst.ckpt.upto].commit
                /\ dst.ckpt.upto \in 1 .. Len(stage.segs)
            BY <1>2, <2>2, <3>7, <5>2 DEF CkptInv
          <6> QED BY <3>5, <5>2, <6>1
        <5> QED BY <5>1, <5>2
      <4>4. Local' /\ layout'.device = "store" => work'.next = dst.ckpt.upto
        BY <1>1, <2>2, <3>4, <3>8 DEF CkptInv
      <4>5. dst.marker # {} => /\ dst.ckpt.init /\ dst.ckpt.commit >= stage'.backup.base
                               /\ stage'.backup.is # "none"
        BY <2>2, <3>5 DEF CkptInv
      <4> QED BY <1>6, <3>4, <3>8, <4>1, <4>2, <4>3, <4>4, <4>5 DEF CkptInv
    <3> QED BY <3>3, <3>8
  <2> QED BY <2>1, <2>2
<1>7. CASE Complete
  BY <1>1, <1>6, <1>7 DEF Complete, DstType
<1> QED BY <1>3, <1>4, <1>5, <1>6, <1>7, Frame

\* The checkpoint goes to the next segment, or stays.
LEMMA CkptNeverBack ==
  TypeInv /\ ShapeInv /\ CkptInv /\ [Next]_vars /\ dst.ckpt.there /\ dst'.ckpt.there =>
    /\ dst'.ckpt.commit >= dst.ckpt.commit
    /\ dst'.ckpt.upto \in {dst.ckpt.upto, dst.ckpt.upto + 1}
<1> SUFFICES ASSUME TypeInv, ShapeInv, CkptInv, [Next]_vars, dst.ckpt.there, dst'.ckpt.there
             PROVE  /\ dst'.ckpt.commit >= dst.ckpt.commit
                    /\ dst'.ckpt.upto \in {dst.ckpt.upto, dst.ckpt.upto + 1}
  OBVIOUS
<1>1. /\ dst \in DstType /\ dst.ckpt.commit \in Nat /\ dst.ckpt.upto \in Nat
      /\ stage.segs \in Seq(Segment) /\ stage.backup.base \in Nat
  BY DEF TypeInv, FileTypes, DstType, CkptType, StageType, BackupType
<1>2. CASE dst'.ckpt = dst.ckpt
  BY <1>1, <1>2
<1>3. CASE Seed \/ SeedFails
  <2>1. CASE /\ dst'.ckpt = Ckpt(stage.backup.base, 0)
             /\ dst.ckpt.upto = 0 /\ dst.ckpt.commit <= stage.backup.base
    <3>1. dst'.ckpt.commit = stage.backup.base /\ dst'.ckpt.upto = 0
      BY <2>1 DEF Ckpt
    <3> QED BY <1>1, <2>1, <3>1
  <2> QED BY <1>2, <1>3, <2>1, SeedingIs
<1>4. CASE Apply
  <2>1. PICK n \in Nat :
           /\ n < Len(stage.segs) /\ stage.segs[n + 1] \in Segment /\ n = dst.ckpt.upto
           /\ IsApplied(layout, dst, n, stage.segs[n + 1], dst')
    BY <1>4, ApplyingIs
  <2>2. dst'.ckpt = Ckpt(stage.segs[n + 1].commit, n + 1)
    BY <2>1 DEF IsApplied
  <2>3. dst'.ckpt.commit = stage.segs[n + 1].commit /\ dst'.ckpt.upto = n + 1
    BY <2>2 DEF Ckpt
  <2>4. stage.segs[n + 1].commit \in Nat /\ n + 1 \in DOMAIN stage.segs /\ (n > 0
          => n \in DOMAIN stage.segs)
    BY <1>1, <2>1 DEF Segment
  <2>5. stage.backup.base < stage.segs[n + 1].commit
    BY <2>4 DEF ShapeInv, SegShape
  <2>6. CASE n = 0
    <3>1. dst.ckpt.commit <= stage.backup.base
      BY <2>1, <2>6 DEF CkptInv
    <3> QED BY <1>1, <2>1, <2>3, <2>4, <2>5, <3>1
  <2>7. CASE n > 0
    <3>1. dst.ckpt.commit = stage.segs[n].commit
      BY <2>1, <2>7 DEF CkptInv
    <3>2. stage.segs[n].commit < stage.segs[n + 1].commit
      BY <2>4, <2>7 DEF ShapeInv, SegShape
    <3> QED BY <1>1, <2>1, <2>3, <2>4, <3>1, <3>2
  <2> QED BY <2>6, <2>7
<1>5. CASE Complete
  BY <1>1, <1>2, <1>5 DEF Complete, DstType
<1>6. CASE CleanDestination
  <2>1. ~ dst'.ckpt.there
    BY <1>1, <1>6 DEF CleanDestination, DeviceForgotten, DstType, NoRow
  <2> QED BY <2>1
<1> QED BY <1>2, <1>3, <1>4, <1>5, <1>6, Frame

LEMMA OthersStep == TypeInv /\ OthersKept /\ [Next]_vars => OthersKept'
<1> SUFFICES ASSUME TypeInv, OthersKept, [Next]_vars, layout.mode = "consolidation"
             PROVE  dst'.others = dst.others
  BY Frame DEF OthersKept
<1>1. dst \in DstType /\ stage.backup \in BackupType
  BY DEF TypeInv, FileTypes, StageType
<1>2. CASE Seed \/ SeedFails
  <2>1. SeededApart(layout, dst).others = dst.others
    BY <1>1, SeededIs DEF SeededApart
  <2> DEFINE e == Initialized(layout, worker.mode, SeededApart(layout, dst), stage.backup)
  <2>3. IsSeeding(layout, worker.mode, dst, stage.backup, e)
    BY <1>1, SeedIs
  <2>2. e.others = dst.others
    BY <2>3 DEF IsSeeding
  <2> QED BY <1>2, <2>1, <2>2 DEF Seed, SeedFails
<1>3. CASE Apply
  <2>1. PICK n \in Unhandled : dst' = SegmentApplied(layout, dst, n, stage.segs[n + 1])
    BY <1>3 DEF Apply
  <2>2. stage.segs \in Seq(Segment)
    BY DEF TypeInv, FileTypes, StageType
  <2>3. n \in Nat /\ stage.segs[n + 1] \in Segment
    BY <2>2 DEF Unhandled
  <2>4. IsApplied(layout, dst, n, stage.segs[n + 1], SegmentApplied(layout, dst, n,
          stage.segs[n + 1]))
    BY <1>1, <2>3, AppliedIs
  <2> QED BY <2>1, <2>4 DEF IsApplied
<1>4. CASE Complete
  BY <1>1, <1>4 DEF Complete, DstType
<1>5. CASE CleanDestination
  BY <1>1, <1>5 DEF CleanDestination, DeviceForgotten, DstType
<1> QED BY <1>2, <1>3, <1>4, <1>5, Frame

--------------------------------------------------------------------------------
(* What was written before                                                     *)

\* A copy that succeeds leaves the marker, or found the snapshot completed.
LEMMA SeedMarks ==
  ASSUME TypeInv, CkptInv, Seed
  PROVE  dst'.marker # {} \/ (dst.ckpt.there /\ dst.ckpt.init)
<1>1. dst \in DstType /\ stage.backup \in BackupType
  BY DEF TypeInv, FileTypes, StageType
<1>2. IsSeeding(layout, worker.mode, dst, stage.backup, dst')
  BY <1>1, SeedIs DEF Seed
<1>3. SeededApart(layout, dst).marker = dst.marker
  BY <1>1, SeededIs DEF SeededApart
<1> QED BY <1>2, <1>3 DEF IsSeeding

\* A backup that was copied is the one in the stage directory.
LEMMA BackupStays ==
  ASSUME TypeInv, ShapeInv, CkptInv, [Next]_vars, dst.marker # {}
  PROVE  stage'.backup = stage.backup
<1>1. stage.backup.is # "none"
  BY DEF CkptInv
<1>2. ~ Unstage
  BY DEF Unstage, ShapeInv, AppShape, Removing
<1> QED BY <1>1, <1>2, StageGrows

LEMMA BackedStep ==
  TypeInv /\ ShapeInv /\ CkptInv /\ Resets /\ BackedInv /\ [Next]_vars => BackedInv'
<1> SUFFICES ASSUME TypeInv, ShapeInv, CkptInv, Resets, BackedInv, [Next]_vars PROVE BackedInv'
  OBVIOUS
<1>1. /\ worker \in WorkerType /\ app \in AppType /\ state \in StateType /\ work \in WorkType
         /\ dst \in DstType
      /\ AppShape /\ InboxShape /\ WorkerShape
      /\ layout' = layout /\ (Local' <=> Local) /\ layout.reinits \in Nat
  BY Frame, LifecycleAssumption DEF TypeInv, FileTypes, ThreadTypes, ShapeInv, Local
<1>0. dst.marker # {} => stage'.backup = stage.backup
  BY BackupStays
<1> USE DEF HasTable
<1>2. ASSUME app'.half = app.half, dst' = dst, work'.table = work.table,
               work'.complete = work.complete,
             state'.init => state.init, worker'.pc = worker.pc \/ worker'.pc \notin {"record",
               "complete", "publish"}
      PROVE  BackedInv'
  BY <1>0, <1>1, <1>2 DEF BackedInv
<1>3. CASE Seed
  <2>1. /\ app' = app /\ work' = work /\ state' = state /\ worker'.pc = "record" /\ ~ state.init
        /\ stage' = stage
    BY <1>1, <1>3 DEF Seed, WorkerType, WorkerShape
  <2>2. ~ app.half => dst'.marker # {}
    <3>1. CASE dst.ckpt.there /\ dst.ckpt.init /\ ~ app.half
      <4>1. dst.marker # {}
        BY <3>1 DEF BackedInv
      <4>2. dst'.marker # {}
        BY <1>3, <3>1, <4>1, SeedingIs
      <4> QED BY <4>2
    <3> QED BY <1>3, <3>1, SeedMarks
  <2>3. dst'.marker # {} /\ HasTable(stage.backup) => dst'.table = "INITIALIZED"
    BY <1>1, <1>3, SeedingIs, SeededIs DEF BackedInv, TableFrom
  <2>4. dst'.complete = dst.complete /\ (layout.reinits = 0 => ~ app'.half)
    BY <1>1, <1>3, <2>1, SeedingIs, SeededIs DEF BackedInv
  <2> QED BY <1>1, <2>1, <2>2, <2>3, <2>4 DEF BackedInv
<1>4. CASE SeedFails
  <2>1. /\ app' = app /\ work' = work /\ state' = state /\ worker'.pc = "idle" /\ ~ state.init
        /\ stage' = stage
    BY <1>1, <1>4 DEF SeedFails, ToLoop, WorkerType, WorkerShape
  <2>2. dst'.marker # {} /\ HasTable(stage.backup) => dst'.table = "INITIALIZED"
    BY <1>1, <1>4, SeedingIs, SeededIs DEF BackedInv, TableFrom
  <2>3. ~ app.half => (dst'.ckpt.init => dst'.marker # {})
    <3>1. CASE dst' = dst
      BY <3>1 DEF BackedInv
    <3>2. CASE ~ dst.ckpt.there /\ dst' = Seeded(dst)
      BY <1>1, <3>2, SeededIs
    <3>3. CASE dst'.marker = {stage.backup.base}
      BY <3>3
    <3> QED BY <1>4, <3>1, <3>2, <3>3, SeedingIs
  <2> QED BY <1>1, <2>1, <2>2, <2>3 DEF BackedInv
<1>5. CASE Apply
  <2>1. PICK n \in Nat : /\ IsApplied(layout, dst, n, stage.segs[n + 1], dst')
                         /\ work'.table = work.table /\ work'.complete = work.complete
                         /\ state'.init = state.init
    BY <1>5, ApplyingIs
  <2>2. worker' = worker /\ app' = app /\ state.init /\ stage' = stage
    BY <1>1, <1>5 DEF Apply, WorkerShape
  <2>3. dst'.marker = dst.marker /\ dst'.table = dst.table /\ dst'.complete = dst.complete
    BY <2>1 DEF IsApplied
  <2> QED BY <1>1, <2>1, <2>2, <2>3 DEF BackedInv
<1>6. CASE Record
  <2>1. /\ app' = app /\ dst' = dst /\ state' = state /\ worker.pc = "record"
           /\ worker'.pc = "complete"
        /\ ~ state.init /\ stage' = stage
    BY <1>1, <1>6 DEF Record, WorkerType, WorkerShape
  <2>2. work'.complete = work.complete /\ (Local /\ HasTable(stage.backup)
          => work'.table = "INITIALIZED")
    BY <1>1, <1>6 DEF Record, WorkType
  <2> QED BY <1>1, <2>1, <2>2 DEF BackedInv
<1>7. CASE Complete
  <2>1. /\ app' = app /\ state' = state /\ worker.pc = "complete" /\ worker'.pc = "publish"
           /\ ~ state.init
        /\ worker'.boot = worker.boot /\ stage' = stage
    BY <1>1, <1>7 DEF Complete, WorkerType, WorkerShape
  <2>2. work'.table = work.table /\ (Local => work'.complete)
    BY <1>1, <1>7 DEF Complete, WorkType
  <2>3. /\ dst'.marker = dst.marker /\ dst'.table = dst.table /\ dst'.ckpt = dst.ckpt
        /\ (~ Local => dst'.complete)
    BY <1>1, <1>7 DEF Complete, DstType
  <2> QED BY <1>1, <2>1, <2>2, <2>3 DEF BackedInv
<1>8. CASE Publish
  <2>1. app' = app /\ dst' = dst /\ work' = work /\ worker.pc = "publish"
          /\ worker'.pc = "idle" /\ stage' = stage
    BY <1>1, <1>8 DEF Publish, ToLoop, WorkerType, WorkerPcs
  <2> QED BY <1>1, <2>1 DEF BackedInv
<1>9. CASE CleanDestination
  <2>1. dst'.marker = {} /\ app'.half = TRUE
    BY <1>1, <1>9 DEF CleanDestination, DeviceForgotten, DstType, AppType
  <2>2. layout.reinits # 0
    BY <1>1, <1>9 DEF CleanDestination, AppShape, AppType
  <2> QED BY <1>1, <2>1, <2>2 DEF BackedInv
<1>10. CASE Rehome
  <2>1. dst' = dst /\ state' = state /\ work' = work /\ worker' = worker /\ app'.half = FALSE
    BY <1>1, <1>10 DEF Rehome, AppType
  <2>2. app.half /\ dst.ckpt = NoRow /\ dst.marker = {} /\ worker.pc = "off" /\ (Local
          => state = NewState)
    BY <1>1, <1>10 DEF Rehome, AppShape, Removing
  <2>3. Local
    BY <2>2 DEF BackedInv, Resets
  <2>4. ~ state.init /\ ~ dst.ckpt.init
    BY <2>2, <2>3 DEF NewState, NoRow
  <2> QED BY <1>1, <2>1, <2>2, <2>4 DEF BackedInv
<1>11. CASE Unwork
  <2>1. dst' = dst /\ worker' = worker /\ app'.half = app.half /\ app.half
    BY <1>1, <1>11 DEF Unwork, Goto, AppType, AppShape, Removing
  <2> QED BY <1>0, <1>1, <2>1 DEF BackedInv
<1>12. CASE MarkInitializing
  <2>1. /\ app' = app /\ dst' = dst /\ state' = state /\ ~ state.init /\ worker'.pc = "seed"
        /\ stage' = stage
    BY <1>1, <1>12 DEF MarkInitializing, WorkerType, WorkerShape
  <2> QED BY <1>1, <2>1 DEF BackedInv
<1>13. CASE LoseTemp
  BY <1>1, <1>2, <1>13 DEF LoseTemp, NewState
<1>14. CASE WorkerStarts \/ ReceiveUpdate \/ ReceiveBoot \/ ReceiveShutdown \/ Leave \/ Tick
              \/ WorkerExits
  <2>1. app' = app /\ dst' = dst /\ work' = work /\ state' = state
    BY <1>14 DEF WorkerStarts, ReceiveUpdate, ReceiveBoot, ReceiveShutdown, Leave, Tick,
        WorkerExits
  <2>2. CASE WorkerStarts \/ Leave \/ WorkerExits
    <3>1. worker'.pc \in {"idle", "exit", "off"}
      <4>1. CASE WorkerStarts
        BY <1>1, <4>1 DEF WorkerStarts, WorkerType, WorkerPcs, StateType
      <4>2. CASE Leave
        BY <1>1, <4>2 DEF Leave, WorkerType
      <4>3. CASE WorkerExits
        BY <4>3 DEF WorkerExits, Off
      <4> QED BY <2>2, <4>1, <4>2, <4>3
    <3> QED BY <1>2, <2>1, <3>1
  <2>4. CASE ReceiveUpdate
    <3>1. worker'.pc = worker.pc
      BY <1>1, <2>4 DEF ReceiveUpdate, WorkerType
    <3> QED BY <1>2, <2>1, <3>1
  <2>3. CASE ReceiveBoot \/ ReceiveShutdown \/ Tick
    <3>1. worker'.pc \in {"idle", "mirror", "exit"}
      BY <1>1, <2>3 DEF ReceiveBoot, ReceiveShutdown, Tick, Idle, Attempt, WorkerType
    <3> QED BY <1>2, <2>1, <3>1
  <2> QED BY <1>14, <2>2, <2>3, <2>4
<1>15. CASE Mirror \/ BootstrapFails \/ Die
  <2>1. app'.half = app.half /\ dst' = dst /\ state' = state
    BY <1>1, <1>15 DEF Mirror, BootstrapFails, Die, AppType
  <2>2. work'.table = work.table /\ work'.complete = work.complete
    BY <1>1, <1>15 DEF Mirror, BootstrapFails, Die, WorkType
  <2>3. worker'.pc \notin {"record", "complete", "publish"}
    BY <1>1, <1>15 DEF Mirror, BootstrapFails, Die, ToLoop, Off, WorkerType
  <2> QED BY <1>2, <2>1, <2>2, <2>3
<1>16. CASE Initialize \/ Connect \/ TakeBackup \/ StageBackup \/ Spawn \/ Commit \/ Close
  <2>1. app'.half = app.half /\ dst' = dst /\ state' = state /\ work' = work
    BY <1>1, <1>16 DEF Initialize, Connect, TakeBackup, StageBackup, Spawn, Commit, Close, Goto,
        AppType
  <2>2. worker'.pc = worker.pc \/ worker'.pc \notin {"record", "complete", "publish"}
    BY <1>1, <1>16 DEF Initialize, Connect, TakeBackup, StageBackup, Spawn, Commit, Close,
        Started, Off, WorkerType
  <2> QED BY <1>2, <2>1, <2>2
<1>17. CASE PauseSync \/ ResumeSync \/ ReinitStart \/ ReinitStopped \/ ReinitGivesUp
              \/ CleanFails \/ Unstage
  <2>1. app'.half = app.half /\ dst' = dst /\ state' = state /\ work' = work
    BY <1>1, <1>17 DEF PauseSync, ResumeSync, ReinitStart, ReinitStopped, ReinitGivesUp,
        CleanFails, Unstage, Goto,
       AppType
  <2>2. worker'.pc = worker.pc
    BY <1>1, <1>17 DEF PauseSync, ResumeSync, ReinitStart, ReinitStopped, ReinitGivesUp,
        CleanFails, Unstage,
       WorkerType
  <2> QED BY <1>2, <2>1, <2>2
<1>18. CASE UNCHANGED vars
  BY <1>2, <1>18 DEF vars
<1> QED BY <1>3, <1>4, <1>5, <1>6, <1>7, <1>8, <1>9, <1>10, <1>11, <1>12, <1>13, <1>14, <1>15,
        <1>16, <1>17, <1>18
        DEF Next, WorkerNext, AppNext

--------------------------------------------------------------------------------
(* The rows                                                                    *)

LEMMA WorkerActs ==
  TypeInv /\ WorkerNext => worker.pc # "off" /\ app' = app /\ home' = home /\ stage' = stage
<1> SUFFICES ASSUME TypeInv, WorkerNext
             PROVE  worker.pc # "off" /\ app' = app /\ home' = home /\ stage' = stage
  OBVIOUS
<1>1. CASE WorkerStarts \/ ReceiveUpdate \/ ReceiveBoot \/ ReceiveShutdown \/ Leave \/ Tick
             \/ WorkerExits
  BY <1>1 DEF WorkerStarts, ReceiveUpdate, ReceiveBoot, ReceiveShutdown, Leave, Tick,
      WorkerExits, Idle
<1>2. CASE Mirror \/ MarkInitializing \/ Seed \/ SeedFails \/ Record \/ Complete \/ Publish
             \/ BootstrapFails \/ Apply
  BY <1>2 DEF Mirror, MarkInitializing, Seed, SeedFails, Record, Complete, Publish,
      BootstrapFails, Apply
<1> QED BY <1>1, <1>2 DEF WorkerNext

\* While a worker is there, nothing is half gone; one that is initialized has the marker.
LEMMA Whole ==
  ASSUME TypeInv, ShapeInv, Reliable, BackedInv, worker.pc # "off"
  PROVE  ~ app.half /\ (worker.boot \/ worker.pc = "publish" => dst.marker # {})
<1>1. ~ app.half
  BY DEF Reliable, BackedInv, ShapeInv, AppShape
<1> QED BY <1>1 DEF BackedInv, ShapeInv, WorkerShape

LEMMA ConcatTwo ==
  ASSUME NEW S, NEW s \in Seq(S), NEW a \in S, NEW b \in S, NEW i \in DOMAIN (s \o <<a, b>>)
  PROVE  \/ i \in DOMAIN s /\ (s \o <<a, b>>)[i] = s[i]
         \/ (s \o <<a, b>>)[i] \in {a, b}
<1> DEFINE two == <<a, b>>
           both == s \o two
<1>1. two \in Seq(S) /\ Len(two) = 2 /\ two[1] = a /\ two[2] = b
  OBVIOUS
<1> HIDE DEF two
<1>2. both \in Seq(S) /\ Len(both) = Len(s) + Len(two)
  BY <1>1, ConcatProperties
<1>3. \A k \in 1 .. Len(s) + Len(two) : both[k] = IF k <= Len(s) THEN s[k] ELSE two[k - Len(s)]
  BY <1>1, ConcatProperties
<1>4. i \in DOMAIN both
  BY DEF two
<1> HIDE DEF both
<1>5. i \in 1 .. Len(s) + 2 /\ Len(s) \in Nat
  BY <1>1, <1>2, <1>4
<1>6. i <= Len(s) \/ i - Len(s) = 1 \/ i - Len(s) = 2
  BY <1>5
<1> QED BY <1>1, <1>3, <1>5, <1>6 DEF both, two

LEMMA ToOverwriteStep ==
  ASSUME TypeInv, ShapeInv, Reliable, BackedInv, dst.marker = {}, Overwriting, ToOverwrite,
           [Next]_vars
  PROVE  app'.reinits = app.reinits /\ ToOverwrite'
<1>1. /\ worker \in WorkerType /\ app \in AppType /\ inbox \in Seq(Message) /\ layout' = layout
      /\ worker.pc # "off"
  BY Frame DEF TypeInv, ThreadTypes, ToOverwrite
<1>2. ~ app.half /\ ~ worker.boot /\ worker.pc # "publish" /\ deaths \in Nat
  BY <1>1, Whole DEF TypeInv
<1>3. layout.deaths = 0 /\ app.reinits = 1 /\ layout.reinits = 1
  BY DEF Reliable, Overwriting
<1>4. ASSUME inbox # <<>>
      PROVE  /\ Head(inbox).to # "shutdown"
             /\ \A i \in DOMAIN Tail(inbox) : Tail(inbox)[i].to # "shutdown"
  <2>1. Head(inbox) = inbox[1] /\ 1 \in DOMAIN inbox
    BY <1>1, <1>4
  <2>2. \A i \in DOMAIN Tail(inbox) : i + 1 \in DOMAIN inbox /\ Tail(inbox)[i] = inbox[i + 1]
    BY <1>1, <1>4
  <2> QED BY <2>1, <2>2 DEF ToOverwrite
<1>5. ASSUME worker'.pc \notin {"off", "exit"}, worker'.mode = worker.mode,
               worker'.stopping = worker.stopping,
             worker'.final = worker.final, worker'.retiring = worker.retiring,
             inbox' = inbox \/ (inbox # <<>> /\ inbox' = Tail(inbox)), app' = app
      PROVE  app'.reinits = app.reinits /\ ToOverwrite'
  BY <1>4, <1>5 DEF ToOverwrite
<1>6. CASE WorkerStarts \/ Tick
  BY <1>1, <1>5, <1>6 DEF WorkerStarts, Tick, Attempt, Idle, WorkerType, ToOverwrite
<1>7. CASE ReceiveUpdate
  BY <1>1, <1>2, <1>5, <1>7 DEF ReceiveUpdate, Idle, WorkerType
<1>8. CASE ReceiveBoot
  <2>1. /\ worker'.pc \in {"idle", "mirror"} /\ worker'.mode = worker.mode
           /\ worker'.stopping = worker.stopping
        /\ worker'.final = worker.final /\ worker'.retiring = worker.retiring
    BY <1>1, <1>8 DEF ReceiveBoot, Idle, Attempt, WorkerType
  <2> QED BY <1>5, <1>8, <2>1 DEF ReceiveBoot
<1>9. CASE ReceiveShutdown \/ Leave
  BY <1>4, <1>9 DEF ReceiveShutdown, Leave, ToOverwrite
<1>10. CASE WorkerExits \/ Publish
  BY <1>2, <1>10 DEF WorkerExits, Publish, ToOverwrite
<1>11. CASE Mirror \/ MarkInitializing \/ BootstrapFails
  BY <1>1, <1>5, <1>11 DEF Mirror, MarkInitializing, BootstrapFails, ToLoop, WorkerType
<1>12. CASE Seed \/ SeedFails \/ Record \/ Complete
  BY <1>1, <1>5, <1>12 DEF Seed, SeedFails, Record, Complete, ToLoop, WorkerType
<1>13. ASSUME worker' = worker, inbox' = inbox, app'.reinits = app.reinits,
              app'.pc \notin {"stopping", "cleaning"} \union Removing
       PROVE  app'.reinits = app.reinits /\ ToOverwrite'
  BY <1>13 DEF ToOverwrite
<1>14. CASE Apply \/ Commit \/ PauseSync \/ ResumeSync \/ LoseTemp \/ UNCHANGED vars
  <2>1. worker' = worker /\ inbox' = inbox /\ app' = app
    BY <1>14 DEF Apply, Commit, PauseSync, ResumeSync, LoseTemp, vars
  <2> QED BY <1>13, <2>1 DEF ToOverwrite
<1>15. CASE Initialize \/ Connect \/ TakeBackup \/ StageBackup \/ Close
  <2>1. worker' = worker /\ inbox' = inbox
    BY <1>15 DEF Initialize, Connect, TakeBackup, StageBackup, Close
  <2>2. app'.reinits = app.reinits /\ app'.pc \in {"backup", "stage", "spawn", "closed"}
    BY <1>1, <1>15 DEF Initialize, Connect, TakeBackup, StageBackup, Close, Goto, AppType
  <2> QED BY <1>13, <2>1, <2>2 DEF Removing
<1>16. CASE Spawn
  <2>1. app'.reinits = app.reinits /\ app'.pc \in {"session", "closed"}
    BY <1>1, <1>16 DEF Spawn, Goto, Opened, AppType
  <2>2. worker' = [worker EXCEPT !.asked = app.mode]
    BY <1>1, <1>16 DEF Spawn, ToOverwrite
  <2>3. /\ worker'.pc = worker.pc /\ worker'.mode = worker.mode
           /\ worker'.stopping = worker.stopping
        /\ worker'.final = worker.final /\ worker'.retiring = worker.retiring
    BY <1>1, <2>2 DEF WorkerType
  <2>4. \A i \in DOMAIN inbox' : inbox'[i].to # "shutdown"
    <3>1. Boot.to # "shutdown" /\ Update(app.mode).to # "shutdown"
      BY DEF Boot, Update
    <3>2. CASE inbox' = Append(inbox, Boot)
      BY <1>1, <3>1, <3>2 DEF ToOverwrite
    <3>3. CASE inbox' = inbox \o <<Update(app.mode), Boot>>
      <4>1. Update(app.mode) \in Message /\ Boot \in Message
        BY MessageTypes, <1>1 DEF AppType
      <4> QED BY <1>1, <3>1, <3>3, <4>1, ConcatTwo DEF ToOverwrite
    <3> QED BY <1>1, <1>16, <3>2, <3>3 DEF Spawn, ToOverwrite
  <2> QED BY <2>1, <2>3, <2>4 DEF ToOverwrite, Removing
<1>17. CASE ReinitStart
  BY <1>3, <1>17 DEF ReinitStart
<1>18. CASE ReinitStopped \/ ReinitGivesUp \/ CleanDestination \/ CleanFails \/ Unstage
              \/ Unwork \/ Rehome
  BY <1>18 DEF ReinitStopped, ReinitGivesUp, CleanDestination, CleanFails, Unstage, Unwork,
      Rehome, ToOverwrite,
     Removing
<1>19. CASE Die
  BY <1>2, <1>3, <1>19 DEF Die
<1> QED BY <1>6, <1>7, <1>8, <1>9, <1>10, <1>11, <1>12, <1>14, <1>15, <1>16, <1>17, <1>18, <1>19
        DEF Next, WorkerNext, AppNext

LEMMA OverwritingStep ==
  ASSUME TypeInv, ShapeInv, Reliable, BackedInv, dst.marker = {}, Overwriting, [Next]_vars
  PROVE  Overwriting'
<1>1. /\ worker \in WorkerType /\ app \in AppType /\ home \in HomeType /\ inbox \in Seq(Message)
      /\ layout' = layout /\ AppShape /\ InboxShape
  BY Frame DEF TypeInv, ThreadTypes, FileTypes, ShapeInv
<1>2. layout.deaths = 0 /\ app.reinits = 1 /\ layout.reinits = 1 /\ deaths \in Nat
  BY DEF Reliable, Overwriting, TypeInv
<1>3. CASE ToOverwrite
  BY <1>1, <1>2, <1>3, ToOverwriteStep DEF Overwriting
<1>4. CASE ~ ToOverwrite
  <2>1. worker.pc = "off"
    BY <1>1, <1>4 DEF Overwriting, AppShape
  <2>2. ~ WorkerNext /\ ~ Die /\ ~ ReinitStart
    BY <1>2, <2>1, WorkerActs DEF Die, ReinitStart
  <2>3. worker = Off /\ inbox = <<>>
    BY <1>1, <2>1 DEF InboxShape
  <2>4. CASE PauseSync \/ ResumeSync
    <3>1. worker' = worker /\ app' = app /\ home'.sentinel = home.sentinel
            /\ home'.taken = home.taken
      BY <1>1, <2>4 DEF PauseSync, ResumeSync, HomeType
    <3> QED BY <1>1, <1>4, <3>1 DEF Overwriting
  <2>5. CASE LoseTemp \/ UNCHANGED vars
    <3>1. worker' = worker /\ app' = app /\ home' = home
      BY <2>5 DEF LoseTemp, vars
    <3> QED BY <1>1, <1>4, <3>1 DEF Overwriting
  <2>6. CASE Initialize
    <3>1. home.sentinel
      BY <1>4, <2>6 DEF Initialize, Overwriting, Removing
    <3>2. /\ app'.pc = "backup" /\ app'.mode = "OVERWRITE_OBJECT" /\ app'.reinits = app.reinits
          /\ worker' = worker
      BY <1>1, <2>6, <3>1 DEF Initialize, AppType
    <3> QED BY <1>1, <1>2, <2>1, <3>2 DEF Overwriting
  <2>7. CASE Connect \/ Commit \/ Close
    BY <1>4, <2>7 DEF Connect, Commit, Close, Overwriting, Removing
  <2>8. CASE TakeBackup \/ StageBackup
    <3>1. app.mode = "OVERWRITE_OBJECT"
      BY <1>4, <2>8 DEF TakeBackup, StageBackup, Overwriting, Removing
    <3>2. app'.pc \in {"stage", "spawn"} /\ app'.mode = app.mode /\ app'.reinits = app.reinits
            /\ worker' = worker
      BY <1>1, <2>8 DEF TakeBackup, StageBackup, Goto, AppType
    <3> QED BY <1>1, <1>2, <2>1, <3>1, <3>2 DEF Overwriting
  <2>9. CASE Spawn
    <3>1. app.mode = "OVERWRITE_OBJECT"
      BY <1>4, <2>9 DEF Spawn, Overwriting, Removing
    <3>2. app'.reinits = app.reinits /\ app'.pc \in {"session", "closed"}
      BY <1>1, <2>9 DEF Spawn, Goto, Opened, AppType
    <3>3. worker' = Started(app.mode) /\ inbox' = Append(inbox, Boot)
      BY <2>3, <2>9 DEF Spawn, Off
    <3>4. /\ worker'.pc = "start" /\ worker'.mode = "OVERWRITE_OBJECT"
          /\ ~ worker'.stopping /\ ~ worker'.final /\ ~ worker'.retiring
      BY <3>1, <3>3 DEF Started, Off
    <3>5. \A i \in DOMAIN inbox' : inbox'[i].to # "shutdown"
      BY <2>3, <3>3 DEF Boot
    <3>6. ToOverwrite'
      BY <3>2, <3>4, <3>5 DEF ToOverwrite, Removing
    <3> QED BY <1>1, <1>2, <3>2, <3>6 DEF Overwriting
  <2>10. CASE ReinitStopped \/ ReinitGivesUp \/ CleanDestination \/ CleanFails
    BY <1>4, <2>10 DEF ReinitStopped, ReinitGivesUp, CleanDestination, CleanFails, Overwriting,
        Removing
  <2>11. CASE Unstage \/ Unwork
    <3>1. app'.pc \in Removing /\ app'.reinits = app.reinits
      BY <1>1, <2>11 DEF Unstage, Unwork, Goto, AppType, Removing
    <3> QED BY <1>1, <1>2, <3>1 DEF Overwriting
  <2>12. CASE Rehome
    <3>1. app'.pc = "closed" /\ app'.reinits = app.reinits /\ worker' = worker
      BY <1>1, <2>12 DEF Rehome, AppType
    <3>2. home'.sentinel /\ ~ home'.taken
      BY <2>12 DEF Rehome, NewHome
    <3> QED BY <1>1, <1>2, <2>1, <3>1, <3>2 DEF Overwriting
  <2> QED BY <2>2, <2>4, <2>5, <2>6, <2>7, <2>8, <2>9, <2>10, <2>11, <2>12 DEF Next, AppNext
<1> QED BY <1>3, <1>4

\* What the worker deletes before it copies leaves nothing of the device.
LEMMA CopiedOnce ==
  ASSUME TypeInv, ShapeInv, CkptInv, RowsInv, worker.pc = "seed",
         ~ (dst.ckpt.there /\ dst.ckpt.init /\ dst.ckpt.commit >= stage.backup.base)
  PROVE  \A r \in Rows : RowsLeft(worker.mode, dst)[r] = 0
<1>1. dst.marker = {}
  BY DEF CkptInv
<1>2. CASE Blank
  BY <1>2 DEF Blank, RowsLeft
<1>3. CASE Overwriting
  <2>1. worker.mode = "OVERWRITE_OBJECT"
    BY <1>3 DEF Overwriting, ToOverwrite, ShapeInv, AppShape
  <2> QED BY <2>1 DEF RowsLeft, EmitsTruncate
<1> QED BY <1>1, <1>2, <1>3 DEF RowsInv

\* Steps that leave the rows, the marker and the checkpoint
LEMMA ExactKept ==
  ASSUME TypeInv, ShapeInv, CkptInv, Exact, dst.marker # {}, [Next]_vars,
         dst'.rows = dst.rows, dst'.ckpt.upto = dst.ckpt.upto
  PROVE  Exact'
<1>1. /\ stage.segs \in Seq(Segment) /\ Len(stage.segs) \in Nat /\ dst.ckpt.upto \in Nat
         /\ AppShape
  BY DEF TypeInv, FileTypes, ShapeInv, StageType, DstType, CkptType
<1>2. dst.ckpt.there /\ stage.backup.is # "none" /\ dst.ckpt.upto <= Len(stage.segs)
  BY DEF CkptInv
<1>3. ~ Unstage
  BY <1>1 DEF Unstage, AppShape, Removing
<1>4. stage'.backup = stage.backup
        /\ \A i \in 1 .. Len(stage.segs) : stage'.segs[i] = stage.segs[i]
  BY <1>2, <1>3, StageGrows
<1>5. \A i \in 1 .. dst.ckpt.upto : stage'.segs[i] = stage.segs[i]
  BY <1>1, <1>2, <1>4
<1>6. Sent' = Sent
  BY <1>4, <1>5 DEF Sent
<1> QED BY <1>6 DEF Exact

\* A copy counts the rows of the backup once where it leaves none of them, or replaces them.
LEMMA ExactCopied ==
  ASSUME TypeInv, Seed \/ SeedFails, dst'.ckpt = Ckpt(stage.backup.base, 0),
         NEW left, \A r \in Rows : dst'.rows[r]
           = IF r \in stage.backup.rows THEN InsertRow(layout, left[r]) ELSE left[r],
         \A r \in Rows : left[r] = 0 \/ (left[r] = 1 /\ layout.keyed /\ r \in stage.backup.rows)
  PROVE  Exact'
<1>1. stage' = stage
  BY DEF Seed, SeedFails
<1>2. \A r \in Rows : dst'.rows[r] = IF r \in stage.backup.rows THEN 1 ELSE 0
  BY DEF InsertRow
<1>3. dst'.ckpt.upto = 0
  BY DEF Ckpt
<1>4. Sent' = stage.backup.rows
  BY <1>1, <1>3 DEF Sent
<1> QED BY <1>2, <1>4 DEF Exact

LEMMA ExactApplied ==
  ASSUME TypeInv, ShapeInv, CkptInv, Exact, dst.marker # {}, Apply
  PROVE  Exact' /\ dst'.marker = dst.marker
<1>1. /\ stage.segs \in Seq(Segment) /\ Len(stage.segs) \in Nat /\ SegShape /\ stage' = stage
  BY DEF TypeInv, FileTypes, ShapeInv, StageType, Apply
<1>2. dst.ckpt.there
  BY DEF CkptInv
<1>3. PICK n \in Nat : /\ n < Len(stage.segs) /\ stage.segs[n + 1] \in Segment
        /\ n = dst.ckpt.upto
                       /\ IsApplied(layout, dst, n, stage.segs[n + 1], dst')
  BY <1>2, ApplyingIs
<1> DEFINE row == stage.segs[n + 1].row
<1>4. /\ dst'.marker = dst.marker /\ dst'.ckpt = Ckpt(stage.segs[n + 1].commit, n + 1)
      /\ \A r \in Rows : dst'.rows[r] = IF r = row THEN InsertRow(layout,
         dst.rows[r]) ELSE dst.rows[r]
  BY <1>3 DEF IsApplied
<1>5. dst'.ckpt.upto = n + 1
  BY <1>4 DEF Ckpt
<1>6. row \in Rows /\ n + 1 \in DOMAIN stage.segs
  BY <1>1, <1>3 DEF Segment
<1>7. row \notin Sent
  <2>1. row \notin stage.backup.rows
    BY <1>1, <1>6 DEF SegShape
  <2>2. \A i \in 1 .. n : i \in DOMAIN stage.segs /\ i < n + 1
    BY <1>1, <1>3
  <2>3. \A i \in 1 .. n : stage.segs[i].row # row
    BY <1>1, <1>6, <2>2 DEF SegShape
  <2> QED BY <1>3, <2>1, <2>3 DEF Sent
<1>8. Sent' = Sent \union {row}
  <2>1. 1 .. n + 1 = (1 .. n) \union {n + 1}
    BY <1>3
  <2> QED BY <1>1, <1>3, <1>5, <2>1 DEF Sent
<1>9. ASSUME NEW r \in Rows PROVE dst'.rows[r] = IF r \in Sent' THEN 1 ELSE 0
  <2>1. dst.rows[r] = IF r \in Sent THEN 1 ELSE 0
    BY DEF Exact
  <2> HIDE DEF row
  <2>2. CASE r = row
    <3>1. dst.rows[r] = 0 /\ InsertRow(layout, 0) = 1
      BY <1>7, <2>1, <2>2 DEF InsertRow
    <3> QED BY <1>4, <1>8, <2>2, <3>1
  <2>3. CASE r # row
    BY <1>4, <1>8, <2>1, <2>3
  <2> QED BY <2>2, <2>3
<1> QED BY <1>4, <1>9 DEF Exact

LEMMA RowsStep ==
  TypeInv /\ ShapeInv /\ CkptInv /\ Reliable /\ BackedInv /\ RowsInv /\ [Next]_vars => RowsInv'
<1> SUFFICES ASSUME TypeInv, ShapeInv, CkptInv, Reliable, BackedInv, RowsInv, [Next]_vars
      PROVE RowsInv'
  OBVIOUS
<1>1. /\ app \in AppType /\ dst \in DstType /\ layout' = layout /\ layout.reinits \in Nat
         /\ AppShape
  BY Frame, LifecycleAssumption DEF TypeInv, ThreadTypes, ShapeInv
<1>2. ASSUME dst'.rows = dst.rows, dst'.marker = dst.marker, dst'.ckpt.upto = dst.ckpt.upto
               \/ dst.marker = {}
      PROVE  RowsInv'
  <2>1. CASE dst.marker = {}
    <3>1. CASE Blank
      BY <1>2, <2>1, <3>1 DEF Blank, RowsInv
    <3>2. CASE Overwriting
      BY <1>2, <2>1, <3>2, OverwritingStep DEF RowsInv
    <3> QED BY <2>1, <3>1, <3>2 DEF RowsInv
  <2>2. CASE dst.marker # {}
    BY <1>2, <2>2, ExactKept, BackupStays DEF RowsInv, HasTable
  <2> QED BY <2>1, <2>2
<1>3. CASE dst' = dst
  BY <1>2, <1>3
<1>4. CASE Complete
  BY <1>1, <1>2, <1>4 DEF Complete, DstType
<1>5. CASE Seed \/ SeedFails
  <2>1. CASE ~ dst.ckpt.there /\ dst' = Seeded(dst)
    <3>1. dst.marker = {}
      BY <2>1 DEF CkptInv
    <3> QED BY <1>1, <1>2, <2>1, <3>1, SeededIs
  <2>2. CASE /\ dst'.ckpt = Ckpt(stage.backup.base, 0) /\ dst'.marker = {stage.backup.base}
             /\ ~ (dst.ckpt.there /\ dst.ckpt.init /\ dst.ckpt.commit >= stage.backup.base)
             /\ TableFrom(layout, worker.mode, dst, stage.backup, dst')
    <3>1. worker.pc = "seed"
      BY <1>5 DEF Seed, SeedFails
    <3> DEFINE left == RowsLeft(worker.mode, dst)
    <3>2. \A r \in Rows : left[r] = 0
      BY <2>2, <3>1, CopiedOnce
    <3> HIDE DEF left
    <3>3. HasTable(stage.backup) => Exact'
      BY <1>5, <2>2, <3>2, ExactCopied DEF left, TableFrom
    <3>4. stage' = stage
      BY <1>5 DEF Seed, SeedFails
    <3> QED BY <2>2, <3>3, <3>4 DEF RowsInv, HasTable
  <2> QED BY <1>3, <1>5, <2>1, <2>2, SeedingIs
<1>6. CASE Apply
  <2>1. dst.marker # {}
    BY <1>6, Whole DEF Apply
  <2>2. stage' = stage /\ dst'.marker = dst.marker
    BY <1>6, ApplyingIs DEF Apply, IsApplied
  <2> QED BY <1>6, <2>1, <2>2, ExactApplied DEF RowsInv, HasTable
<1>7. CASE CleanDestination
  <2>1. dst'.marker = {}
    BY <1>1, <1>7 DEF CleanDestination, DeviceForgotten, DstType
  <2>2. app.reinits = 1 /\ layout.reinits = 1
    BY <1>1, <1>7 DEF CleanDestination, AppShape, AppType, Reliable
  <2>3. app'.reinits = app.reinits /\ app'.pc = "unstaging"
    BY <1>1, <1>7 DEF CleanDestination, AppType
  <2>4. Overwriting'
    BY <1>1, <2>2, <2>3 DEF Overwriting, Removing
  <2> QED BY <2>1, <2>4 DEF RowsInv
<1> QED BY <1>3, <1>4, <1>5, <1>6, <1>7, Frame

--------------------------------------------------------------------------------
(* Copies that can be made again                                               *)

\* Only a reinitialize takes something away, and only its end leaves nothing half gone.
LEMMA HalfFrame ==
  ASSUME TypeInv, ShapeInv, [Next]_vars
  PROVE  /\ app'.half = app.half \/ CleanDestination \/ Rehome
         /\ CleanDestination => app'.half
         /\ Rehome => dst.marker = {} /\ dst' = dst /\ ~ home'.taken
<1>1. app \in AppType /\ AppShape
  BY DEF TypeInv, ThreadTypes, ShapeInv
<1>2. ASSUME Initialize \/ Connect \/ TakeBackup \/ StageBackup \/ Spawn \/ Close \/ Die
      PROVE  app'.half = app.half
  BY <1>1, <1>2 DEF Initialize, Connect, TakeBackup, StageBackup, Spawn, Close, Die, Goto, AppType
<1>3. ASSUME ReinitStart \/ ReinitStopped \/ ReinitGivesUp \/ CleanFails \/ Unstage \/ Unwork
      PROVE  app'.half = app.half
  BY <1>1, <1>3 DEF ReinitStart, ReinitStopped, ReinitGivesUp, CleanFails, Unstage, Unwork, Goto,
      AppType
<1>4. CleanDestination => app'.half
  BY <1>1 DEF CleanDestination, AppType
<1>5. Rehome => dst.marker = {} /\ dst' = dst /\ ~ home'.taken
  BY <1>1 DEF Rehome, AppShape, Removing, NewHome
<1>6. app'.half = app.half \/ CleanDestination \/ Rehome
  BY <1>2, <1>3, ThreadFrame
<1> QED BY <1>4, <1>5, <1>6

\* While nothing is half gone a worker that applies segments has the marker.
LEMMA BackedApply ==
  ASSUME ShapeInv, BackedInv, Apply, ~ app.half
  PROVE  dst.marker # {}
BY DEF Apply, BackedInv, ShapeInv, WorkerShape

\* A copy is made only while there is no marker, and leaves one.
LEMMA CopyFrame ==
  ASSUME TypeInv, ShapeInv, CkptInv, Seed \/ SeedFails
  PROVE  \/ dst'.rows = dst.rows /\ dst'.marker = dst.marker /\ (dst' = dst \/ dst.marker = {})
         \/ /\ dst.marker = {} /\ dst'.marker # {} /\ Readable
            /\ dst'.ckpt = Ckpt(stage.backup.base, 0)
            /\ TableFrom(layout, worker.mode, dst, stage.backup, dst')
<1>1. dst \in DstType
  BY DEF TypeInv
<1>2. CASE dst' = dst
  BY <1>2
<1>3. CASE ~ dst.ckpt.there /\ dst' = Seeded(dst)
  BY <1>1, <1>3, SeededIs DEF CkptInv
<1>4. CASE /\ Readable
           /\ dst'.ckpt = Ckpt(stage.backup.base, 0) /\ dst'.marker = {stage.backup.base}
           /\ ~ (dst.ckpt.there /\ dst.ckpt.init /\ dst.ckpt.commit >= stage.backup.base)
           /\ TableFrom(layout, worker.mode, dst, stage.backup, dst')
  <2>1. dst.marker = {}
    BY <1>4 DEF CkptInv
  <2> QED BY <1>4, <2>1
<1> QED BY <1>2, <1>3, <1>4, SeedingIs

LEMMA ModesStep ==
  ASSUME TypeInv, ShapeInv, EmitsTruncate(layout.init), ModesTruncate, [Next]_vars
  PROVE  ModesTruncate'
<1>1. /\ worker \in WorkerType /\ app \in AppType /\ inbox \in Seq(Message) /\ layout' = layout
      /\ InboxShape
  BY Frame DEF TypeInv, ThreadTypes, ShapeInv
<1>2. EmitsTruncate("OVERWRITE_OBJECT")
  BY DEF EmitsTruncate
<1>3. \A i \in DOMAIN inbox' : inbox'[i].to = "update" => EmitsTruncate(inbox'[i].mode)
  <2>1. CASE inbox' = inbox
    BY <2>1 DEF ModesTruncate
  <2>2. CASE inbox # <<>> /\ inbox' = Tail(inbox)
    <3>1. \A i \in DOMAIN Tail(inbox) : i + 1 \in DOMAIN inbox /\ Tail(inbox)[i] = inbox[i + 1]
      BY <1>1, <2>2
    <3> QED BY <2>2, <3>1 DEF ModesTruncate
  <2>3. CASE inbox' = <<>>
    BY <2>3
  <2>4. CASE Spawn
    <3>1. CASE inbox' = Append(inbox, Boot)
      BY <1>1, <3>1 DEF Boot, ModesTruncate
    <3>2. CASE inbox' = inbox \o <<Update(app.mode), Boot>>
      <4>1. EmitsTruncate(app.mode)
        BY <2>4 DEF Spawn, ModesTruncate
      <4>2. Update(app.mode).mode = app.mode /\ Boot.to # "update"
        BY DEF Update, Boot
      <4>3. Update(app.mode) \in Message /\ Boot \in Message
        BY MessageTypes, <1>1 DEF AppType
      <4> QED BY <1>1, <3>2, <4>1, <4>2, <4>3, ConcatTwo DEF ModesTruncate
    <3> QED BY <2>1, <2>4, <3>1, <3>2 DEF Spawn
  <2>5. CASE ReinitStart
    <3>1. inbox' = inbox \/ inbox' = Append(inbox, Shutdown)
      BY <2>5 DEF ReinitStart
    <3>2. CASE inbox' = Append(inbox, Shutdown)
      BY <1>1, <3>2 DEF Shutdown, ModesTruncate
    <3> QED BY <2>1, <3>1, <3>2
  <2> QED BY <2>1, <2>2, <2>3, <2>4, <2>5, ThreadFrame DEF Die, WorkerExits, ReceiveUpdate,
          ReceiveBoot, ReceiveShutdown
<1>4. app'.pc \in {"backup", "stage", "spawn"} => EmitsTruncate(app'.mode)
  <2>1. CASE Initialize \/ Connect
    BY <1>1, <1>2, <2>1 DEF Initialize, Connect, AppType
  <2>2. CASE TakeBackup \/ StageBackup
    BY <1>1, <2>2 DEF TakeBackup, StageBackup, Goto, AppType, ModesTruncate
  <2>3. CASE Spawn \/ Close \/ Die \/ ReinitStart \/ ReinitStopped \/ ReinitGivesUp
    BY <1>1, <2>3 DEF Spawn, Close, Die, ReinitStart, ReinitStopped, ReinitGivesUp, Goto, Opened,
        AppType
  <2>4. CASE CleanDestination \/ CleanFails \/ Unstage \/ Unwork \/ Rehome
    BY <1>1, <2>4 DEF CleanDestination, CleanFails, Unstage, Unwork, Rehome, Goto, AppType
  <2>5. CASE app' = app
    BY <2>5 DEF ModesTruncate
  <2> QED BY <2>1, <2>2, <2>3, <2>4, <2>5, ThreadFrame
<1>5. /\ worker'.pc # "off" => EmitsTruncate(worker'.mode)
      /\ worker'.later # "none" => EmitsTruncate(worker'.later)
  <2>1. CASE worker'.mode = worker.mode /\ worker'.later = worker.later /\ worker.pc # "off"
    BY <2>1 DEF ModesTruncate
  <2>2. CASE Die \/ WorkerExits
    BY <2>2 DEF Die, WorkerExits, Off
  <2>3. CASE Spawn
    <3>1. CASE worker' = Started(app.mode)
      BY <2>3, <3>1 DEF Spawn, Started, Off, ModesTruncate
    <3>2. CASE worker.pc # "off" /\ worker' = [worker EXCEPT !.asked = app.mode]
      BY <1>1, <2>1, <3>2 DEF WorkerType
    <3>3. CASE worker' = worker
      BY <3>3 DEF ModesTruncate
    <3> QED BY <2>3, <3>1, <3>2, <3>3 DEF Spawn
  <2>4. CASE ReceiveUpdate
    <3>1. inbox[1].to = "update" /\ 1 \in DOMAIN inbox /\ Head(inbox) = inbox[1]
      BY <1>1, <2>4 DEF ReceiveUpdate
    <3>2. EmitsTruncate(Head(inbox).mode)
      BY <3>1 DEF ModesTruncate
    <3>3. \/ worker' = [worker EXCEPT !.mode = Head(inbox).mode]
          \/ worker' = [worker EXCEPT !.later = Head(inbox).mode]
      BY <2>4 DEF ReceiveUpdate
    <3>4. worker.pc # "off"
      BY <2>4 DEF ReceiveUpdate, Idle
    <3> QED BY <1>1, <3>2, <3>3, <3>4 DEF WorkerType, ModesTruncate
  <2>5. CASE Publish
    <3>1. /\ worker'.later = "none"
          /\ worker'.mode = IF worker.later = "none" THEN worker.mode ELSE worker.later
      BY <1>1, <2>5 DEF Publish, ToLoop, WorkerType
    <3> QED BY <2>5, <3>1 DEF Publish, ModesTruncate
  <2>6. CASE ReinitStart \/ ReinitGivesUp
    <3>1. worker' = worker \/ (worker.pc # "off" /\ worker'.mode = worker.mode
            /\ worker'.later = worker.later)
      BY <1>1, <2>6 DEF ReinitStart, ReinitGivesUp, WorkerType
    <3> QED BY <2>1, <3>1 DEF ModesTruncate
  <2>7. CASE WorkerStarts \/ Leave \/ Tick
    BY <1>1, <2>1, <2>7 DEF WorkerStarts, Leave, Tick, Attempt, Idle, WorkerType
  <2>8. CASE ReceiveBoot \/ ReceiveShutdown
    BY <1>1, <2>1, <2>8 DEF ReceiveBoot, ReceiveShutdown, Attempt, Idle, WorkerType
  <2>9. CASE Mirror \/ MarkInitializing \/ Seed \/ SeedFails
    BY <1>1, <2>1, <2>9 DEF Mirror, MarkInitializing, Seed, SeedFails, ToLoop, WorkerType
  <2>10. CASE Record \/ Complete \/ BootstrapFails
    BY <1>1, <2>1, <2>10 DEF Record, Complete, BootstrapFails, ToLoop, WorkerType
  <2>11. CASE worker' = worker
    BY <2>11 DEF ModesTruncate
  <2> QED BY <2>2, <2>3, <2>4, <2>5, <2>6, <2>7, <2>8, <2>9, <2>10, <2>11, ThreadFrame
<1> QED BY <1>3, <1>4, <1>5 DEF ModesTruncate

\* What is there of the device is in the backup that is copied next.
LEMMA KeyedStep ==
  ASSUME TypeInv, ShapeInv, CkptInv, BackedInv, layout.keyed, KeyedRows, [Next]_vars
  PROVE  KeyedRows'
<1>1. /\ dst \in DstType /\ home \in HomeType /\ app \in AppType /\ SrcShape /\ SegShape
         /\ HomeShape
      /\ src \in SrcType /\ stage.segs \in Seq(Segment) /\ layout' = layout
      /\ StagedBackup /\ SrcShape'
  BY Frame, ShapeStep DEF TypeInv, FileTypes, ThreadTypes, StageType, ShapeInv
<1>2. src.rows \subseteq src'.rows
  BY Frame DEF Commit
<1>3. \A r \in Rows : dst.rows[r] \in {0, 1} /\ (dst.rows[r] = 1 => r \in src.rows)
  BY DEF KeyedRows
<1>4. \A r \in Rows : dst'.rows[r] \in {0, 1} /\ (dst'.rows[r] = 1 => r \in src'.rows)
  <2>1. CASE dst'.rows = dst.rows
    BY <1>2, <1>3, <2>1
  <2>2. CASE Seed \/ SeedFails
    <3>1. stage.backup.rows \subseteq src.rows
      BY <1>1 DEF StagedBackup, HomeShape, NoBackup, EmptyFile
    <3>2. CASE \A r \in Rows : dst'.rows[r] =
                 IF r \in stage.backup.rows THEN InsertRow(layout, RowsLeft(worker.mode, dst)[r])
                 ELSE RowsLeft(worker.mode, dst)[r]
      <4>1. \A r \in Rows : RowsLeft(worker.mode, dst)[r] \in {0, dst.rows[r]}
        BY DEF RowsLeft
      <4>2. \A r \in Rows : dst'.rows[r]
              = IF r \in stage.backup.rows THEN 1 ELSE RowsLeft(worker.mode, dst)[r]
        BY <3>2 DEF InsertRow
      <4> HIDE DEF RowsLeft
      <4> QED BY <1>2, <1>3, <3>1, <4>1, <4>2
    <3> QED BY <2>1, <2>2, <3>2, CopyFrame DEF TableFrom
  <2>3. CASE Apply
    <3>1. PICK n \in Nat : /\ n < Len(stage.segs) /\ stage.segs[n + 1] \in Segment
                           /\ IsApplied(layout, dst, n, stage.segs[n + 1], dst')
      BY <2>3, ApplyingIs
    <3>2. n + 1 \in DOMAIN stage.segs
      BY <1>1, <3>1
    <3>3. stage.segs[n + 1].row \in src.rows
      BY <1>1, <3>2 DEF SegShape
    <3>4. \A r \in Rows : dst'.rows[r] = IF r = stage.segs[n + 1].row THEN 1 ELSE dst.rows[r]
      BY <3>1 DEF IsApplied, InsertRow
    <3> QED BY <1>2, <1>3, <3>3, <3>4
  <2>4. CASE Complete \/ CleanDestination
    BY <1>1, <2>1, <2>4 DEF Complete, CleanDestination, DeviceForgotten, DstType
  <2> QED BY <2>1, <2>2, <2>3, <2>4, Frame
<1>5. ASSUME ~ app'.half, dst'.marker = {}, home'.taken
      PROVE  \A r \in Rows : dst'.rows[r] = 1 => r \in home'.backup.rows
  <2>1. ~ app.half /\ ~ CleanDestination /\ ~ Rehome
    BY <1>5, HalfFrame
  <2>2. dst'.rows = dst.rows /\ dst'.marker = dst.marker
    <3>1. CASE Seed \/ SeedFails
      BY <1>5, <3>1, CopyFrame
    <3>2. CASE Apply
      <4>1. dst.marker # {}
        BY <2>1, <3>2, BackedApply
      <4>2. dst'.marker = dst.marker
        BY <3>2, ApplyingIs DEF IsApplied
      <4> QED BY <1>5, <4>1, <4>2
    <3>3. CASE Complete
      BY <1>1, <3>3 DEF Complete, DstType
    <3>4. CASE dst' = dst
      BY <3>4
    <3> QED BY <2>1, <3>1, <3>2, <3>3, <3>4, Frame
  <2>3. CASE home'.taken = home.taken /\ home'.backup = home.backup
    BY <1>5, <2>1, <2>2, <2>3 DEF KeyedRows
  <2>4. CASE home'.backup.rows = src.rows
    BY <1>3, <2>2, <2>4
  <2>5. CASE TakeBackup
    <3>1. home' = home \/ home'.backup.rows = src.rows
      BY <1>1, <2>5 DEF TakeBackup, HomeType
    <3> QED BY <2>3, <2>4, <3>1
  <2>6. CASE Initialize \/ PauseSync \/ ResumeSync
    BY <1>1, <2>3, <2>6 DEF Initialize, PauseSync, ResumeSync, HomeType
  <2> QED BY <2>1, <2>3, <2>5, <2>6, Frame
<1> QED BY <1>4, <1>5 DEF KeyedRows

LEMMA RepeatStep ==
  TypeInv /\ ShapeInv /\ CkptInv /\ Repeatable /\ BackedInv /\ RepeatInv /\ [Next]_vars
    => RepeatInv'
<1> SUFFICES ASSUME TypeInv, ShapeInv, CkptInv, Repeatable, BackedInv, RepeatInv,
      [Next]_vars PROVE RepeatInv'
  OBVIOUS
<1>1. dst \in DstType /\ layout' = layout /\ StagedBackup
  BY Frame DEF TypeInv, ShapeInv
<1>2. layout.keyed => KeyedRows'
  BY KeyedStep DEF RepeatInv
<1>3. EmitsTruncate(layout.init) => ModesTruncate'
  BY ModesStep DEF RepeatInv
<1>4. ASSUME ~ app'.half, dst'.marker # {}, HasTable(stage'.backup)
      PROVE  Exact'
  <2>1. ~ app.half /\ ~ CleanDestination
    BY <1>4, HalfFrame
  <2>7. dst.marker # {} => HasTable(stage.backup)
    BY <1>4, BackupStays
  <2>2. ASSUME dst'.rows = dst.rows, dst'.marker = dst.marker, dst'.ckpt.upto = dst.ckpt.upto
        PROVE  Exact'
    BY <1>4, <2>1, <2>2, <2>7, ExactKept DEF RepeatInv
  <2>3. CASE Seed \/ SeedFails
    <3>1. CASE dst' = dst
      BY <2>2, <3>1
    <3>3. stage' = stage
      BY <2>3 DEF Seed, SeedFails
    <3>2. CASE /\ dst.marker = {} /\ Readable
               /\ dst'.ckpt = Ckpt(stage.backup.base, 0)
               /\ \A r \in Rows : dst'.rows[r] =
                    IF r \in stage.backup.rows THEN InsertRow(layout, RowsLeft(worker.mode,
                      dst)[r])
                    ELSE RowsLeft(worker.mode, dst)[r]
      <4> DEFINE left == RowsLeft(worker.mode, dst)
      <4>1. \A r \in Rows : left[r] = 0 \/ (left[r] = 1 /\ layout.keyed
              /\ r \in stage.backup.rows)
        <5>1. CASE EmitsTruncate(layout.init)
          <6>1. EmitsTruncate(worker.mode)
            BY <2>3, <5>1 DEF RepeatInv, ModesTruncate, Seed, SeedFails
          <6> QED BY <6>1 DEF RowsLeft
        <5>2. CASE ~ EmitsTruncate(layout.init)
          <6>1. layout.keyed /\ KeyedRows
            BY <5>2 DEF Repeatable, RepeatInv
          <6>2. home.taken /\ stage.backup.rows = home.backup.rows
            BY <1>1, <1>4, <3>2, <3>3 DEF StagedBackup, Readable, HasTable
          <6>3. \A r \in Rows : dst.rows[r] = 0 \/ (dst.rows[r] = 1 /\ r \in stage.backup.rows)
            BY <2>1, <3>2, <6>1, <6>2 DEF KeyedRows
          <6> QED BY <6>1, <6>3 DEF RowsLeft
        <5> QED BY <5>1, <5>2
      <4> HIDE DEF left
      <4> QED BY <2>3, <3>2, <4>1, ExactCopied DEF left
    <3> QED BY <1>4, <2>3, <3>1, <3>2, <3>3, CopyFrame DEF TableFrom
  <2>4. CASE Apply
    BY <2>1, <2>4, <2>7, BackedApply, ExactApplied DEF RepeatInv
  <2>5. CASE Complete
    BY <1>1, <2>2, <2>5 DEF Complete, DstType
  <2>6. CASE dst' = dst
    BY <2>2, <2>6
  <2> QED BY <2>1, <2>3, <2>4, <2>5, <2>6, Frame
<1> QED BY <1>1, <1>2, <1>3, <1>4 DEF RepeatInv

--------------------------------------------------------------------------------
(* The invariant                                                               *)

LEMMA InitIInv == Init => IInv
<1> SUFFICES ASSUME Init PROVE IInv
  OBVIOUS
<1>1. TypeInv /\ ShapeInv
  BY InitTypes, InitShape
<1>2. /\ dst.ckpt = NoRow /\ dst.marker = {} /\ \A r \in Rows : dst.rows[r] = 0
      /\ (layout.mode = "consolidation" => dst.others = 1)
  BY DEF Init, NewDestination
<1>3. CkptInv /\ OthersKept
  BY <1>2 DEF CkptInv, OthersKept, NoRow
<1>4. BackedInv
  BY <1>2 DEF Init, BackedInv, NoRow, NewState, Off
<1>5. RowsInv
  BY <1>2 DEF RowsInv, Blank
<1>6. RepeatInv
  BY <1>2 DEF Init, RepeatInv, KeyedRows, ModesTruncate, Off
<1> QED BY <1>1, <1>3, <1>4, <1>5, <1>6 DEF IInv

LEMMA IInvStep == IInv /\ [Next]_vars => IInv'
<1> SUFFICES ASSUME IInv, [Next]_vars PROVE IInv'
  OBVIOUS
<1>1. TypeInv' /\ ShapeInv' /\ CkptInv' /\ OthersKept'
  BY TypesStep, ShapeStep, CkptStep, OthersStep DEF IInv
<1>2. /\ layout' = layout /\ (Resets' <=> Resets) /\ (Reliable' <=> Reliable)
      /\ (Repeatable' <=> Repeatable) /\ (Reliable => Resets) /\ (Repeatable => Resets)
  BY Frame DEF Resets, Reliable, Repeatable, Local
<1>3. Resets => BackedInv'
  BY BackedStep DEF IInv
<1>4. Reliable => RowsInv'
  BY <1>2, RowsStep DEF IInv
<1>5. Repeatable => RepeatInv'
  BY <1>2, RepeatStep DEF IInv
<1> QED BY <1>1, <1>2, <1>3, <1>4, <1>5 DEF IInv

LEMMA Invariant == Spec => []IInv
BY InitIInv, IInvStep, PTL DEF Spec

\* The segments are handled as far as the checkpoint says, when nothing is left to do.
LEMMA AllCovered ==
  ASSUME TypeInv, CkptInv, dst.ckpt.there, Unhandled = {}
  PROVE  dst.ckpt.upto = Len(stage.segs)
<1>1. stage.segs \in Seq(Segment) /\ Len(stage.segs) \in Nat /\ dst.ckpt.upto \in Nat
        /\ state.cleaned \in Nat
  BY DEF TypeInv, FileTypes, StageType, DstType, CkptType, StateType
<1>2. dst.ckpt.upto <= Len(stage.segs)
  BY DEF CkptInv
<1>3. ~ Handled(dst.ckpt.upto)
  BY <1>1 DEF Handled, Covers, CkptInv
<1>4. dst.ckpt.upto \notin 0 .. Len(stage.segs) - 1
  BY <1>3 DEF Unhandled
<1> QED BY <1>1, <1>2, <1>4

LEMMA OnceAtRest ==
  TypeInv /\ ShapeInv /\ CkptInv /\ BackedInv /\ (RowsInv \/ RepeatInv) => RowsOnce
<1> SUFFICES ASSUME TypeInv, ShapeInv, CkptInv, BackedInv, RowsInv \/ RepeatInv, Settled,
                    stage.backup.is = "whole"
             PROVE  \A r \in Rows :
                      dst.rows[r] = IF r \in stage.backup.rows \union {stage.segs[i].row : i \in DOMAIN stage.segs}
                                    THEN 1 ELSE 0
  BY DEF RowsOnce
<1>1. dst.marker # {}
  BY DEF Settled, ShapeInv, WorkerShape, BackedInv
<1>2. dst.ckpt.there
  BY <1>1 DEF CkptInv
<1>3. dst.ckpt.upto = Len(stage.segs)
  BY <1>2, AllCovered DEF Settled
<1>4. DOMAIN stage.segs = 1 .. Len(stage.segs)
  BY DEF TypeInv, FileTypes, StageType
<1>5. Sent = stage.backup.rows \union {stage.segs[i].row : i \in DOMAIN stage.segs}
  BY <1>3, <1>4 DEF Sent
<1>6. Exact
  BY <1>1 DEF RowsInv, RepeatInv, Settled, HasTable
<1> QED BY <1>5, <1>6 DEF Exact

LEMMA TypedAll == TypeInv /\ ShapeInv /\ CkptInv => TypeOK
<1> SUFFICES ASSUME TypeInv, ShapeInv, CkptInv PROVE TypeOK
  OBVIOUS
<1>1. /\ src \in SrcType /\ home \in HomeType /\ stage \in StageType /\ state \in StateType
         /\ work \in WorkType
      /\ dst \in DstType /\ worker \in WorkerType /\ app \in AppType /\ inbox \in Seq(Message)
      /\ home.backup \in BackupType /\ stage.backup \in BackupType
      /\ SrcShape /\ HomeShape /\ StagedBackup /\ SegShape /\ AppShape /\ InboxShape
         /\ WorkerShape
      /\ layout.reinits \in Nat /\ MaxInbox \in Nat
  BY LifecycleAssumption DEF TypeInv, FileTypes, ThreadTypes, ShapeInv, HomeType, StageType
<1>2. /\ src.commit \in Nat /\ state.cleaned \in Nat /\ dst.ckpt.upto \in Nat
         /\ app.reinits \in Nat
      /\ Len(inbox) \in Nat /\ Len(stage.segs) \in Nat
  BY <1>1 DEF SrcType, StateType, DstType, CkptType, AppType, StageType
<1>3. Cardinality(src.rows) \in Nat /\ Cardinality(src.rows) <= Cardinality(Rows)
        /\ Cardinality(Rows) \in Nat
  BY <1>1, Numbered, NewTyped DEF NRows
<1>4. src.rows \subseteq Rows /\ src.commit \in 0 .. Cardinality(Rows)
  BY <1>1, <1>2, <1>3 DEF SrcType, SrcShape
<1>5. home.backup.rows \subseteq src.rows /\ home.backup.is \in {"none", "whole"}
  BY <1>1 DEF HomeShape, BackupType
<1>6. stage.backup.rows \subseteq src.rows /\ stage.backup.is \in Copies
  BY <1>1, <1>5 DEF StagedBackup, NoBackup, EmptyFile, BackupType, Copies
<1>7. state.init \in BOOLEAN /\ state.cleaned \in 0 .. Cardinality(Rows)
  BY <1>1, <1>2, <1>3, <1>4 DEF StateType, WorkerShape
<1>8. /\ work.replica \in Copies /\ work.table \in Statuses
      /\ dst.table \in Statuses
  BY <1>1 DEF WorkType, DstType, Copies
<1>9. dst.ckpt.upto \in 0 .. Cardinality(Rows)
  <2>1. dst.ckpt.upto <= Len(stage.segs)
    BY <1>2 DEF CkptInv, NoRow
  <2> QED BY <1>1, <1>2, <1>3, <1>4, <2>1 DEF SegShape
<1>10. Len(inbox) <= MaxInbox + layout.reinits
  BY <1>1, <1>2 DEF InboxShape, AppShape
<1>11. worker.boot => worker.pc # "off"
  BY <1>1 DEF InboxShape, Off
<1> QED BY <1>4, <1>5, <1>6, <1>7, <1>8, <1>9, <1>10, <1>11 DEF TypeOK

--------------------------------------------------------------------------------
(* Theorems                                                                    *)

\* The rows, the backups, the segments and what is written about them stay in their
\* ranges, and what waits for the worker stays bounded.
THEOREM LifecycleTyped == Spec => []TypeOK
<1>1. IInv => TypeOK
  BY TypedAll DEF IInv
<1> QED BY <1>1, Invariant, PTL

\* While the destination knows the device, its checkpoint goes to the next segment or
\* stays, in whatever order the process ends, the worker is replaced, an answer is lost
\* or the device is reinitialized (sync_*_destination_metadata).
THEOREM CheckpointNeverBack == Spec => NoRewind
<1>1. IInv /\ [Next]_vars =>
        [dst.ckpt.there /\ dst'.ckpt.there =>
           /\ dst'.ckpt.commit >= dst.ckpt.commit
           /\ dst'.ckpt.upto \in {dst.ckpt.upto, dst.ckpt.upto + 1}]_vars
  BY CkptNeverBack DEF IInv
<1> QED BY <1>1, Invariant, PTL DEF Spec, NoRewind

\* A worker that takes the device to be initialized finds the snapshot at the destination
\* with all that is written apart from it, where a reinitialize, if there is one, takes
\* away the worker's own database (local metadata).
THEOREM PublishedBacked == Spec => [](Resets => PublishedIsBacked)
<1>1. IInv => (Resets => PublishedIsBacked)
  BY DEF IInv, BackedInv, CkptInv, PublishedIsBacked
<1> QED BY <1>1, Invariant, PTL

\* The rows of another device survive every copy, deletion and reinitialize.
THEOREM OthersSurvive == Spec => []OthersKept
<1>1. IInv => OthersKept
  BY DEF IInv
<1> QED BY <1>1, Invariant, PTL

\* However often the device is opened, interrupted, reinitialized and copied again, the
\* destination has each of its rows once, if the worker was given a whole copy of the
\* backup: without a reinitialize in any event, with one that gets to its end, and with
\* any number, interrupted or not, where a copy deletes what is there or replaces it by
\* key.  Nothing is said of a copy that the end of the process left empty, which the
\* code takes for the whole.  The rows of another device are there whatever the copy.
THEOREM SeededExactlyOnce == Spec => [](Reliable \/ Repeatable => SeededOnce)
<1>1. IInv => (Reliable \/ Repeatable => SeededOnce)
  <2>1. Reliable \/ Repeatable => Resets
    BY DEF Reliable, Repeatable, Resets
  <2> QED BY <2>1, OnceAtRest DEF IInv, SeededOnce
<1> QED BY <1>1, Invariant, PTL

================================================================================
