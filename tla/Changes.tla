-------------------------------- MODULE Changes --------------------------------
(***************************************************************************)
(* What an application changes on its device and what arrives at a         *)
(* destination.  The commands of a transaction reach the log with the      *)
(* transaction; a segment is consumed by one pass of the worker            *)
(* (crates/consolidator/runtime): the committed transactions of a SQL      *)
(* device are replayed on the replica and applied from the CDC log, the    *)
(* commands of a store device are applied as they are.                     *)
(*                                                                         *)
(*   layout       one of Layouts, fixed for a behaviour                    *)
(*   src, before  the database of the device, now and at the last commit   *)
(*   open, log    the commands of the open transaction; the transactions   *)
(*                of the segment, [commit, fate, stmts]                    *)
(*   replica      what the replay of a SQL device runs on                  *)
(*   schema       the copy of the schema that a store device's commands    *)
(*                are read with                                            *)
(*   dst, last    the destination; the entries last applied to it          *)
(*   err          the first failure of the pass: it fails at every retry   *)
(*   parted       tables of a consolidation that a rename parted from      *)
(*                what they held: it stays under the old name              *)
(*                                                                         *)
(* A layout says also how its device is used: the operations and the form  *)
(* of the statements (ops, forms), whether the destination has the table   *)
(* already, with a key (keyed), whether another device writes to it        *)
(* (shared), whether a pass may be repeated or the worker restarted        *)
(* (again, restarts), and how far the application goes: how many           *)
(* statements it runs (most), and whether it ever changes a row that holds *)
(* a NULL (nulls), runs DDL after DML in one transaction (late) or changes *)
(* rows without a WHERE clause (whole).                                    *)
(***************************************************************************)
EXTENDS DestinationApply, CdcLog, FiniteSetsExt

CONSTANTS
  Layouts,
  Values        \* bound: what an INSERT puts into a row

VARIABLES layout, src, before, open, log, commit, replica, schema, dst, last, err, parted, ran

vars == <<layout, src, before, open, log, commit, replica, schema, dst, last, err, parted, ran>>

Run(db, stmts) == FoldLeft(LAMBDA d, s : Exec(d, s).db, db, stmts)

Txn(n, fate, stmts) == [commit |-> n, fate |-> fate, stmts |-> stmts]

--------------------------------------------------------------------------------
(* One pass over a segment                                                      *)

\* txn_fates, retain_committed_entries: a replay skips what was rolled back.
Committed(txns) == SelectSeq(txns, LAMBDA x : x.fate = "commit")

\* The commands of a store device, with the marks around each transaction, numbered.
Mark(op) == [Plain EXCEPT !.op = op]

Commands(txns) ==
  FoldLeft(LAMBDA seq, x :
             LET stmts == <<Mark("BEGINTRAN")>> \o x.stmts \o
                          <<Mark(IF x.fate = "commit" THEN "COMMITTRAN" ELSE "ROLLBACKTRAN")>>
             IN  seq \o [i \in DOMAIN stmts |->
                           [change |-> Len(seq) + i - 1, commit |-> x.commit, stmt |-> stmts[i]]],
           <<>>, txns)

FromReplay(sch, done) ==
  [replica |-> done.replica, schema |-> sch, err |-> done.err, entries |-> ReadCdcLog(done.log)]
FromCommands(rep, done) ==
  [replica |-> rep, schema |-> done.schema, err |-> done.err, entries |-> done.entries]

\* read_segment_entries: what a pass reads from a segment, and what it leaves behind
Read(l, rep, sch, txns) ==
  IF l.device = "sql"
  THEN FromReplay(sch, ReplaySegment(rep, Committed(txns)))
  ELSE FromCommands(rep, ReadCommandLog(sch, Commands(txns)))

--------------------------------------------------------------------------------
(* Where a behaviour starts: the application has created its table; another     *)
(* device has sent the same.                                                    *)

NoDb == <<>>

Creation == << [Plain EXCEPT !.op = "CREATETABLE", !.table = "t", !.cols = <<"k", "a">>, !.key = {"k"}],
               [Plain EXCEPT !.op = "INSERT", !.table = "t", !.set = ("k" :> "1") @@ ("a" :> "1")] >>

FirstTxn == << Txn(1, "commit", Creation) >>

Prepared(l) ==
  IF ~ l.keyed THEN NoDb
  ELSE IF l.mode = "consolidation"
  THEN Qualified(l, "t") :> Table(<<DeviceColumn, "k", "a">>, {DeviceColumn, "k"}, <<>>)
  ELSE Qualified(l, "t") :> Table(<<"k", "a">>, {"k"}, <<>>)

Other(l) == [l EXCEPT !.id = "other"]

FirstDestination(l) ==
  IF l.shared THEN ApplySegment(Other(l), Prepared(l), Read(l, NoDb, NoDb, FirstTxn).entries).db
  ELSE Prepared(l)

Init ==
  /\ layout \in Layouts
  /\ src = Run(NoDb, Creation) /\ before = src
  /\ open = <<>> /\ log = FirstTxn /\ commit = 2
  /\ replica = NoDb /\ schema = NoDb
  /\ dst = FirstDestination(layout) /\ last = <<>>
  /\ err = "none" /\ parted = {} /\ ran = 0

--------------------------------------------------------------------------------
(* The application                                                              *)

Stmt(op, t) == [Plain EXCEPT !.op = op, !.table = t]

Rows(t) == {[c \in Columns(src, t) |-> IF c = "k" THEN key ELSE v] : key \in Values, v \in Values}

Insertion(t, row, form) ==
  [Stmt("INSERT", t) EXCEPT !.set = IF form = "unlisted" THEN Image(src[t], row) ELSE row, !.form = form]

\* The rows with "1" in a column, or all; a "literal" statement has its values in its text.
Filtered(op, t) ==
  {[Stmt(op, t) EXCEPT !.where = where, !.form = form] :
     where \in {<<>>} \union {c :> "1" : c \in Columns(src, t)},
     form \in layout.forms \ {"unlisted"}}

Updates(t) == {[s EXCEPT !.set = c :> "2"] : s \in Filtered("UPDATE", t), c \in Columns(src, t)}

Drops(t) == {Stmt("DROPTABLE", t)}
Creates == {[Stmt("CREATETABLE", "u") EXCEPT !.cols = <<"k", "a">>, !.key = {"k"}]}
TableRenames(t) == {[Stmt("RENAMETABLE", t) EXCEPT !.to = "u"]}
ColumnAdds(t) == {[Stmt("ADDCOLUMN", t) EXCEPT !.cols = <<"b">>]}
ColumnDrops(t) == {[Stmt("DROPCOLUMN", t) EXCEPT !.cols = <<"a">>]}
ColumnRenames(t) == {[Stmt("RENAMECOLUMN", t) EXCEPT !.cols = <<"a">>, !.to = "b"]}

HoldsNull(s) == \E i \in Range(Touched(src, s)) : Null \in Range(src[s.table].rows[i])

Usual(s) ==
  /\ s.op \in layout.ops
  /\ s.op \in {"UPDATE", "DELETE"} => (layout.nulls \/ ~ HoldsNull(s)) /\ (layout.whole \/ s.where # <<>>)
  /\ s.op \in Ddl => layout.late \/ \A x \in Range(open) : x.op \in Ddl

Accept(done) == done.err = "none" /\ src' = done.db

Execute(s) ==
  /\ err = "none" /\ ran < layout.most
  /\ Usual(s) /\ Accept(Exec(src, s))
  /\ open' = Append(open, s) /\ ran' = ran + 1
  /\ parted' = parted \union
       (IF layout.mode # "consolidation" THEN {}
        ELSE CASE s.op = "RENAMETABLE" -> {s.to} [] s.op = "RENAMECOLUMN" -> {s.table} [] OTHER -> {})
  /\ UNCHANGED <<layout, before, log, commit, replica, schema, dst, last, err>>

DoInsert == \E t \in DOMAIN src : \E row \in Rows(t), form \in layout.forms :
              Execute(Insertion(t, row, form))
DoUpdate == \E t \in DOMAIN src : \E s \in Updates(t) : Execute(s)
DoDelete == \E t \in DOMAIN src : \E s \in Filtered("DELETE", t) : Execute(s)
DoCreate == \E s \in Creates : Execute(s)
DoDrop == \E t \in DOMAIN src : \E s \in Drops(t) : Execute(s)
DoRename == \E t \in DOMAIN src : \E s \in TableRenames(t) \union ColumnRenames(t) : Execute(s)
DoAdd == \E t \in DOMAIN src : \E s \in ColumnAdds(t) : Execute(s)
DoShrink == \E t \in DOMAIN src : \E s \in ColumnDrops(t) : Execute(s)

Commit ==
  /\ open # <<>>
  /\ log' = Append(log, Txn(commit, "commit", open)) /\ commit' = commit + 1
  /\ before' = src /\ open' = <<>>
  /\ UNCHANGED <<layout, src, replica, schema, dst, last, err, parted, ran>>

\* Mutant of Rollback: the rows leave the buffer, the mark does not follow.
Rollback_Unmarked ==
  /\ open # <<>> /\ "ROLLBACK" \in layout.ops
  /\ log' = Append(log, Txn(commit, "none", open)) /\ commit' = commit + 1
  /\ src' = before /\ open' = <<>>
  /\ UNCHANGED <<layout, before, replica, schema, dst, last, err, parted, ran>>

Rollback ==
  /\ open # <<>> /\ "ROLLBACK" \in layout.ops
  /\ log' = Append(log, Txn(commit, "rollback", open)) /\ commit' = commit + 1
  /\ src' = before /\ open' = <<>>
  /\ UNCHANGED <<layout, before, replica, schema, dst, last, err, parted, ran>>

--------------------------------------------------------------------------------
(* The consolidator                                                             *)

\* What is applied and the cursors behind it are stored at the end; a failure leaves them.
Finish(read, applied) ==
  IF applied.err # "none"
  THEN err' = applied.err /\ UNCHANGED <<log, replica, schema, dst, last>>
  ELSE /\ replica' = read.replica /\ schema' = read.schema
       /\ dst' = applied.db /\ last' = read.entries
       /\ log' = <<>> /\ UNCHANGED err

Pass(read) ==
  Finish(read, IF read.err # "none" THEN Failed(read.err, dst)
               ELSE ApplySegment(layout, dst, read.entries))

\* A segment ends where a transaction ends.
Consume ==
  /\ log # <<>> /\ open = <<>> /\ err = "none"
  /\ Pass(Read(layout, replica, schema, log))
  /\ UNCHANGED <<layout, src, before, open, commit, parted, ran>>

\* The checkpoint of an applied segment is stored after the destination's commit:
\* a death in between has the same entries applied again.
Reapply ==
  /\ layout.again /\ last # <<>> /\ err = "none"
  /\ LET end(applied) == dst' = applied.db /\ err' = applied.err
     IN  end(ApplySegment(layout, dst, last))
  /\ last' = <<>>
  /\ UNCHANGED <<layout, src, before, open, log, commit, replica, schema, parted, ran>>

\* seed_commandlog_schema_replica reads the copy the device was first backed up to.
Restart ==
  /\ layout.restarts /\ schema # NoDb
  /\ schema' = NoDb
  /\ UNCHANGED <<layout, src, before, open, log, commit, replica, dst, last, err, parted, ran>>

Next ==
  \/ DoInsert \/ DoUpdate \/ DoDelete
  \/ DoCreate \/ DoDrop \/ DoRename \/ DoAdd \/ DoShrink
  \/ Commit \/ Rollback
  \/ Consume \/ Reapply \/ Restart

Spec == Init /\ [][Next]_vars

--------------------------------------------------------------------------------
(* Properties                                                                   *)

\* Every database is one that its engine could hold: rows have the columns of their
\* table and no two of them the same key.
WellFormed(db) ==
  \A t \in DOMAIN db : /\ Unique(db[t])
                       /\ \A i \in DOMAIN db[t].rows : DOMAIN db[t].rows[i] = Columns(db, t)

TypeOK ==
  /\ layout \in Layouts /\ ran \in 0 .. layout.most /\ commit \in Nat
  /\ WellFormed(src) /\ WellFormed(before) /\ WellFormed(replica) /\ WellFormed(dst)
  /\ \A i \in DOMAIN open : open[i].op \in Dml \union Ddl
  /\ \A i \in DOMAIN log : log[i].fate \in {"commit", "rollback"}

Delivered == log = <<>> /\ err = "none"

Target(t) == Qualified(layout, MappedTable(layout, t))
Sent(t) == t \notin Blocked /\ TableRule(layout, t) # "false"
AtDestination(t) == IF Target(t) \in DOMAIN dst THEN dst[Target(t)].rows ELSE <<>>

Mine(row) == layout.mode = "consolidation" => row[DeviceColumn] = layout.id

Wanted(t) ==
  LET rows == before[t].rows
      image(i) == Project(layout, t, rows[i])
  IN  [i \in DOMAIN rows |->
         IF layout.mode = "consolidation" THEN WithDevice(layout, image(i)) ELSE image(i)]

Shown(t) ==
  LET rows == SelectSeq(AtDestination(t), Mine)
      cols == {MappedColumn(layout, t, c) : c \in {x \in Columns(before, t) : Allowed(layout, t, x)}}
              \union (IF layout.mode = "consolidation" THEN {DeviceColumn} ELSE {})
  IN  [i \in DOMAIN rows |-> [c \in cols \intersect DOMAIN rows[i] |-> rows[i][c]]]

Count(seq, x) == Cardinality({i \in DOMAIN seq : seq[i] = x})
SameRows(a, b) == Len(a) = Len(b) /\ \A r \in Range(a) : Count(a, r) = Count(b, r)

\* RowForRow: once every segment is consumed, a destination table holds the device's
\* committed rows, each as often as the device has it, in the columns and with the
\* values that the mapping lets through (README: destination mirrors the source
\* row for row; in consolidation, the rows of this device).
RowForRow ==
  Delivered => \A t \in DOMAIN before \ parted : Sent(t) => SameRows(Wanted(t), Shown(t))

\* OthersUntouched: whatever this device does to its own table, the rows that another
\* device has sent to the shared table stay what they are (README: many source
\* devices fan in to one consolidated table).
OthersRows(db, cols) ==
  LET rows == SelectSeq(IF Target("t") \in DOMAIN db THEN db[Target("t")].rows ELSE <<>>,
                        LAMBDA r : r[DeviceColumn] = "other")
  IN  [i \in DOMAIN rows |-> [c \in cols \intersect DOMAIN rows[i] |-> rows[i][c]]]

StillThere(first) ==
  LET cols == Columns(first, Target("t"))
  IN  SameRows(OthersRows(first, cols), OthersRows(dst, cols))

OthersUntouched == layout.shared => StillThere(FirstDestination(layout))

\* BlockedStaysHome: a table or a column that the filter does not let through, and the
\* logger's own tables, are never seen at the destination, whatever the DDL.
BlockedStaysHome ==
  \A d \in DOMAIN dst :
    \E t \in {"t", "u"} :
      /\ Sent(t) /\ d = Target(t)
      /\ \A c \in {"k", "a", "b"} : ~ Allowed(layout, t, c) => c \notin Columns(dst, d)

\* DestinationIsMapped: what the destination has of a device is what its settings say,
\* no row less and nothing more.
DestinationIsMapped == RowForRow /\ BlockedStaysHome

\* BatchAgrees: sending the statements for PostgreSQL in batches leaves what sending
\* them one at a time would.
BatchAgrees ==
  layout.backend = "postgres" /\ err = "none" =>
    LET entries == Read(layout, replica, schema, log).entries
        agree(batched, single) ==
          batched.err = single.err /\ (batched.err = "none" => batched.db = single.db)
    IN  agree(ApplyBatched(layout, dst, 0, entries), ApplyInOrder(layout, dst, 0, entries))

\* NeverStuck: what a device has committed can be replayed, read and applied; a
\* segment that fails would fail at every retry, and hold up all that follow.
NeverStuck == err = "none"
================================================================================
