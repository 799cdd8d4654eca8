--------------------------------- MODULE CdcLog ---------------------------------
(***************************************************************************)
(* Change data capture in crates/consolidator/runtime: the committed       *)
(* commands of a SQL device are replayed on a SQLite replica, and every    *)
(* row the replica changes becomes a record of the CDC log, with the DDL   *)
(* and the transaction marks between them.                                 *)
(*                                                                         *)
(* The text of a record is [op, table, cols]: the columns that it names,   *)
(* in order, each with a placeholder.  A record whose text is that of the  *)
(* record before it is written without (NoText) and read with the last     *)
(* text seen.  Its arguments are a sequence of values.                     *)
(*                                                                         *)
(* A replay carries the replica, the columns the replay believes each      *)
(* table to have, the changes not yet committed, and what is written.      *)
(***************************************************************************)
EXTENDS SqlData

NoText == [op |-> "", table |-> "", cols |-> <<>>]
Text(op, t, cols) == [op |-> op, table |-> t, cols |-> cols]

Internal == {"synclite_txn", "synclite_dbreader_checkpoint",
             "synclite_logreader_checkpoint", "replay_checkpoint", "sqlite_sequence"}

\* load_replica_table_columns: what the replay takes for the schema when it starts
TableColumns(replica) == [t \in DOMAIN replica \ Internal |-> replica[t].cols]

Replay(replica) ==
  [replica |-> replica, columns |-> TableColumns(replica), pending |-> <<>>,
   log |-> <<>>, open |-> <<>>, last |-> NoText, number |-> 0, err |-> "none"]

--------------------------------------------------------------------------------
(* What the pre-update hook sees: the row before and after, column by column.   *)

Image(table, row) == [i \in DOMAIN table.cols |-> row[table.cols[i]]]

Change(op, t, before, after) == [op |-> op, table |-> t, before |-> before, after |-> after]

Changes(db, s) ==
  LET table == db[s.table]
      after == Exec(db, s).db[s.table]
      touched == Touched(db, s)
      old(k) == Image(table, table.rows[touched[k]])
  IN  CASE s.op = "INSERT" -> << Change("INSERT", s.table, <<>>, Image(table, Last(after.rows))) >>
        [] s.op = "UPDATE" -> [k \in DOMAIN touched |->
                                 Change("UPDATE", s.table, old(k), Image(table, after.rows[touched[k]]))]
        [] s.op = "DELETE" -> [k \in DOMAIN touched |-> Change("DELETE", s.table, old(k), <<>>)]
        [] OTHER -> <<>>

--------------------------------------------------------------------------------
(* NativeCdcLogWriter: records go into the writer's transaction (open), the     *)
(* COMMIT of a replayed transaction moves them into the log.                    *)

Record(st, commit, op, t, text, args, ddl) ==
  [number |-> st.number, commit |-> commit, op |-> op, table |-> t,
   text |-> text, args |-> args, ddl |-> ddl]

Written(st, record) == [st EXCEPT !.open = Append(@, record), !.number = @ + 1]

\* A mark or a DDL record is written with its text and the next change with its own.
WriteDdl(st, commit, op, t, text, ddl) ==
  [Written(st, Record(st, commit, op, t, text, <<>>, ddl)) EXCEPT !.last = NoText]

TxnMarker(st, commit, op) == WriteDdl(st, commit, op, "", Text(op, "", <<>>), <<>>)

ArgsOf(c) == CASE c.op = "INSERT" -> c.after
               [] c.op = "DELETE" -> c.before
               [] c.op = "UPDATE" -> c.before \o c.after

WriteDml(st, commit, c, text) ==
  Written(st, Record(st, commit, c.op, c.table, text, ArgsOf(c), <<>>))

FlushWriter(st) == [st EXCEPT !.log = @ \o st.open, !.open = <<>>]

--------------------------------------------------------------------------------
(* native_change_callback, one call for each changed row, inside the COMMIT     *)

ColumnsFor(st, t) == IF t \in DOMAIN st.columns THEN st.columns[t] ELSE <<>>

WidthFits(c, cols) ==
  \/ cols = <<>>
  \/ /\ c.op \in {"INSERT", "UPDATE"} => Len(c.after) = Len(cols)
     /\ c.op \in {"UPDATE", "DELETE"} => Len(c.before) = Len(cols)

\* Every column is set and every column identifies the row.
CallbackText(c, cols) ==
  CASE c.op = "INSERT" -> Text("INSERT", c.table, IF Len(cols) = Len(c.after) THEN cols ELSE <<>>)
    [] cols = <<>> -> Text("SYNTAX", c.table, <<>>)
    [] c.op = "UPDATE" -> Text("UPDATE", c.table, SubSeq(cols, 1, Len(c.after)))
    [] c.op = "DELETE" -> Text("DELETE", c.table, SubSeq(cols, 1, Len(c.before)))

DeDuplicated(st, text) == IF st.last = text THEN NoText ELSE text

Callback(commit, st, c) ==
  LET cols == ColumnsFor(st, c.table)
      text == CallbackText(c, cols)
  IN  IF st.err # "none" \/ c.table = "replay_checkpoint" THEN st
      ELSE IF ~ WidthFits(c, cols) THEN [st EXCEPT !.err = "width"]
      ELSE [WriteDml(st, commit, c, DeDuplicated(st, text)) EXCEPT !.last = text]

--------------------------------------------------------------------------------
(* replay_entries: the commands of one committed transaction                    *)

\* Mutant of FollowDdl: only the tables are followed.
FollowDdl_TablesOnly(columns, s) ==
  CASE s.op = "CREATETABLE" -> (s.table :> s.cols) @@ columns
    [] s.op = "RENAMETABLE" -> (s.to :> columns[s.table]) @@ Without(columns, s.table)
    [] s.op = "DROPTABLE" -> Without(columns, s.table)
    [] OTHER -> columns

\* emit_ddl_via_writer: the replay follows the schema in the text of the DDL.
FollowDdl(columns, s) ==
  CASE s.op = "CREATETABLE" -> (s.table :> s.cols) @@ columns
    [] s.op = "ADDCOLUMN" ->
         (s.table :> Append(IF s.table \in DOMAIN columns THEN columns[s.table] ELSE <<>>, s.cols[1])) @@ columns
    [] s.table \notin DOMAIN columns -> columns
    [] s.op = "DROPCOLUMN" ->
         [columns EXCEPT ![s.table] = SelectSeq(@, LAMBDA c : c # s.cols[1])]
    [] s.op = "RENAMECOLUMN" ->
         [columns EXCEPT ![s.table] = [i \in DOMAIN @ |-> IF @[i] = s.cols[1] THEN s.to ELSE @[i]]]
    [] s.op = "RENAMETABLE" -> (s.to :> columns[s.table]) @@ Without(columns, s.table)
    [] s.op = "DROPTABLE" -> Without(columns, s.table)

\* Only the record of a CREATE TABLE carries the columns.
DdlColumns(s) == IF s.op = "CREATETABLE" THEN s.cols ELSE <<>>

EmitDdl(st, commit, s) ==
  WriteDdl([st EXCEPT !.columns = FollowDdl(@, s)], commit, s.op, s.table,
           s, DdlColumns(s))

ReplayStatement(commit, st, s) ==
  LET emitted == IF s.op \in Ddl THEN EmitDdl(st, commit, s) ELSE st
      ran(done) == IF done.err # "none" THEN [emitted EXCEPT !.err = "replay"]
                   ELSE [emitted EXCEPT !.replica = done.db, !.pending = @ \o Changes(st.replica, s)]
  IN  IF st.err # "none" THEN st ELSE ran(Exec(st.replica, s))

\* The buffered changes are delivered inside the COMMIT, after every DDL record of
\* the transaction; the mark of the commit comes after them.  A change that is
\* refused fails the COMMIT and the replica keeps the state before the transaction.
ReplayTxn(st, txn) ==
  LET ran == FoldLeft(LAMBDA s, e : ReplayStatement(txn.commit, s, e),
                      TxnMarker(st, txn.commit, "BEGINTRAN"), txn.stmts)
      call(s) == FoldLeft(LAMBDA x, c : Callback(txn.commit, x, c), s, s.pending)
      ended(s) == IF s.err # "none" THEN [st EXCEPT !.err = s.err]
                  ELSE [FlushWriter(TxnMarker(s, txn.commit, "COMMITTRAN")) EXCEPT !.pending = <<>>]
  IN  IF st.err # "none" THEN st ELSE ended(call(ran))

ReplaySegment(replica, txns) == FoldLeft(ReplayTxn, Replay(replica), txns)

--------------------------------------------------------------------------------
(* read_cdclog_entries                                                          *)

\* Mutant of Arguments: an UPDATE is applied with the row as it was for its values.
Arguments_AsWritten(r) == r.args

\* The halves of an UPDATE's arguments are exchanged: it is applied values first.
Arguments(r) ==
  LET half == Len(r.args) \div 2
  IN  IF r.op = "UPDATE" THEN SubSeq(r.args, half + 1, Len(r.args)) \o SubSeq(r.args, 1, half)
      ELSE r.args

\* The text and its arguments, bound position by position.
Bound(text, args) ==
  LET n == Len(text.cols)
      stmt == [Plain EXCEPT !.op = text.op, !.table = text.table]
  IN  CASE text.op = "INSERT" ->
             IF n = 0 THEN [stmt EXCEPT !.form = "unlisted", !.set = args]
             ELSE IF n = Len(args) THEN [stmt EXCEPT !.set = Bind(text.cols, args)]
             ELSE [stmt EXCEPT !.op = "PARAMETERS"]
        [] text.op = "UPDATE" ->
             IF 2 * n = Len(args)
             THEN [stmt EXCEPT !.set = Bind(text.cols, args),
                               !.where = Bind(text.cols, SubSeq(args, n + 1, 2 * n))]
             ELSE [stmt EXCEPT !.op = "PARAMETERS"]
        [] text.op = "DELETE" ->
             IF n = Len(args) THEN [stmt EXCEPT !.where = Bind(text.cols, args)]
             ELSE [stmt EXCEPT !.op = "PARAMETERS"]
        [] text.op = "SYNTAX" -> [stmt EXCEPT !.op = "SYNTAX"]

Entry(r, text) ==
  [change |-> r.number, commit |-> r.commit, op |-> r.op, table |-> r.table, ddl |-> r.ddl,
   stmt |-> IF r.op \in Dml THEN Bound(text, Arguments(r))
            ELSE IF r.op \in Ddl THEN text
            ELSE [Plain EXCEPT !.op = r.op]]

\* A record without text is read with the last text before it.
TextOf(log, k) == log[CHOOSE j \in 1 .. k : /\ log[j].text # NoText
                                           /\ \A i \in j + 1 .. k : log[i].text = NoText].text

ReadCdcLog(log) == [k \in DOMAIN log |-> Entry(log[k], TextOf(log, k))]
================================================================================
