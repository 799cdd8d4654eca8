-------------------------------- MODULE Mapping ---------------------------------
(***************************************************************************)
(* What the consolidator makes of an operation on its way to a             *)
(* destination (crates/consolidator/runtime, map_operation_using_mapper):  *)
(* some operations are not applied, the filter and the value mapper drop   *)
(* and rename tables, columns and values, and the mapper of the sync mode  *)
(* rewrites the rest.  In CONSOLIDATION several devices share a table, and *)
(* every row carries its device; in REPLICATION a table is as it is at the *)
(* source.                                                                 *)
(*                                                                         *)
(* An entry is [change, commit, op, table, ddl, stmt]: stmt is the         *)
(* statement in the log, ddl the columns recorded with a DDL operation.    *)
(* The result is the sequence of statements to execute; a destination      *)
(* table is <<schema, name>>.  A layout has                                *)
(*                                                                         *)
(*   id, device         the device and its class, "sql" or "store"         *)
(*   backend, scoped    the engine; is a schema configured for it          *)
(*   mode, init         "consolidation" or "replication"; the init mode    *)
(*   filter, tables,    is there a filter mapper; its rules for tables,    *)
(*   columns,           for the columns of a table, and for those it does  *)
(*   allowTables,       not name: "true", "false" or a new name            *)
(*   allowColumns                                                          *)
(*   values             the value mapper: <<table, column>> to a function  *)
(*                                                                         *)
(* The three columns that consolidation adds are one here, DeviceColumn.   *)
(***************************************************************************)
EXTENDS SqlData, InitMode

DeviceColumn == "synclite_device_id"

Blocked == {"synclite_txn", "replay_checkpoint"}
Control == {"BEGINTRAN", "COMMITTRAN", "ROLLBACKTRAN", "CHECKPOINT", "PRAGMA"}

Qualified(layout, t) == <<IF layout.scoped /\ layout.backend # "sqlite" THEN "dst" ELSE "main", t>>
Unqualified(t) == <<"main", t>>

--------------------------------------------------------------------------------
(* What is never applied                                                        *)

NotForDestination(layout, e) ==
  \/ e.table \in Blocked
  \/ e.op \in Control
  \/ layout.backend = "postgres" /\ e.op \in {"VACUUM", "ANALYZE"}

\* Other devices may still use what this one drops.
SkippedInConsolidation(e) == e.op \in {"DROPTABLE", "DROPCOLUMN"}

--------------------------------------------------------------------------------
(* FilterMapper and ValueMapper                                                 *)

TableRule(layout, t) ==
  IF ~ layout.filter THEN "true"
  ELSE IF t \in DOMAIN layout.tables THEN layout.tables[t]
  ELSE IF layout.allowTables THEN "true" ELSE "false"

MappedTable(layout, t) == IF TableRule(layout, t) = "true" THEN t ELSE TableRule(layout, t)

ColumnRule(layout, t, c) ==
  IF ~ layout.filter \/ t \notin DOMAIN layout.columns THEN "true"
  ELSE IF c \in DOMAIN layout.columns[t] THEN layout.columns[t][c]
  ELSE IF layout.allowColumns THEN "true" ELSE "false"

Allowed(layout, t, c) == ColumnRule(layout, t, c) # "false"
MappedColumn(layout, t, c) == IF ColumnRule(layout, t, c) = "true" THEN c ELSE ColumnRule(layout, t, c)

\* The value mapper looks values up as text; a NULL is looked up as "null".
MappedValue(layout, t, c, v) ==
  LET key == IF v = Null THEN "null" ELSE v
  IN  IF <<t, c>> \in DOMAIN layout.values /\ key \in DOMAIN layout.values[<<t, c>>]
      THEN layout.values[<<t, c>>][key] ELSE v

Project(layout, t, f) ==
  LET kept == {c \in DOMAIN f : Allowed(layout, t, c)}
      source(d) == CHOOSE c \in kept : MappedColumn(layout, t, c) = d
  IN  [d \in {MappedColumn(layout, t, c) : c \in kept} |->
         MappedValue(layout, t, source(d), f[source(d)])]

Renamed(layout, e) == [e EXCEPT !.table = MappedTable(layout, e.table),
                                !.stmt.table = MappedTable(layout, e.table)]

\* A statement with a value in its text has fewer arguments than columns: only its
\* table is renamed.  The parser of an INSERT without column list takes the
\* placeholders for the columns: one that is not dropped becomes INSERT INTO t (?, ?).
FilterInsert(layout, e) ==
  LET set == Project(layout, e.table, e.stmt.set)
  IN  CASE e.stmt.form = "literal" -> << Renamed(layout, e) >>
        [] e.stmt.form = "unlisted" ->
             IF Allowed(layout, e.table, "?") THEN << [Renamed(layout, e) EXCEPT !.stmt.op = "SYNTAX"] >>
             ELSE <<>>
        [] DOMAIN set = {} -> <<>>
        [] OTHER -> << [Renamed(layout, e) EXCEPT !.stmt.set = set] >>

FilterUpdate(layout, e) ==
  LET set == Project(layout, e.table, e.stmt.set)
      where == Project(layout, e.table, e.stmt.where)
  IN  IF e.stmt.form = "literal" THEN << Renamed(layout, e) >>
      ELSE IF DOMAIN set = {} \/ DOMAIN where = {} THEN <<>>
      ELSE << [Renamed(layout, e) EXCEPT !.stmt.set = set, !.stmt.where = where] >>

\* With no WHERE clause there are as many columns as arguments, none.
FilterDelete(layout, e) ==
  LET where == Project(layout, e.table, e.stmt.where)
  IN  IF e.stmt.form = "literal" /\ DOMAIN e.stmt.where # {} THEN << Renamed(layout, e) >>
      ELSE IF DOMAIN where = {} THEN <<>>
      ELSE << [Renamed(layout, e) EXCEPT !.stmt.where = where] >>

FilteredColumns(layout, t, cols) ==
  LET kept == SelectSeq(cols, LAMBDA c : Allowed(layout, t, c))
  IN  [i \in DOMAIN kept |-> MappedColumn(layout, t, kept[i])]

\* The columns are filtered where the operation has them recorded.  A CREATE TABLE
\* leaves as a text that only the rewriters below may replace.
FilterDdl(layout, e) ==
  LET cols == FilteredColumns(layout, e.table, e.ddl)
  IN  IF e.op \in {"CREATETABLE", "ADDCOLUMN"} /\ e.ddl # <<>>
      THEN IF cols = <<>> THEN <<>>
           ELSE << [Renamed(layout, e) EXCEPT !.ddl = cols, !.stmt.form = "rebuilt"] >>
      ELSE << Renamed(layout, e) >>

FilterAndMapValues(layout, e) ==
  IF ~ layout.filter /\ DOMAIN layout.values = {} THEN << e >>
  ELSE IF TableRule(layout, e.table) = "false" THEN <<>>
  ELSE CASE e.stmt.op = "INSERT" -> FilterInsert(layout, e)
         [] e.stmt.op = "UPDATE" -> FilterUpdate(layout, e)
         [] e.stmt.op = "DELETE" -> FilterDelete(layout, e)
         [] OTHER -> FilterDdl(layout, e)

--------------------------------------------------------------------------------
(* DDL rebuilt for a destination                                                *)

AddColumnTo(layout, t, c) ==
  [Plain EXCEPT !.op = "ADDCOLUMN", !.table = Qualified(layout, t), !.cols = <<c>>]

CreateFor(layout, t, cols) ==
  [Plain EXCEPT !.op = "CREATETABLE", !.table = Qualified(layout, t), !.cols = cols]

\* No key is declared on what is created.
BuildReplicationCreate(layout, t, cols) == << CreateFor(layout, t, cols) >>

BuildCreateWithMetadata(layout, t, cols) ==
  (IF EmitsCreate(layout.init)
   THEN << CreateFor(layout, t, <<DeviceColumn>> \o cols) >>
        \o [i \in DOMAIN cols |-> AddColumnTo(layout, t, cols[i])]
   ELSE <<>>)
  \o (IF EmitsTruncate(layout.init)
      THEN << [Plain EXCEPT !.op = "DELETE", !.table = Qualified(layout, t)] >>
      ELSE <<>>)

\* rewrite_create_table_sql on the text of the log, or on the text left by the filter
RewriteCreate(e) ==
  IF e.stmt.form = "rebuilt" THEN << [Plain EXCEPT !.op = "SYNTAX", !.table = Unqualified(e.table)] >>
  ELSE << [e.stmt EXCEPT !.table = Unqualified(@), !.cols = <<DeviceColumn>> \o @] >>

CreateFrom(t, new) == [Plain EXCEPT !.op = "CREATELIKE", !.table = Unqualified(t), !.to = Unqualified(new)]

\* A table is renamed by creating the new one, a column by adding the new one.
ConsolidationDdl(layout, e) ==
  LET built(t) == BuildCreateWithMetadata(layout, t, e.ddl)
  IN  CASE e.op = "CREATETABLE" ->
             IF e.ddl # <<>> /\ built(e.table) # <<>> THEN built(e.table) ELSE RewriteCreate(e)
        [] e.op = "RENAMETABLE" ->
             IF built(e.stmt.to) # <<>> THEN built(e.stmt.to) ELSE << CreateFrom(e.table, e.stmt.to) >>
        [] e.op = "RENAMECOLUMN" -> << AddColumnTo(layout, e.table, e.stmt.to) >>
        [] e.op = "ADDCOLUMN" ->
             << AddColumnTo(layout, e.table, IF e.ddl # <<>> THEN e.ddl[1] ELSE e.stmt.cols[1]) >>

\* A renamed table stays in the schema it is in.
AsWritten(layout, s) ==
  LET table == Qualified(layout, s.table)
  IN  [s EXCEPT !.table = table, !.to = IF s.op = "RENAMETABLE" THEN <<table[1], s.to>> ELSE @]

ReplicationDdl(layout, e) ==
  CASE e.op = "CREATETABLE" /\ e.ddl # <<>> -> BuildReplicationCreate(layout, e.table, e.ddl)
    [] e.op = "ADDCOLUMN" /\ e.ddl # <<>> -> << AddColumnTo(layout, e.table, e.ddl[1]) >>
    [] OTHER -> << AsWritten(layout, e.stmt) >>

--------------------------------------------------------------------------------
(* DML with the device                                                          *)

WithDevice(layout, f) == (DeviceColumn :> layout.id) @@ f

RewriteInsert(layout, s) ==
  IF s.form = "unlisted" THEN [s EXCEPT !.set = <<layout.id>> \o @]
  ELSE [s EXCEPT !.set = WithDevice(layout, @)]

\* Mutant of RewriteUpdate: the device is written and not asked for.
RewriteUpdate_Unscoped(layout, s) == [s EXCEPT !.set = WithDevice(layout, @)]

RewriteUpdate(layout, s) ==
  [s EXCEPT !.set = WithDevice(layout, @), !.where = WithDevice(layout, @)]

\* A DELETE without WHERE is left as it is.  The device is among its arguments all
\* the same: SQLite and DuckDB refuse them, the text for PostgreSQL has no place for them.
RewriteDelete(layout, s) ==
  IF DOMAIN s.where # {} THEN [s EXCEPT !.where = WithDevice(layout, @)]
  ELSE IF layout.backend = "postgres" THEN s
  ELSE [s EXCEPT !.op = "PARAMETERS"]

ConsolidationDml(layout, s) ==
  LET rewritten == CASE s.op = "INSERT" -> RewriteInsert(layout, s)
                     [] s.op = "UPDATE" -> RewriteUpdate(layout, s)
                     [] s.op = "DELETE" -> RewriteDelete(layout, s)
                     [] OTHER -> s
  IN  [rewritten EXCEPT !.table = Qualified(layout, @)]

--------------------------------------------------------------------------------

MapOne(layout, e) ==
  IF layout.mode = "consolidation"
  THEN IF e.op \in Ddl THEN ConsolidationDdl(layout, e) ELSE << ConsolidationDml(layout, e.stmt) >>
  ELSE IF e.op \in Ddl THEN ReplicationDdl(layout, e) ELSE << AsWritten(layout, e.stmt) >>

MapOperation(layout, e) ==
  IF \/ NotForDestination(layout, e)
     \/ layout.mode = "consolidation" /\ SkippedInConsolidation(e)
  THEN <<>>
  ELSE LET kept == FilterAndMapValues(layout, e)
       IN  IF kept = <<>> THEN <<>> ELSE MapOne(layout, kept[1])
================================================================================
