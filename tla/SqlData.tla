-------------------------------- MODULE SqlData --------------------------------
(***************************************************************************)
(* The SQL engines under the logger and the consolidator, as far as they   *)
(* use them: tables of rows, the statements that reach an engine and what  *)
(* each does.  Values, tables and columns are strings.  A statement has    *)
(*                                                                         *)
(*   op, table   what it is (the op_type of a CDC log record) and to what  *)
(*   set, where  the values it writes and the equalities it filters by,    *)
(*               functions from columns to values; the values of an        *)
(*               unlisted INSERT are a sequence                            *)
(*   cols, key   the columns of a DDL statement, the key it declares       *)
(*   to          the new name in a RENAME                                  *)
(*   form        how it is written: "bound" (every value an argument),     *)
(*               "literal" (the values are in the text) or "unlisted"      *)
(*               (an INSERT without its column list)                       *)
(*   verb        what an INSERT does with a row of the same key            *)
(***************************************************************************)
EXTENDS Integers, Sequences, FiniteSets, SequencesExt, Functions

Null == "NULL"

Plain == [op |-> "NOOP", table |-> "", set |-> <<>>, where |-> <<>>,
          cols |-> <<>>, key |-> {}, to |-> "", form |-> "bound", verb |-> "plain"]

Dml == {"INSERT", "UPDATE", "DELETE"}
Ddl == {"CREATETABLE", "DROPTABLE", "RENAMETABLE", "ADDCOLUMN", "DROPCOLUMN", "RENAMECOLUMN"}

Table(cols, key, rows) == [cols |-> cols, key |-> key, rows |-> rows]
Columns(db, t) == Range(db[t].cols)

Ok(db) == [err |-> "none", db |-> db]
Failed(e, db) == [err |-> e, db |-> db]

--------------------------------------------------------------------------------
(* Rows.  A comparison with NULL is never true.                                 *)

Matches(row, where) == \A c \in DOMAIN where : row[c] = where[c] /\ where[c] # Null

SameKey(key, r, q) == key # {} /\ \A c \in key : r[c] = q[c] /\ r[c] # Null

Unique(table) == \A i, j \in DOMAIN table.rows :
                   i < j => ~ SameKey(table.key, table.rows[i], table.rows[j])

WithRows(db, t, rows) == [db EXCEPT ![t].rows = rows]

Store(db, t, rows) ==
  LET after == WithRows(db, t, rows)
  IN  IF Unique(after[t]) THEN Ok(after) ELSE Failed("unique", db)

\* Without its column list an INSERT fills the columns in the table's order.
Position(cols, c) == CHOOSE i \in DOMAIN cols : cols[i] = c
Bind(cols, args) == [c \in Range(cols) |-> args[Position(cols, c)]]

Listed(table, s) ==
  IF s.form = "unlisted" /\ Len(s.set) = Len(table.cols) THEN Bind(table.cols, s.set) ELSE s.set

Insert(db, s) ==
  LET table == db[s.table]
      set == Listed(table, s)
      row == [c \in Range(table.cols) |-> IF c \in DOMAIN set THEN set[c] ELSE Null]
      others == SelectSeq(table.rows, LAMBDA r : ~ SameKey(table.key, r, row))
      clash == Len(others) # Len(table.rows)
      upserted == [i \in DOMAIN table.rows |->
                     IF SameKey(table.key, table.rows[i], row) THEN set @@ table.rows[i]
                     ELSE table.rows[i]]
  IN  IF ~ (DOMAIN set \subseteq Range(table.cols)) THEN Failed("column", db)
      ELSE IF clash /\ s.verb = "upsert" THEN Ok(WithRows(db, s.table, upserted))
      ELSE IF clash /\ s.verb = "replace" THEN Ok(WithRows(db, s.table, Append(others, row)))
      ELSE Store(db, s.table, Append(table.rows, row))

Update(db, s) ==
  LET rows == db[s.table].rows
  IN  IF ~ (DOMAIN s.set \union DOMAIN s.where \subseteq Columns(db, s.table)) THEN Failed("column", db)
      ELSE Store(db, s.table, [i \in DOMAIN rows |->
                                 IF Matches(rows[i], s.where) THEN s.set @@ rows[i] ELSE rows[i]])

Delete(db, s) ==
  IF ~ (DOMAIN s.where \subseteq Columns(db, s.table)) THEN Failed("column", db)
  ELSE Ok(WithRows(db, s.table, SelectSeq(db[s.table].rows, LAMBDA r : ~ Matches(r, s.where))))

--------------------------------------------------------------------------------
(* Schema.  "exists" and "column" are the errors that the code may call benign. *)

Without(f, x) == [y \in DOMAIN f \ {x} |-> f[y]]

CreateTable(db, s) ==
  IF s.table \in DOMAIN db THEN Failed("exists", db)
  ELSE IF ~ IsInjective(s.cols) THEN Failed("duplicate column", db)
  ELSE Ok((s.table :> Table(s.cols, s.key, <<>>)) @@ db)

\* CREATE TABLE s.to AS SELECT * FROM s.table WHERE 1=0
CreateLike(db, s) ==
  IF s.to \in DOMAIN db THEN Ok(db)
  ELSE Ok((s.to :> Table(db[s.table].cols, {}, <<>>)) @@ db)

RenameTable(db, s) ==
  IF s.to \in DOMAIN db THEN Failed("exists", db)
  ELSE Ok((s.to :> db[s.table]) @@ Without(db, s.table))

AddColumn(db, s) ==
  LET col == s.cols[1]
      table == db[s.table]
  IN  IF col \in Range(table.cols) THEN Failed("duplicate column", db)
      ELSE Ok([db EXCEPT ![s.table].cols = Append(@, col),
                         ![s.table].rows = [i \in DOMAIN @ |-> (col :> Null) @@ @[i]]])

DropColumn(db, s) ==
  LET col == s.cols[1]
  IN  IF col \notin Columns(db, s.table) THEN Failed("column", db)
      ELSE IF col \in db[s.table].key THEN Failed("key", db)
      ELSE Ok([db EXCEPT ![s.table].cols = SelectSeq(@, LAMBDA c : c # col),
                         ![s.table].rows = [i \in DOMAIN @ |-> Without(@[i], col)]])

RenameColumn(db, s) ==
  LET old == s.cols[1]
      new(c) == IF c = old THEN s.to ELSE c
      renamed(r) == [c \in {new(x) : x \in DOMAIN r} |-> IF c = s.to THEN r[old] ELSE r[c]]
  IN  IF old \notin Columns(db, s.table) THEN Failed("column", db)
      ELSE IF s.to \in Columns(db, s.table) THEN Failed("duplicate column", db)
      ELSE Ok([db EXCEPT ![s.table].cols = [i \in DOMAIN @ |-> new(@[i])],
                         ![s.table].key = {new(c) : c \in @},
                         ![s.table].rows = [i \in DOMAIN @ |-> renamed(@[i])]])

Exec(db, s) ==
  IF s.op = "SYNTAX" THEN Failed("syntax", db)
  ELSE IF s.op = "PARAMETERS" THEN Failed("parameters", db)
  ELSE IF s.op = "CREATETABLE" THEN CreateTable(db, s)
  ELSE IF s.table \notin DOMAIN db THEN Failed("table", db)
  ELSE CASE s.op = "INSERT" -> Insert(db, s)
         [] s.op = "UPDATE" -> Update(db, s)
         [] s.op = "DELETE" -> Delete(db, s)
         [] s.op = "DROPTABLE" -> Ok(Without(db, s.table))
         [] s.op = "CREATELIKE" -> CreateLike(db, s)
         [] s.op = "RENAMETABLE" -> RenameTable(db, s)
         [] s.op = "ADDCOLUMN" -> AddColumn(db, s)
         [] s.op = "DROPCOLUMN" -> DropColumn(db, s)
         [] s.op = "RENAMECOLUMN" -> RenameColumn(db, s)

\* The rows a statement changes, in the order of the scan, with their old and new value.
Touched(db, s) == SelectSeq([i \in DOMAIN db[s.table].rows |-> i],
                            LAMBDA i : Matches(db[s.table].rows[i], s.where))
================================================================================
