---------------------------- MODULE DestinationApply ----------------------------
(***************************************************************************)
(* Applying the entries of a segment to a destination                      *)
(* (crates/consolidator/runtime, apply_staged_segment_once and the         *)
(* apply_to_*_destination it calls): one transaction of the destination    *)
(* for the whole segment, which an error rolls back.  A layout says also   *)
(*                                                                         *)
(*   idempotent, method   dst-idempotent-data-ingestion and its method,    *)
(*                        "upsert", "replace" or "delete_insert"           *)
(*   limit                the batch size of a DML statement                *)
(*                                                                         *)
(* and the entries of a store device come from its commands, with the      *)
(* columns that an in-memory copy of the schema gives for a DDL command.   *)
(***************************************************************************)
EXTENDS Mapping

--------------------------------------------------------------------------------
(* read_commandlog_entries_with_replica                                         *)

Tolerated == {"exists", "duplicate column", "column", "table"}

\* Only the shape of the schema is kept: tables without rows.
SchemaOf(db) == [t \in DOMAIN db |-> Table(db[t].cols, db[t].key, <<>>)]

FollowSchema(schema, s) ==
  IF s.op \notin Ddl THEN Ok(schema)
  ELSE LET tolerated(done) == IF done.err \in Tolerated THEN Ok(schema) ELSE done
       IN  tolerated(Exec(schema, s))

DeriveDdlColumns(schema, s) ==
  LET t == IF s.op = "RENAMETABLE" THEN s.to ELSE s.table
      cols == IF t \in DOMAIN schema THEN schema[t].cols ELSE <<>>
  IN  IF s.op \notin Ddl \/ s.op = "DROPTABLE" THEN <<>>
      ELSE IF s.op = "ADDCOLUMN" /\ s.cols[1] \in Range(cols) THEN s.cols
      ELSE cols

Followed(acc, c, followed) ==
  [schema |-> followed.db,
   err |-> IF acc.err # "none" THEN acc.err ELSE followed.err,
   entries |-> Append(acc.entries,
     [change |-> c.change, commit |-> c.commit, op |-> c.stmt.op, table |-> c.stmt.table,
      ddl |-> DeriveDdlColumns(followed.db, c.stmt), stmt |-> c.stmt])]

ReadCommand(acc, c) == Followed(acc, c, FollowSchema(acc.schema, c.stmt))

ReadCommandLog(schema, commands) ==
  FoldLeft(ReadCommand, [schema |-> schema, err |-> "none", entries |-> <<>>], commands)

--------------------------------------------------------------------------------
(* DDL: a script, each statement of which may fail as if it were already done   *)

Benign == {"exists", "duplicate column", "column", "table"}

ApplyDdl(db, script) ==
  LET passed(acc, done) == IF done.err \in Benign THEN acc ELSE done
  IN  FoldLeft(LAMBDA acc, s : IF acc.err # "none" THEN acc ELSE passed(acc, Exec(acc.db, s)),
               Ok(db), script)

--------------------------------------------------------------------------------
(* Idempotent ingestion                                                         *)

\* The key is looked up by the plain name of the table, in the default schema.
LookupPks(db, t) == IF Unqualified(t) \in DOMAIN db THEN db[Unqualified(t)].key ELSE {}

RewriteIdempotent(layout, db, s) ==
  LET key == LookupPks(db, s.table[2])
      where == [c \in key |-> s.set[c]]
  IN  IF key = {} \/ s.form # "bound" \/ ~ (key \subseteq DOMAIN s.set) THEN << s >>
      ELSE IF layout.method = "upsert" THEN << [s EXCEPT !.verb = "upsert"] >>
      ELSE IF layout.method = "replace" /\ layout.backend = "sqlite"
      THEN << [s EXCEPT !.verb = "replace"] >>
      ELSE << [Plain EXCEPT !.op = "DELETE", !.table = s.table, !.where = where], s >>

Statements(layout, db, s) ==
  IF s.op = "INSERT" /\ layout.idempotent THEN RewriteIdempotent(layout, db, s) ELSE << s >>

--------------------------------------------------------------------------------
(* SQLite and DuckDB: every statement as it comes                               *)

\* One after the other, until one fails
RunAll(db, stmts) ==
  FoldLeft(LAMBDA acc, s : IF acc.err # "none" THEN acc ELSE Exec(acc.db, s), Ok(db), stmts)

\* The duplicate of an idempotent INSERT is ignored, with what is left of its pair.
ApplyDml(layout, db, s) ==
  LET ignored(done) ==
        IF done.err = "unique" /\ s.op = "INSERT" /\ layout.idempotent THEN Ok(done.db) ELSE done
  IN  ignored(RunAll(db, Statements(layout, db, s)))

Start(db, commit) == [db |-> db, err |-> "none", change |-> -1, commit |-> commit, queue |-> <<>>,
                      key |-> <<>>, count |-> 0]

Progressed(st, e) == [st EXCEPT !.change = e.change, !.commit = e.commit]

After(st, done) == [st EXCEPT !.db = done.db, !.err = done.err]

ApplyMapped(layout, st, e, mapped) ==
  IF st.err # "none" \/ mapped = <<>> THEN st
  ELSE Progressed(After(st, IF e.op \in Ddl THEN ApplyDdl(st.db, mapped)
                            ELSE ApplyDml(layout, st.db, mapped[1])), e)

ApplyEntry(layout, st, e) == ApplyMapped(layout, st, e, MapOperation(layout, e))

ApplyInOrder(layout, db, commit, entries) ==
  FoldLeft(LAMBDA st, e : ApplyEntry(layout, st, e), Start(db, commit), entries)

--------------------------------------------------------------------------------
(* PostgreSQL: DML is queued, and sent when the statement or its table changes, *)
(* the batch is full or a DDL comes.                                            *)

\* As a whole first; when that fails, from before the batch, one by one.
FlushBatch(layout, st) ==
  LET next(acc, s, done) ==
        IF done.err = "unique" /\ s.op = "INSERT" /\ layout.idempotent THEN acc ELSE done
      single == FoldLeft(LAMBDA acc, s :
                           IF acc.err # "none" THEN acc ELSE next(acc, s, Exec(acc.db, s)),
                         Ok(st.db), st.queue)
      sent(whole) == IF whole.err = "none" THEN whole ELSE single
  IN  IF st.err # "none" THEN st
      ELSE [After(st, sent(RunAll(st.db, st.queue))) EXCEPT !.queue = <<>>]

\* The text of a statement: everything but its arguments.  The text of a "literal"
\* statement holds the values as well.
BatchKey(s) == LET text(f) == IF s.form = "literal" THEN f ELSE DOMAIN f
               IN  <<s.form, s.op, s.table, text(s.set), text(s.where)>>

Rotated(layout, st, s) ==
  IF st.key # BatchKey(s) \/ st.count >= layout.limit
  THEN [FlushBatch(layout, st) EXCEPT !.key = BatchKey(s), !.count = 0] ELSE st

\* Mutant of ApplyPostgresDdl: what is queued stays queued.
ApplyPostgresDdl_Overtakes(layout, st, script) ==
  After(st, ApplyDdl(st.db, script))

ApplyPostgresDdl(layout, st, script) ==
  LET then(flushed) ==
        IF flushed.err # "none" THEN flushed ELSE After(flushed, ApplyDdl(flushed.db, script))
  IN  then(FlushBatch(layout, st))

Queued(layout, st, s) ==
  [st EXCEPT !.queue = @ \o Statements(layout, st.db, s), !.count = @ + 1]

BatchMapped(layout, st, e, mapped) ==
  IF st.err # "none" \/ mapped = <<>> THEN st
  ELSE Progressed(IF e.op \in Ddl THEN ApplyPostgresDdl(layout, st, mapped)
                  ELSE Queued(layout, Rotated(layout, st, mapped[1]), mapped[1]), e)

ApplyPostgresEntry(layout, st, e) == BatchMapped(layout, st, e, MapOperation(layout, e))

ApplyBatched(layout, db, commit, entries) ==
  FlushBatch(layout, FoldLeft(LAMBDA st, e : ApplyPostgresEntry(layout, st, e), Start(db, commit), entries))

--------------------------------------------------------------------------------

FirstCommit(entries) == IF entries = <<>> THEN 0 ELSE entries[1].commit

\* apply_staged_segment_once: the highest commit of the segment counts as applied
\* even if nothing of it was.
MaxCommitted(entries) ==
  LET commits == {entries[i].commit : i \in {j \in DOMAIN entries : entries[j].op = "COMMITTRAN"}}
  IN  IF commits = {} THEN -1 ELSE CHOOSE c \in commits : \A d \in commits : d <= c

ApplySegment(layout, db, entries) ==
  LET max == MaxCommitted(entries)
      ended(st) == IF st.err # "none" THEN [st EXCEPT !.db = db]
                   ELSE [st EXCEPT !.commit = IF max > @ THEN max ELSE @]
  IN  ended(IF layout.backend = "postgres"
            THEN ApplyBatched(layout, db, FirstCommit(entries), entries)
            ELSE ApplyInOrder(layout, db, FirstCommit(entries), entries))
================================================================================
