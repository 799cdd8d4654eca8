------------------------------- MODULE MCChanges -------------------------------
(***************************************************************************)
(* Layouts for the runs of Changes: the combinations of device, mode,      *)
(* engine and mapping, each with the operations that it is used with.      *)
(***************************************************************************)
EXTENDS Changes

Base ==
  [id |-> "mine", device |-> "sql", backend |-> "sqlite", scoped |-> FALSE,
   mode |-> "replication", init |-> "TRY_CREATE_APPEND_DATA",
   filter |-> FALSE, tables |-> <<>>, columns |-> <<>>,
   allowTables |-> TRUE, allowColumns |-> TRUE, values |-> <<>>,
   idempotent |-> FALSE, method |-> "upsert", limit |-> 2,
   keyed |-> FALSE, shared |-> FALSE, again |-> FALSE, restarts |-> FALSE,
   forms |-> {"bound"}, ops |-> Dml, most |-> 2,
   nulls |-> FALSE, late |-> FALSE, whole |-> TRUE]

SharedTable == [Base EXCEPT !.mode = "consolidation", !.shared = TRUE]
StoreDevice == [Base EXCEPT !.device = "store", !.nulls = TRUE, !.late = TRUE,
                            !.forms = {"bound", "literal", "unlisted"}]
SharedStore == [StoreDevice EXCEPT !.mode = "consolidation", !.shared = TRUE, !.whole = FALSE]

-------------------------------------------------------------------------------
(* SQL devices, through the CDC log                                            *)

Mirror == [Base EXCEPT !.ops = Dml \union Ddl \union {"ROLLBACK"}]
Evolving == [Base EXCEPT !.ops = {"INSERT", "UPDATE", "ADDCOLUMN", "RENAMECOLUMN"}, !.most = 3]
MirrorPg == [Base EXCEPT !.backend = "postgres", !.scoped = TRUE, !.most = 3,
                         !.ops = {"INSERT", "DELETE", "RENAMETABLE"}]
FanIn == [SharedTable EXCEPT !.backend = "duckdb", !.ops = Dml \union {"ADDCOLUMN", "CREATETABLE"}]
FanInPg == [SharedTable EXCEPT !.backend = "postgres", !.ops = Dml \union {"DROPCOLUMN", "DROPTABLE"}]

Upserted == [Base EXCEPT !.keyed = TRUE, !.idempotent = TRUE, !.again = TRUE,
                         !.ops = {"INSERT", "DELETE"}]
Replaced == [Upserted EXCEPT !.method = "replace"]
DeletedInserted ==
  [SharedTable EXCEPT !.backend = "postgres", !.keyed = TRUE, !.idempotent = TRUE, !.again = TRUE,
                      !.method = "delete_insert", !.ops = {"INSERT", "DELETE"}]

Narrowed ==
  [Base EXCEPT !.filter = TRUE, !.tables = "t" :> "v", !.allowTables = FALSE,
               !.columns = "t" :> (("k" :> "true") @@ ("a" :> "false")),
               !.values = <<"t", "k">> :> ("1" :> "one"),
               !.ops = Dml \union {"CREATETABLE", "DROPTABLE"}]
NarrowedShared ==
  [SharedTable EXCEPT !.filter = TRUE, !.init = "TRY_CREATE_APPEND_DATA",
                      !.columns = "t" :> (("k" :> "id") @@ ("a" :> "true"))]

-------------------------------------------------------------------------------
(* Store devices, from their commands                                          *)

StoreMirror == [StoreDevice EXCEPT !.ops = Dml \union {"ADDCOLUMN", "RENAMETABLE"}]
StoreMirrorPg == [StoreDevice EXCEPT !.backend = "postgres", !.ops = Dml \union {"DROPCOLUMN"}]
StoreFanIn == [SharedStore EXCEPT !.restarts = TRUE, !.ops = Dml \union {"ADDCOLUMN"}]
StoreRenamed == [SharedStore EXCEPT !.backend = "duckdb", !.ops = {"INSERT", "RENAMETABLE"}, !.most = 3]
StoreNarrowed ==
  [StoreDevice EXCEPT !.whole = FALSE, !.forms = {"bound"}, !.filter = TRUE,
                      !.tables = "t" :> "v", !.allowTables = FALSE,
                      !.columns = "t" :> (("k" :> "id") @@ ("a" :> "true")), !.allowColumns = FALSE,
                      !.values = <<"t", "a">> :> ("1" :> "one"),
                      !.ops = Dml \union {"CREATETABLE"}]
Overwritten == [SharedStore EXCEPT !.shared = FALSE, !.init = "OVERWRITE_OBJECT", !.forms = {"bound"},
                                   !.ops = {"INSERT", "RENAMECOLUMN", "CREATETABLE"}]

MCLayouts ==
  {Mirror, Evolving, MirrorPg, FanIn, FanInPg, Upserted, Replaced, DeletedInserted,
   Narrowed, NarrowedShared, StoreMirror, StoreMirrorPg, StoreFanIn, StoreRenamed,
   StoreNarrowed, Overwritten}

-------------------------------------------------------------------------------
(* Uses that break a property: one layout for each run that expects it.        *)

WithNulls == {[Base EXCEPT !.ops = {"UPDATE", "ADDCOLUMN"}, !.nulls = TRUE]}
WithDelete == {[SharedStore EXCEPT !.backend = "postgres", !.whole = TRUE]}
WithRename == {[SharedTable EXCEPT !.ops = {"INSERT", "RENAMETABLE"}]}
================================================================================
