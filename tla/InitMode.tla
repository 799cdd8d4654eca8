------------------------------- MODULE InitMode --------------------------------
(***************************************************************************)
(* The init modes of a destination (DstObjectInitMode in                   *)
(* crates/consolidator/core), which say what becomes of a table that is    *)
(* there when a device is seeded: whether it is created, and whether the   *)
(* device's rows in it are deleted.  The other modes use it as it is.      *)
(***************************************************************************)

EmitsCreate(init) == init \in {"OVERWRITE_OBJECT", "TRY_CREATE_DELETE_DATA", "TRY_CREATE_APPEND_DATA"}
EmitsTruncate(init) == init \in {"OVERWRITE_OBJECT", "TRY_CREATE_DELETE_DATA", "DELETE_DATA"}
================================================================================
