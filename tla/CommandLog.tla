------------------------------ MODULE CommandLog ------------------------------
(***************************************************************************)
(* The rows of a command-log segment and what the logger reads off them.   *)
(*                                                                         *)
(* A segment is an SQLite file `<N>.sqllog' whose table commandlog is keyed *)
(* by change_number, so its content is a set of rows, ordered by num.  The *)
(* SQL text and its arguments are abstracted to the kind of the row: the   *)
(* transaction markers, OP for every statement of the user, and REPLAY for *)
(* the REPLAY_TXN marker of a DuckDB device, which stands for the content  *)
(* of the transaction's sidecar file.                                      *)
(***************************************************************************)
EXTENDS Integers, FiniteSets

RowKind == {"BEGIN", "OP", "REPLAY", "COMMIT", "ROLLBACK"}

Row == [num : Nat, cid : Nat, kind : RowKind]

MakeRow(num, cid, kind) == [num |-> num, cid |-> cid, kind |-> kind]

(***************************************************************************)
(* Lifecycle of a file in the device home: no file, a file whose creation  *)
(* never completed (no metadata table), NEW and READY_TO_APPLY.            *)
(***************************************************************************)
Status == {"absent", "half", "NEW", "READY"}

Segment == [status : Status, rows : SUBSET Row]

NoFile == [status |-> "absent", rows |-> {}]

CommitIds(rows) == { r.cid : r \in rows }

\* Whether commit id c has a row of this kind.
Has(rows, c, kind) == \E r \in rows : r.cid = c /\ r.kind = kind

\* SELECT MAX(commit_id) FROM commandlog, 0 standing for SQL's NULL.
LastCommitId(rows) ==
  IF rows = {} THEN 0
  ELSE CHOOSE c \in CommitIds(rows) : \A d \in CommitIds(rows) : d <= c

\* COALESCE(MAX(change_number), -1) + 1.
NextChangeNumber(rows) ==
  IF rows = {} THEN 0
  ELSE 1 + (CHOOSE n \in { r.num : r \in rows } : \A r \in rows : r.num <= n)

(***************************************************************************)
(* TxnFate of one commit id: COMMIT wins over ROLLBACK, neither is Unknown.*)
(***************************************************************************)
FateOf(rows, c) ==
  IF Has(rows, c, "COMMIT") THEN "Commit"
  ELSE IF Has(rows, c, "ROLLBACK") THEN "Rollback"
  ELSE "Unknown"

\* last_commit_fate_decided: an empty segment counts as decided.
LastFateDecided(rows) ==
  rows = {} \/ FateOf(rows, LastCommitId(rows)) # "Unknown"

\* last_txn_fate_decided of the consolidator: for a REPLAY_TXN without a fate it does
\* with the sidecar.
LastTxnFateDecided(rows, sidecars) ==
  \/ LastFateDecided(rows)
  \/ LastCommitId(rows) \in sidecars /\ Has(rows, LastCommitId(rows), "REPLAY")

\* expand_replay_txn_entries: a REPLAY_TXN stands for what is in the sidecar.
Expanded(rows, sidecarRows) ==
  { r \in rows : r.kind # "REPLAY" }
    \union { s \in sidecarRows : s.kind = "OP" /\ Has(rows, s.cid, "REPLAY") }

\* retain_committed_entries: what replay keeps of a segment.
CommittedIds(rows) == { c \in CommitIds(rows) : FateOf(rows, c) = "Commit" }

===============================================================================
