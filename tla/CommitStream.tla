----------------------------- MODULE CommitStream ------------------------------
(***************************************************************************)
(* What a SyncLite device promises to whatever reads its segments: commits *)
(* happen one after the other with growing commit ids, and at any time the *)
(* reader has been given the transactions of some prefix of that history.  *)
(* Nothing that did not commit is ever published, nothing published is     *)
(* taken back, and no transaction overtakes an earlier one.                *)
(***************************************************************************)
EXTENDS Integers

CONSTANT CommitId   \* the commit ids there are, a set of natural numbers

VARIABLES
  committed,   \* commit ids of the transactions the user database holds
  published    \* commit ids a reader of the stage directory sees committed

streamVars == <<committed, published>>

\* S is a prefix of T: what T has and S has not comes after all of S.
PrefixOf(S, T) == S \subseteq T /\ \A c \in T \ S, d \in S : d < c

StreamInit == committed = {} /\ published = {}

\* The user database commits a transaction under a commit id not used before.
CommitTxn ==
  \E c \in CommitId \ {0} :
    /\ \A d \in committed : d < c
    /\ committed' = committed \union {c}
    /\ UNCHANGED published

\* A segment reaches the stage directory: a longer prefix is visible.
Publish ==
  /\ published' \in SUBSET committed
  /\ PrefixOf(published, published')
  /\ PrefixOf(published', committed)
  /\ UNCHANGED committed

StreamNext == CommitTxn \/ Publish

StreamSpec == StreamInit /\ [][StreamNext]_streamVars

================================================================================
