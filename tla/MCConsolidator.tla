---------------------------- MODULE MCConsolidator ----------------------------
(***************************************************************************)
(* Layouts for the runs of Consolidator.                                   *)
(***************************************************************************)
EXTENDS Consolidator

\* One destination, with a crash or a failing step anywhere, twice, or once and a
\* pause or a shutdown
Single ==
  { l \in [device : {"sql", "store"}, store : {"local", "destination"},
           stageDir : BOOLEAN, destinations : {1}, faults : {1, 2}, calls : {0, 1}] :
      l.faults + l.calls = 2 }

\* Two destinations, each at its own pace
Pair ==
  [device : {"sql"}, store : {"destination"}, stageDir : BOOLEAN,
   destinations : {2}, faults : {0}, calls : {0}]

\* The same, and one crash or failing step in the lives of both
ShakyPair ==
  [device : {"store"}, store : {"destination"}, stageDir : {TRUE},
   destinations : {2}, faults : {1}, calls : {0}]

MCLayouts == Single \union Pair \union ShakyPair

\* A replay that is interrupted
Interrupted ==
  [device : {"sql"}, store : {"local", "destination"}, stageDir : BOOLEAN,
   destinations : {1}, faults : {1}, calls : {0}]
================================================================================
