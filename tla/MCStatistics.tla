------------------------------ MODULE MCStatistics ------------------------------
(***************************************************************************)
(* Layouts for the runs of Statistics: one device with two segments and    *)
(* two faults, wherever it keeps its checkpoint, and two devices of one    *)
(* segment each that share a work directory.                               *)
(***************************************************************************)
EXTENDS Statistics

Devices == {"d1", "d2"}

Alone ==
  { [store |-> [d \in Devices |-> s], faults |-> 2,
     segments |-> [d \in Devices |-> IF d = "d1" THEN 2 ELSE 0]] : s \in {"local", "destination"} }

Shared(f) ==
  { [store |-> [d \in Devices |-> IF d = "d1" THEN "local" ELSE "destination"], faults |-> f,
     segments |-> [d \in Devices |-> 1]] }

MCLayouts == Alone \union Shared(1)

\* Two devices, and nothing fails.
Undisturbed == Shared(0)
================================================================================
