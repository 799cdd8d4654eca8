-------------------------------- MODULE MCAwait --------------------------------
(***************************************************************************)
(* Layouts for the runs of AwaitSync: the engine, the front end, what is   *)
(* configured, and what may befall.                                        *)
(***************************************************************************)
EXTENDS AwaitSync, TLC

CONSTANTS a, b       \* databases

Base ==
  [engine |-> "sqlite", front |-> "rust", keys |-> {Single(a)}, types |-> {"store"}, inits |-> 1,
   opens |-> 2, openers |-> {"A"}, commits |-> 1, failing |-> FALSE, deaths |-> 0, alone |-> TRUE,
   flaky |-> 0, waits |-> 1, timed |-> {FALSE}, kinds |-> {"sync"}]

Two == Multiple(<<a, a>>)
Second == [k \in Named \X {2} |-> a]
Aliased == Multiple(<<a>>) @@ <<"dst-alias", 2>> :> a
Both == {"A", "B"}

\* Other destinations are asked for, by calls that overlap.
Changed == [Base EXCEPT !.keys = {Single(a), Two, Second}, !.inits = 2, !.opens = 1, !.openers = Both,
                        !.kinds = {"target"}]
\* Opens that fail, with and without destinations of their own, or ask for another type
Failing == [Base EXCEPT !.keys = {Two, NoSettings}, !.types = {"store", "sql"}, !.inits = 2,
                        !.failing = TRUE, !.timed = {TRUE}]
\* Another database is asked for, or another number, and the process ends.
Replaced == [Base EXCEPT !.keys = {Single(a), Single(b), Aliased}, !.inits = 2, !.deaths = 1, !.timed = {TRUE}]
\* One thread commits and closes while the other waits.
Flaky == [Base EXCEPT !.keys = {Two}, !.flaky = 2, !.commits = 2]
\* Java, with handles of the first open that are stopped late
JavaFront == [Base EXCEPT !.front = "java", !.inits = 2, !.timed = {TRUE}]

MCLayouts == {Changed, Failing, Replaced, Flaky, JavaFront}

\* await_sync for a device that is not a SQLite database, and is closed
Closing == {[Base EXCEPT !.engine = "duckdb"]}

\* await_sync while another thread opens the device
WhileOpening == {[Base EXCEPT !.alone = FALSE, !.openers = Both]}
================================================================================
