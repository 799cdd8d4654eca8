------------------------------- MODULE Shipping --------------------------------
(***************************************************************************)
(* From the device home to the archivers: the mover (synclite's            *)
(* logger/mover.rs), the shipper's worker thread (logger/shipper), the     *)
(* LogCleaner, and the embedded consolidator as the shipper's callback     *)
(* feeds it (build_shipper in synclite/src/lib.rs).                        *)
(*                                                                         *)
(* The logger thread finalizes segments and moves them, the worker ships   *)
(* whatever it finds staged to every archiver in turn, the consolidator    *)
(* applies what it was notified of.  A segment of a DuckDB device may come *)
(* with a sidecar `<N>.sqllog.<commit>.txn'; one stands for all of them.   *)
(* A file is a pair of its segment and its part.                           *)
(*                                                                         *)
(* Bounds: MaxSegment (segments), MaxSessions (how often the process is    *)
(* closed or crashes), MaxAttempts (RetryPolicy.max_attempts).             *)
(***************************************************************************)
EXTENDS Integers, Sequences

CONSTANTS
  MaxSegment, MaxSessions, MaxAttempts,
  Sidecars,      \* segments may come with a sidecar (DuckDB)
  Archivers,     \* how many archivers are configured
  Environments   \* the environments the device may find itself in

ASSUME CountAssumption ==
  /\ MaxSegment \in Nat /\ MaxSessions \in Nat
  /\ MaxAttempts \in Nat \ {0} /\ Archivers \in Nat \ {0}

(***************************************************************************)
(* embedded: an embedded consolidator is configured.  torn: a file being   *)
(* copied into stage is visible before it is whole.  failing: copying a    *)
(* file into stage may fail.  early: the worker may wake up before segment *)
(* 0 was ever staged.  deaf: no archiver ever accepts anything.            *)
(***************************************************************************)
Environment == [embedded : BOOLEAN, torn : BOOLEAN, failing : BOOLEAN,
                early : BOOLEAN, deaf : BOOLEAN]

ASSUME SwitchAssumption ==
  Sidecars \in BOOLEAN /\ Environments \subseteq Environment

Seg == 0 .. MaxSegment
Part == {"txn", "main"}
File == Seg \X Part
Archiver == 1 .. Archivers
Content == {"none", "part", "whole"}

Shutdown == <<"shutdown">>

VARIABLES
  env,        \* the environment of this device, for good
  produced,   \* how many segments the device has finalized
  sidecars,   \* the segments that have a sidecar
  home,       \* the files in the device home
  stage,      \* what the stage directory holds of each file
  archived,   \* what each archiver holds of each file
  sessions,   \* how often the process ended
  up,         \* the device is open: "down", "open", "closing"
  todo,       \* segments whose segment-ready callback is due
  phase,      \* the mover: "idle", "copy", "remove", "submit"
  parts,      \* the files the mover found for its segment
  left,       \* those it still has to handle in this phase
  copying,    \* the copy of the next of them has begun
  inbox,      \* the channel of the worker
  wpc,        \* the worker's next step
  latest,     \* latest_seq
  shipped,    \* shipped_seq
  file,       \* the file being shipped
  turn,       \* the archiver whose turn it is
  attempt,    \* the attempt at it
  notified,   \* segments the consolidator was notified of
  work,       \* the files in the consolidator's work directory
  applied     \* segments applied to the destination

config    == <<env, produced, sidecars, sessions>>
mover     == <<todo, phase, parts, left, copying>>
delivery  == <<file, turn, attempt>>
worker    == <<wpc, latest, shipped, delivery>>
consumer  == <<notified, work, applied>>
vars == <<config, home, stage, archived, up, mover, inbox, worker, consumer>>

WPC == {"down", "recv", "scan", "next", "ship", "shipped", "exited"}

TypeOK ==
  /\ env \in Environments
  /\ produced \in 0 .. MaxSegment + 1 /\ sessions \in 0 .. MaxSessions
  /\ sidecars \in SUBSET Seg
  /\ home \in SUBSET File /\ work \in SUBSET File
  /\ stage \in [File -> Content]
  /\ archived \in [Archiver -> [File -> Content]]
  /\ up \in {"down", "open", "closing"}
  /\ todo \in SUBSET Seg /\ notified \in SUBSET Seg /\ applied \in SUBSET Seg
  /\ phase \in {"idle", "copy", "remove", "submit"}
  /\ parts \in SUBSET Part /\ left \in SUBSET parts
  /\ copying \in BOOLEAN
  /\ inbox \in Seq(File \union {Shutdown})
  /\ wpc \in WPC
  /\ latest \in Seg /\ shipped \in -1 .. MaxSegment
  /\ file \in File /\ turn \in Archiver /\ attempt \in 1 .. MaxAttempts

Least(S) == CHOOSE n \in S : \A m \in S : n <= m
Greatest(S) == CHOOSE n \in S : \A m \in S : m <= n

Staged == { n \in Seg : stage[<<n, "main">>] # "none" }

--------------------------------------------------------------------------------
(* Process start and end                                                       *)

Memory ==
  /\ todo' = {} /\ phase' = "idle" /\ parts' = {} /\ left' = {} /\ copying' = FALSE
  /\ inbox' = <<>> /\ wpc' = "down" /\ latest' = 0 /\ shipped' = -1
  /\ file' = <<0, "main">> /\ turn' = 1 /\ attempt' = 1 /\ notified' = {}

Init ==
  /\ env \in Environments
  /\ produced = 0 /\ sidecars = {} /\ sessions = 0
  /\ home = {} /\ work = {} /\ applied = {}
  /\ stage = [f \in File |-> "none"]
  /\ archived = [a \in Archiver |-> [f \in File |-> "none"]]
  /\ up = "down" /\ todo = {} /\ phase = "idle" /\ parts = {} /\ left = {}
  /\ copying = FALSE /\ inbox = <<>> /\ wpc = "down" /\ latest = 0 /\ shipped = -1
  /\ file = <<0, "main">> /\ turn = 1 /\ attempt = 1 /\ notified = {}

\* scan_max_seq, 0 when nothing is staged.
ScanMax_Never == 0
ScanMax == IF Staged = {} THEN 0 ELSE Greatest(Staged)

FirstShipped == -1

(***************************************************************************)
(* open: build_shipper spawns the worker, then the device hands the        *)
(* finalized segments it finds in its home to the mover.                   *)
(***************************************************************************)
OpenDevice ==
  /\ up = "down"
  /\ up' = "open"
  /\ wpc' = "recv" /\ latest' = ScanMax /\ shipped' = FirstShipped
  /\ todo' = { n \in Seg : <<n, "main">> \in home }
  /\ UNCHANGED <<config, home, stage, archived, phase, parts, left, copying, inbox,
                 delivery, consumer>>

Crash ==
  /\ up # "down" /\ sessions < MaxSessions
  /\ up' = "down" /\ sessions' = sessions + 1
  /\ Memory
  /\ UNCHANGED <<env, produced, sidecars, home, stage, archived, work, applied>>

\* Logger::close drops the shipper, whose last message makes the worker leave.
CloseDevice ==
  /\ up = "open" /\ phase = "idle" /\ todo = {} /\ sessions < MaxSessions
  /\ up' = "closing"
  /\ inbox' = Append(inbox, Shutdown)
  /\ UNCHANGED <<config, home, stage, archived, mover, worker, consumer>>

Closed ==
  /\ up = "closing" /\ wpc = "exited"
  /\ up' = "down" /\ sessions' = sessions + 1
  /\ Memory
  /\ UNCHANGED <<env, produced, sidecars, home, stage, archived, work, applied>>

--------------------------------------------------------------------------------
(* The mover, in the thread of the logger                                      *)

\* The device finalizes a segment; its callback runs in the same call.
FinalizeSegment ==
  /\ up = "open" /\ phase = "idle" /\ todo = {} /\ produced <= MaxSegment
  /\ \E new \in {{"main"}} \union (IF Sidecars THEN {Part} ELSE {}) :
       /\ home' = home \union { <<produced, p>> : p \in new }
       /\ sidecars' = sidecars \union { n \in {produced} : "txn" \in new }
  /\ todo' = {produced}
  /\ produced' = produced + 1
  /\ UNCHANGED <<env, sessions, stage, archived, up, phase, parts, left, copying,
                 inbox, worker, consumer>>

Moving == Least(todo)

\* Sidecars go before their main segment.
Handled == <<Moving, IF "txn" \in left THEN "txn" ELSE "main">>

\* What is left after this file, and the phase that follows the last one.
Proceed(next) ==
  LET rest == left \ {Handled[2]} IN
  IF rest # {} THEN left' = rest /\ UNCHANGED phase
  ELSE left' = (IF next = "idle" THEN {} ELSE parts) /\ phase' = next

MoverBegins ==
  /\ phase = "idle" /\ todo # {}
  /\ parts' = { p \in Part : <<Moving, p>> \in home }
  /\ left' = parts' /\ phase' = "copy"
  /\ UNCHANGED <<config, home, stage, archived, up, todo, copying, inbox, worker, consumer>>

CopyBegins ==
  /\ phase = "copy" /\ env.torn /\ ~ copying
  /\ stage' = [stage EXCEPT ![Handled] = "part"]
  /\ copying' = TRUE
  /\ UNCHANGED <<config, home, archived, up, todo, phase, parts, left, inbox, worker, consumer>>

\* A file the cleaner removed meanwhile does not come back.
CopyEnds ==
  /\ phase = "copy" /\ (env.torn => copying)
  /\ stage' = [stage EXCEPT ![Handled] = IF copying /\ @ = "none" THEN @ ELSE "whole"]
  /\ copying' = FALSE
  /\ Proceed("remove")
  /\ UNCHANGED <<config, home, archived, up, todo, parts, inbox, worker, consumer>>

\* The callback returns: what is copied stays, nothing is removed or submitted.
CopyFails ==
  /\ phase = "copy" /\ env.failing
  /\ todo' = todo \ {Moving} /\ parts' = {} /\ left' = {}
  /\ copying' = FALSE /\ phase' = "idle"
  /\ UNCHANGED <<config, home, stage, archived, up, inbox, worker, consumer>>

\* The source is removed, or stays behind when that fails.
MoverRemoves ==
  /\ phase = "remove"
  /\ home' \in {home, home \ {Handled}}
  /\ Proceed("submit")
  /\ UNCHANGED <<config, stage, archived, up, todo, parts, copying, inbox, worker, consumer>>

MoverSubmits ==
  /\ phase = "submit"
  /\ inbox' = Append(inbox, Handled)
  /\ Proceed("idle")
  /\ IF phase' = "idle"
     THEN todo' = todo \ {Moving} /\ parts' = {}
     ELSE UNCHANGED <<todo, parts>>
  /\ UNCHANGED <<config, home, stage, archived, up, copying, worker, consumer>>

--------------------------------------------------------------------------------
(* The worker of the shipper                                                    *)

Main(n) == <<n, "main">>

\* Observe: a main segment raises latest_seq, a sidecar is shipped at once.
RecvObserve ==
  /\ wpc = "recv" /\ inbox # <<>> /\ Head(inbox) # Shutdown
  /\ inbox' = Tail(inbox)
  /\ LET f == Head(inbox) IN
     IF f[2] = "main"
     THEN /\ latest' = IF f[1] > latest THEN f[1] ELSE latest
          /\ wpc' = "scan" /\ UNCHANGED delivery
     ELSE /\ file' = f /\ turn' = 1 /\ attempt' = 1
          /\ wpc' = "ship" /\ UNCHANGED latest
  /\ UNCHANGED <<config, home, stage, archived, up, mover, shipped, consumer>>

RecvShutdown ==
  /\ wpc = "recv" /\ inbox # <<>> /\ Head(inbox) = Shutdown
  /\ inbox' = Tail(inbox)
  /\ wpc' = "exited"
  /\ UNCHANGED <<config, home, stage, archived, up, mover, latest, shipped, delivery,
                 consumer>>

FirstWasStaged ==
  0 \in Staged \/ shipped >= 0 \/ (produced > 0 /\ Main(0) \notin home)

\* recv_timeout runs out: the periodic catch-up.
RecvTimeout ==
  /\ wpc = "recv" /\ inbox = <<>>
  /\ env.early \/ FirstWasStaged
  /\ wpc' = "scan"
  /\ UNCHANGED <<config, home, stage, archived, up, mover, inbox, latest, shipped,
                 delivery, consumer>>

ScanStage ==
  /\ wpc = "scan"
  /\ latest' = IF ScanMax > latest THEN ScanMax ELSE latest
  /\ wpc' = "next"
  /\ UNCHANGED <<config, home, stage, archived, up, mover, inbox, shipped, delivery,
                 consumer>>

CaughtUp_OffByOne(n) == n > latest + 1
CaughtUp(n) == n > latest

\* Whatever lies in stage and is not positively NEW counts as ready; a segment
\* that is not there counts as cleaned.
NextSegment ==
  /\ wpc = "next"
  /\ LET n == shipped + 1 IN
     IF CaughtUp(n) THEN wpc' = "recv" /\ UNCHANGED <<shipped, delivery>>
     ELSE IF n \notin Staged THEN shipped' = n /\ UNCHANGED <<wpc, delivery>>
     ELSE /\ file' = Main(n) /\ turn' = 1 /\ attempt' = 1
          /\ wpc' = "ship" /\ UNCHANGED shipped
  /\ UNCHANGED <<config, home, stage, archived, up, mover, inbox, latest, consumer>>

ArchiverAccepts(a) ==
  /\ wpc = "ship" /\ turn = a /\ stage[file] # "none" /\ ~ env.deaf
  /\ archived' = [archived EXCEPT ![a][file] = stage[file]]
  /\ IF a < Archivers
     THEN turn' = a + 1 /\ attempt' = 1 /\ UNCHANGED wpc
     ELSE wpc' = "shipped" /\ UNCHANGED <<turn, attempt>>
  /\ UNCHANGED <<config, home, stage, up, mover, inbox, latest, shipped, file, consumer>>

\* After the last attempt the segment is given up: a main segment ends the round
\* and is tried again in the next one, a sidecar is forgotten.
GiveUp_Advances ==
  IF file[2] = "main" THEN wpc' = "next" /\ shipped' = file[1]
  ELSE wpc' = "scan" /\ UNCHANGED shipped
GiveUp_AsShipped == wpc' = "shipped" /\ UNCHANGED shipped
GiveUp_TriesOn ==
  /\ wpc' = IF file[2] = "main" THEN "next" ELSE "scan"
  /\ UNCHANGED shipped
GiveUp ==
  /\ wpc' = IF file[2] = "main" THEN "recv" ELSE "scan"
  /\ UNCHANGED shipped

ArchiverRejects ==
  /\ wpc = "ship"
  /\ IF attempt < MaxAttempts
     THEN attempt' = attempt + 1 /\ UNCHANGED <<wpc, shipped>>
     ELSE GiveUp /\ UNCHANGED attempt
  /\ UNCHANGED <<config, home, stage, archived, up, mover, inbox, latest, file, turn,
                 consumer>>

\* on_shipped: with an embedded consolidator a main segment is handed to it,
\* every other file is deleted from stage.
OnShipped ==
  /\ wpc = "shipped"
  /\ IF env.embedded /\ file[2] = "main"
     THEN notified' = notified \union {file[1]} /\ UNCHANGED stage
     ELSE stage' = [stage EXCEPT ![file] = "none"] /\ UNCHANGED notified
  /\ IF file[2] = "main"
     THEN shipped' = file[1] /\ wpc' = "next"
     ELSE wpc' = "scan" /\ UNCHANGED shipped
  /\ UNCHANGED <<config, home, archived, up, mover, inbox, latest, delivery, work,
                 applied>>

--------------------------------------------------------------------------------
(* The embedded consolidator, woken by the notification of a segment            *)

\* Discovery never looks past the highest segment it was notified of.
Candidates ==
  { n \in Seg \ applied :
      /\ \E k \in notified : n <= k
      /\ n \in Staged \/ Main(n) \in work }

NextToApply == Least(Candidates)

\* The segment and its sidecars are mirrored into the work directory and applied;
\* a missing sidecar is an error and the segment stays at the head.
Consolidate ==
  /\ env.embedded /\ up # "down" /\ Candidates # {}
  /\ LET n        == NextToApply
         mirrored == work \union { f \in {n} \X Part : stage[f] # "none" }
         old      == { f \in File : f[1] < n }
     IN IF n \in sidecars /\ <<n, "txn">> \notin mirrored
        THEN work' = mirrored /\ UNCHANGED <<stage, applied>>
        ELSE /\ applied' = applied \union {n}
             /\ work' = mirrored \ old
             /\ stage' = [f \in File |-> IF f \in old THEN "none" ELSE stage[f]]
  /\ UNCHANGED <<config, home, archived, up, mover, inbox, worker, notified>>

--------------------------------------------------------------------------------

Mover == MoverBegins \/ CopyBegins \/ CopyEnds \/ CopyFails \/ MoverRemoves \/ MoverSubmits

Worker ==
  \/ RecvObserve \/ RecvShutdown \/ RecvTimeout \/ ScanStage \/ NextSegment
  \/ (\E a \in Archiver : ArchiverAccepts(a)) \/ ArchiverRejects \/ OnShipped

Process == OpenDevice \/ CloseDevice \/ Closed \/ Crash

Next == Process \/ FinalizeSegment \/ Mover \/ Worker \/ Consolidate

(***************************************************************************)
(* The threads keep running and the application opens its device again;    *)
(* an archiver that is asked for ever accepts some day, unless all of them *)
(* are deaf: no fairness makes a deaf one accept.                          *)
(***************************************************************************)
Fairness ==
  /\ WF_vars(OpenDevice) /\ WF_vars(Closed)
  /\ WF_vars(Mover) /\ WF_vars(Worker) /\ WF_vars(Consolidate)
  /\ \A a \in Archiver : SF_vars(ArchiverAccepts(a))

Spec == Init /\ [][Next]_vars /\ Fairness

--------------------------------------------------------------------------------
(* Correctness                                                                 *)

Replicated(f) == \A a \in Archiver : archived[a][f] = "whole"

\* The local copies of a file are given up only once every archiver holds it: a
\* crash, a failing archiver or the consolidator's cleanup never loses a segment.
GoneIsReplicated ==
  \A f \in File :
    /\ f[2] = "main" \/ ~ env.embedded
    /\ f[1] < produced /\ (f[2] = "txn" => f[1] \in sidecars)
    /\ f \notin home /\ stage[f] = "none"
    => Replicated(f)

\* The consolidator only sees, and only applies, a segment that every archiver
\* has accepted.
ConsumedIsReplicated == \A n \in notified \union applied : Replicated(Main(n))

\* The worker does not leave a segment behind: what it counts as shipped and is no
\* longer in the device home is on every archiver.
PassedIsReplicated ==
  \A n \in Seg : n <= shipped /\ n < produced /\ Main(n) \notin home
                   => Replicated(Main(n))

\* Segments reach each archiver in order, without gaps.
ArchivedInOrder ==
  \A a \in Archiver, n \in Seg : archived[a][Main(n)] # "none"
    => \A m \in 0 .. (n - 1) : archived[a][Main(m)] # "none"

\* Segments are applied in order, without gaps, across restarts and retries.
AppliedInOrder == \A n \in applied : \A m \in 0 .. (n - 1) : m \in applied

\* What a reader of the code may rely on at any moment: nothing local is given up,
\* consumed or passed over before every archiver holds it.
ReplicatedFirst == GoneIsReplicated /\ ConsumedIsReplicated /\ PassedIsReplicated

\* Neither an archiver nor the destination ever sees a segment before its
\* predecessors, across restarts, rejections and retries.
InOrder == ArchivedInOrder /\ AppliedInOrder

\* Every finalized segment reaches every archiver, whatever crashes and failing
\* attempts come in between, as long as files get into stage and archivers accept.
EventuallyShipped ==
  \A n \in Seg :
    n < produced /\ ~ env.failing /\ ~ env.torn /\ ~ env.deaf ~> Replicated(Main(n))

\* Closing the logger comes to an end even when no archiver ever accepts: the
\* worker stops after its bounded retries.
CloseCompletes == up = "closing" ~> up = "down"

================================================================================
