----------------------------- MODULE ShippingProofs ----------------------------
(***************************************************************************)
(* Shipping is well-typed in every environment, and in a steady one, where *)
(* files get into stage whole and the worker does not run ahead of the     *)
(* first of them, nothing is given up, consumed or passed over before      *)
(* every archiver holds it, and everything happens in order.               *)
(***************************************************************************)
EXTENDS Shipping, WellFoundedInduction, SequenceTheorems, TLAPS

\* What the types need of the mover and of the process.
Shape ==
  /\ up = "down" => phase = "idle" /\ inbox = <<>>
  /\ up = "closing" => sessions < MaxSessions
  /\ phase # "idle" => todo # {}
  /\ todo # {} => up = "open"

TypeInv == TypeOK /\ Shape

\* What the device assumes of where it runs.
Steady == ~ env.torn /\ ~ env.failing /\ ~ env.early

\* A file has arrived when it is in stage, or was and every archiver has it.
Arrived(f) == stage[f] = "whole" \/ Replicated(f)

\* A sidecar is only followed where no consolidator removes it on its own account.
Followed(f) == f[2] = "main" \/ ~ env.embedded

\* Nothing is visible that is not whole.
Whole ==
  /\ ~ copying
  /\ \A f \in File : stage[f] # "part" /\ \A a \in Archiver : archived[a][f] # "part"

\* Segments arrive in the order in which they are finalized, and what has not arrived
\* is in the device home, in the hands of the mover while the device is open.
ArrivalInv ==
  /\ \A n \in Seg : Arrived(Main(n)) => n < produced /\ \A m \in Seg : m < n => Arrived(Main(m))
  /\ \A f \in File \ home :
       f[1] < produced /\ Followed(f) /\ (f[2] = "txn" => f[1] \in sidecars) => Arrived(f)
  /\ up # "down" => \A n \in Seg : n < produced /\ ~ Arrived(Main(n)) => n \in todo

\* The mover: the main file is the last one handled, and what it is about to remove or
\* to submit has arrived.
MoverInv ==
  /\ \A f \in home : f[1] < produced
  /\ \A n \in sidecars : n < produced
  /\ \A n \in todo : n < produced
  /\ phase # "idle" => "main" \in left
  /\ phase = "copy" => \A p \in parts \ left : Followed(<<Moving, p>>) => Arrived(<<Moving, p>>)
  /\ phase \in {"remove", "submit"} =>
       \A p \in parts : Followed(<<Moving, p>>) => Arrived(<<Moving, p>>)
  /\ \A n \in todo : Main(n) \in home \/ (phase \in {"remove", "submit"} /\ n = Moving)

\* The worker: it knows of no segment that has not arrived, and it looks for the next
\* one only when the first one has.
WorkerInv ==
  /\ \A i \in 1 .. Len(inbox) : inbox[i] # Shutdown => Arrived(Main(inbox[i][1]))
  /\ latest > 0 \/ wpc \in {"scan", "next", "ship", "shipped"} => Arrived(Main(latest))
  /\ \A n \in Seg : n <= shipped => Replicated(Main(n))

\* The file in delivery is on the archivers before the one whose turn it is, and a main
\* file is that of the segment after the last one shipped.
DeliveryInv ==
  /\ wpc = "ship" => \A a \in Archiver : a < turn => archived[a][file] = "whole"
  /\ wpc = "shipped" => Replicated(file)
  /\ wpc \in {"ship", "shipped"} /\ file[2] = "main" => file[1] = shipped + 1
  /\ \A a \in Archiver, n \in Seg :
       archived[a][Main(n)] # "none" => \A m \in Seg : m < n => Replicated(Main(m))

\* The consolidator: it is told of a segment when all up to it are replicated, applies
\* in order, and has in stage what it still has to apply.
ConsumerInv ==
  /\ \A n \in notified \union applied : \A m \in Seg : m <= n => Replicated(Main(m))
  /\ \A n \in applied : \A m \in Seg : m < n => m \in applied
  /\ env.embedded => \A n \in Seg : Arrived(Main(n)) /\ n \notin applied => n \in Staged

SteadyInv == Whole /\ ArrivalInv /\ MoverInv /\ WorkerInv /\ DeliveryInv /\ ConsumerInv

--------------------------------------------------------------------------------
(* Helpers                                                                     *)

\* A set of segments that is not empty has a least one, and a greatest one.
LEMMA LeastOfSet ==
  ASSUME NEW S \in SUBSET Nat, S # {}
  PROVE  \E n \in S : \A m \in S : n <= m
<1>1. PICK n \in S : \A m \in S : <<m, n>> \notin OpToRel(<, Nat)
  BY WFMin, NatLessThanWellFounded, Zenon
<1>2. \A m \in S : ~ (m < n)
  BY <1>1, Zenon DEF OpToRel
<1> QED BY <1>2

LEMMA LeastIsMin ==
  ASSUME NEW S \in SUBSET Seg, S # {}
  PROVE  Least(S) \in S /\ \A m \in S : Least(S) <= m
<1>1. S \in SUBSET Nat
  BY CountAssumption DEF Seg
<1>2. PICK n \in S : \A m \in S : n <= m
  BY <1>1, LeastOfSet
<1> QED BY <1>2 DEF Least

LEMMA GreatestIsMax ==
  ASSUME NEW S \in SUBSET Seg, S # {}
  PROVE  Greatest(S) \in S /\ \A m \in S : m <= Greatest(S)
<1> DEFINE T == { k \in Nat : \E n \in S : k = MaxSegment - n }
<1>1. T \in SUBSET Nat /\ T # {}
  <2>1. PICK n \in S : TRUE
    OBVIOUS
  <2>2. MaxSegment - n \in T
    BY <2>1, CountAssumption DEF Seg
  <2> QED BY <2>2
<1>2. PICK k \in T : \A j \in T : k <= j
  BY <1>1, LeastOfSet
<1>3. PICK n \in S : k = MaxSegment - n
  OBVIOUS
<1>4. \A m \in S : MaxSegment - m \in T
  BY CountAssumption DEF Seg
<1>5. \A m \in S : m <= n
  BY <1>2, <1>3, <1>4, CountAssumption DEF Seg
<1> QED BY <1>3, <1>5 DEF Greatest

LEMMA ScanMaxType == ScanMax \in Seg
<1>1. Staged \in SUBSET Seg /\ 0 \in Seg
  BY CountAssumption DEF Staged, Seg
<1> QED BY <1>1, GreatestIsMax DEF ScanMax

\* The file the mover handles next.
LEMMA HandledType ==
  ASSUME TypeInv, phase # "idle"
  PROVE  /\ Moving \in todo /\ Moving \in Seg /\ \A n \in todo : Moving <= n
         /\ Handled \in File /\ Handled[1] = Moving
         /\ Handled[2] = IF "txn" \in left THEN "txn" ELSE "main"
<1>1. todo \in SUBSET Seg /\ todo # {}
  BY DEF TypeInv, TypeOK, Shape
<1>2. Moving \in todo /\ \A n \in todo : Moving <= n
  BY <1>1, LeastIsMin DEF Moving
<1> QED BY <1>1, <1>2 DEF Handled, File, Part

\* What remains of a phase.
LEMMA ProceedType ==
  ASSUME TypeInv, NEW next \in {"idle", "remove", "submit"}, Proceed(next)
  PROVE  /\ left' \in SUBSET parts
         /\ phase' \in {"idle", "copy", "remove", "submit"}
         /\ phase' = phase \/ phase' = next
         /\ phase' = "idle" => phase = "idle" \/ left' = {}
BY DEF Proceed, TypeInv, TypeOK

--------------------------------------------------------------------------------
(* Types                                                                       *)

LEMMA MemoryTyped ==
  ASSUME Memory
  PROVE  /\ todo' \in SUBSET Seg /\ notified' \in SUBSET Seg /\ parts' \in SUBSET Part
         /\ left' \in SUBSET parts' /\ phase' = "idle" /\ copying' \in BOOLEAN
         /\ inbox' \in Seq(File \union {Shutdown}) /\ inbox' = <<>> /\ todo' = {}
         /\ wpc' \in WPC /\ latest' \in Seg /\ shipped' \in -1 .. MaxSegment
         /\ file' \in File /\ turn' \in Archiver /\ attempt' \in 1 .. MaxAttempts
<1>1. /\ 0 \in Seg /\ 1 \in Archiver /\ 1 \in 1 .. MaxAttempts /\ -1 \in -1 .. MaxSegment
      /\ <<0, "main">> \in File /\ <<>> \in Seq(File \union {Shutdown})
  BY CountAssumption, EmptySeq DEF Seg, Archiver, File, Part
<1> QED BY <1>1 DEF Memory, WPC

LEMMA TypeInvInit ==
  ASSUME Init
  PROVE  TypeInv
<1>1. /\ 0 \in Seg /\ 1 \in Archiver /\ 1 \in 1 .. MaxAttempts /\ 0 \in 0 .. MaxSessions
      /\ <<0, "main">> \in File /\ <<>> \in Seq(File \union {Shutdown})
  BY CountAssumption, EmptySeq DEF Seg, Archiver, File, Part
<1>2. stage \in [File -> Content] /\ archived \in [Archiver -> [File -> Content]]
  BY DEF Init, Content
<1>3. /\ wpc \in WPC /\ shipped \in -1 .. MaxSegment /\ produced \in 0 .. MaxSegment + 1
      /\ sessions \in 0 .. MaxSessions
  BY CountAssumption DEF Init, WPC
<1> QED BY <1>1, <1>2, <1>3 DEF Init, TypeInv, TypeOK, Shape

LEMMA TypeInvProcess ==
  ASSUME TypeInv, Process
  PROVE  TypeInv'
<1>1. /\ 0 \in Seg /\ 1 \in Archiver /\ 1 \in 1 .. MaxAttempts /\ -1 \in -1 .. MaxSegment
      /\ <<0, "main">> \in File /\ <<>> \in Seq(File \union {Shutdown})
  BY CountAssumption, EmptySeq DEF Seg, Archiver, File, Part
<1>2. CASE OpenDevice
  <2>1. ScanMax \in Seg
    BY ScanMaxType
  <2> QED BY <1>1, <1>2, <2>1 DEF OpenDevice, FirstShipped, TypeInv, TypeOK, Shape, WPC,
             config, delivery, consumer
<1>3. CASE Crash
  <2>1. sessions' \in 0 .. MaxSessions
    BY <1>3, CountAssumption DEF Crash, TypeInv, TypeOK
  <2> QED BY <1>3, <2>1, MemoryTyped DEF Crash, TypeInv, TypeOK, Shape
<1>4. CASE CloseDevice
  <2>1. inbox' \in Seq(File \union {Shutdown})
    BY <1>4, AppendProperties DEF CloseDevice, TypeInv, TypeOK
  <2> QED BY <1>4, <2>1 DEF CloseDevice, TypeInv, TypeOK, Shape, config, mover, worker,
             delivery, consumer
<1>5. CASE Closed
  <2>1. sessions' \in 0 .. MaxSessions
    BY <1>5, CountAssumption DEF Closed, TypeInv, TypeOK, Shape
  <2> QED BY <1>5, <2>1, MemoryTyped DEF Closed, TypeInv, TypeOK, Shape
<1> QED BY <1>2, <1>3, <1>4, <1>5 DEF Process

LEMMA TypeInvFinalize ==
  ASSUME TypeInv, FinalizeSegment
  PROVE  TypeInv'
<1>1. produced \in Seg /\ produced' \in 0 .. MaxSegment + 1 /\ todo' \in SUBSET Seg
  BY CountAssumption DEF FinalizeSegment, TypeInv, TypeOK, Seg
<1>2. home' \in SUBSET File /\ sidecars' \in SUBSET Seg
  BY <1>1 DEF FinalizeSegment, TypeInv, TypeOK, File, Part
<1> QED BY <1>1, <1>2 DEF FinalizeSegment, TypeInv, TypeOK, Shape, worker, delivery, consumer

LEMMA TypeInvMover ==
  ASSUME TypeInv, Mover
  PROVE  TypeInv'
<1> USE DEF config, worker, delivery, consumer
<1>1. CASE MoverBegins
  BY <1>1 DEF MoverBegins, TypeInv, TypeOK, Shape
<1>2. CASE CopyBegins
  <2>1. stage' \in [File -> Content]
    BY <1>2 DEF CopyBegins, TypeInv, TypeOK, Content
  <2> QED BY <1>2, <2>1 DEF CopyBegins, TypeInv, TypeOK, Shape
<1>3. CASE CopyEnds
  <2>1. stage' \in [File -> Content]
    BY <1>3 DEF CopyEnds, TypeInv, TypeOK, Content
  <2>2. /\ left' \in SUBSET parts /\ phase' \in {"copy", "remove"}
    BY <1>3, ProceedType DEF CopyEnds
  <2> QED BY <1>3, <2>1, <2>2 DEF CopyEnds, TypeInv, TypeOK, Shape
<1>4. CASE CopyFails
  BY <1>4 DEF CopyFails, TypeInv, TypeOK, Shape
<1>5. CASE MoverRemoves
  <2>1. left' \in SUBSET parts /\ phase' \in {"remove", "submit"}
    BY <1>5, ProceedType DEF MoverRemoves
  <2> QED BY <1>5, <2>1 DEF MoverRemoves, TypeInv, TypeOK, Shape
<1>6. CASE MoverSubmits
  <2>1. Handled \in File /\ phase = "submit"
    BY <1>6, HandledType DEF MoverSubmits
  <2>2. inbox' \in Seq(File \union {Shutdown})
    BY <1>6, <2>1, AppendProperties DEF MoverSubmits, TypeInv, TypeOK
  <2>3. /\ left' \in SUBSET parts /\ phase' \in {"submit", "idle"}
        /\ phase' = "idle" => left' = {}
    BY <1>6, <2>1, ProceedType DEF MoverSubmits
  <2> QED BY <1>6, <2>1, <2>2, <2>3 DEF MoverSubmits, TypeInv, TypeOK, Shape
<1> QED BY <1>1, <1>2, <1>3, <1>4, <1>5, <1>6 DEF Mover

\* What is received has the type of a file, or is the end.
LEMMA HeadType ==
  ASSUME TypeInv, inbox # <<>>
  PROVE  Head(inbox) \in File \union {Shutdown} /\ Tail(inbox) \in Seq(File \union {Shutdown})
BY HeadTailProperties DEF TypeInv, TypeOK

LEMMA TypeInvWorker ==
  ASSUME TypeInv, Worker
  PROVE  TypeInv'
<1> USE DEF config, mover, delivery, consumer
<1>1. 1 \in Archiver /\ 1 \in 1 .. MaxAttempts
  BY CountAssumption DEF Archiver
<1>2. CASE RecvObserve
  <2>1. Head(inbox) \in File /\ inbox' \in Seq(File \union {Shutdown}) /\ inbox # <<>>
    BY <1>2, HeadType DEF RecvObserve
  <2>2. latest' \in Seg /\ file' \in File /\ wpc' \in WPC /\ turn' \in Archiver
        /\ attempt' \in 1 .. MaxAttempts
    BY <1>1, <1>2, <2>1 DEF RecvObserve, TypeInv, TypeOK, WPC, File
  <2> QED BY <1>2, <2>1, <2>2 DEF RecvObserve, TypeInv, TypeOK, Shape
<1>3. CASE RecvShutdown
  <2>1. inbox' \in Seq(File \union {Shutdown}) /\ inbox # <<>>
    BY <1>3, HeadType DEF RecvShutdown
  <2> QED BY <1>3, <2>1 DEF RecvShutdown, TypeInv, TypeOK, Shape, WPC
<1>4. CASE RecvTimeout
  BY <1>4 DEF RecvTimeout, TypeInv, TypeOK, Shape, WPC
<1>5. CASE ScanStage
  BY <1>5, ScanMaxType DEF ScanStage, TypeInv, TypeOK, Shape, WPC
<1>6. CASE NextSegment
  <2>1. shipped' \in -1 .. MaxSegment /\ file' \in File
    BY <1>6, CountAssumption DEF NextSegment, CaughtUp, TypeInv, TypeOK, Seg, File, Part, Main
  <2>2. wpc' \in WPC /\ turn' \in Archiver /\ attempt' \in 1 .. MaxAttempts
    BY <1>1, <1>6 DEF NextSegment, TypeInv, TypeOK, WPC
  <2> QED BY <1>6, <2>1, <2>2 DEF NextSegment, TypeInv, TypeOK, Shape
<1>7. ASSUME NEW a \in Archiver, ArchiverAccepts(a) PROVE TypeInv'
  <2>1. archived' \in [Archiver -> [File -> Content]]
    BY <1>7 DEF ArchiverAccepts, TypeInv, TypeOK
  <2>2. turn' \in Archiver /\ attempt' \in 1 .. MaxAttempts /\ wpc' \in WPC
    BY <1>1, <1>7, CountAssumption DEF ArchiverAccepts, TypeInv, TypeOK, Archiver, WPC
  <2> QED BY <1>7, <2>1, <2>2 DEF ArchiverAccepts, TypeInv, TypeOK, Shape
<1>8. CASE ArchiverRejects
  <2>1. attempt' \in 1 .. MaxAttempts /\ wpc' \in WPC /\ UNCHANGED shipped
    BY <1>8, CountAssumption DEF ArchiverRejects, GiveUp, TypeInv, TypeOK, WPC
  <2> QED BY <1>8, <2>1 DEF ArchiverRejects, TypeInv, TypeOK, Shape
<1>9. CASE OnShipped
  <2>1. file[1] \in Seg /\ file[1] \in -1 .. MaxSegment
    BY CountAssumption DEF TypeInv, TypeOK, File, Seg
  <2>2. stage' \in [File -> Content] /\ notified' \in SUBSET Seg
    BY <1>9, <2>1 DEF OnShipped, TypeInv, TypeOK, Content
  <2>3. shipped' \in -1 .. MaxSegment /\ wpc' \in WPC
    BY <1>9, <2>1 DEF OnShipped, TypeInv, TypeOK, WPC
  <2> QED BY <1>9, <2>2, <2>3 DEF OnShipped, TypeInv, TypeOK, Shape
<1> QED BY <1>2, <1>3, <1>4, <1>5, <1>6, <1>7, <1>8, <1>9 DEF Worker

\* The segment to apply next.
LEMMA NextToApplyIsLeast ==
  ASSUME Candidates # {}
  PROVE  NextToApply \in Candidates /\ \A m \in Candidates : NextToApply <= m
<1>1. Candidates \in SUBSET Seg
  BY DEF Candidates
<1> QED BY <1>1, LeastIsMin DEF NextToApply

LEMMA TypeInvConsolidate ==
  ASSUME TypeInv, Consolidate
  PROVE  TypeInv'
<1>1. NextToApply \in Seg
  BY NextToApplyIsLeast DEF Consolidate, Candidates
<1>2. work' \in SUBSET File
  BY <1>1 DEF Consolidate, TypeInv, TypeOK, File
<1>3. applied' \in SUBSET Seg /\ stage' \in [File -> Content]
  BY <1>1 DEF Consolidate, TypeInv, TypeOK, Content
<1> QED BY <1>2, <1>3 DEF Consolidate, TypeInv, TypeOK, Shape, config, mover, worker, delivery

LEMMA TypeInvStep ==
  ASSUME TypeInv, [Next]_vars
  PROVE  TypeInv'
<1>1. CASE UNCHANGED vars
  BY <1>1 DEF vars, config, mover, worker, delivery, consumer, TypeInv, TypeOK, Shape
<1> QED BY <1>1, TypeInvProcess, TypeInvFinalize, TypeInvMover, TypeInvWorker,
           TypeInvConsolidate DEF Next

\* Every state of the way to the archivers is well-typed, in every environment: the
\* counters stay in their bounds, the channel holds files and the end, and the mover
\* always has a segment in hand while it works.
THEOREM ShippingTyped == Spec => []TypeOK
<1>1. Init => TypeInv
  BY TypeInvInit
<1>2. TypeInv /\ [Next]_vars => TypeInv'
  BY TypeInvStep
<1>3. TypeInv => TypeOK
  BY DEF TypeInv
<1> QED BY <1>1, <1>2, <1>3, PTL DEF Spec

--------------------------------------------------------------------------------
(* What has arrived stays                                                      *)

\* The facts about files that the steps below need again and again.
LEMMA MainIsFile ==
  /\ \A n \in Seg : Main(n) \in File /\ Main(n)[1] = n /\ Main(n)[2] = "main" /\ n \in Int
  /\ \A f \in File : f[1] \in Seg /\ f[2] \in Part /\ (f[2] = "main" => f = Main(f[1]))
  /\ \A m, n \in Seg : Main(m) = Main(n) => m = n
BY CountAssumption DEF Main, File, Part, Seg

\* In a steady environment what is in stage is whole.
LEMMA StagedIsWhole ==
  ASSUME TypeInv, Whole, NEW f \in File, stage[f] # "none"
  PROVE  stage[f] = "whole"
BY DEF TypeInv, TypeOK, Content, Whole

LEMMA StagedHasArrived ==
  ASSUME TypeInv, Whole, NEW n \in Staged
  PROVE  n \in Seg /\ Arrived(Main(n))
<1>1. n \in Seg /\ stage[Main(n)] # "none"
  BY DEF Staged, Main
<1> QED BY <1>1, StagedIsWhole, MainIsFile DEF Arrived

\* The steps that leave stage and archivers alone.
StillStep ==
  Process \/ FinalizeSegment \/ MoverBegins \/ MoverRemoves \/ MoverSubmits \/ RecvObserve
    \/ RecvShutdown \/ RecvTimeout \/ ScanStage \/ NextSegment \/ ArchiverRejects

LEMMA StillStays ==
  ASSUME StillStep
  PROVE  UNCHANGED <<stage, archived>>
BY DEF StillStep, Process, OpenDevice, Crash, CloseDevice, Closed, FinalizeSegment, MoverBegins,
       MoverRemoves, MoverSubmits, RecvObserve, RecvShutdown, RecvTimeout, ScanStage, NextSegment,
       ArchiverRejects

LEMMA SteadySplits ==
  ASSUME Steady, Next
  PROVE  StillStep \/ CopyEnds \/ (\E a \in Archiver : ArchiverAccepts(a)) \/ OnShipped \/ Consolidate
BY DEF Steady, Next, StillStep, Mover, Worker, CopyBegins, CopyFails

\* What each of the four others does to stage and archivers.
LEMMA CopyEndsEffect ==
  ASSUME TypeInv, Steady, Whole, CopyEnds
  PROVE  /\ Handled \in File /\ stage'[Handled] = "whole"
         /\ \A f \in File : f # Handled => stage'[f] = stage[f]
         /\ UNCHANGED archived /\ ~ copying'
<1>1. Handled \in File /\ ~ copying
  BY HandledType DEF CopyEnds, Whole
<1> QED BY <1>1 DEF CopyEnds, TypeInv, TypeOK

LEMMA AcceptsEffect ==
  ASSUME TypeInv, Whole, NEW a \in Archiver, ArchiverAccepts(a)
  PROVE  /\ file \in File /\ stage[file] = "whole" /\ archived'[a][file] = "whole" /\ UNCHANGED stage
         /\ \A b \in Archiver, f \in File :
              archived'[b][f] = archived[b][f] \/ (b = a /\ f = file)
<1>1. file \in File /\ archived \in [Archiver -> [File -> Content]]
  BY DEF TypeInv, TypeOK
<1>2. stage[file] = "whole"
  BY <1>1, StagedIsWhole DEF ArchiverAccepts
<1>3. archived' = [archived EXCEPT ![a][file] = "whole"] /\ UNCHANGED stage
  BY <1>2 DEF ArchiverAccepts
<1> QED BY <1>1, <1>2, <1>3

LEMMA OnShippedEffect ==
  ASSUME TypeInv, DeliveryInv, OnShipped
  PROVE  /\ Replicated(file) /\ UNCHANGED archived
         /\ \A f \in File : stage'[f] = stage[f] \/ (f = file /\ stage'[f] = "none"
                                                      /\ ~ (env.embedded /\ f[2] = "main"))
BY DEF OnShipped, DeliveryInv, TypeInv, TypeOK

\* Only what the destination is past is removed from stage.
LEMMA ConsolidateEffect ==
  ASSUME TypeInv, ConsumerInv, Consolidate
  PROVE  /\ env.embedded /\ UNCHANGED archived /\ UNCHANGED notified
         /\ \/ UNCHANGED <<stage, applied>>
            \/ /\ NextToApply \in Candidates /\ NextToApply \in Seg
               /\ applied' = applied \union {NextToApply}
               /\ \A m \in Candidates : NextToApply <= m
               /\ \A f \in File : \/ stage'[f] = stage[f]
                                  \/ f[1] < NextToApply /\ stage'[f] = "none"
               /\ \A m \in Seg : m <= NextToApply => Replicated(Main(m))
<1>1. /\ NextToApply \in Candidates /\ NextToApply \in Seg
      /\ \A m \in Candidates : NextToApply <= m
  BY NextToApplyIsLeast DEF Consolidate, Candidates
<1>2. PICK k \in notified : NextToApply <= k
  BY <1>1 DEF Candidates
<1>3. \A m \in Seg : m <= NextToApply => Replicated(Main(m))
  <2>1. SUFFICES ASSUME NEW m \in Seg, m <= NextToApply PROVE Replicated(Main(m))
    OBVIOUS
  <2>2. k \in Seg
    BY DEF TypeInv, TypeOK
  <2>3. m <= k
    BY <1>1, <1>2, <2>1, <2>2, MainIsFile
  <2> QED BY <1>2, <2>3 DEF ConsumerInv
<1>4. \/ UNCHANGED <<stage, applied>>
      \/ /\ applied' = applied \union {NextToApply}
         /\ stage' = [f \in File |-> IF f \in { g \in File : g[1] < NextToApply } THEN "none" ELSE stage[f]]
  BY DEF Consolidate
<1> QED BY <1>1, <1>3, <1>4 DEF Consolidate

\* A file that has arrived has arrived for good, and only a copy makes one arrive.
LEMMA Stays ==
  ASSUME TypeInv, Steady, SteadyInv, Next
  PROVE  /\ \A f \in File : Replicated(f) => Replicated(f)'
         /\ \A f \in File : Followed(f) /\ Arrived(f) => Arrived(f)'
         /\ \A f \in File : Arrived(f)' => Arrived(f) \/ (CopyEnds /\ f = Handled)
<1> USE DEF SteadyInv
<1>1. CASE StillStep
  BY <1>1, StillStays DEF Replicated, Arrived
<1>2. CASE CopyEnds
  BY <1>2, CopyEndsEffect DEF Replicated, Arrived
<1>3. ASSUME NEW a \in Archiver, ArchiverAccepts(a)
      PROVE  /\ \A f \in File : Replicated(f) => Replicated(f)'
             /\ \A f \in File : Followed(f) /\ Arrived(f) => Arrived(f)'
             /\ \A f \in File : Arrived(f)' => Arrived(f)
  <2>1. /\ file \in File /\ stage[file] = "whole" /\ archived'[a][file] = "whole" /\ UNCHANGED stage
        /\ \A b \in Archiver, f \in File :
             archived'[b][f] = archived[b][f] \/ (b = a /\ f = file)
    BY <1>3, AcceptsEffect
  <2>2. \A f \in File : Replicated(f) => Replicated(f)'
    BY <2>1 DEF Replicated
  <2>3. \A f \in File : Replicated(f)' => Replicated(f) \/ f = file
    BY <2>1 DEF Replicated
  <2> QED BY <2>1, <2>2, <2>3 DEF Arrived
<1>4. CASE OnShipped
  BY <1>4, OnShippedEffect DEF Replicated, Arrived
<1>5. CASE Consolidate
  <2>1. \A f \in File : Replicated(f)' <=> Replicated(f)
    BY <1>5, ConsolidateEffect DEF Replicated
  <2>2. ASSUME NEW f \in File, Followed(f), Arrived(f) PROVE Arrived(f)'
    <3>1. f = Main(f[1]) /\ f[1] \in Seg
      BY <1>5, <2>2, MainIsFile, ConsolidateEffect DEF Followed
    <3>2. stage'[f] = stage[f] \/ Replicated(f)
      BY <1>5, <3>1, ConsolidateEffect, MainIsFile
    <3> QED BY <2>1, <2>2, <3>2 DEF Arrived
  <2>3. \A f \in File : stage'[f] = stage[f] \/ stage'[f] = "none"
    BY <1>5, ConsolidateEffect
  <2> QED BY <2>1, <2>2, <2>3 DEF Arrived
<1> QED BY <1>1, <1>2, <1>3, <1>4, <1>5, SteadySplits

\* No step changes the environment, or forgets that a segment was finalized.
LEMMA StandingStep ==
  ASSUME TypeInv, Next
  PROVE  /\ UNCHANGED env
         /\ (produced' = produced /\ sidecars' = sidecars) \/ FinalizeSegment
         /\ home' = home \/ FinalizeSegment \/ MoverRemoves
<1> USE DEF config
<1>1. CASE Process
  BY <1>1 DEF Process, OpenDevice, Crash, CloseDevice, Closed
<1>2. CASE FinalizeSegment
  BY <1>2 DEF FinalizeSegment
<1>3. CASE Mover
  BY <1>3 DEF Mover, MoverBegins, CopyBegins, CopyEnds, CopyFails, MoverRemoves, MoverSubmits
<1>4. CASE Worker
  BY <1>4 DEF Worker, RecvObserve, RecvShutdown, RecvTimeout, ScanStage, NextSegment,
              ArchiverAccepts, ArchiverRejects, OnShipped
<1>5. CASE Consolidate
  BY <1>5 DEF Consolidate
<1> QED BY <1>1, <1>2, <1>3, <1>4, <1>5 DEF Next

LEMMA WholeStep ==
  ASSUME TypeInv, Steady, SteadyInv, Next
  PROVE  Whole'
<1> USE DEF SteadyInv
<1>1. ~ copying'
  <2>1. ~ copying
    BY DEF Whole
  <2>2. CASE Process
    BY <2>1, <2>2 DEF Process, OpenDevice, Crash, CloseDevice, Closed, Memory, mover
  <2>3. CASE FinalizeSegment
    BY <2>1, <2>3 DEF FinalizeSegment
  <2>4. CASE Mover
    BY <2>1, <2>4 DEF Mover, MoverBegins, CopyBegins, CopyEnds, CopyFails, MoverRemoves,
                      MoverSubmits, Steady
  <2>5. CASE Worker
    BY <2>1, <2>5 DEF Worker, RecvObserve, RecvShutdown, RecvTimeout, ScanStage, NextSegment,
                      ArchiverAccepts, ArchiverRejects, OnShipped, mover
  <2>6. CASE Consolidate
    BY <2>1, <2>6 DEF Consolidate, mover
  <2> QED BY <2>2, <2>3, <2>4, <2>5, <2>6 DEF Next
<1>2. \A f \in File : stage'[f] # "part" /\ \A a \in Archiver : archived'[a][f] # "part"
  <2>1. CASE StillStep
    BY <2>1, StillStays DEF Whole
  <2>2. CASE CopyEnds
    BY <2>2, CopyEndsEffect DEF Whole
  <2>3. ASSUME NEW a \in Archiver, ArchiverAccepts(a)
        PROVE  \A f \in File : stage'[f] # "part" /\ \A b \in Archiver : archived'[b][f] # "part"
    BY <2>3, AcceptsEffect DEF Whole
  <2>4. CASE OnShipped
    BY <2>4, OnShippedEffect DEF Whole
  <2>5. CASE Consolidate
    <3>1. \A f \in File : stage'[f] = stage[f] \/ stage'[f] = "none"
      BY <2>5, ConsolidateEffect
    <3> QED BY <2>5, <3>1, ConsolidateEffect DEF Whole
  <2> QED BY <2>1, <2>2, <2>3, <2>4, <2>5, SteadySplits
<1> QED BY <1>1, <1>2 DEF Whole

--------------------------------------------------------------------------------
(* Arrival                                                                     *)

\* The segment the mover has in hand is the first that has not arrived.
LEMMA MovingIsNext ==
  ASSUME TypeInv, SteadyInv, phase # "idle", NEW m \in Seg, m < Moving
  PROVE  Arrived(Main(m))
<1>1. Moving \in todo /\ Moving \in Seg /\ \A n \in todo : Moving <= n
  BY HandledType
<1>2. m < produced
  BY <1>1, CountAssumption DEF SteadyInv, MoverInv, TypeInv, TypeOK, Seg
<1>3. up # "down"
  BY <1>1 DEF TypeInv, Shape
<1>4. m \notin todo
  BY <1>1, CountAssumption DEF Seg
<1> QED BY <1>2, <1>3, <1>4 DEF SteadyInv, ArrivalInv

\* Segments arrive in order.
LEMMA ArrivalInOrder ==
  ASSUME TypeInv, Steady, SteadyInv, Next, NEW n \in Seg, Arrived(Main(n))'
  PROVE  n < produced' /\ \A m \in Seg : m < n => Arrived(Main(m))'
<1> USE DEF SteadyInv
<1>1. n < produced /\ \A m \in Seg : m < n => Arrived(Main(m))
  <2>1. CASE Arrived(Main(n))
    BY <2>1 DEF ArrivalInv
  <2>2. CASE ~ Arrived(Main(n))
    <3>1. CopyEnds /\ Main(n) = Handled
      BY <2>2, Stays, MainIsFile
    <3>2. phase # "idle"
      BY <3>1 DEF CopyEnds
    <3>3. n = Moving /\ Moving \in todo
      BY <3>1, <3>2, HandledType, MainIsFile
    <3> QED BY <3>2, <3>3, MovingIsNext DEF MoverInv
  <2> QED BY <2>1, <2>2
<1>2. n < produced'
  BY <1>1, CountAssumption, StandingStep DEF FinalizeSegment, TypeInv, TypeOK, Seg
<1>3. \A m \in Seg : Followed(Main(m))
  BY MainIsFile DEF Followed
<1> QED BY <1>1, <1>2, <1>3, Stays, MainIsFile

\* What is removed from the device home has arrived.
LEMMA GoneHasArrived ==
  ASSUME TypeInv, Steady, SteadyInv, Next, NEW f \in File, f \notin home', f[1] < produced',
         Followed(f), f[2] = "txn" => f[1] \in sidecars'
  PROVE  Arrived(f)'
<1> USE DEF SteadyInv
<1>1. f[1] \in Seg /\ f[1] \in Int /\ produced \in Int /\ f[2] \in Part /\ f = <<f[1], f[2]>>
  BY CountAssumption DEF TypeInv, TypeOK, File, Seg
<1>2. CASE home' = home /\ produced' = produced /\ sidecars' = sidecars
  BY <1>2, Stays DEF ArrivalInv
<1>3. CASE FinalizeSegment
  <2>1. PICK new \in {{"main"}} \union (IF Sidecars THEN {Part} ELSE {}) :
            /\ home' = home \union { <<produced, p>> : p \in new }
            /\ sidecars' = sidecars \union { n \in {produced} : "txn" \in new }
    BY <1>3 DEF FinalizeSegment
  <2>2. "main" \in new /\ produced' = produced + 1
    BY <1>3, <2>1 DEF FinalizeSegment, Part
  <2>3. f[1] # produced
    <3>1. ASSUME f[1] = produced PROVE f[2] \notin new
      BY <1>1, <2>1, <3>1
    <3>2. ASSUME f[1] = produced, f[2] = "txn" PROVE "txn" \in new
      <4>1. f[1] \notin sidecars => "txn" \in new
        BY <2>1, <3>2
      <4>2. f[1] \in sidecars => FALSE
        BY <1>1, <3>2 DEF MoverInv
      <4> QED BY <4>1, <4>2
    <3> QED BY <1>1, <2>2, <3>1, <3>2 DEF Part
  <2>4. f[1] < produced /\ f \notin home
    <3>1. f[1] < produced
      BY <1>1, <2>2, <2>3
    <3> QED BY <2>1, <3>1
  <2>5. f[2] = "txn" => f[1] \in sidecars
    BY <2>1, <2>3
  <2> QED BY <2>4, <2>5, Stays DEF ArrivalInv
<1>4. CASE MoverRemoves
  <2>1. phase = "remove" /\ f \in home => f = Handled
    BY <1>4 DEF MoverRemoves
  <2>2. produced' = produced /\ sidecars' = sidecars
    BY <1>4 DEF MoverRemoves, config
  <2>3. CASE f \notin home
    BY <2>2, <2>3, Stays DEF ArrivalInv
  <2>4. CASE f \in home
    <3>1. phase = "remove" /\ f = Handled /\ Handled = <<Moving, Handled[2]>>
      BY <1>4, <2>1, <2>4 DEF MoverRemoves, Handled
    <3>2. Handled[2] \in parts
      BY <3>1, HandledType DEF MoverInv, TypeInv, TypeOK
    <3>3. Arrived(f)
      BY <3>1, <3>2 DEF MoverInv
    <3> QED BY <3>3, Stays
  <2> QED BY <2>3, <2>4
<1> QED BY <1>2, <1>3, <1>4, StandingStep DEF FinalizeSegment, MoverRemoves, config

\* The mover goes through the files of its segment, the main file last.
LEMMA ProceedEffect ==
  ASSUME TypeInv, MoverInv, phase # "idle", NEW next \in {"idle", "remove", "submit"}, Proceed(next)
  PROVE  \/ /\ Handled[2] = "txn" /\ left' = left \ {"txn"} /\ phase' = phase /\ "main" \in left'
         \/ /\ Handled[2] = "main" /\ left = {"main"} /\ phase' = next
            /\ left' = (IF next = "idle" THEN {} ELSE parts)
<1>1. left \in SUBSET Part /\ "main" \in left
  BY DEF TypeInv, TypeOK, MoverInv
<1>2. Handled[2] = IF "txn" \in left THEN "txn" ELSE "main"
  BY HandledType
<1>3. CASE "txn" \in left
  <2>1. "main" \in left \ {Handled[2]}
    BY <1>1, <1>2, <1>3
  <2> QED BY <1>1, <1>2, <1>3, <2>1 DEF Proceed
<1>4. CASE "txn" \notin left
  <2>1. left = {"main"}
    BY <1>1, <1>4 DEF Part
  <2>2. left \ {Handled[2]} = {}
    BY <1>2, <1>4, <2>1
  <2> QED BY <1>2, <1>4, <2>1, <2>2 DEF Proceed
<1> QED BY <1>3, <1>4

\* What the mover submits has arrived.
LEMMA SubmittedHasArrived ==
  ASSUME TypeInv, SteadyInv, phase \in {"remove", "submit"}
  PROVE  /\ Arrived(Main(Moving))
         /\ Handled[2] \in parts
<1>1. "main" \in left /\ left \in SUBSET parts
  BY DEF SteadyInv, MoverInv, TypeInv, TypeOK
<1>2. Followed(<<Moving, "main">>)
  BY DEF Followed
<1>3. Handled[2] \in left
  BY <1>1, HandledType
<1> QED BY <1>1, <1>2, <1>3 DEF SteadyInv, MoverInv, Main

\* What has not arrived is in the hands of the mover.
LEMMA MissingInHand ==
  ASSUME TypeInv, Steady, SteadyInv, Next, up' # "down", NEW n \in Seg, n < produced',
         ~ Arrived(Main(n))'
  PROVE  n \in todo'
<1> USE DEF SteadyInv
<1>1. ~ Arrived(Main(n)) /\ Main(n) \in File /\ Followed(Main(n)) /\ Main(n)[1] = n
      /\ n \in Int /\ produced \in Int /\ Main(n)[2] = "main"
  BY Stays, MainIsFile DEF Followed, TypeInv, TypeOK
<1>2. CASE OpenDevice
  <2>1. n < produced
    BY <1>2 DEF OpenDevice, config
  <2>2. Main(n) \in home
    BY <1>1, <2>1 DEF ArrivalInv
  <2> QED BY <1>2, <2>2 DEF OpenDevice, Main
<1>3. CASE Crash \/ Closed
  BY <1>3 DEF Crash, Closed
<1>4. CASE FinalizeSegment
  BY <1>1, <1>4 DEF FinalizeSegment, ArrivalInv
<1>5. ASSUME UNCHANGED <<todo, produced>>, up' = up \/ up = "open" PROVE n \in todo'
  BY <1>1, <1>5 DEF ArrivalInv
<1>6. CASE MoverSubmits
  <2>1. n \in todo
    BY <1>1, <1>6 DEF MoverSubmits, config, ArrivalInv
  <2>2. n # Moving
    BY <1>1, <1>6, SubmittedHasArrived DEF MoverSubmits
  <2> QED BY <1>6, <2>1, <2>2 DEF MoverSubmits
<1>7. CASE CloseDevice
  BY <1>5, <1>7 DEF CloseDevice, config, mover
<1>8. CASE MoverBegins \/ CopyBegins \/ CopyEnds \/ MoverRemoves
  BY <1>5, <1>8 DEF MoverBegins, CopyBegins, CopyEnds, MoverRemoves, config
<1>9. CASE Worker
  BY <1>5, <1>9 DEF Worker, RecvObserve, RecvShutdown, RecvTimeout, ScanStage, NextSegment,
                    ArchiverAccepts, ArchiverRejects, OnShipped, mover, config
<1>10. CASE Consolidate
  BY <1>5, <1>10 DEF Consolidate, mover, config
<1> QED BY <1>2, <1>3, <1>4, <1>6, <1>7, <1>8, <1>9, <1>10 DEF Next, Process, Mover, CopyFails, Steady

LEMMA ArrivalStep ==
  ASSUME TypeInv, Steady, SteadyInv, Next
  PROVE  ArrivalInv'
<1>1. \A f \in File : Followed(f)' <=> Followed(f)
  BY StandingStep DEF Followed
<1>2. \A f \in File \ home' :
        f[1] < produced' /\ Followed(f)' /\ (f[2] = "txn" => f[1] \in sidecars') => Arrived(f)'
  BY <1>1, GoneHasArrived
<1>3. \A n \in Seg : Arrived(Main(n))' => n < produced' /\ \A m \in Seg : m < n => Arrived(Main(m))'
  BY ArrivalInOrder
<1>4. up' # "down" => \A n \in Seg : n < produced' /\ ~ Arrived(Main(n))' => n \in todo'
  BY MissingInHand
<1> QED BY <1>2, <1>3, <1>4 DEF ArrivalInv

--------------------------------------------------------------------------------
(* The mover                                                                   *)

\* What the mover does to its own state, step by step.
LEMMA MoverInvMover ==
  ASSUME TypeInv, Steady, SteadyInv, Next, Mover
  PROVE  MoverInv'
<1> USE DEF SteadyInv
<1>1. UNCHANGED <<env, produced, sidecars>>
  BY DEF Mover, MoverBegins, CopyBegins, CopyEnds, CopyFails, MoverRemoves, MoverSubmits, config
<1>2. /\ \A f \in home' : f[1] < produced'
      /\ \A n \in sidecars' : n < produced'
      /\ \A n \in todo' : n < produced'
  BY <1>1 DEF Mover, MoverBegins, CopyBegins, CopyEnds, CopyFails, MoverRemoves, MoverSubmits, MoverInv
<1>3. /\ \A f \in File : Followed(f)' <=> Followed(f)
      /\ \A f \in File : Followed(f) /\ Arrived(f) => Arrived(f)'
  BY <1>1, Stays DEF Followed
<1>4. parts \in SUBSET Part /\ left \in SUBSET parts
  BY DEF TypeInv, TypeOK
<1>5. CASE MoverBegins
  <2>1. Moving \in todo
    BY <1>5, LeastIsMin DEF MoverBegins, Moving, TypeInv, TypeOK
  <2>2. "main" \in parts'
    BY <1>5, <2>1 DEF MoverBegins, MoverInv, Main, Part
  <2>3. todo' = todo /\ home' = home /\ parts' = left' /\ phase = "idle" /\ phase' = "copy"
    BY <1>5 DEF MoverBegins
  <2> QED BY <1>2, <2>2, <2>3 DEF MoverInv
<1>6. CASE CopyEnds
  <2>1. todo' = todo /\ home' = home /\ parts' = parts /\ phase = "copy" /\ Proceed("remove")
    BY <1>6 DEF CopyEnds
  <2>2. PICK m \in Seg : m = Moving /\ Moving' = m
    BY <2>1, HandledType DEF Moving
  <2>3. PICK h \in File : h = Handled /\ h = <<m, h[2]>> /\ stage'[h] = "whole"
    BY <1>6, <2>1, <2>2, HandledType, CopyEndsEffect DEF Handled
  <2>4. Arrived(h)'
    BY <2>3 DEF Arrived
  <2>5. \A p \in (parts \ left) \union {h[2]} : Followed(<<m, p>>)' => Arrived(<<m, p>>)'
    <3>1. \A p \in parts : <<m, p>> \in File
      BY <1>4 DEF File
    <3>2. \A p \in parts \ left : Followed(<<m, p>>) => Arrived(<<m, p>>)
      BY <2>1, <2>2 DEF MoverInv
    <3>3. \A p \in parts \ left : Followed(<<m, p>>)' => Arrived(<<m, p>>)'
      BY <1>3, <3>1, <3>2
    <3> QED BY <2>3, <2>4, <3>3
  <2>6. \A n \in todo' : Main(n) \in home'
    BY <2>1 DEF MoverInv
  <2>7. CASE Handled[2] = "txn" /\ left' = left \ {"txn"} /\ phase' = phase /\ "main" \in left'
    <3>1. \A p \in parts' \ left' : Followed(<<m, p>>)' => Arrived(<<m, p>>)'
      BY <2>1, <2>3, <2>5, <2>7
    <3> QED BY <1>2, <2>1, <2>2, <2>6, <2>7, <3>1 DEF MoverInv
  <2>8. CASE Handled[2] = "main" /\ left = {"main"} /\ phase' = "remove" /\ left' = parts
    <3>1. "main" \in left'
      BY <1>4, <2>8
    <3>2. \A p \in parts' : Followed(<<m, p>>)' => Arrived(<<m, p>>)'
      BY <2>1, <2>3, <2>5, <2>8
    <3> QED BY <1>2, <2>2, <2>6, <2>8, <3>1, <3>2 DEF MoverInv
  <2> QED BY <2>1, <2>7, <2>8, ProceedEffect
<1>7. CASE MoverRemoves
  <2>1. /\ todo' = todo /\ home \ {Handled} \subseteq home' /\ parts' = parts /\ phase = "remove"
        /\ Proceed("submit")
    BY <1>7 DEF MoverRemoves
  <2>2. PICK m \in Seg : m = Moving /\ Moving' = m /\ Handled[1] = m
    BY <2>1, HandledType DEF Moving
  <2>3. \A p \in parts' : Followed(<<m, p>>)' => Arrived(<<m, p>>)'
    <3>1. \A p \in parts : <<m, p>> \in File
      BY <1>4 DEF File
    <3>2. \A p \in parts : Followed(<<m, p>>) => Arrived(<<m, p>>)
      BY <2>1, <2>2 DEF MoverInv
    <3> QED BY <1>3, <2>1, <3>1, <3>2
  <2>4. \A n \in todo' : Main(n) \in home' \/ n = m
    <3>1. \A n \in Seg : Main(n) = Handled => n = m
      BY <2>2, MainIsFile
    <3> QED BY <2>1, <2>2, <3>1 DEF MoverInv, TypeInv, TypeOK
  <2>5. phase' \in {"remove", "submit"} /\ "main" \in left'
    BY <1>4, <2>1, ProceedEffect DEF MoverInv
  <2> QED BY <1>2, <2>2, <2>3, <2>4, <2>5 DEF MoverInv
<1>8. CASE MoverSubmits
  <2>1. home' = home /\ phase = "submit" /\ Proceed("idle")
    BY <1>8 DEF MoverSubmits
  <2>2. CASE phase' = "idle"
    <3>1. todo' = todo \ {Moving}
      BY <1>8, <2>2 DEF MoverSubmits
    <3>2. \A n \in todo' : Main(n) \in home'
      BY <2>1, <3>1 DEF MoverInv
    <3> QED BY <1>2, <2>2, <3>2 DEF MoverInv
  <2>3. CASE phase' # "idle"
    <3>1. UNCHANGED <<todo, parts>> /\ phase' = phase /\ "main" \in left'
      BY <1>8, <2>1, <2>3, ProceedEffect DEF MoverSubmits
    <3>2. PICK m \in Seg : m = Moving /\ Moving' = m
      BY <2>1, <3>1, HandledType DEF Moving
    <3>3. \A p \in parts' : Followed(<<m, p>>)' => Arrived(<<m, p>>)'
      <4>1. \A p \in parts : <<m, p>> \in File
        BY <1>4 DEF File
      <4>2. \A p \in parts : Followed(<<m, p>>) => Arrived(<<m, p>>)
        BY <2>1, <3>2 DEF MoverInv
      <4> QED BY <1>3, <3>1, <4>1, <4>2
    <3>4. \A n \in todo' : Main(n) \in home' \/ n = m
      BY <2>1, <3>1, <3>2 DEF MoverInv
    <3> QED BY <1>2, <2>1, <3>1, <3>2, <3>3, <3>4 DEF MoverInv
  <2> QED BY <2>2, <2>3
<1> QED BY <1>5, <1>6, <1>7, <1>8 DEF Mover, CopyBegins, CopyFails, Steady

LEMMA MoverInvStep ==
  ASSUME TypeInv, Steady, SteadyInv, Next
  PROVE  MoverInv'
<1> USE DEF SteadyInv
<1>1. ASSUME UNCHANGED <<env, home, produced, sidecars, todo, phase, parts, left>> PROVE MoverInv'
  <2>1. Moving' = Moving
    BY <1>1 DEF Moving
  <2>2. CASE phase = "idle"
    BY <1>1, <2>2 DEF MoverInv
  <2>3. CASE phase # "idle"
    <3>1. PICK m \in Seg : m = Moving /\ Moving' = m
      BY <2>1, <2>3, HandledType
    <3>2. \A p \in parts : <<m, p>> \in File /\ (Followed(<<m, p>>)' <=> Followed(<<m, p>>))
      BY <1>1 DEF File, Followed, TypeInv, TypeOK
    <3>3. \A p \in parts : (Followed(<<m, p>>) => Arrived(<<m, p>>))
                              => (Followed(<<m, p>>)' => Arrived(<<m, p>>)')
      BY <3>2, Stays
    <3>4. phase' = "copy" => \A p \in parts' \ left' : Followed(<<m, p>>)' => Arrived(<<m, p>>)'
      BY <1>1, <3>1, <3>3 DEF MoverInv
    <3>5. phase' \in {"remove", "submit"} =>
            \A p \in parts' : Followed(<<m, p>>)' => Arrived(<<m, p>>)'
      BY <1>1, <3>1, <3>3 DEF MoverInv
    <3> QED BY <1>1, <3>1, <3>4, <3>5 DEF MoverInv
  <2> QED BY <2>2, <2>3
<1>2. CASE OpenDevice
  <2>1. phase' = "idle" /\ UNCHANGED <<home, produced, sidecars>>
    BY <1>2 DEF OpenDevice, TypeInv, Shape, config
  <2>2. \A n \in todo' : Main(n) \in home
    BY <1>2 DEF OpenDevice, Main
  <2>3. \A n \in todo' : n < produced
    BY <2>2 DEF MoverInv, Main
  <2> QED BY <2>1, <2>2, <2>3 DEF MoverInv
<1>3. CASE Crash \/ Closed
  BY <1>3 DEF Crash, Closed, Memory, MoverInv
<1>4. CASE CloseDevice
  BY <1>1, <1>4 DEF CloseDevice, config, mover
<1>5. CASE FinalizeSegment
  <2>1. phase' = "idle" /\ todo' = {produced} /\ produced' = produced + 1 /\ produced \in Int
    BY <1>5 DEF FinalizeSegment, TypeInv, TypeOK
  <2>2. Main(produced) \in home'
    BY <1>5 DEF FinalizeSegment, Part, Main
  <2>3. \A f \in home' : f \in home \/ f[1] = produced
    BY <1>5 DEF FinalizeSegment
  <2>4. \A n \in sidecars' : n \in sidecars \/ n = produced
    BY <1>5 DEF FinalizeSegment
  <2>5. /\ \A f \in home : f[1] \in Int
        /\ \A n \in sidecars : n \in Int
    BY CountAssumption DEF TypeInv, TypeOK, File, Seg
  <2>6. /\ \A f \in home' : f[1] < produced'
        /\ \A n \in sidecars' : n < produced'
    BY <2>1, <2>3, <2>4, <2>5 DEF MoverInv
  <2> QED BY <2>1, <2>2, <2>6 DEF MoverInv
<1>6. CASE Worker
  BY <1>1, <1>6 DEF Worker, RecvObserve, RecvShutdown, RecvTimeout, ScanStage, NextSegment,
                    ArchiverAccepts, ArchiverRejects, OnShipped, mover, config
<1>7. CASE Consolidate
  BY <1>1, <1>7 DEF Consolidate, mover, config
<1> QED BY <1>2, <1>3, <1>4, <1>5, <1>6, <1>7, MoverInvMover DEF Next, Process

--------------------------------------------------------------------------------
(* The worker                                                                  *)

\* Arrival is closed downwards, so the first segment has arrived once any has.
LEMMA FirstHasArrived ==
  ASSUME TypeInv, ArrivalInv, NEW n \in Seg, Arrived(Main(n))
  PROVE  \A m \in Seg : m <= n => Arrived(Main(m))
BY MainIsFile DEF ArrivalInv

\* What is in the channel has arrived.
LEMMA InboxStep ==
  ASSUME TypeInv, Steady, SteadyInv, Next
  PROVE  (\A i \in 1 .. Len(inbox) : inbox[i] # Shutdown => Arrived(Main(inbox[i][1])))'
<1> DEFINE Known(f) == f # Shutdown => \E n \in Seg : n = f[1] /\ Arrived(Main(n))
<1> USE DEF SteadyInv
<1>1. /\ inbox \in Seq(File \union {Shutdown}) /\ Len(inbox) \in Nat
      /\ \A i \in 1 .. Len(inbox) : inbox[i] \in File \union {Shutdown}
  BY LenProperties, ElementOfSeq DEF TypeInv, TypeOK
<1>2. \A i \in 1 .. Len(inbox) : Known(inbox[i])
  <2>1. \A i \in 1 .. Len(inbox) : inbox[i] # Shutdown => inbox[i][1] \in Seg
    BY <1>1 DEF File
  <2> QED BY <2>1 DEF WorkerInv
<1>3. \A i \in 1 .. Len(inbox') : Known(inbox'[i])
  <2> HIDE DEF Known
  <2>1. CASE inbox' = inbox
    BY <1>2, <2>1
  <2>2. CASE inbox' = <<>>
    BY <2>2
  <2>3. CASE inbox # <<>> /\ inbox' = Tail(inbox)
    <3>1. /\ Len(inbox') = Len(inbox) - 1
          /\ \A i \in 1 .. Len(inbox') : inbox'[i] = inbox[i + 1]
      BY <1>1, <2>3, HeadTailProperties
    <3> QED BY <1>1, <1>2, <3>1
  <2>4. ASSUME NEW h \in File \union {Shutdown}, Known(h), inbox' = Append(inbox, h)
        PROVE  \A i \in 1 .. Len(inbox') : Known(inbox'[i])
    <3>1. /\ Len(inbox') = Len(inbox) + 1 /\ inbox'[Len(inbox) + 1] = h
          /\ \A i \in 1 .. Len(inbox) : inbox'[i] = inbox[i]
      BY <1>1, <2>4, AppendProperties
    <3> QED BY <1>1, <1>2, <2>4, <3>1
  <2>5. CASE CloseDevice
    BY <2>4, <2>5 DEF CloseDevice, Known
  <2>6. CASE MoverSubmits
    <3>1. phase = "submit"
      BY <2>6 DEF MoverSubmits
    <3>2. Known(Handled) /\ Handled \in File
      BY <3>1, HandledType, SubmittedHasArrived DEF Known
    <3> QED BY <2>4, <2>6, <3>2 DEF MoverSubmits
  <2>7. inbox' = inbox \/ inbox' = <<>> \/ (inbox # <<>> /\ inbox' = Tail(inbox))
          \/ CloseDevice \/ MoverSubmits
    BY DEF Next, Process, OpenDevice, Crash, Closed, Memory, FinalizeSegment, Mover, MoverBegins,
           CopyBegins, CopyEnds, CopyFails, MoverRemoves, Worker, RecvObserve, RecvShutdown,
           RecvTimeout, ScanStage, NextSegment, ArchiverAccepts, ArchiverRejects, OnShipped, Consolidate
  <2> QED BY <2>1, <2>2, <2>3, <2>5, <2>6, <2>7
<1>4. \A n \in Seg : Arrived(Main(n)) => Arrived(Main(n))'
  BY Stays, MainIsFile DEF Followed
<1>5. ASSUME NEW i \in 1 .. Len(inbox'), inbox'[i] # Shutdown
      PROVE  (Arrived(Main(inbox[i][1])))'
  <2>1. PICK n \in Seg : n = inbox'[i][1] /\ Arrived(Main(n))
    BY <1>3, <1>5
  <2>2. Arrived(Main(n))'
    BY <1>4, <2>1
  <2> QED BY <2>1, <2>2
<1> QED BY <1>5

\* The worker knows of no segment that has not arrived.
LEMMA LatestStep ==
  ASSUME TypeInv, Steady, SteadyInv, Next,
         latest' > 0 \/ wpc' \in {"scan", "next", "ship", "shipped"}
  PROVE  Arrived(Main(latest))'
<1> USE DEF SteadyInv
<1>1. latest \in Seg /\ latest' \in Seg /\ 0 \in Seg /\ latest \in Nat
  BY CountAssumption, TypeInvStep DEF TypeInv, TypeOK, Seg
<1>2. \A n \in Seg : latest' = n /\ Arrived(Main(n)) => Arrived(Main(latest))'
  <2>1. SUFFICES ASSUME NEW n \in Seg, latest' = n, Arrived(Main(n)) PROVE Arrived(Main(latest))'
    OBVIOUS
  <2>2. Arrived(Main(n))'
    BY <2>1, Stays, MainIsFile DEF Followed
  <2> QED BY <2>1, <2>2
<1>3. CASE latest' = latest /\ (wpc' = wpc \/ wpc \in {"scan", "next", "ship", "shipped"})
  BY <1>1, <1>2, <1>3 DEF WorkerInv
<1>4. ScanMax \in Seg /\ (ScanMax > 0 => Arrived(Main(ScanMax)))
  <2>1. Staged \in SUBSET Seg
    BY DEF Staged
  <2> QED BY <2>1, ScanMaxType, GreatestIsMax, StagedHasArrived DEF ScanMax
<1>5. CASE OpenDevice
  BY <1>1, <1>2, <1>4, <1>5 DEF OpenDevice
<1>6. CASE Crash \/ Closed
  BY <1>6 DEF Crash, Closed, Memory
<1>7. CASE RecvObserve
  <2>1. PICK f \in File : f = Head(inbox) /\ f[1] \in Seg /\ f[1] \in Nat
    BY <1>7, HeadType, CountAssumption DEF RecvObserve, File, Seg
  <2>2. Arrived(Main(f[1]))
    <3>1. 1 \in 1 .. Len(inbox) /\ inbox[1] = f /\ f # Shutdown
      BY <1>7, <2>1, HeadTailProperties, LenProperties, EmptySeq DEF RecvObserve, TypeInv, TypeOK
    <3> QED BY <3>1 DEF WorkerInv
  <2>3. Arrived(Main(0))
    BY <1>1, <2>1, <2>2, FirstHasArrived
  <2>4. latest' = latest \/ latest' = f[1]
    BY <1>7, <2>1 DEF RecvObserve
  <2>5. Arrived(Main(latest))
    BY <1>1, <2>3 DEF WorkerInv
  <2> QED BY <1>1, <1>2, <2>1, <2>2, <2>4, <2>5
<1>8. CASE RecvTimeout
  <2>1. FirstWasStaged /\ latest' = latest
    BY <1>8 DEF RecvTimeout, Steady
  <2>2. Arrived(Main(0))
    <3>1. CASE 0 \in Staged
      BY <3>1, StagedHasArrived
    <3>2. CASE shipped >= 0
      BY <1>1, <3>2 DEF WorkerInv, Arrived
    <3>3. CASE produced > 0 /\ Main(0) \notin home
      BY <1>1, <3>3, MainIsFile DEF ArrivalInv, Followed
    <3> QED BY <2>1, <3>1, <3>2, <3>3 DEF FirstWasStaged
  <2>3. Arrived(Main(latest))
    BY <1>1, <2>2 DEF WorkerInv
  <2> QED BY <1>1, <1>2, <2>1, <2>3
<1>9. CASE ScanStage
  <2>1. latest' = latest \/ (latest' = ScanMax /\ ScanMax > latest)
    BY <1>9 DEF ScanStage
  <2>2. Arrived(Main(latest))
    BY <1>9 DEF ScanStage, WorkerInv
  <2>3. ScanMax > latest => ScanMax > 0
    BY <1>1, <1>4 DEF Seg
  <2> QED BY <1>1, <1>2, <1>4, <2>1, <2>2, <2>3
<1>10. CASE RecvShutdown
  BY <1>1, <1>2, <1>10 DEF RecvShutdown, WorkerInv
<1>11. CASE NextSegment \/ (\E a \in Archiver : ArchiverAccepts(a)) \/ ArchiverRejects \/ OnShipped
  BY <1>3, <1>11 DEF NextSegment, ArchiverAccepts, ArchiverRejects, OnShipped
<1>12. CASE CloseDevice \/ FinalizeSegment \/ Mover \/ Consolidate
  BY <1>3, <1>12 DEF CloseDevice, FinalizeSegment, Mover, MoverBegins, CopyBegins, CopyEnds, CopyFails,
                     MoverRemoves, MoverSubmits, Consolidate, worker
<1> QED BY <1>5, <1>6, <1>7, <1>8, <1>9, <1>10, <1>11, <1>12 DEF Next, Process, Worker

\* What the worker counts as shipped every archiver holds.
LEMMA ShippedStep ==
  ASSUME TypeInv, Steady, SteadyInv, Next, NEW n \in Seg, n <= shipped'
  PROVE  Replicated(Main(n))'
<1> USE DEF SteadyInv
<1>1. n \in Int /\ shipped \in Int /\ n >= 0 /\ latest \in Int
  BY CountAssumption DEF TypeInv, TypeOK, Seg
<1>2. Replicated(Main(n)) => Replicated(Main(n))'
  BY Stays, MainIsFile
<1>3. CASE n <= shipped
  BY <1>2, <1>3 DEF WorkerInv
<1>4. CASE NextSegment
  <2>1. SUFFICES ASSUME ~ n <= shipped PROVE Replicated(Main(n))
    BY <1>2, <1>3
  <2>2. n = shipped + 1 /\ n <= latest /\ n \notin Staged
    BY <1>1, <1>4, <2>1 DEF NextSegment, CaughtUp
  <2>3. Arrived(Main(latest)) /\ latest \in Seg
    BY <1>4 DEF NextSegment, WorkerInv, TypeInv, TypeOK
  <2>4. Arrived(Main(n))
    BY <2>2, <2>3, FirstHasArrived
  <2> QED BY <2>2, <2>4 DEF Arrived, Staged, Main
<1>5. CASE OnShipped
  <2>1. SUFFICES ASSUME ~ n <= shipped PROVE Replicated(Main(n))
    BY <1>2, <1>3
  <2>2. file[2] = "main" /\ shipped' = file[1] /\ file \in File
    BY <1>5, <2>1 DEF OnShipped, TypeInv, TypeOK
  <2>3. file[1] = shipped + 1 /\ Replicated(file)
    BY <1>5, <2>2 DEF OnShipped, DeliveryInv
  <2>4. file = Main(n)
    BY <1>1, <2>1, <2>2, <2>3, MainIsFile
  <2> QED BY <2>3, <2>4
<1>6. CASE OpenDevice \/ Crash \/ Closed
  BY <1>1, <1>6 DEF OpenDevice, Crash, Closed, Memory, FirstShipped
<1>7. shipped' = shipped \/ OpenDevice \/ Crash \/ Closed \/ NextSegment \/ OnShipped
  BY DEF Next, Process, CloseDevice, FinalizeSegment, Mover, MoverBegins,
         CopyBegins, CopyEnds, CopyFails, MoverRemoves, MoverSubmits, Worker, RecvObserve,
         RecvShutdown, RecvTimeout, ScanStage, ArchiverAccepts, ArchiverRejects, GiveUp,
         Consolidate, worker
<1> QED BY <1>3, <1>4, <1>5, <1>6, <1>7

LEMMA WorkerStep ==
  ASSUME TypeInv, Steady, SteadyInv, Next
  PROVE  WorkerInv'
BY InboxStep, LatestStep, ShippedStep DEF WorkerInv

--------------------------------------------------------------------------------
(* Delivery and the consolidator                                               *)

\* The archivers before the one whose turn it is hold the file in delivery.
LEMMA TurnStep ==
  ASSUME TypeInv, Steady, SteadyInv, Next
  PROVE  /\ wpc' = "ship" => \A a \in Archiver : a < turn' => archived'[a][file'] = "whole"
         /\ wpc' = "shipped" => Replicated(file)'
         /\ wpc' \in {"ship", "shipped"} /\ file'[2] = "main" => file'[1] = shipped' + 1
<1> USE DEF SteadyInv
<1>1. \A a \in Archiver : a >= 1
  BY DEF Archiver
<1>2. CASE RecvObserve
  <2>1. wpc' = "ship" => turn' = 1 /\ file'[2] # "main"
    BY <1>2 DEF RecvObserve
  <2>2. wpc' # "shipped"
    BY <1>2 DEF RecvObserve
  <2> QED BY <1>1, <2>1, <2>2 DEF Archiver
<1>3. CASE NextSegment
  <2>1. wpc' = "ship" => turn' = 1 /\ file' = Main(shipped + 1) /\ shipped' = shipped
    BY <1>3 DEF NextSegment
  <2>2. wpc' # "shipped"
    BY <1>3 DEF NextSegment
  <2> QED BY <1>1, <2>1, <2>2 DEF Archiver, Main
<1>4. ASSUME NEW a \in Archiver, ArchiverAccepts(a)
      PROVE  /\ wpc' = "ship" => \A b \in Archiver : b < turn' => archived'[b][file'] = "whole"
             /\ wpc' = "shipped" => Replicated(file)'
             /\ wpc' \in {"ship", "shipped"} /\ file'[2] = "main" => file'[1] = shipped' + 1
  <2>1. /\ wpc = "ship" /\ turn = a /\ file' = file /\ shipped' = shipped
        /\ IF a < Archivers THEN turn' = a + 1 ELSE wpc' = "shipped"
    BY <1>4 DEF ArchiverAccepts
  <2>2. \A b \in Archiver : b <= a => archived'[b][file] = "whole"
    <3>1. \A b \in Archiver : b <= a => b < a \/ b = a
      BY DEF Archiver
    <3> QED BY <1>4, <2>1, <3>1, AcceptsEffect DEF DeliveryInv
  <2>3. CASE a < Archivers
    <3>1. wpc' = "ship" /\ turn' = a + 1
      BY <1>4, <2>1, <2>3 DEF ArchiverAccepts
    <3>2. \A b \in Archiver : b < a + 1 => b <= a
      BY DEF Archiver
    <3> QED BY <2>1, <2>2, <3>1, <3>2 DEF DeliveryInv
  <2>4. CASE ~ a < Archivers
    <3>1. \A b \in Archiver : b <= a
      BY <2>4, CountAssumption DEF Archiver
    <3> QED BY <2>1, <2>2, <2>4, <3>1 DEF DeliveryInv, Replicated
  <2> QED BY <2>3, <2>4
<1>5. CASE ArchiverRejects
  <2>1. /\ wpc = "ship" /\ UNCHANGED <<archived, file, turn, shipped>>
        /\ wpc' # "shipped"
    BY <1>5 DEF ArchiverRejects, GiveUp
  <2> QED BY <2>1 DEF DeliveryInv
<1>6. CASE OnShipped
  <2>1. wpc' \notin {"ship", "shipped"}
    BY <1>6 DEF OnShipped
  <2> QED BY <2>1
<1>7. CASE OpenDevice \/ Crash \/ Closed \/ RecvShutdown \/ RecvTimeout \/ ScanStage
  <2>1. wpc' \notin {"ship", "shipped"}
    BY <1>7 DEF OpenDevice, Crash, Closed, Memory, RecvShutdown, RecvTimeout, ScanStage
  <2> QED BY <2>1
<1>8. CASE CloseDevice \/ FinalizeSegment \/ Mover \/ Consolidate
  <2>1. UNCHANGED <<worker, archived>>
    BY <1>8 DEF CloseDevice, FinalizeSegment, Mover, MoverBegins, CopyBegins, CopyEnds, CopyFails,
                MoverRemoves, MoverSubmits, Consolidate
  <2> QED BY <2>1 DEF worker, delivery, DeliveryInv, Replicated
<1> QED BY <1>2, <1>3, <1>4, <1>5, <1>6, <1>7, <1>8 DEF Next, Process, Worker

\* An archiver that has a segment is not the first to have one before it.
LEMMA ArchivedStep ==
  ASSUME TypeInv, Steady, SteadyInv, Next, NEW a \in Archiver, NEW n \in Seg,
         archived'[a][Main(n)] # "none", NEW m \in Seg, m < n
  PROVE  Replicated(Main(m))'
<1> USE DEF SteadyInv
<1>1. SUFFICES Replicated(Main(m))
  BY Stays, MainIsFile
<1>2. CASE archived[a][Main(n)] # "none"
  BY <1>2 DEF DeliveryInv
<1>3. ASSUME NEW b \in Archiver, ArchiverAccepts(b), archived[a][Main(n)] = "none"
      PROVE  Replicated(Main(m))
  <2>1. Main(n) = file
    BY <1>3, AcceptsEffect, MainIsFile
  <2>2. wpc = "ship"
    BY <1>3 DEF ArchiverAccepts
  <2>3. n = shipped + 1
    BY <2>1, <2>2, MainIsFile DEF DeliveryInv
  <2>4. m <= shipped
    BY <2>3, MainIsFile DEF TypeInv, TypeOK
  <2> QED BY <2>4 DEF WorkerInv
<1>4. UNCHANGED archived \/ \E b \in Archiver : ArchiverAccepts(b)
  BY SteadySplits, StillStays, CopyEndsEffect, OnShippedEffect, ConsolidateEffect
<1> QED BY <1>2, <1>3, <1>4

LEMMA DeliveryStep ==
  ASSUME TypeInv, Steady, SteadyInv, Next
  PROVE  DeliveryInv'
<1>1. \A a \in Archiver, n \in Seg :
        archived'[a][Main(n)] # "none" => \A m \in Seg : m < n => Replicated(Main(m))'
  BY ArchivedStep
<1> QED BY <1>1, TurnStep DEF DeliveryInv

\* The consolidator applies the next segment, and only what every archiver holds.
LEMMA ConsumedStep ==
  ASSUME TypeInv, Steady, SteadyInv, Next
  PROVE  /\ \A n \in notified' \union applied' : \A m \in Seg : m <= n => Replicated(Main(m))'
         /\ \A n \in applied' : \A m \in Seg : m < n => m \in applied'
         /\ Consolidate => \A m \in Seg : m <= NextToApply => m \in applied \/ m = NextToApply
<1> USE DEF SteadyInv
<1>1. \A m \in Seg : Replicated(Main(m)) => Replicated(Main(m))'
  BY Stays, MainIsFile
<1>2. CASE OnShipped
  <2>1. applied' = applied
    BY <1>2 DEF OnShipped
  <2>2. ASSUME NEW n \in notified', n \notin notified, NEW m \in Seg, m <= n
        PROVE  Replicated(Main(m))
    <3>1. file[2] = "main" /\ n = file[1] /\ file \in File /\ wpc = "shipped"
      BY <1>2, <2>2 DEF OnShipped, TypeInv, TypeOK
    <3>2. n = shipped + 1 /\ Replicated(Main(n)) /\ n \in Seg
      BY <3>1, MainIsFile DEF DeliveryInv
    <3>3. m <= shipped \/ m = n
      BY <2>2, <3>2, MainIsFile DEF TypeInv, TypeOK
    <3> QED BY <3>2, <3>3 DEF WorkerInv
  <2>3. ~ Consolidate
    BY <1>2 DEF OnShipped, Consolidate, worker
  <2>4. \A n \in notified' \union applied' : \A m \in Seg : m <= n => Replicated(Main(m))'
    <3>1. \A n \in notified \union applied : \A m \in Seg : m <= n => Replicated(Main(m))'
      BY <1>1 DEF ConsumerInv
    <3>2. \A n \in notified' : n \notin notified => \A m \in Seg : m <= n => Replicated(Main(m))'
      BY <1>1, <2>2
    <3> QED BY <2>1, <3>1, <3>2
  <2> QED BY <2>1, <2>3, <2>4 DEF ConsumerInv
<1>3. CASE Consolidate
  <2>1. NextToApply \in Candidates /\ NextToApply \in Seg /\ \A m \in Candidates : NextToApply <= m
    BY <1>3, NextToApplyIsLeast DEF Consolidate, Candidates
  <2>2. PICK k \in notified : NextToApply <= k
    BY <2>1 DEF Candidates
  <2>3. k \in Seg
    BY DEF TypeInv, TypeOK
  <2>4. ASSUME NEW m \in Seg, m <= NextToApply, m \notin applied PROVE m = NextToApply
    <3>1. m <= k
      BY <2>1, <2>2, <2>3, <2>4, MainIsFile
    <3>2. Arrived(Main(m))
      BY <2>2, <2>3, <3>1 DEF ConsumerInv, Arrived
    <3>3. m \in Staged
      BY <1>3, <2>4, <3>2 DEF ConsumerInv, Consolidate
    <3>4. m \in Candidates
      BY <2>2, <2>4, <3>1, <3>3 DEF Candidates
    <3> QED BY <2>1, <2>4, <3>4, MainIsFile
  <2>5. notified' = notified /\ applied' \in {applied, applied \union {NextToApply}}
    BY <1>3, ConsolidateEffect
  <2>6. \A m \in Seg : m <= NextToApply => Replicated(Main(m))
    <3>1. \A m \in Seg : m <= NextToApply => m <= k
      BY <2>1, <2>2, <2>3, MainIsFile
    <3> QED BY <2>2, <3>1 DEF ConsumerInv
  <2>7. \A n \in applied' : \A m \in Seg : m < n => m \in applied'
    <3>1. \A m \in Seg : m < NextToApply => m <= NextToApply /\ m # NextToApply
      BY <2>1, MainIsFile
    <3> QED BY <2>4, <2>5, <3>1 DEF ConsumerInv
  <2> QED BY <1>1, <2>4, <2>5, <2>6, <2>7 DEF ConsumerInv
<1>4. ASSUME ~ Consolidate, ~ OnShipped
      PROVE  applied' = applied /\ (notified' = notified \/ notified' = {})
  BY <1>4 DEF Next, Process, OpenDevice, CloseDevice, Crash, Closed, Memory, FinalizeSegment, Mover,
         MoverBegins, CopyBegins, CopyEnds, CopyFails, MoverRemoves, MoverSubmits, Worker, RecvObserve,
         RecvShutdown, RecvTimeout, ScanStage, NextSegment, ArchiverAccepts, ArchiverRejects,
         consumer
<1>5. CASE ~ Consolidate /\ ~ OnShipped
  BY <1>1, <1>4, <1>5 DEF ConsumerInv
<1> QED BY <1>2, <1>3, <1>5

\* What has arrived is in stage until it is applied.
LEMMA PendingStep ==
  ASSUME TypeInv, Steady, SteadyInv, Next, env.embedded, NEW n \in Seg, Arrived(Main(n))',
         n \notin applied'
  PROVE  n \in Staged'
<1> USE DEF SteadyInv
<1>1. n \notin applied
  BY DEF Next, Process, OpenDevice, CloseDevice, Crash, Closed, FinalizeSegment, Mover,
         MoverBegins, CopyBegins, CopyEnds, CopyFails, MoverRemoves, MoverSubmits, Worker, RecvObserve,
         RecvShutdown, RecvTimeout, ScanStage, NextSegment, ArchiverAccepts, ArchiverRejects,
         OnShipped, Consolidate, consumer
<1>2. SUFFICES stage'[Main(n)] # "none"
  BY DEF Staged, Main
<1>3. CASE CopyEnds /\ Main(n) = Handled
  BY <1>3, CopyEndsEffect
<1>4. CASE ~ (CopyEnds /\ Main(n) = Handled)
  <2>1. n \in Staged /\ stage[Main(n)] # "none"
    <3>1. Arrived(Main(n))
      BY <1>4, Stays, MainIsFile
    <3> QED BY <1>1, <3>1 DEF ConsumerInv, Staged, Main
  <2>2. CASE OnShipped
    BY <2>1, <2>2, OnShippedEffect, MainIsFile
  <2>3. CASE Consolidate
    <3>1. CASE UNCHANGED <<stage, applied>>
      BY <2>1, <3>1
    <3>2. CASE stage'[Main(n)] = stage[Main(n)]
      BY <2>1, <3>2
    <3>3. CASE Main(n)[1] < NextToApply /\ NextToApply \in Seg
      <4>1. n <= NextToApply /\ n # NextToApply
        BY <3>3, MainIsFile
      <4> QED BY <1>1, <2>3, <4>1, ConsumedStep
    <3> QED BY <2>3, <3>1, <3>2, <3>3, ConsolidateEffect, MainIsFile
  <2>4. CASE CopyEnds
    BY <1>4, <2>1, <2>4, CopyEndsEffect, MainIsFile
  <2>5. CASE StillStep \/ \E a \in Archiver : ArchiverAccepts(a)
    BY <2>1, <2>5, StillStays, AcceptsEffect
  <2> QED BY <2>2, <2>3, <2>4, <2>5, SteadySplits
<1> QED BY <1>3, <1>4

LEMMA ConsumerStep ==
  ASSUME TypeInv, Steady, SteadyInv, Next
  PROVE  ConsumerInv'
<1>1. /\ \A n \in notified' \union applied' : \A m \in Seg : m <= n => Replicated(Main(m))'
      /\ \A n \in applied' : \A m \in Seg : m < n => m \in applied'
  BY ConsumedStep
<1>2. (env.embedded)' <=> env.embedded
  BY StandingStep
<1>3. (env.embedded)' => \A n \in Seg : Arrived(Main(n))' /\ n \notin applied' => n \in Staged'
  BY <1>2, PendingStep
<1> QED BY <1>1, <1>3 DEF ConsumerInv

--------------------------------------------------------------------------------
(* The theorems                                                                *)

\* The inductive invariant of the way to the archivers.
ShippingInv == TypeInv /\ (Steady => SteadyInv)

LEMMA ShippingInit ==
  ASSUME Init
  PROVE  ShippingInv
<1>1. TypeInv
  BY TypeInvInit
<1>2. \A f \in File : stage[f] = "none" /\ \A a \in Archiver : archived[a][f] = "none"
  BY DEF Init
<1>3. \A f \in File : ~ Replicated(f) /\ ~ Arrived(f)
  <2>1. 1 \in Archiver
    BY CountAssumption DEF Archiver
  <2> QED BY <1>2, <2>1 DEF Replicated, Arrived
<1>4. produced = 0 /\ \A n \in Seg : ~ n < 0 /\ ~ n <= -1
  BY CountAssumption DEF Init, Seg
<1>5. Whole
  BY <1>2 DEF Whole, Init
<1>6. ArrivalInv
  BY <1>3, <1>4, MainIsFile DEF ArrivalInv, Init
<1>7. MoverInv
  BY DEF MoverInv, Init
<1>8. WorkerInv
  BY <1>4 DEF WorkerInv, Init
<1>9. DeliveryInv
  BY <1>2, MainIsFile DEF DeliveryInv, Init
<1>10. ConsumerInv
  BY <1>3, MainIsFile DEF ConsumerInv, Init
<1> QED BY <1>1, <1>5, <1>6, <1>7, <1>8, <1>9, <1>10 DEF ShippingInv, SteadyInv

LEMMA ShippingStep ==
  ASSUME ShippingInv, [Next]_vars
  PROVE  ShippingInv'
<1>1. CASE UNCHANGED vars
  <2>1. TypeInv /\ TypeInv'
    BY TypeInvStep DEF ShippingInv
  <2> USE <1>1 DEF vars, config, mover, worker, delivery, consumer, SteadyInv, Arrived, Followed,
                   Replicated
  <2>2. Steady' <=> Steady
    BY DEF Steady
  <2>3. SteadyInv => Whole' /\ ArrivalInv'
    BY DEF Whole, ArrivalInv
  <2>4. SteadyInv => MoverInv'
    BY DEF MoverInv, Moving
  <2>5. SteadyInv => WorkerInv' /\ DeliveryInv' /\ ConsumerInv'
    BY DEF WorkerInv, DeliveryInv, ConsumerInv, Staged
  <2> QED BY <2>1, <2>2, <2>3, <2>4, <2>5 DEF ShippingInv
<1>2. CASE Next
  <2>1. TypeInv /\ TypeInv'
    BY TypeInvStep DEF ShippingInv
  <2>2. Steady' <=> Steady
    BY <1>2, <2>1, StandingStep DEF Steady
  <2>3. Steady => SteadyInv'
    BY <1>2, <2>1, WholeStep, ArrivalStep, MoverInvStep, WorkerStep, DeliveryStep, ConsumerStep
       DEF ShippingInv, SteadyInv
  <2> QED BY <2>1, <2>2, <2>3 DEF ShippingInv
<1> QED BY <1>1, <1>2

LEMMA InvGivesReplicatedFirst ==
  ASSUME TypeInv, SteadyInv
  PROVE  ReplicatedFirst
<1> USE DEF SteadyInv
<1>1. GoneIsReplicated
  BY DEF GoneIsReplicated, ArrivalInv, Arrived, Followed
<1>2. ConsumedIsReplicated
  <2>1. \A n \in notified \union applied : n \in Seg /\ n <= n
    BY CountAssumption DEF TypeInv, TypeOK, Seg
  <2> QED BY <2>1 DEF ConsumedIsReplicated, ConsumerInv
<1>3. PassedIsReplicated
  BY DEF PassedIsReplicated, WorkerInv
<1> QED BY <1>1, <1>2, <1>3 DEF ReplicatedFirst

LEMMA InvGivesInOrder ==
  ASSUME TypeInv, SteadyInv
  PROVE  InOrder
<1> USE DEF SteadyInv
<1>1. \A n \in Seg : \A m \in 0 .. (n - 1) : m \in Seg /\ m < n
  BY CountAssumption DEF Seg
<1>2. ArchivedInOrder
  BY <1>1 DEF ArchivedInOrder, DeliveryInv, Replicated
<1>3. AppliedInOrder
  BY <1>1 DEF AppliedInOrder, ConsumerInv, TypeInv, TypeOK
<1> QED BY <1>2, <1>3 DEF InOrder

\* In a steady environment no crash, rejection, retry or cleanup gives up the last local
\* copy of a file, hands a segment to the consolidator, or counts one as shipped, before
\* every archiver holds it; however many segments, archivers, attempts and restarts.
THEOREM ReplicatedBeforeGone == Spec => [](Steady => ReplicatedFirst)
<1>1. Init => ShippingInv
  BY ShippingInit
<1>2. ShippingInv /\ [Next]_vars => ShippingInv'
  BY ShippingStep
<1>3. ShippingInv => (Steady => ReplicatedFirst)
  BY InvGivesReplicatedFirst DEF ShippingInv
<1> QED BY <1>1, <1>2, <1>3, PTL DEF Spec

\* In a steady environment every archiver receives the segments in order and without
\* gaps, and so does the destination, across restarts, rejections and retries.
THEOREM DeliveredInSequence == Spec => [](Steady => InOrder)
<1>1. Init => ShippingInv
  BY ShippingInit
<1>2. ShippingInv /\ [Next]_vars => ShippingInv'
  BY ShippingStep
<1>3. ShippingInv => (Steady => InOrder)
  BY InvGivesInOrder DEF ShippingInv
<1> QED BY <1>1, <1>2, <1>3, PTL DEF Spec

===============================================================================
