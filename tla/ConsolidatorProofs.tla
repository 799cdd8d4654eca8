--------------------------- MODULE ConsolidatorProofs ---------------------------
(***************************************************************************)
(* The consolidator loses nothing on the way to a destination: what a      *)
(* destination lacks can still reach it, and it gets the snapshot first,   *)
(* then the segments in order, and nothing twice unless a fault made it.   *)
(*                                                                         *)
(* For each worker, a segment is passed when something the worker keeps    *)
(* says so, and the worker is through with it when the destination lacks   *)
(* nothing of it and it is passed.  DeliveryInv says what follows from     *)
(* either for the files, the queue, the marks and the checkpoints; the     *)
(* delivery lemmas show that no step of any worker makes one that was      *)
(* through with a segment anything else (Still).  LogInv and RepeatInv,    *)
(* about the log of the destination, rest on that.                         *)
(***************************************************************************)
EXTENDS Consolidator, WellFoundedInduction, SequenceTheorems, FiniteSetTheorems, TLAPS

\* The steps between the discovery of what is pending and the end of the drain, and
\* those in which the head has not been recorded.
Draining == {"head", "replay", "apply", "checkpoint", "local", "mark",
             "authorize", "clean_work", "clean_stage"}
Handling == {"replay", "apply", "checkpoint", "local", "mark"}
Cleaning == {"clean_work", "clean_stage"}

\* The steps of a worker that has been initialized, or is about to be, and those after
\* the head has been sent.
Started == Draining \union {"boot_local"}
Sending == {"checkpoint", "local", "mark"}

\* The kinds of the records that a worker keeps.
MemType ==
  [pc : PC, stop : {"no", "asked", "boot", "last"}, inbox : Seq(Seg),
   pending : [Seg -> {"no", "stage", "work"}], progress : -1 .. MaxSegment,
   tmp : SUBSET Txn, sent : SUBSET Txn, commit : Nat, target : -1 .. MaxSegment]

DiskType ==
  [resume : (-1 .. MaxSegment) \X (0 .. Txns), init : BOOLEAN, commit : Nat,
   authorized : -1 .. MaxSegment, cleaned : -1 .. MaxSegment, stageCleaned : -1 .. MaxSegment,
   work : [Seg -> {"none", "copy", "applied"}], cdc : [Seg -> SUBSET Txn]]

DbType ==
  [log : Seq([seg : -1 .. MaxSegment, txns : SUBSET Txn]),
   ck : [seg : Seg, change : -1 .. Txns, commit : Nat]]

\* A worker only knows of segments that were shipped, a drain has a head, and a
\* temporary change log belongs to a replay.
Shaped(m, k) ==
  /\ m \in MemType /\ k \in DiskType
  /\ m.inbox \in Seq(0 .. produced - 1)
  /\ \A n \in Seg : m.pending[n] # "no" \/ k.work[n] # "none" => n < produced
  /\ m.pc \in Draining => Waiting(m) # {}
  /\ m.tmp # {} => m.pc = "replay"
  /\ m.pc = "checkpoint" => OwnCheckpoint

TypeInv ==
  /\ layout \in Layouts
  /\ produced \in 0 .. MaxSegment + 1
  /\ stage \subseteq 0 .. produced - 1 /\ due \subseteq 0 .. produced - 1
  /\ paused \in BOOLEAN /\ faults \in 0 .. layout.faults /\ calls \in 0 .. layout.calls
  /\ mem \in [Dst -> MemType] /\ disk \in [Dst -> DiskType] /\ db \in [Dst -> DbType]
  /\ \A d \in Dst : Shaped(mem[d], disk[d])

\* A worker's memory and state database become m and k.
Moves(d, m, k) ==
  /\ mem' = [mem EXCEPT ![d] = m] /\ disk' = [disk EXCEPT ![d] = k]
  /\ UNCHANGED <<layout, produced, paused, calls, due>>
  /\ faults' = faults \/ Fault

\* Something the worker keeps says that a segment need not be looked at again.
Passed(d, n) ==
  \/ n <= disk[d].authorized
  \/ n <= disk[d].cleaned
  \/ disk[d].work[n] = "applied"
  \/ Covered(d, n)

\* The worker is through with a segment.
Through(d, n) == Owed(d, n) = {} /\ (MarkMayFail \/ Passed(d, n))

\* What cannot be found any more is done with, and what is passed was delivered.
ReadDone(d) ==
  \A n \in Seg :
    /\ n < produced /\ ~ Through(d, n) => n \in stage \/ disk[d].work[n] = "copy"
    /\ Passed(d, n) => Owed(d, n) = {}

\* A drain has everything before its last segment that the worker is not through with.
DrainDone(d) ==
  mem[d].pc \in Draining =>
    \A p \in Waiting(mem[d]) : \A m \in Seg : m < p /\ ~ Through(d, m) => m \in Waiting(mem[d])

\* Where the stage directory is not known there is no pause, and what was retained in
\* the work directory follows nothing but segments the worker is through with.
RetainedDone(d) ==
  ~ layout.stageDir =>
    /\ ~ paused
    /\ \A p \in Seg : disk[d].work[p] # "none" \/ mem[d].pending[p] = "work" =>
         \A m \in Seg : m < p => Through(d, m)

\* The head: it is not passed before it is recorded, has been delivered once it was sent,
\* and is through when it is recorded.
HeadDone(d) ==
  /\ mem[d].pc \in Handling =>
       /\ disk[d].work[Front(d)] = "copy"
       /\ Front(d) > disk[d].authorized /\ Front(d) > disk[d].cleaned
       /\ ~ SqlDevice \/ mem[d].pc = "checkpoint" => ~ Covered(d, Front(d))
  /\ mem[d].pc \in {"checkpoint", "local", "mark"} => Owed(d, Front(d)) = {}
  /\ mem[d].pc \in {"authorize", "clean_work", "clean_stage"} => Through(d, Front(d))

\* What is recorded is done with, for good.  With the checkpoint in the destination that
\* is past it, and past whatever the state database says on its own.
ProgressDone(d) ==
  /\ \A n \in Seg : n <= mem[d].progress => Through(d, n)
  /\ OwnCheckpoint =>
       /\ mem[d].progress <= db[d].ck.seg
       /\ \A n \in Seg : n <= disk[d].authorized => Covered(d, n)
       /\ \A n \in Seg : disk[d].work[n] = "applied" => n <= db[d].ck.seg
       /\ mem[d].pc \in {"local", "mark"} => Front(d) <= db[d].ck.seg

\* What is about to be cleaned up is done with by every destination.
TargetDone(d) ==
  mem[d].pc \in Cleaning =>
    \A n \in Seg : n <= mem[d].target =>
      /\ n <= disk[d].authorized
      /\ \A e \in Dst : Through(e, n)

\* What the replica has of a segment that was not delivered is in its change log.
ReplayDone(d) ==
  SqlDevice =>
    /\ \A n \in Seg :
         Owed(d, n) \subseteq
           IF disk[d].cdc[n] # {} THEN disk[d].cdc[n]
           ELSE ToReplay(d, n) \union (IF mem[d].pc = "replay" /\ n = Front(d) THEN mem[d].tmp ELSE {})
    /\ mem[d].pc = "apply" => Owed(d, Front(d)) \subseteq disk[d].cdc[Front(d)]

\* The checkpoint of the destination is not ahead of its data.
CheckpointDone(d) ==
  db[d].ck.change >= 0 => \A k \in Owed(d, db[d].ck.seg) : k > db[d].ck.change

WorkerDone(d) ==
  /\ ReadDone(d) /\ DrainDone(d) /\ RetainedDone(d) /\ HeadDone(d) /\ ProgressDone(d)
  /\ TargetDone(d) /\ ReplayDone(d) /\ CheckpointDone(d)

DeliveryInv == \A d \in Dst : WorkerDone(d)

\* The snapshot comes first, and a segment only when the worker is through with all
\* before it.
LogDone(d) ==
  /\ disk[d].init \/ mem[d].pc \in Started => db[d].log # <<>>
  /\ \A i \in DOMAIN db[d].log :
       /\ db[d].log[i].seg = -1 <=> i = 1
       /\ \A m \in Seg : m < db[d].log[i].seg => Through(d, m)
       /\ \A j \in 1 .. i : db[d].log[j].seg <= db[d].log[i].seg

LogInv == \A d \in Dst : LogDone(d)

\* The entries that repeat something, and a segment that will be sent again.
Repeats(d) ==
  { i \in DOMAIN db[d].log :
      \E j \in 1 .. i - 1 : db[d].log[j].seg = db[d].log[i].seg
                            /\ db[d].log[j].txns \intersect db[d].log[i].txns # {} }

Exposed(d) ==
  \E n \in Seg :
    /\ Delivered(d, n) # {} /\ ~ Passed(d, n)
    /\ ~ (mem[d].pc \in Sending /\ n = Front(d))

\* A fault pays for each entry that repeats something, and for one more when a segment
\* is exposed.
RepeatDone(d) == Cardinality(Repeats(d)) + (IF Exposed(d) THEN 1 ELSE 0) <= faults

RepeatInv == \A d \in Dst : RepeatDone(d)

--------------------------------------------------------------------------------
(* Helpers                                                                     *)

\* A set of integers that is bounded has a least, or a greatest, element.
LEMMA MinIsLeast ==
  ASSUME NEW S \in SUBSET Int, S # {}, NEW b \in Int, \A x \in S : b <= x
  PROVE  Min(S) \in S /\ \A x \in S : Min(S) <= x
<1> DEFINE T == { k \in Nat : \E x \in S : k = x - b }
<1>1. T \in SUBSET Nat /\ T # {}
  <2>1. PICK x \in S : TRUE
    OBVIOUS
  <2>2. x - b \in T
    BY <2>1
  <2> QED BY <2>2
<1>2. PICK k \in T : \A j \in T : <<j, k>> \notin OpToRel(<, Nat)
  BY <1>1, WFMin, NatLessThanWellFounded, Zenon
<1>3. \A j \in T : ~ (j < k)
  BY <1>2, Zenon DEF OpToRel
<1>4. PICK x \in S : k = x - b
  OBVIOUS
<1>5. \A y \in S : y - b \in T
  OBVIOUS
<1>6. \A y \in S : x <= y
  BY <1>3, <1>4, <1>5
<1> QED BY <1>4, <1>6 DEF Min

\* A set of numbers that is bounded has a greatest one.
LEMMA MaxIsGreatest ==
  ASSUME NEW S \in SUBSET Int, S # {}, NEW b \in Int, \A x \in S : x <= b
  PROVE  Max(S) \in S /\ \A x \in S : x <= Max(S)
<1> DEFINE T == { k \in Nat : \E x \in S : k = b - x }
<1>1. T \in SUBSET Nat /\ T # {}
  <2>1. PICK x \in S : TRUE
    OBVIOUS
  <2>2. b - x \in T
    BY <2>1
  <2> QED BY <2>2
<1>2. PICK k \in T : \A j \in T : <<j, k>> \notin OpToRel(<, Nat)
  BY <1>1, WFMin, NatLessThanWellFounded, Zenon
<1>3. \A j \in T : ~ (j < k)
  BY <1>2, Zenon DEF OpToRel
<1>4. PICK x \in S : k = b - x
  OBVIOUS
<1>5. \A y \in S : b - y \in T
  OBVIOUS
<1>6. ASSUME NEW y \in S PROVE x >= y
  <2>1. ~ (b - y < b - x) /\ x \in Int /\ y \in Int
    BY <1>3, <1>4, <1>5
  <2> QED BY <2>1
<1> QED BY <1>4, <1>6 DEF Max

\* The greater of two numbers.
LEMMA MaxOfTwo ==
  ASSUME NEW a \in Int, NEW b \in Int
  PROVE  Max({a, b}) = IF a >= b THEN a ELSE b
BY DEF Max

\* The commit ids are numbers.
LEMMA CommitType ==
  ASSUME NEW n \in Seg, NEW k \in Txn
  PROVE  Commit(n, k) \in Nat /\ Commit(n, k) <= n * Txns + Txns
<1>1. n \in Nat /\ Txns \in Nat /\ k \in Nat /\ k <= Txns
  BY CountAssumption DEF Seg, Txn
<1>2. n * Txns \in Nat
  BY <1>1
<1> QED BY <1>1, <1>2 DEF Commit

\* The head of the queue is the least segment that is waiting.
LEMMA FrontIsLeast ==
  ASSUME NEW d, Waiting(mem[d]) # {}
  PROVE  /\ Front(d) \in Waiting(mem[d]) /\ Front(d) \in Seg
         /\ \A n \in Waiting(mem[d]) : Front(d) <= n
<1>1. /\ Waiting(mem[d]) \in SUBSET Int /\ \A n \in Waiting(mem[d]) : 0 <= n
      /\ Waiting(mem[d]) \subseteq Seg
  BY DEF Waiting, Seg
<1>2. Min(Waiting(mem[d])) \in Waiting(mem[d]) /\ \A n \in Waiting(mem[d]) : Min(Waiting(mem[d])) <= n
  BY <1>1, MinIsLeast
<1> QED BY <1>1, <1>2 DEF Front

\* The layout, and what is read off it.
LEMMA LayoutFacts ==
  ASSUME TypeInv
  PROVE  /\ Dst = 1 .. layout.destinations /\ Dst # {} /\ layout.destinations \in Nat
         /\ layout.faults \in Nat /\ layout.calls \in Nat /\ layout.stageDir \in BOOLEAN
         /\ MarkMayFail \in BOOLEAN /\ ReplayMayStop \in BOOLEAN /\ PausePushOnly \in BOOLEAN
BY LayoutAssumption, CountAssumption DEF TypeInv, Dst

\* The types of what a worker keeps, field by field.
LEMMA FieldTypes ==
  ASSUME TypeInv, NEW d \in Dst
  PROVE  /\ mem[d] \in MemType /\ disk[d] \in DiskType /\ db[d] \in DbType
         /\ mem[d].pc \in PC /\ mem[d].pending \in [Seg -> {"no", "stage", "work"}]
         /\ mem[d].progress \in -1 .. MaxSegment /\ mem[d].target \in -1 .. MaxSegment
         /\ mem[d].tmp \in SUBSET Txn /\ mem[d].sent \in SUBSET Txn /\ mem[d].commit \in Nat
         /\ disk[d].authorized \in -1 .. MaxSegment /\ disk[d].cleaned \in -1 .. MaxSegment
         /\ disk[d].stageCleaned \in -1 .. MaxSegment /\ disk[d].init \in BOOLEAN
         /\ disk[d].work \in [Seg -> {"none", "copy", "applied"}] /\ disk[d].cdc \in [Seg -> SUBSET Txn]
         /\ disk[d].resume \in (-1 .. MaxSegment) \X (0 .. Txns)
         /\ db[d].log \in Seq([seg : -1 .. MaxSegment, txns : SUBSET Txn])
         /\ db[d].ck.seg \in Seg /\ db[d].ck.change \in -1 .. Txns /\ db[d].ck.commit \in Nat
         /\ db[d].ck \in [seg : Seg, change : -1 .. Txns, commit : Nat]
         /\ Shaped(mem[d], disk[d])
<1>1. mem[d] \in MemType /\ disk[d] \in DiskType /\ db[d] \in DbType /\ Shaped(mem[d], disk[d])
  BY DEF TypeInv
<1>2. db[d].ck \in [seg : Seg, change : -1 .. Txns, commit : Nat]
  BY <1>1 DEF DbType
<1> QED BY <1>1, <1>2 DEF MemType, DiskType, DbType

\* What a worker's memory becomes when it rests, has looked for what is pending, or is
\* done with the head.
LEMMA RestFacts ==
  ASSUME NEW m \in MemType
  PROVE  /\ Rest(m) \in MemType /\ Rest(m).pc \in {"off", "recv"} /\ Rest(m).tmp = {}
         /\ Rest(m).inbox = m.inbox \/ Rest(m).inbox = <<>>
         /\ \A n \in Seg : Rest(m).pending[n] = m.pending[n] \/ Rest(m).pending[n] = "no"
         /\ Rest(m).progress = m.progress \/ Rest(m).progress = -1
<1>1. -1 \in -1 .. MaxSegment /\ 0 \in Nat /\ <<>> \in Seq(Seg)
  BY CountAssumption, EmptySeq
<1>2. CASE m.stop = "last"
  BY <1>1, <1>2 DEF Rest, Off, MemType, PC
<1>3. CASE m.stop # "last"
  BY <1>1, <1>3 DEF Rest, MemType, PC
<1> QED BY <1>2, <1>3

\* What is pending stays so; what is discovered is in stage or in the work directory.
LEMMA DiscoveredFacts ==
  ASSUME NEW d, NEW pending \in [Seg -> {"no", "stage", "work"}]
  PROVE  /\ Discovered(d, pending) \in [Seg -> {"no", "stage", "work"}]
         /\ \A n \in Seg : pending[n] # "no" => Discovered(d, pending)[n] # "no"
         /\ \A n \in Seg : Discovered(d, pending)[n] # "no" =>
              pending[n] # "no" \/ n \in stage \/ disk[d].work[n] # "none"
BY DEF Discovered, ReadableStage

\* A flush ends in a drain of what it discovered, or back in the loop.
LEMMA FlushedFacts ==
  ASSUME NEW d, NEW m \in MemType, m.tmp = {}
  PROVE  /\ Flushed(d, m) \in MemType
         /\ Flushed(d, m).pc \in {"off", "recv", "head"} /\ Flushed(d, m).tmp = {}
         /\ Flushed(d, m).pc = "head" => /\ Flushed(d, m).pending = Discovered(d, m.pending)
                                          /\ Waiting(Flushed(d, m)) # {} /\ ~ paused
         /\ Flushed(d, m).inbox = m.inbox \/ Flushed(d, m).inbox = <<>>
         /\ \A n \in Seg : Flushed(d, m).pending[n] \in {m.pending[n], Discovered(d, m.pending)[n], "no"}
         /\ Flushed(d, m).progress = m.progress \/ Flushed(d, m).progress = -1
<1> DEFINE found == [m EXCEPT !.pending = Discovered(d, m.pending)]
<1>1. found \in MemType /\ found.pending = Discovered(d, m.pending)
      /\ found.inbox = m.inbox /\ found.progress = m.progress /\ found.tmp = m.tmp
  BY DiscoveredFacts DEF MemType
<1>2. [found EXCEPT !.pc = "head"] \in MemType
  BY <1>1 DEF MemType, PC
<1>3. CASE paused
  BY <1>3, RestFacts DEF Flushed
<1>4. CASE ~ paused /\ Waiting(found) = {}
  <2>1. Flushed(d, m) = Rest(found)
    BY <1>4 DEF Flushed
  <2> HIDE DEF found
  <2> QED BY <1>1, <2>1, RestFacts
<1>5. CASE ~ paused /\ Waiting(found) # {}
  <2>1. Flushed(d, m) = [found EXCEPT !.pc = "head"]
    BY <1>5 DEF Flushed
  <2>2. Waiting([found EXCEPT !.pc = "head"]) = Waiting(found)
    BY <1>1 DEF Waiting, MemType
  <2> HIDE DEF found
  <2> QED BY <1>1, <1>2, <1>5, <2>1, <2>2 DEF MemType
<1> QED BY <1>3, <1>4, <1>5

\* What c, the memory of a worker that is done with segment n, keeps of m.
Finished(c, m, n) ==
  /\ c \in MemType /\ c.pc \in {"off", "recv", "head"} /\ c.tmp = {}
  /\ c.pc = "head" => Waiting(c) # {} /\ \A k \in Seg : k # n => c.pending[k] = m.pending[k]
  /\ c.inbox = m.inbox \/ c.inbox = <<>>
  /\ \A k \in Seg : c.pending[k] = m.pending[k] \/ c.pending[k] = "no"
  /\ c.progress = m.progress \/ c.progress = -1

\* What Completed leaves of a memory.
LEMMA CompletedFacts ==
  ASSUME NEW d, NEW m \in MemType, NEW n \in Seg, m.tmp = {}
  PROVE  Finished(Completed(d, m, n), m, n)
<1> SUFFICES ASSUME NEW c, c = Completed(d, m, n)
             PROVE  Finished(c, m, n)
  OBVIOUS
<1> DEFINE rest == [m EXCEPT !.pending[n] = "no"]
<1>1. /\ rest \in MemType /\ rest.inbox = m.inbox /\ rest.progress = m.progress /\ rest.tmp = m.tmp
      /\ \A k \in Seg : rest.pending[k] = IF k = n THEN "no" ELSE m.pending[k]
  BY DEF MemType
<1>3. [rest EXCEPT !.pc = "head"] \in MemType
  BY <1>1 DEF MemType, PC
<1>4. CASE Waiting(rest) = {}
  <2>1. c = Rest(rest)
    BY <1>4 DEF Completed
  <2> HIDE DEF rest
  <2>2. c \in MemType /\ c.pc \in {"off", "recv"} /\ c.tmp = {}
    BY <1>1, <2>1, RestFacts
  <2>3. c.inbox = rest.inbox \/ c.inbox = <<>>
    BY <1>1, <2>1, RestFacts
  <2>4. \A k \in Seg : c.pending[k] = rest.pending[k] \/ c.pending[k] = "no"
    BY <1>1, <2>1, RestFacts
  <2>5. c.progress = rest.progress \/ c.progress = -1
    BY <1>1, <2>1, RestFacts
  <2> QED BY <1>1, <2>2, <2>3, <2>4, <2>5 DEF Finished
<1>5. CASE Waiting(rest) # {}
  <2>1. c = [rest EXCEPT !.pc = "head"]
    BY <1>5 DEF Completed
  <2> HIDE DEF rest
  <2>2. c.pending = rest.pending /\ c.inbox = rest.inbox /\ c.progress = rest.progress
        /\ c.tmp = rest.tmp /\ c.pc = "head"
    BY <1>1, <2>1 DEF MemType
  <2>3. Waiting(c) # {}
    BY <1>5, <2>2 DEF Waiting
  <2> QED BY <1>1, <1>3, <2>1, <2>2, <2>3 DEF Finished
<1> QED BY <1>4, <1>5

--------------------------------------------------------------------------------
(* Types                                                                       *)

\* The inductive invariant implies the type invariant of the model.
LEMMA TypeInvGivesTypeOK ==
  ASSUME TypeInv
  PROVE  TypeOK
<1>1. \A d \in Dst : db[d].log \in Seq([seg : -1 .. MaxSegment, txns : SUBSET Txn])
                     /\ db[d].ck \in [seg : Seg, change : -1 .. Txns, commit : Nat]
  BY FieldTypes
<1> QED BY <1>1 DEF TypeInv, TypeOK, MemType, DiskType

\* The first state is well-typed.
LEMMA TypeInvInit ==
  ASSUME Init
  PROVE  TypeInv
<1>1. -1 \in -1 .. MaxSegment /\ 0 \in Nat /\ 0 \in Seg /\ 0 \in 0 .. Txns /\ -1 \in -1 .. Txns
      /\ 0 \in 0 .. MaxSegment + 1
  BY CountAssumption DEF Seg
<1>2. <<>> \in Seq(Seg) /\ <<>> \in Seq(0 .. produced - 1)
      /\ <<>> \in Seq([seg : -1 .. MaxSegment, txns : SUBSET Txn])
  BY EmptySeq
<1>3. Off \in MemType
  BY <1>1, <1>2 DEF Off, MemType, PC
<1>4. Fresh \in DiskType
  BY <1>1 DEF Fresh, DiskType
<1>5. [log |-> <<>>, ck |-> [seg |-> 0, change |-> -1, commit |-> 0]] \in DbType
  BY <1>1, <1>2 DEF DbType
<1>6. mem \in [Dst -> MemType] /\ disk \in [Dst -> DiskType] /\ db \in [Dst -> DbType]
  BY <1>3, <1>4, <1>5 DEF Init
<1>7. 0 \in 0 .. layout.faults /\ 0 \in 0 .. layout.calls
  BY LayoutAssumption DEF Init
<1>8. ASSUME NEW d \in Dst PROVE Shaped(mem[d], disk[d])
  <2>1. mem[d] = Off /\ disk[d] = Fresh
    BY DEF Init
  <2> QED BY <1>2, <1>3, <1>4, <2>1 DEF Shaped, Off, Fresh, Draining
<1> QED BY <1>1, <1>6, <1>7, <1>8 DEF Init, TypeInv

\* What is staged, and what the workers are to be told of, are segments.
LEMMA ShippedIsSeg ==
  ASSUME TypeInv
  PROVE  /\ 0 .. produced - 1 \subseteq Seg /\ produced \in Nat
         /\ stage \subseteq Seg /\ due \subseteq Seg
BY CountAssumption DEF TypeInv, Seg

\* What one worker does to its own state, as far as the types are concerned.
LEMMA WorkerTyped ==
  ASSUME TypeInv, NEW d \in Dst, NEW m, NEW k, Moves(d, m, k), Shaped(m, k),
         db' \in [Dst -> DbType], stage' \subseteq stage
  PROVE  TypeInv'
<1>1. UNCHANGED <<layout, produced, paused, calls, due>> /\ Dst' = Dst
  BY DEF Moves, Dst
<1>2. m \in MemType /\ k \in DiskType
  BY DEF Shaped
<1>3. mem' \in [Dst -> MemType] /\ disk' \in [Dst -> DiskType]
  BY <1>2 DEF Moves, TypeInv
<1>4. \A e \in Dst : mem'[e] = (IF e = d THEN m ELSE mem[e]) /\ disk'[e] = (IF e = d THEN k ELSE disk[e])
  BY DEF TypeInv, Moves
<1>5. OwnCheckpoint' <=> OwnCheckpoint
  BY <1>1 DEF OwnCheckpoint
<1>6. ASSUME NEW e \in Dst PROVE Shaped(mem[e], disk[e])'
  <2>1. CASE e = d
    BY <1>1, <1>4, <1>5, <2>1 DEF Shaped, Waiting
  <2>2. CASE e # d
    <3>1. Shaped(mem[e], disk[e]) /\ mem'[e] = mem[e] /\ disk'[e] = disk[e]
      BY <1>4, <2>2 DEF TypeInv
    <3> QED BY <1>1, <1>5, <3>1 DEF Shaped, Waiting
  <2> QED BY <2>1, <2>2
<1>7. faults' \in 0 .. layout.faults
  BY LayoutFacts DEF Fault, TypeInv, Moves
<1> QED BY <1>1, <1>3, <1>6, <1>7 DEF TypeInv

\* The steps of the device, the shipper and the application, and a crash.
LEMMA TypeInvEnvironment ==
  ASSUME TypeInv, ShipSegment \/ Notify \/ Open \/ PauseSync \/ ResumeSync \/ Crash
  PROVE  TypeInv'
<1> USE DEF env
<1>0. Dst' = Dst /\ (OwnCheckpoint' <=> OwnCheckpoint) /\ UNCHANGED <<layout, disk, db>>
  BY DEF ShipSegment, Notify, Open, PauseSync, ResumeSync, Crash, Dst, OwnCheckpoint
<1>1. CASE ShipSegment
  <2>1. produced' = produced + 1 /\ produced \in Nat /\ produced' \in 0 .. MaxSegment + 1
    BY <1>1, CountAssumption DEF ShipSegment, TypeInv
  <2>2. stage' \subseteq 0 .. produced' - 1 /\ due' \subseteq 0 .. produced' - 1
    BY <1>1, <2>1 DEF ShipSegment, TypeInv
  <2>3. 0 .. produced - 1 \subseteq 0 .. produced' - 1
    BY <2>1
  <2>4. ASSUME NEW d \in Dst PROVE Shaped(mem[d], disk[d])'
    <3>1. mem[d].inbox \in Seq(0 .. produced' - 1)
      BY <2>3, SeqMonotonic DEF TypeInv, Shaped
    <3>2. \A n \in Seg : n < produced => n < produced'
      BY <2>1 DEF Seg
    <3> QED BY <1>0, <1>1, <3>1, <3>2 DEF ShipSegment, TypeInv, Shaped, Waiting
  <2> QED BY <1>0, <1>1, <2>1, <2>2, <2>4 DEF ShipSegment, TypeInv
<1>2. CASE Notify
  <2>1. due # {} /\ due \in SUBSET Int /\ \A x \in due : 0 <= x
    BY <1>2 DEF Notify, TypeInv
  <2>2. PICK n : n = Min(due) /\ n \in due
    BY <2>1, MinIsLeast
  <2>3. n \in Seg /\ n \in 0 .. produced - 1
    BY <2>2, ShippedIsSeg DEF TypeInv
  <2>4. ASSUME NEW d \in Dst PROVE mem'[d] \in MemType /\ Shaped(mem[d], disk[d])'
    <3>1. CASE Running(d)
      <4>1. mem'[d] = [mem[d] EXCEPT !.inbox = Queued(@, n)]
        BY <1>2, <2>2, <3>1 DEF Notify
      <4>2. /\ Queued(mem[d].inbox, n) \in Seq(Seg)
            /\ Queued(mem[d].inbox, n) \in Seq(0 .. produced - 1)
        <5>1. mem[d].inbox \in Seq(Seg) /\ mem[d].inbox \in Seq(0 .. produced - 1)
          BY FieldTypes DEF MemType, Shaped
        <5> QED BY <2>3, <5>1, AppendProperties DEF Queued
      <4>3. mem[d] \in MemType /\ Shaped(mem[d], disk[d])
        BY FieldTypes
      <4>4. mem'[d] \in MemType
        BY <4>1, <4>2, <4>3 DEF MemType
      <4>5. /\ mem'[d].pc = mem[d].pc /\ mem'[d].pending = mem[d].pending /\ mem'[d].tmp = mem[d].tmp
            /\ mem'[d].inbox = Queued(mem[d].inbox, n)
        BY <4>1, <4>3 DEF MemType
      <4>6. produced' = produced
        BY <1>2 DEF Notify
      <4> QED BY <1>0, <4>2, <4>3, <4>4, <4>5, <4>6 DEF Shaped, Waiting
    <3>2. CASE ~ Running(d)
      BY <1>0, <1>2, <3>2 DEF Notify, TypeInv, Shaped, Waiting
    <3> QED BY <3>1, <3>2
  <2>5. mem' \in [Dst -> MemType]
    BY <1>2, <2>4 DEF Notify
  <2> QED BY <1>0, <1>2, <2>4, <2>5 DEF Notify, TypeInv
<1>3. CASE Open
  <2>1. ASSUME NEW d \in Dst PROVE mem'[d] \in MemType /\ Shaped(mem[d], disk[d])'
    <3>1. CASE Running(d)
      BY <1>0, <1>3, <3>1 DEF Open, TypeInv, Shaped, Waiting
    <3>2. CASE ~ Running(d)
      <4>1. mem'[d] = [Off EXCEPT !.pc = "recv"]
        BY <1>3, <3>2 DEF Open
      <4>2. Off \in MemType
        BY EmptySeq, CountAssumption DEF Off, MemType, PC
      <4>3. <<>> \in Seq(0 .. produced' - 1)
        BY EmptySeq
      <4>4. mem'[d] \in MemType
        BY <4>1, <4>2 DEF MemType, PC
      <4> QED BY <1>0, <1>3, <4>1, <4>3, <4>4 DEF Open, Off, Shaped, Draining, TypeInv
    <3> QED BY <3>1, <3>2
  <2>2. mem' \in [Dst -> MemType]
    BY <1>3, <2>1 DEF Open
  <2> QED BY <1>0, <1>3, <2>1, <2>2 DEF Open, TypeInv
<1>4. CASE PauseSync \/ ResumeSync
  <2>1. paused' \in BOOLEAN /\ calls' \in 0 .. layout.calls
    <3>1. layout.calls \in Nat /\ calls \in 0 .. layout.calls
      BY LayoutFacts DEF TypeInv
    <3>2. CASE PauseSync
      BY <3>1, <3>2 DEF PauseSync
    <3>3. CASE ResumeSync
      BY <3>1, <3>3 DEF ResumeSync
    <3> QED BY <1>4, <3>2, <3>3
  <2>2. UNCHANGED <<produced, stage, due, faults, mem>>
    BY <1>4 DEF PauseSync, ResumeSync
  <2>3. ASSUME NEW d \in Dst PROVE Shaped(mem[d], disk[d])'
    BY <1>0, <2>2 DEF Shaped, Waiting, TypeInv
  <2> QED BY <1>0, <2>1, <2>2, <2>3 DEF TypeInv
<1>5. CASE Crash
  <2>1. Off \in MemType /\ <<>> \in Seq(0 .. produced - 1)
    BY EmptySeq, CountAssumption DEF Off, MemType, PC
  <2>2. faults' \in 0 .. layout.faults
    BY <1>5, LayoutFacts DEF Crash, Fault, TypeInv
  <2>3. ASSUME NEW d \in Dst PROVE Shaped(mem[d], disk[d])'
    BY <1>0, <1>5, <2>1 DEF Crash, TypeInv, Shaped, Off, Draining
  <2> QED BY <1>0, <1>5, <2>1, <2>2, <2>3 DEF Crash, TypeInv
<1> QED BY <1>1, <1>2, <1>3, <1>4, <1>5

\* The memories that the loop and the end of a drain lead to are well-shaped.
LEMMA RestShaped ==
  ASSUME NEW m, NEW k, Shaped(m, k)
  PROVE  Shaped(Rest(m), k)
<1>1. m \in MemType /\ Rest(m) \in MemType /\ Rest(m).pc \in {"off", "recv"} /\ Rest(m).tmp = {}
      /\ (Rest(m).inbox = m.inbox \/ Rest(m).inbox = <<>>)
      /\ \A hint \in Seg : Rest(m).pending[hint] = m.pending[hint] \/ Rest(m).pending[hint] = "no"
  BY RestFacts DEF Shaped
<1>2. Rest(m).inbox \in Seq(0 .. produced - 1)
  BY <1>1, EmptySeq DEF Shaped
<1> QED BY <1>1, <1>2 DEF Shaped, Draining

\* A worker that has flushed is well-shaped.
LEMMA FlushedShaped ==
  ASSUME TypeInv, NEW d \in Dst, NEW m, NEW k, Shaped(m, k), m.tmp = {}
  PROVE  Shaped(Flushed(d, m), k)
<1> DEFINE f == Flushed(d, m)
<1>1. /\ f \in MemType /\ f.pc \in {"off", "recv", "head"} /\ f.tmp = {}
      /\ f.pc = "head" => Waiting(f) # {}
      /\ f.inbox = m.inbox \/ f.inbox = <<>>
      /\ \A hint \in Seg : f.pending[hint] \in {m.pending[hint], Discovered(d, m.pending)[hint], "no"}
  BY FlushedFacts DEF Shaped
<1>2. f.inbox \in Seq(0 .. produced - 1)
  BY <1>1, EmptySeq DEF Shaped
<1>3. \A hint \in Seg : disk[d].work[hint] # "none" \/ hint \in stage => hint < produced
  BY FieldTypes DEF Shaped, TypeInv, Seg
<1>4. \A hint \in Seg : Discovered(d, m.pending)[hint] # "no" =>
        m.pending[hint] # "no" \/ hint \in stage \/ disk[d].work[hint] # "none"
  BY DiscoveredFacts DEF MemType, Shaped
<1> HIDE DEF f
<1>5. \A hint \in Seg : f.pending[hint] # "no" => hint < produced
  BY <1>1, <1>3, <1>4 DEF Shaped
<1>6. Shaped(f, k)
  BY <1>1, <1>2, <1>5 DEF Shaped, Draining
<1> QED BY <1>6 DEF f

\* And one that is done with its head.
LEMMA CompletedShaped ==
  ASSUME NEW d, NEW m, NEW k, Shaped(m, k), m.tmp = {}, NEW n \in Seg
  PROVE  Shaped(Completed(d, m, n), k)
<1>2. m \in MemType
  BY DEF Shaped
<1>1. PICK f : f = Completed(d, m, n)
  OBVIOUS
<1>3. Finished(f, m, n)
  BY <1>1, <1>2, CompletedFacts
<1>4. f.inbox \in Seq(0 .. produced - 1)
  BY <1>3, EmptySeq DEF Shaped, Finished
<1>5. Shaped(f, k)
  BY <1>3, <1>4 DEF Shaped, Draining, Finished
<1> QED BY <1>1, <1>5

\* Changes to the memory that leave what is known and the inbox alone.
LEMMA SameQueueShaped ==
  ASSUME NEW m, NEW k, NEW j, Shaped(m, k), j \in MemType,
         j.inbox = m.inbox, j.pending = m.pending,
         j.pc \in Draining => m.pc \in Draining,
         j.tmp # {} => j.pc = "replay", j.pc = "checkpoint" => OwnCheckpoint
  PROVE  Shaped(j, k)
BY DEF Shaped, Waiting

\* Receiving a hint: what the worker's memory and work directory become.
LEMMA ReceiveEffect ==
  ASSUME TypeInv, NEW d \in Dst, Receive(d)
  PROVE  /\ mem[d].pc = "recv" /\ stage' = stage /\ db' = db
         /\ \E hint \in Seg : \E m, k :
              /\ m = [mem[d] EXCEPT !.inbox = Tail(mem[d].inbox), !.pending[hint] = "stage"]
              /\ m.pc = "recv" /\ m.tmp = {} /\ Shaped(m, k)
              /\ k = disk[d] \/ (paused /\ k = [disk[d] EXCEPT !.work[hint] = Mirrored(d, hint)])
              /\ \/ disk[d].init /\ Moves(d, Flushed(d, m), k)
                 \/ Moves(d, m, k)
                 \/ Moves(d, [m EXCEPT !.pc = "boot"], k)
<1> DEFINE hint == Head(mem[d].inbox)
           m == [mem[d] EXCEPT !.inbox = Tail(mem[d].inbox), !.pending[hint] = "stage"]
           kk == [disk[d] EXCEPT !.work[hint] = Mirrored(d, hint)]
<1>1. /\ mem[d].inbox # <<>> /\ mem[d].inbox \in Seq(0 .. produced - 1) /\ mem[d].inbox \in Seq(Seg)
      /\ mem[d] \in MemType /\ disk[d] \in DiskType /\ mem[d].pc = "recv" /\ mem[d].tmp = {}
      /\ Shaped(mem[d], disk[d])
  BY FieldTypes DEF Receive, Shaped, Worker, MemType
<1>2. hint \in 0 .. produced - 1 /\ hint \in Seg /\ Tail(mem[d].inbox) \in Seq(0 .. produced - 1)
      /\ Tail(mem[d].inbox) \in Seq(Seg)
  BY <1>1, HeadTailProperties
<1>3. hint < produced
  BY <1>2, ShippedIsSeg
<1>4. m \in MemType /\ m.tmp = {} /\ m.inbox = Tail(mem[d].inbox) /\ m.pc = "recv"
      /\ \A j \in Seg : m.pending[j] # "no" => j < produced
  BY <1>1, <1>2, <1>3 DEF MemType, Shaped
<1>5. kk \in DiskType /\ \A j \in Seg : kk.work[j] # "none" => j < produced
  <2>1. Mirrored(d, hint) \in {"none", "copy", "applied"}
    BY <1>1, <1>2, FieldTypes DEF Mirrored
  <2> QED BY <1>1, <1>2, <1>3, <2>1 DEF DiskType, Shaped
<1>6. \/ disk[d].init /\ mem' = [mem EXCEPT ![d] = Flushed(d, m)]
      \/ mem' = [mem EXCEPT ![d] = m]
      \/ mem' = [mem EXCEPT ![d] = [m EXCEPT !.pc = "boot"]]
  BY DEF Receive, Worker
<1>7. PICK k : /\ k = disk[d] \/ (paused /\ k = kk)
               /\ disk' = [disk EXCEPT ![d] = k]
  <2>1. disk' = disk \/ (paused /\ disk' = [disk EXCEPT ![d].work[hint] = Mirrored(d, hint)])
    BY DEF Receive
  <2>2. disk = [disk EXCEPT ![d] = disk[d]]
        /\ [disk EXCEPT ![d].work[hint] = Mirrored(d, hint)] = [disk EXCEPT ![d] = kk]
    BY DEF TypeInv
  <2> QED BY <2>1, <2>2
<1>8. (faults' = faults \/ Fault) /\ UNCHANGED <<layout, produced, paused, calls, due>>
      /\ stage' = stage /\ db' = db
  BY DEF Receive, Fault, env
<1>9. Shaped(m, k)
  <2>1. CASE k = disk[d]
    BY <1>1, <1>2, <1>4, <2>1 DEF Shaped, Draining
  <2>2. CASE k = kk
    BY <1>1, <1>2, <1>4, <1>5, <2>2 DEF Shaped, Draining
  <2> QED BY <1>7, <2>1, <2>2
<1>10. \/ disk[d].init /\ Moves(d, Flushed(d, m), k)
       \/ Moves(d, m, k)
       \/ Moves(d, [m EXCEPT !.pc = "boot"], k)
  BY <1>6, <1>7, <1>8 DEF Moves
<1> HIDE DEF m, kk, hint
<1> QED BY <1>1, <1>2, <1>4, <1>7, <1>8, <1>9, <1>10 DEF m, kk

\* The periodic tick and the last flush.
LEMMA TickEffect ==
  ASSUME TypeInv, NEW d \in Dst, Tick(d)
  PROVE  /\ mem[d].pc = "recv" /\ mem[d].tmp = {} /\ stage' = stage /\ db' = db
         /\ \/ disk[d].init /\ Moves(d, Flushed(d, mem[d]), disk[d])
            \/ Moves(d, [mem[d] EXCEPT !.pc = "boot"], disk[d])
<1>1. disk = [disk EXCEPT ![d] = disk[d]] /\ Shaped(mem[d], disk[d])
  BY DEF TypeInv
<1> QED BY <1>1 DEF Tick, Worker, Moves, env, Shaped

\* What the last flush does to the worker, whether or not it comes too late.
LEMMA LastFlushEffect ==
  ASSUME TypeInv, NEW d \in Dst, LastFlush(d)
  PROVE  /\ mem[d].pc = "recv" /\ stage' = stage /\ db' = db
         /\ \E h, m :
              /\ h \subseteq Seg
              /\ m.pending = [n \in Seg |-> IF n \in h THEN "stage" ELSE mem[d].pending[n]]
              /\ m.progress = mem[d].progress /\ m.tmp = {} /\ Shaped(m, disk[d])
              /\ \/ disk[d].init /\ Moves(d, Flushed(d, m), disk[d])
                 \/ m.pc = "boot" /\ Moves(d, m, disk[d])
                 \/ Moves(d, Off, disk[d])
<1>1. disk = [disk EXCEPT ![d] = disk[d]] /\ Shaped(mem[d], disk[d]) /\ mem[d].pc = "recv"
      /\ mem[d].tmp = {} /\ mem[d] \in MemType
  BY DEF TypeInv, LastFlush, Worker, Shaped
<1>2. PICK late \in BOOLEAN :
        LET hint == IF late /\ mem[d].inbox # <<>> THEN {Head(mem[d].inbox)} ELSE {}
            m == [mem[d] EXCEPT !.pending = [n \in Seg |-> IF n \in hint THEN "stage" ELSE @[n]]]
        IN Worker(d, "recv",
             IF disk[d].init THEN Flushed(d, [m EXCEPT !.stop = "last"])
             ELSE IF m.stop = "asked" /\ ~ late /\ layout.stageDir /\ ~ paused
                  THEN [m EXCEPT !.stop = "boot", !.pc = "boot"]
                  ELSE Off)
  BY DEF LastFlush
<1> DEFINE h == IF late /\ mem[d].inbox # <<>> THEN {Head(mem[d].inbox)} ELSE {}
           pd == [n \in Seg |-> IF n \in h THEN "stage" ELSE mem[d].pending[n]]
           m == [mem[d] EXCEPT !.pending = pd]
           last == [m EXCEPT !.stop = "last"]
           boot == [m EXCEPT !.stop = "boot", !.pc = "boot"]
<1>3. \/ disk[d].init /\ mem' = [mem EXCEPT ![d] = Flushed(d, last)]
      \/ mem' = [mem EXCEPT ![d] = boot]
      \/ mem' = [mem EXCEPT ![d] = Off]
  BY <1>2 DEF Worker
<1>4. h \subseteq Seg /\ \A n \in h : n < produced
  <2>1. mem[d].inbox # <<>> => Head(mem[d].inbox) \in 0 .. produced - 1
    BY <1>1, HeadTailProperties DEF Shaped
  <2> QED BY <2>1, ShippedIsSeg
<1>5. pd \in [Seg -> {"no", "stage", "work"}] /\ \A n \in Seg : pd[n] # "no" => n < produced
  BY <1>1, <1>4 DEF MemType, Shaped
<1> HIDE DEF h, pd
<1>6. /\ last.pending = pd /\ last.progress = mem[d].progress /\ last.tmp = {} /\ last.pc = "recv"
      /\ Shaped(last, disk[d])
  BY <1>1, <1>5 DEF Shaped, MemType, Draining
<1>7. /\ boot.pending = pd /\ boot.progress = mem[d].progress /\ boot.tmp = {} /\ boot.pc = "boot"
      /\ Shaped(boot, disk[d])
  BY <1>1, <1>5 DEF Shaped, MemType, Draining, PC
<1>8. faults' = faults /\ UNCHANGED <<layout, produced, paused, calls, due>> /\ disk' = disk
      /\ stage' = stage /\ db' = db
  BY DEF LastFlush, env
<1>9. \/ disk[d].init /\ Moves(d, Flushed(d, last), disk[d])
      \/ Moves(d, boot, disk[d])
      \/ Moves(d, Off, disk[d])
  BY <1>1, <1>3, <1>8 DEF Moves
<1> HIDE DEF last, boot, m
<1>10. /\ last.pending = [n \in Seg |-> IF n \in h THEN "stage" ELSE mem[d].pending[n]]
       /\ boot.pending = [n \in Seg |-> IF n \in h THEN "stage" ELSE mem[d].pending[n]]
  BY <1>6, <1>7 DEF pd
<1> QED BY <1>1, <1>4, <1>6, <1>7, <1>8, <1>9, <1>10

\* A drain has a head.
LEMMA HeadFacts ==
  ASSUME TypeInv, NEW d \in Dst, mem[d].pc \in Draining
  PROVE  /\ Front(d) \in Seg /\ Front(d) \in Nat /\ Front(d) < produced
         /\ Front(d) \in Waiting(mem[d]) /\ mem[d].pending[Front(d)] # "no"
         /\ \A n \in Waiting(mem[d]) : Front(d) <= n
         /\ Shaped(mem[d], disk[d]) /\ mem[d] \in MemType /\ disk[d] \in DiskType
<1>1. Shaped(mem[d], disk[d]) /\ mem[d] \in MemType /\ disk[d] \in DiskType
  BY DEF TypeInv
<1>2. Waiting(mem[d]) # {}
  BY <1>1 DEF Shaped
<1>3. Front(d) \in Waiting(mem[d]) /\ Front(d) \in Seg /\ \A n \in Waiting(mem[d]) : Front(d) <= n
  BY <1>2, FrontIsLeast
<1>4. mem[d].pending[Front(d)] # "no"
  BY <1>3 DEF Waiting
<1> QED BY <1>1, <1>3, <1>4 DEF Shaped, Seg

\* The steps of the loop keep the types.
LEMMA TypeInvLoop ==
  ASSUME TypeInv, NEW d \in Dst, Receive(d) \/ Tick(d) \/ LastFlush(d)
  PROVE  TypeInv'
<1>1. Shaped(mem[d], disk[d]) /\ db \in [Dst -> DbType]
  BY DEF TypeInv
<1>2. ASSUME NEW m, NEW k, Shaped(m, k), m.tmp = {}, stage' = stage, db' = db,
             Moves(d, m, k) \/ Moves(d, Flushed(d, m), k) \/ Moves(d, [m EXCEPT !.pc = "boot"], k)
      PROVE  TypeInv'
  <2>1. stage' \subseteq stage /\ db' \in [Dst -> DbType]
    BY <1>1, <1>2
  <2>2. Shaped(Flushed(d, m), k)
    BY <1>2, FlushedShaped
  <2>3. Shaped([m EXCEPT !.pc = "boot"], k)
    BY <1>2 DEF Shaped, MemType, PC, Draining
  <2> QED BY <1>2, <2>1, <2>2, <2>3, WorkerTyped
<1>3. CASE Receive(d)
  <2>1. PICK m, k :
          /\ Shaped(m, k) /\ m.tmp = {} /\ stage' = stage /\ db' = db
          /\ Moves(d, m, k) \/ Moves(d, Flushed(d, m), k) \/ Moves(d, [m EXCEPT !.pc = "boot"], k)
    BY <1>3, ReceiveEffect, Zenon
  <2> QED BY <1>2, <2>1, Zenon
<1>4. CASE Tick(d)
  BY <1>1, <1>2, <1>4, TickEffect, Zenon
<1>5. CASE LastFlush(d)
  <2>1. Shaped(Off, disk[d]) /\ Off.tmp = {}
    BY <1>1, EmptySeq, CountAssumption DEF Off, MemType, PC, Shaped, Draining
  <2>2. PICK m :
          /\ Shaped(m, disk[d]) /\ m.tmp = {} /\ stage' = stage /\ db' = db
          /\ Moves(d, m, disk[d]) \/ Moves(d, Flushed(d, m), disk[d]) \/ Moves(d, Off, disk[d])
    BY <1>5, LastFlushEffect, Zenon
  <2> QED BY <1>2, <2>1, <2>2, Zenon
<1> QED BY <1>3, <1>4, <1>5

\* What a step of the bootstrap and of a drain makes of the worker.
LEMMA BootEffect ==
  ASSUME TypeInv, NEW d \in Dst, Bootstrap(d)
  PROVE  /\ stage' = stage /\ mem[d].tmp = {} /\ Shaped(mem[d], disk[d])
         /\ \/ /\ mem[d].pc = "boot"
               /\ Moves(d, [mem[d] EXCEPT !.pc = "boot_local"], disk[d])
               /\ db' = IF SnapshotCompleted(d) THEN db
                        ELSE [db EXCEPT ![d].log = Append(@, [seg |-> -1, txns |-> {}])]
            \/ /\ mem[d].pc = "boot_local" /\ db' = db
               /\ Moves(d, Flushed(d, mem[d]), [disk[d] EXCEPT !.init = TRUE])
<1>1. Shaped(mem[d], disk[d]) /\ disk = [disk EXCEPT ![d] = disk[d]]
      /\ [disk EXCEPT ![d].init = TRUE] = [disk EXCEPT ![d] = [disk[d] EXCEPT !.init = TRUE]]
  BY DEF TypeInv
<1>2. CASE BootSnapshot(d)
  BY <1>1, <1>2 DEF BootSnapshot, Worker, Moves, env, Shaped
<1>3. CASE BootLocal(d)
  BY <1>1, <1>3 DEF BootLocal, Worker, Moves, env, Shaped
<1> QED BY <1>2, <1>3 DEF Bootstrap

\* So do the steps of the bootstrap.
LEMMA TypeInvBoot ==
  ASSUME TypeInv, NEW d \in Dst, Bootstrap(d)
  PROVE  TypeInv'
<1>1. stage' \subseteq stage /\ Shaped(mem[d], disk[d]) /\ db \in [Dst -> DbType]
  BY BootEffect DEF TypeInv
<1>2. Shaped([mem[d] EXCEPT !.pc = "boot_local"], disk[d]) \/ mem[d].pc # "boot"
  BY <1>1, BootEffect DEF Shaped, MemType, PC, Draining
<1>3. Shaped(Flushed(d, mem[d]), [disk[d] EXCEPT !.init = TRUE])
  <2>1. Shaped(mem[d], [disk[d] EXCEPT !.init = TRUE])
    BY <1>1 DEF Shaped, DiskType
  <2> QED BY <2>1, BootEffect, FlushedShaped
<1>4. db' \in [Dst -> DbType]
  <2>1. [seg |-> -1, txns |-> {}] \in [seg : -1 .. MaxSegment, txns : SUBSET Txn]
    BY CountAssumption
  <2>2. Append(db[d].log, [seg |-> -1, txns |-> {}]) \in Seq([seg : -1 .. MaxSegment, txns : SUBSET Txn])
    BY <2>1, FieldTypes, AppendProperties
  <2>3. [db[d] EXCEPT !.log = Append(@, [seg |-> -1, txns |-> {}])] \in DbType
    BY <2>2, FieldTypes DEF DbType
  <2>4. db' = db \/ db' = [db EXCEPT ![d] = [db[d] EXCEPT !.log = Append(@, [seg |-> -1, txns |-> {}])]]
    BY BootEffect
  <2> HIDE DEF DbType
  <2> QED BY <1>1, <2>3, <2>4
<1> QED BY <1>1, <1>2, <1>3, <1>4, BootEffect, WorkerTyped

\* The ways in which the head can be decided on.
LEMMA ProcessEffect ==
  ASSUME TypeInv, NEW d \in Dst, ProcessHead(d)
  PROVE  LET n == Front(d)
             copy == Mirrored(d, n)
             k == [disk[d] EXCEPT !.work[n] = copy]
         IN
         /\ mem[d].pc = "head" /\ mem[d].tmp = {} /\ stage' = stage /\ db' = db
         /\ copy \in {"none", "copy", "applied"} /\ Shaped(mem[d], k)
         /\ \/ /\ n <= disk[d].authorized \/ n <= disk[d].cleaned
               /\ Moves(d, Completed(d, mem[d], n), disk[d])
            \/ copy = "none" /\ Moves(d, Rest(mem[d]), k)
            \/ /\ copy = "applied" \/ (~ SqlDevice /\ Covered(d, n))
               /\ Moves(d, Recorded(mem[d], n), k)
            \/ /\ n > disk[d].authorized /\ n > disk[d].cleaned /\ copy = "copy"
               /\ SqlDevice \/ ~ Covered(d, n)
               /\ Moves(d, [mem[d] EXCEPT !.pc = IF SqlDevice THEN "replay" ELSE "apply"], k)
<1> DEFINE n == Front(d)
           copy == Mirrored(d, n)
           k == [disk[d] EXCEPT !.work[n] = copy]
           past == n <= disk[d].authorized \/ n <= disk[d].cleaned
<1>1. mem[d].pc = "head" /\ mem[d].pc \in Draining
  BY DEF ProcessHead, Worker, Draining
<1>2. n \in Seg /\ n < produced /\ Shaped(mem[d], disk[d]) /\ n \in Nat
  BY <1>1, HeadFacts
<1>3. mem[d].tmp = {}
  BY <1>1, <1>2 DEF Shaped
<1>4. copy \in {"none", "copy", "applied"}
  BY <1>2, FieldTypes DEF Mirrored
<1>5. Shaped(mem[d], k)
  BY <1>2, <1>4 DEF Shaped, DiskType
<1>6. disk = [disk EXCEPT ![d] = disk[d]]
      /\ [disk EXCEPT ![d].work[n] = copy] = [disk EXCEPT ![d] = k]
  BY DEF TypeInv
<1>7. UNCHANGED <<layout, produced, paused, calls, due, faults, stage, db>>
  BY DEF ProcessHead, env
<1>8. /\ mem' = [mem EXCEPT ![d] =
            IF past THEN Completed(d, mem[d], n)
            ELSE IF copy = "none" THEN Rest(mem[d])
            ELSE IF copy = "applied" \/ (~ SqlDevice /\ Covered(d, n)) THEN Recorded(mem[d], n)
            ELSE [mem[d] EXCEPT !.pc = IF SqlDevice THEN "replay" ELSE "apply"]]
      /\ disk' = [disk EXCEPT ![d] = IF past THEN disk[d] ELSE k]
  BY <1>6 DEF ProcessHead, Worker
<1>9. disk[d].authorized \in Int /\ disk[d].cleaned \in Int
  BY FieldTypes
<1>10. ~ past => n > disk[d].authorized /\ n > disk[d].cleaned
  BY <1>2, <1>9
<1> HIDE DEF n, copy, k
<1>11. CASE past
  BY <1>1, <1>3, <1>4, <1>5, <1>7, <1>8, <1>11 DEF Moves, n, copy, k
<1>12. CASE ~ past /\ copy = "none"
  BY <1>1, <1>3, <1>4, <1>5, <1>7, <1>8, <1>12 DEF Moves, n, copy, k
<1>13. CASE ~ past /\ copy # "none" /\ (copy = "applied" \/ (~ SqlDevice /\ Covered(d, n)))
  BY <1>1, <1>3, <1>4, <1>5, <1>7, <1>8, <1>13 DEF Moves, n, copy, k
<1>14. CASE ~ past /\ copy = "copy" /\ ~ (~ SqlDevice /\ Covered(d, n))
  <2>1. mem' = [mem EXCEPT ![d] = [mem[d] EXCEPT !.pc = IF SqlDevice THEN "replay" ELSE "apply"]]
        /\ disk' = [disk EXCEPT ![d] = k]
    BY <1>8, <1>14
  <2> QED BY <1>1, <1>3, <1>4, <1>5, <1>7, <1>10, <1>14, <2>1 DEF Moves, n, copy, k
<1> QED BY <1>4, <1>11, <1>12, <1>13, <1>14

\* What recording the head makes of a memory.
LEMMA RecordedFacts ==
  ASSUME NEW m \in MemType, NEW n \in Seg
  PROVE  /\ Recorded(m, n) \in MemType /\ Recorded(m, n).inbox = m.inbox
         /\ Recorded(m, n).pending = m.pending /\ Recorded(m, n).tmp = m.tmp
         /\ Recorded(m, n).pc = "authorize" /\ Recorded(m, n).progress = n
<1>1. "authorize" \in PC /\ n \in -1 .. MaxSegment
  BY DEF PC, Seg
<1> QED BY <1>1 DEF Recorded, MemType

\* Deciding on the head keeps the types.
LEMMA TypeInvProcess ==
  ASSUME TypeInv, NEW d \in Dst, ProcessHead(d)
  PROVE  TypeInv'
<1> DEFINE n == Front(d)
           k == [disk[d] EXCEPT !.work[n] = Mirrored(d, n)]
<1>1. /\ mem[d].pc = "head" /\ mem[d].tmp = {} /\ stage' \subseteq stage /\ Shaped(mem[d], k)
      /\ n \in Seg /\ Shaped(mem[d], disk[d]) /\ db' \in [Dst -> DbType]
  BY ProcessEffect, HeadFacts DEF Draining, TypeInv
<1>2. Shaped(Completed(d, mem[d], n), disk[d]) /\ Shaped(Rest(mem[d]), k)
  BY <1>1, CompletedShaped, RestShaped
<1> HIDE DEF n, k
<1>3. Shaped(Recorded(mem[d], n), k)
  <2>1. /\ Recorded(mem[d], n) \in MemType /\ Recorded(mem[d], n).inbox = mem[d].inbox
        /\ Recorded(mem[d], n).pending = mem[d].pending /\ Recorded(mem[d], n).tmp = {}
        /\ Recorded(mem[d], n).pc = "authorize"
    BY <1>1, RecordedFacts DEF Shaped
  <2> QED BY <1>1, <2>1, SameQueueShaped DEF Draining
<1>4. Shaped([mem[d] EXCEPT !.pc = IF SqlDevice THEN "replay" ELSE "apply"], k)
  <2> DEFINE j == [mem[d] EXCEPT !.pc = IF SqlDevice THEN "replay" ELSE "apply"]
  <2>1. j \in MemType /\ j.inbox = mem[d].inbox /\ j.pending = mem[d].pending /\ j.tmp = {}
        /\ j.pc \in {"replay", "apply"}
    BY <1>1 DEF Shaped, MemType, PC
  <2> HIDE DEF j
  <2>2. Shaped(j, k)
    BY <1>1, <2>1, SameQueueShaped DEF Draining
  <2> QED BY <2>2 DEF j
<1>5. \/ Moves(d, Completed(d, mem[d], n), disk[d])
      \/ Moves(d, Rest(mem[d]), k)
      \/ Moves(d, Recorded(mem[d], n), k)
      \/ Moves(d, [mem[d] EXCEPT !.pc = IF SqlDevice THEN "replay" ELSE "apply"], k)
  BY ProcessEffect, Zenon DEF n, k
<1> QED BY <1>1, <1>2, <1>3, <1>4, <1>5, WorkerTyped, Zenon

\* The replay of one transaction, and the end of a replay.
LEMMA ReplayEffect ==
  ASSUME TypeInv, NEW d \in Dst, Replay(d)
  PROVE  /\ mem[d].pc = "replay" /\ stage' = stage /\ db' = db
         /\ \/ /\ disk[d].cdc[Front(d)] = {}
               /\ \E i \in ToReplay(d, Front(d)) :
                    /\ \A j \in ToReplay(d, Front(d)) : i <= j
                    /\ Moves(d, [mem[d] EXCEPT !.tmp = @ \union {i}],
                                [disk[d] EXCEPT !.resume = <<Front(d), i>>])
            \/ /\ disk[d].cdc[Front(d)] = {} => ToReplay(d, Front(d)) = {}
               /\ Moves(d, [mem[d] EXCEPT !.pc = "apply", !.tmp = {}],
                           IF disk[d].cdc[Front(d)] = {}
                           THEN [disk[d] EXCEPT !.cdc[Front(d)] = mem[d].tmp] ELSE disk[d])
<1> DEFINE n == Front(d)
<1>1. disk = [disk EXCEPT ![d] = disk[d]]
  BY DEF TypeInv
<1>2. CASE ReplayTxn(d)
  <2>1. ToReplay(d, n) \in SUBSET Int /\ (\A i \in ToReplay(d, n) : 1 <= i) /\ ToReplay(d, n) # {}
    BY <1>2 DEF ToReplay, Committed, Txn, ReplayTxn
  <2>2. PICK i : i = Min(ToReplay(d, n)) /\ i \in ToReplay(d, n) /\ \A j \in ToReplay(d, n) : i <= j
    BY <2>1, MinIsLeast
  <2>3. /\ mem[d].pc = "replay" /\ disk[d].cdc[n] = {}
        /\ mem' = [mem EXCEPT ![d] = [mem[d] EXCEPT !.tmp = @ \union {i}]]
        /\ disk' = [disk EXCEPT ![d].resume = <<n, i>>]
        /\ UNCHANGED <<layout, produced, paused, calls, stage, due, faults, db>>
    BY <1>2, <2>2 DEF ReplayTxn, Worker, env
  <2>4. disk' = [disk EXCEPT ![d] = [disk[d] EXCEPT !.resume = <<n, i>>]]
    BY <2>3 DEF TypeInv
  <2>5. Moves(d, [mem[d] EXCEPT !.tmp = @ \union {i}], [disk[d] EXCEPT !.resume = <<n, i>>])
    BY <2>3, <2>4 DEF Moves
  <2> HIDE DEF n
  <2> QED BY <2>2, <2>3, <2>5 DEF n
<1>3. CASE ReplayEnds(d)
  <2>1. /\ mem[d].pc = "replay" /\ (disk[d].cdc[n] = {} => ToReplay(d, n) = {})
        /\ mem' = [mem EXCEPT ![d] = [mem[d] EXCEPT !.pc = "apply", !.tmp = {}]]
        /\ disk' = IF disk[d].cdc[n] = {} THEN [disk EXCEPT ![d].cdc[n] = mem[d].tmp] ELSE disk
        /\ UNCHANGED <<layout, produced, paused, calls, stage, due, faults, db>>
    BY <1>3 DEF ReplayEnds, Worker, env
  <2>2. [disk EXCEPT ![d].cdc[n] = mem[d].tmp] = [disk EXCEPT ![d] = [disk[d] EXCEPT !.cdc[n] = mem[d].tmp]]
    BY DEF TypeInv
  <2>3. disk' = [disk EXCEPT ![d] = IF disk[d].cdc[n] = {}
                                    THEN [disk[d] EXCEPT !.cdc[n] = mem[d].tmp] ELSE disk[d]]
    BY <1>1, <2>1, <2>2
  <2> QED BY <2>1, <2>3 DEF Moves
<1> QED BY <1>2, <1>3 DEF Replay

\* A replay keeps the types.
LEMMA TypeInvReplay ==
  ASSUME TypeInv, NEW d \in Dst, Replay(d)
  PROVE  TypeInv'
<1> DEFINE n == Front(d)
<1>1. /\ mem[d].pc = "replay" /\ stage' \subseteq stage /\ db' \in [Dst -> DbType]
      /\ n \in Seg /\ Shaped(mem[d], disk[d])
  BY ReplayEffect, HeadFacts DEF Draining, TypeInv
<1> HIDE DEF n
<1>2. ASSUME NEW i \in Txn
      PROVE  Shaped([mem[d] EXCEPT !.tmp = @ \union {i}], [disk[d] EXCEPT !.resume = <<n, i>>])
  <2> DEFINE m == [mem[d] EXCEPT !.tmp = @ \union {i}]
             k == [disk[d] EXCEPT !.resume = <<n, i>>]
  <2>1. /\ m \in MemType /\ m.inbox = mem[d].inbox /\ m.pending = mem[d].pending
        /\ m.pc = "replay"
    BY <1>1 DEF Shaped, MemType
  <2>2. <<n, i>> \in (-1 .. MaxSegment) \X (0 .. Txns)
    BY <1>1 DEF Seg, Txn
  <2>3. Shaped(mem[d], k)
    BY <1>1, <2>2 DEF Shaped, DiskType
  <2> HIDE DEF m, k
  <2>4. Shaped(m, k)
    BY <1>1, <2>1, <2>3, SameQueueShaped DEF Draining
  <2> QED BY <2>4 DEF m, k
<1>3. Shaped([mem[d] EXCEPT !.pc = "apply", !.tmp = {}],
             IF disk[d].cdc[n] = {} THEN [disk[d] EXCEPT !.cdc[n] = mem[d].tmp] ELSE disk[d])
  <2> DEFINE m == [mem[d] EXCEPT !.pc = "apply", !.tmp = {}]
             k == IF disk[d].cdc[n] = {} THEN [disk[d] EXCEPT !.cdc[n] = mem[d].tmp] ELSE disk[d]
  <2>1. /\ m \in MemType /\ m.inbox = mem[d].inbox /\ m.pending = mem[d].pending
        /\ m.pc = "apply" /\ m.tmp = {}
    BY <1>1 DEF Shaped, MemType, PC
  <2>2. Shaped(mem[d], k)
    <3>1. mem[d].tmp \subseteq Txn
      BY <1>1 DEF Shaped, MemType
    <3>2. [disk[d] EXCEPT !.cdc[n] = mem[d].tmp] \in DiskType
          /\ [disk[d] EXCEPT !.cdc[n] = mem[d].tmp].work = disk[d].work
      BY <1>1, <3>1 DEF Shaped, DiskType
    <3>3. Shaped(mem[d], [disk[d] EXCEPT !.cdc[n] = mem[d].tmp])
      BY <1>1, <3>2 DEF Shaped
    <3> QED BY <1>1, <3>3
  <2> HIDE DEF m, k
  <2>3. Shaped(m, k)
    BY <1>1, <2>1, <2>2, SameQueueShaped DEF Draining
  <2> QED BY <2>3 DEF m, k
<1>4. \/ \E i \in Txn : Moves(d, [mem[d] EXCEPT !.tmp = @ \union {i}],
                                 [disk[d] EXCEPT !.resume = <<n, i>>])
      \/ Moves(d, [mem[d] EXCEPT !.pc = "apply", !.tmp = {}],
                  IF disk[d].cdc[n] = {} THEN [disk[d] EXCEPT !.cdc[n] = mem[d].tmp] ELSE disk[d])
  <2>1. ToReplay(d, n) \subseteq Txn
    BY DEF ToReplay, Committed
  <2> QED BY <2>1, ReplayEffect, Zenon DEF n
<1> QED BY <1>1, <1>2, <1>3, <1>4, WorkerTyped, Zenon

\* The commit id of what is applied is a number.
LEMMA ContentFacts ==
  ASSUME TypeInv, NEW d \in Dst, NEW n \in Seg
  PROVE  /\ Content(d, n) \subseteq Txn /\ ToSend(d, n) \subseteq Content(d, n)
         /\ Markers(d, n) \subseteq Content(d, n)
BY FieldTypes DEF Content, ToSend, Markers

\* The commit id of the checkpoints is a number.
LEMMA AppliedCommitType ==
  ASSUME TypeInv, NEW d \in Dst, NEW n \in Seg
  PROVE  AppliedCommit(d, n) \in Nat
<1> DEFINE first == IF Content(d, n) = {} THEN 0 ELSE Commit(n, Min(Content(d, n)))
           S == {first} \union { Commit(n, k) : k \in ToSend(d, n) \union Markers(d, n) }
<1>1. n * Txns + Txns \in Nat
  BY CountAssumption DEF Seg
<1>2. \A k \in Txn : Commit(n, k) \in Nat /\ Commit(n, k) <= n * Txns + Txns
  BY CommitType
<1>3. first \in Nat /\ first <= n * Txns + Txns
  <2>1. CASE Content(d, n) = {}
    BY <1>1, <2>1
  <2>2. CASE Content(d, n) # {}
    <3>1. Content(d, n) \in SUBSET Int /\ \A x \in Content(d, n) : 1 <= x
      BY ContentFacts DEF Txn
    <3>2. Min(Content(d, n)) \in Txn
      BY <2>2, <3>1, MinIsLeast, ContentFacts
    <3> QED BY <1>2, <2>2, <3>2
  <2> QED BY <2>1, <2>2
<1> HIDE DEF first
<1>4. \A k \in ToSend(d, n) \union Markers(d, n) : k \in Txn
  BY ContentFacts
<1>5. S \in SUBSET Nat /\ S # {} /\ \A x \in S : x <= n * Txns + Txns
  BY <1>2, <1>3, <1>4
<1>6. S \in SUBSET Int /\ n * Txns + Txns \in Int
  BY <1>1, <1>5
<1> HIDE DEF S
<1>7. Max(S) \in S
  BY <1>5, <1>6, MaxIsGreatest
<1>8. AppliedCommit(d, n) = Max(S)
  BY DEF AppliedCommit, S, first
<1> QED BY <1>5, <1>7, <1>8

\* Applying a segment, and the checkpoints that follow.
LEMMA ApplyEffect ==
  ASSUME TypeInv, NEW d \in Dst, Apply(d)
  PROVE  LET n == Front(d)
             rows == ToSend(d, n)
         IN
         /\ mem[d].pc = "apply" /\ mem[d].tmp = {} /\ stage' = stage
         /\ \/ /\ SqlDevice /\ Covered(d, n) /\ db' = db
               /\ Moves(d, [mem[d] EXCEPT !.pc = "mark"], disk[d])
            \/ /\ ~ (SqlDevice /\ Covered(d, n))
               /\ db' = IF rows = {} THEN db
                        ELSE [db EXCEPT ![d].log = Append(@, [seg |-> n, txns |-> rows])]
               /\ Moves(d, [mem[d] EXCEPT !.sent = rows, !.commit = AppliedCommit(d, n),
                                          !.pc = IF OwnCheckpoint THEN "checkpoint" ELSE "local"],
                           disk[d])
<1>1. disk = [disk EXCEPT ![d] = disk[d]] /\ Shaped(mem[d], disk[d]) /\ mem[d].pc = "apply"
      /\ mem[d] \in MemType
  BY DEF TypeInv, Apply, Worker, Shaped
<1>2. mem[d].tmp = {}
  BY <1>1 DEF Shaped
<1>3. UNCHANGED <<layout, produced, paused, calls, due, faults, stage, disk>>
  BY DEF Apply, env
<1>4. CASE SqlDevice /\ Covered(d, Front(d))
  BY <1>1, <1>2, <1>3, <1>4 DEF Apply, Worker, Moves
<1>5. CASE ~ (SqlDevice /\ Covered(d, Front(d)))
  <2> DEFINE m == [mem[d] EXCEPT !.sent = ToSend(d, Front(d)), !.commit = AppliedCommit(d, Front(d)),
                                 !.pc = IF OwnCheckpoint THEN "checkpoint" ELSE "local"]
  <2>1. mem' = [mem EXCEPT ![d] = [[mem[d] EXCEPT !.sent = ToSend(d, Front(d)), !.commit = AppliedCommit(d, Front(d))]
                                      EXCEPT !.pc = IF OwnCheckpoint THEN "checkpoint" ELSE "local"]]
    BY <1>5 DEF Apply, Worker
  <2>2. [[mem[d] EXCEPT !.sent = ToSend(d, Front(d)), !.commit = AppliedCommit(d, Front(d))]
            EXCEPT !.pc = IF OwnCheckpoint THEN "checkpoint" ELSE "local"] = m
    BY <1>1 DEF MemType
  <2>3. db' = IF ToSend(d, Front(d)) = {} THEN db
              ELSE [db EXCEPT ![d].log = Append(@, [seg |-> Front(d), txns |-> ToSend(d, Front(d))])]
    BY <1>5 DEF Apply
  <2> HIDE DEF m
  <2>4. Moves(d, m, disk[d])
    BY <1>1, <1>3, <2>1, <2>2 DEF Moves
  <2> QED BY <1>1, <1>2, <1>3, <1>5, <2>3, <2>4 DEF m
<1> QED BY <1>4, <1>5

\* Sending the head keeps the types.
LEMMA TypeInvApply ==
  ASSUME TypeInv, NEW d \in Dst, Apply(d)
  PROVE  TypeInv'
<1> DEFINE n == Front(d)
           rows == ToSend(d, n)
           m == [mem[d] EXCEPT !.sent = rows, !.commit = AppliedCommit(d, n),
                               !.pc = IF OwnCheckpoint THEN "checkpoint" ELSE "local"]
           past == [mem[d] EXCEPT !.pc = "mark"]
<1>1. /\ mem[d].pc = "apply" /\ mem[d].tmp = {} /\ stage' \subseteq stage
      /\ n \in Seg /\ Shaped(mem[d], disk[d]) /\ db \in [Dst -> DbType]
  BY ApplyEffect, HeadFacts DEF Draining, TypeInv
<1>2. AppliedCommit(d, n) \in Nat /\ rows \subseteq Txn
  BY <1>1, AppliedCommitType, ContentFacts
<1>3. \/ Moves(d, m, disk[d]) \/ Moves(d, past, disk[d])
  BY ApplyEffect, Zenon
<1>4. db' = db \/ db' = [db EXCEPT ![d].log = Append(@, [seg |-> n, txns |-> rows])]
  BY ApplyEffect
<1> HIDE DEF n, rows
<1>5. /\ m \in MemType /\ m.inbox = mem[d].inbox /\ m.pending = mem[d].pending
      /\ m.pc \in {"checkpoint", "local"} /\ m.tmp = {} /\ (m.pc = "checkpoint" => OwnCheckpoint)
  BY <1>1, <1>2 DEF Shaped, MemType, PC
<1>6. /\ past \in MemType /\ past.inbox = mem[d].inbox /\ past.pending = mem[d].pending
      /\ past.pc = "mark" /\ past.tmp = {}
  BY <1>1, <1>2 DEF Shaped, MemType, PC
<1> HIDE DEF m, past
<1>7. Shaped(m, disk[d]) /\ Shaped(past, disk[d])
  BY <1>1, <1>5, <1>6, SameQueueShaped DEF Draining
<1>8. db' \in [Dst -> DbType]
  <2>1. [seg |-> n, txns |-> rows] \in [seg : -1 .. MaxSegment, txns : SUBSET Txn]
    BY <1>1, <1>2 DEF Seg
  <2>2. Append(db[d].log, [seg |-> n, txns |-> rows]) \in Seq([seg : -1 .. MaxSegment, txns : SUBSET Txn])
    BY <2>1, FieldTypes, AppendProperties
  <2>3. [db[d] EXCEPT !.log = Append(@, [seg |-> n, txns |-> rows])] \in DbType
    BY <2>2, FieldTypes DEF DbType
  <2>4. db' = db \/ db' = [db EXCEPT ![d] = [db[d] EXCEPT !.log = Append(@, [seg |-> n, txns |-> rows])]]
    BY <1>4
  <2> QED BY <1>1, <2>3, <2>4
<1> QED BY <1>1, <1>3, <1>7, <1>8, WorkerTyped

\* The checkpoint of the destination is the only thing that its step writes there.
LEMMA CheckpointEffect ==
  ASSUME TypeInv, NEW d \in Dst, Checkpoint(d)
  PROVE  /\ mem[d].pc = "checkpoint" /\ mem[d].tmp = {} /\ stage' = stage
         /\ Moves(d, [mem[d] EXCEPT !.pc = "local"], disk[d])
         /\ \E ck \in [seg : Seg, change : -1 .. Txns, commit : Nat] :
              /\ ck.seg = (IF db[d].ck.seg >= Front(d) THEN db[d].ck.seg ELSE Front(d))
              /\ mem[d].sent = {} => ck.change = db[d].ck.change
              /\ mem[d].sent # {} => ck.change \in mem[d].sent /\ \A k \in mem[d].sent : k <= ck.change
              /\ ck.commit = mem[d].commit
              /\ db' = [db EXCEPT ![d] = [db[d] EXCEPT !.ck = ck]]
<1> DEFINE n == Front(d)
           ck == [seg    |-> Max({db[d].ck.seg, n}),
                  change |-> IF mem[d].sent = {} THEN db[d].ck.change ELSE Max(mem[d].sent),
                  commit |-> mem[d].commit]
<1>1. mem[d].pc = "checkpoint" /\ UNCHANGED <<layout, produced, paused, calls, due, faults, stage, disk>>
      /\ mem' = [mem EXCEPT ![d] = [mem[d] EXCEPT !.pc = "local"]]
  BY DEF Checkpoint, Worker, env
<1>2. n \in Seg /\ Shaped(mem[d], disk[d]) /\ disk = [disk EXCEPT ![d] = disk[d]]
  BY <1>1, HeadFacts DEF Draining, TypeInv
<1>3. Max({db[d].ck.seg, n}) = IF db[d].ck.seg >= n THEN db[d].ck.seg ELSE n
  <2>1. db[d].ck.seg \in Int /\ n \in Int
    BY <1>2, FieldTypes DEF Seg
  <2> QED BY <2>1, MaxOfTwo
<1>4. mem[d].sent # {} => /\ Max(mem[d].sent) \in mem[d].sent
                          /\ \A k \in mem[d].sent : k <= Max(mem[d].sent)
  <2>1. mem[d].sent \in SUBSET Int /\ Txns \in Int /\ \A x \in mem[d].sent : x <= Txns
    BY FieldTypes, CountAssumption DEF Txn
  <2> QED BY <2>1, MaxIsGreatest
<1>5. mem[d].sent \subseteq Txn /\ db[d].ck.change \in -1 .. Txns /\ mem[d].commit \in Nat
      /\ db[d].ck.seg \in Seg
  BY FieldTypes
<1>6. ck \in [seg : Seg, change : -1 .. Txns, commit : Nat]
  <2>1. mem[d].sent # {} => Max(mem[d].sent) \in -1 .. Txns
    BY <1>4, <1>5 DEF Txn
  <2> QED BY <1>2, <1>3, <1>5, <2>1
<1>7. db' = [db EXCEPT ![d] = [db[d] EXCEPT !.ck = ck]]
  <2>1. db' = [db EXCEPT ![d].ck = ck]
    BY DEF Checkpoint
  <2> QED BY <2>1 DEF TypeInv
<1>8. Moves(d, [mem[d] EXCEPT !.pc = "local"], disk[d])
  BY <1>1, <1>2 DEF Moves
<1>9. mem[d].tmp = {}
  BY <1>1, <1>2 DEF Shaped
<1>10. /\ ck.seg = (IF db[d].ck.seg >= n THEN db[d].ck.seg ELSE n)
       /\ mem[d].sent = {} => ck.change = db[d].ck.change
       /\ mem[d].sent # {} => ck.change \in mem[d].sent /\ \A k \in mem[d].sent : k <= ck.change
       /\ ck.commit = mem[d].commit
  BY <1>3, <1>4
<1> HIDE DEF ck
<1> QED BY <1>1, <1>6, <1>7, <1>8, <1>9, <1>10

\* The other steps that only move the worker on.
LEMMA RecordEffect ==
  ASSUME TypeInv, NEW d \in Dst, CheckpointFails(d) \/ LocalCheckpoint(d) \/ Mark(d)
  PROVE  /\ stage' = stage /\ db' = db /\ mem[d].tmp = {}
         /\ \/ mem[d].pc = "checkpoint" /\ Moves(d, [mem[d] EXCEPT !.pc = "apply"], disk[d]) /\ Fault
            \/ /\ mem[d].pc = "local"
               /\ Moves(d, [mem[d] EXCEPT !.pc = "mark"], [disk[d] EXCEPT !.commit = mem[d].commit])
            \/ /\ mem[d].pc = "mark"
               /\ \/ Moves(d, Recorded(mem[d], Front(d)), [disk[d] EXCEPT !.work[Front(d)] = "applied"])
                  \/ MarkMayFail /\ Moves(d, Recorded(mem[d], Front(d)), disk[d])
<1>1. /\ disk = [disk EXCEPT ![d] = disk[d]] /\ Shaped(mem[d], disk[d])
      /\ [disk EXCEPT ![d].commit = mem[d].commit]
           = [disk EXCEPT ![d] = [disk[d] EXCEPT !.commit = mem[d].commit]]
      /\ [disk EXCEPT ![d].work[Front(d)] = "applied"]
           = [disk EXCEPT ![d] = [disk[d] EXCEPT !.work[Front(d)] = "applied"]]
  BY DEF TypeInv
<1>2. CASE CheckpointFails(d)
  BY <1>1, <1>2 DEF CheckpointFails, Worker, Moves, env, Shaped, Fault
<1>3. CASE LocalCheckpoint(d)
  BY <1>1, <1>3 DEF LocalCheckpoint, Worker, Moves, env, Shaped
<1>4. CASE Mark(d)
  BY <1>1, <1>4 DEF Mark, Worker, Moves, env, Shaped, Fault
<1> QED BY <1>2, <1>3, <1>4

\* The steps after the data keep the types.
LEMMA TypeInvRecord ==
  ASSUME TypeInv, NEW d \in Dst, Checkpoint(d) \/ CheckpointFails(d) \/ LocalCheckpoint(d) \/ Mark(d)
  PROVE  TypeInv'
<1> DEFINE n == Front(d)
<1>1. /\ mem[d].pc \in {"checkpoint", "local", "mark"} /\ mem[d].tmp = {} /\ stage' \subseteq stage
      /\ n \in Seg /\ Shaped(mem[d], disk[d]) /\ db \in [Dst -> DbType]
  <2>1. mem[d].pc \in {"checkpoint", "local", "mark"} /\ mem[d].tmp = {} /\ stage' \subseteq stage
    BY CheckpointEffect, RecordEffect
  <2> QED BY <2>1, HeadFacts DEF Draining, TypeInv
<1> HIDE DEF n
<1>2. ASSUME NEW pc \in {"apply", "local", "mark"}
      PROVE  Shaped([mem[d] EXCEPT !.pc = pc], disk[d])
  <2> DEFINE m == [mem[d] EXCEPT !.pc = pc]
  <2>1. /\ m \in MemType /\ m.inbox = mem[d].inbox /\ m.pending = mem[d].pending /\ m.tmp = {}
        /\ m.pc # "checkpoint"
    BY <1>1 DEF Shaped, MemType, PC
  <2> HIDE DEF m
  <2>2. Shaped(m, disk[d])
    BY <1>1, <2>1, SameQueueShaped DEF Draining
  <2> QED BY <2>2 DEF m
<1>3. Shaped(Recorded(mem[d], n), disk[d])
  <2>1. /\ Recorded(mem[d], n) \in MemType /\ Recorded(mem[d], n).inbox = mem[d].inbox
        /\ Recorded(mem[d], n).pending = mem[d].pending /\ Recorded(mem[d], n).tmp = {}
        /\ Recorded(mem[d], n).pc = "authorize"
    BY <1>1, RecordedFacts DEF Shaped
  <2> QED BY <1>1, <2>1, SameQueueShaped DEF Draining
<1>4. ASSUME NEW m, Shaped(m, disk[d])
      PROVE  /\ Shaped(m, [disk[d] EXCEPT !.commit = mem[d].commit])
             /\ Shaped(m, [disk[d] EXCEPT !.work[n] = "applied"])
  <2>1. [disk[d] EXCEPT !.commit = mem[d].commit] \in DiskType
    BY <1>4, FieldTypes DEF Shaped, DiskType
  <2>2. [disk[d] EXCEPT !.work[n] = "applied"] \in DiskType
    BY <1>1, <1>4 DEF Shaped, DiskType
  <2>3. [disk[d] EXCEPT !.commit = mem[d].commit].work = disk[d].work
    BY <1>4 DEF Shaped, DiskType
  <2>4. \A j \in Seg : [disk[d] EXCEPT !.work[n] = "applied"].work[j] # "none" => j < produced
    <3>1. n < produced
      BY <1>1, HeadFacts DEF n, Draining
    <3>2. \A j \in Seg : [disk[d] EXCEPT !.work[n] = "applied"].work[j]
                           = IF j = n THEN "applied" ELSE disk[d].work[j]
      BY <1>1, <1>4 DEF Shaped, DiskType
    <3> QED BY <1>4, <3>1, <3>2 DEF Shaped
  <2> QED BY <1>4, <2>1, <2>2, <2>3, <2>4 DEF Shaped
<1>5. CASE Checkpoint(d)
  <2>1. PICK ck \in [seg : Seg, change : -1 .. Txns, commit : Nat] :
           db' = [db EXCEPT ![d] = [db[d] EXCEPT !.ck = ck]]
    BY <1>5, CheckpointEffect
  <2>2. [db[d] EXCEPT !.ck = ck] \in DbType
    <3>1. db[d] \in DbType
      BY FieldTypes
    <3> QED BY <3>1 DEF DbType
  <2>3. db' \in [Dst -> DbType]
    BY <1>1, <2>1, <2>2
  <2>4. Moves(d, [mem[d] EXCEPT !.pc = "local"], disk[d]) /\ Shaped([mem[d] EXCEPT !.pc = "local"], disk[d])
    BY <1>2, <1>5, CheckpointEffect
  <2> QED BY <1>1, <2>3, <2>4, WorkerTyped
<1>6. CASE CheckpointFails(d) \/ LocalCheckpoint(d) \/ Mark(d)
  <2>1. db' \in [Dst -> DbType]
    BY <1>1, <1>6, RecordEffect
  <2>2. \/ Moves(d, [mem[d] EXCEPT !.pc = "apply"], disk[d])
        \/ Moves(d, [mem[d] EXCEPT !.pc = "mark"], [disk[d] EXCEPT !.commit = mem[d].commit])
        \/ Moves(d, Recorded(mem[d], n), [disk[d] EXCEPT !.work[n] = "applied"])
        \/ Moves(d, Recorded(mem[d], n), disk[d])
    BY <1>6, RecordEffect, Zenon DEF n
  <2>3. /\ Shaped([mem[d] EXCEPT !.pc = "apply"], disk[d])
        /\ Shaped([mem[d] EXCEPT !.pc = "mark"], [disk[d] EXCEPT !.commit = mem[d].commit])
        /\ Shaped(Recorded(mem[d], n), [disk[d] EXCEPT !.work[n] = "applied"])
    BY <1>2, <1>3, <1>4
  <2> QED BY <1>1, <1>3, <2>1, <2>2, <2>3, WorkerTyped, Zenon
<1> QED BY <1>5, <1>6

\* What every destination has been seen to have, less one.
LEMMA CleanTargetFacts ==
  ASSUME TypeInv
  PROVE  /\ CleanTarget \in -1 .. MaxSegment
         /\ CleanTarget # -1 => \A e \in Dst : CleanTarget < mem[e].progress
<1> DEFINE S == { mem[e].progress : e \in Dst }
<1>1. S \in SUBSET Int /\ S # {} /\ S \subseteq -1 .. MaxSegment /\ \A x \in S : -1 <= x
  <2>1. \A e \in Dst : mem[e].progress \in -1 .. MaxSegment
    BY FieldTypes
  <2> QED BY <2>1, LayoutFacts
<1>2. CleanTarget = IF Min(S) > 0 THEN Min(S) - 1 ELSE -1
  BY DEF CleanTarget
<1>3. \A e \in Dst : mem[e].progress \in Int /\ mem[e].progress \in S
  BY FieldTypes
<1> HIDE DEF S
<1>4. PICK least : least = Min(S) /\ least \in S /\ \A x \in S : least <= x
  <2>1. -1 \in Int /\ S \in SUBSET Int /\ S # {} /\ \A x \in S : -1 <= x
    BY <1>1
  <2> QED BY <2>1, MinIsLeast
<1>5. least \in -1 .. MaxSegment /\ CleanTarget = IF least > 0 THEN least - 1 ELSE -1
  BY <1>1, <1>2, <1>4
<1> QED BY <1>3, <1>4, <1>5, CountAssumption

\* What each step of the cleanup does to the worker and to stage.
LEMMA CleanEffect ==
  ASSUME TypeInv, NEW d \in Dst, Clean(d)
  PROVE  LET n == Front(d) IN
         /\ db' = db /\ mem[d].tmp = {} /\ n \in Seg /\ Shaped(mem[d], disk[d])
         /\ \/ /\ mem[d].pc = "authorize" /\ stage' = stage
               /\ \E target \in -1 .. MaxSegment :
                    /\ target # -1 => \A e \in Dst : target < mem[e].progress
                    /\ LET k == [disk[d] EXCEPT !.authorized = IF @ >= target THEN @ ELSE target] IN
                       \/ target = -1 /\ Moves(d, Completed(d, mem[d], n), k)
                       \/ Moves(d, [mem[d] EXCEPT !.target = target, !.pc = "clean_work"], k)
            \/ /\ mem[d].pc = "clean_work" /\ stage' = stage
               /\ \E written \in BOOLEAN :
                    Moves(d, [mem[d] EXCEPT !.pc = "clean_stage"],
                          [disk[d] EXCEPT
                             !.work = [i \in Seg |-> IF i \in disk[d].cleaned + 1 .. mem[d].target
                                                     THEN "none" ELSE @[i]],
                             !.cdc  = [i \in Seg |-> IF i \in disk[d].cleaned + 1 .. mem[d].target
                                                     THEN {} ELSE @[i]],
                             !.cleaned = IF written /\ mem[d].target > @ THEN mem[d].target ELSE @])
            \/ /\ mem[d].pc = "clean_stage"
               /\ stage' \subseteq stage
               /\ \A i \in stage : i \notin stage' => i \in disk[d].stageCleaned + 1 .. mem[d].target
               /\ \E mark \in -1 .. MaxSegment :
                    Moves(d, Completed(d, [mem[d] EXCEPT !.target = -1], n),
                             [disk[d] EXCEPT !.stageCleaned = mark])
<1> DEFINE n == Front(d)
<1>1. disk = [disk EXCEPT ![d] = disk[d]]
  BY DEF TypeInv
<1>2. mem[d].pc \in Cleaning \union {"authorize"} /\ db' = db
  BY DEF Clean, Authorize, CleanWork, CleanStage, Worker, Cleaning
<1>3. n \in Seg /\ Shaped(mem[d], disk[d]) /\ mem[d] \in MemType /\ disk[d] \in DiskType
  BY <1>2, HeadFacts DEF Draining, Cleaning
<1>4. mem[d].tmp = {}
  BY <1>2, <1>3 DEF Shaped, Cleaning
<1>5. /\ disk[d].authorized \in Int /\ disk[d].cleaned \in Int
      /\ disk[d].stageCleaned \in -1 .. MaxSegment /\ mem[d].target \in -1 .. MaxSegment
  BY FieldTypes
<1>6. CASE Authorize(d)
  <2> DEFINE target == IF n = 0 THEN -1 ELSE CleanTarget
             k == [disk[d] EXCEPT !.authorized = IF @ >= target THEN @ ELSE target]
  <2>1. target \in -1 .. MaxSegment /\ (target # -1 => \A e \in Dst : target < mem[e].progress)
    BY CleanTargetFacts, CountAssumption
  <2>2. Max({disk[d].authorized, target}) = IF disk[d].authorized >= target THEN disk[d].authorized ELSE target
    <3>1. target \in Int
      BY <2>1
    <3> HIDE DEF target
    <3> QED BY <1>5, <3>1, MaxOfTwo
  <2>3. disk' = [disk EXCEPT ![d] = k]
    <3>1. disk' = [disk EXCEPT ![d].authorized = Max({@, target})]
      BY <1>6 DEF Authorize
    <3> HIDE DEF target
    <3>2. disk' = [disk EXCEPT ![d] = [disk[d] EXCEPT !.authorized = Max({@, target})]]
      BY <3>1 DEF TypeInv
    <3> QED BY <2>2, <3>2
  <2>4. /\ mem[d].pc = "authorize" /\ stage' = stage
        /\ mem' = [mem EXCEPT ![d] = IF target = -1 THEN Completed(d, mem[d], n)
                                     ELSE [mem[d] EXCEPT !.target = target, !.pc = "clean_work"]]
        /\ UNCHANGED <<layout, produced, paused, calls, due, faults>>
    BY <1>6 DEF Authorize, Worker, env
  <2> HIDE DEF target, k
  <2>5. \/ target = -1 /\ Moves(d, Completed(d, mem[d], n), k)
        \/ Moves(d, [mem[d] EXCEPT !.target = target, !.pc = "clean_work"], k)
    BY <2>3, <2>4 DEF Moves
  <2>6. \/ target = -1 /\ Moves(d, Completed(d, mem[d], n),
                               [disk[d] EXCEPT !.authorized = IF @ >= target THEN @ ELSE target])
        \/ Moves(d, [mem[d] EXCEPT !.target = target, !.pc = "clean_work"],
                    [disk[d] EXCEPT !.authorized = IF @ >= target THEN @ ELSE target])
    BY <2>5 DEF k
  <2> QED BY <1>2, <1>3, <1>4, <2>1, <2>4, <2>6
<1>7. CASE CleanWork(d)
  <2> DEFINE gone == disk[d].cleaned + 1 .. mem[d].target
  <2>1. PICK written \in BOOLEAN :
          /\ IF written THEN UNCHANGED faults ELSE Fault
          /\ disk' = [disk EXCEPT
                  ![d].work    = [i \in Seg |-> IF i \in gone THEN "none" ELSE @[i]],
                  ![d].cdc     = [i \in Seg |-> IF i \in gone THEN {} ELSE @[i]],
                  ![d].cleaned = IF written THEN Max({@, mem[d].target}) ELSE @]
    BY <1>7 DEF CleanWork
  <2> HIDE DEF gone
  <2>2. disk' = [disk EXCEPT ![d] =
                   [disk[d] EXCEPT !.work    = [i \in Seg |-> IF i \in gone THEN "none" ELSE @[i]],
                                   !.cdc     = [i \in Seg |-> IF i \in gone THEN {} ELSE @[i]],
                                   !.cleaned = IF written THEN Max({@, mem[d].target}) ELSE @]]
    BY <1>3, <2>1 DEF TypeInv, DiskType
  <2>3. Max({disk[d].cleaned, mem[d].target})
          = IF mem[d].target > disk[d].cleaned THEN mem[d].target ELSE disk[d].cleaned
    <3>1. disk[d].cleaned \in Int /\ mem[d].target \in Int
      BY <1>5
    <3> QED BY <3>1, MaxOfTwo
  <2>4. disk' = [disk EXCEPT ![d] =
                   [disk[d] EXCEPT !.work    = [i \in Seg |-> IF i \in gone THEN "none" ELSE @[i]],
                                   !.cdc     = [i \in Seg |-> IF i \in gone THEN {} ELSE @[i]],
                                   !.cleaned = IF written /\ mem[d].target > @ THEN mem[d].target ELSE @]]
    BY <2>2, <2>3
  <2>5. mem[d].pc = "clean_work" /\ mem' = [mem EXCEPT ![d] = [mem[d] EXCEPT !.pc = "clean_stage"]]
        /\ UNCHANGED <<layout, produced, paused, calls, due, stage>>
    BY <1>7 DEF CleanWork, Worker, env
  <2>6. Moves(d, [mem[d] EXCEPT !.pc = "clean_stage"],
                 [disk[d] EXCEPT !.work    = [i \in Seg |-> IF i \in gone THEN "none" ELSE @[i]],
                                 !.cdc     = [i \in Seg |-> IF i \in gone THEN {} ELSE @[i]],
                                 !.cleaned = IF written /\ mem[d].target > @ THEN mem[d].target ELSE @])
    BY <2>1, <2>4, <2>5 DEF Moves
  <2> QED BY <1>2, <1>3, <1>4, <2>5, <2>6 DEF gone
<1>8. CASE CleanStage(d)
  <2> DEFINE target == mem[d].target
             mark == IF mem[d].pending[n] = "stage" THEN Max({disk[d].stageCleaned, target})
                                                    ELSE disk[d].stageCleaned
  <2>1. mark \in -1 .. MaxSegment
    <3>1. disk[d].stageCleaned \in Int /\ target \in Int
      BY <1>5
    <3>2. Max({disk[d].stageCleaned, target}) \in {disk[d].stageCleaned, target}
      BY <3>1, MaxOfTwo
    <3> QED BY <1>5, <3>2
  <2>2. disk' = [disk EXCEPT ![d] = [disk[d] EXCEPT !.stageCleaned = mark]]
    BY <1>8 DEF CleanStage, TypeInv
  <2>3. /\ mem[d].pc = "clean_stage"
        /\ mem' = [mem EXCEPT ![d] = Completed(d, [mem[d] EXCEPT !.target = -1], n)]
        /\ stage' = stage \/ stage' = stage \ (disk[d].stageCleaned + 1 .. target)
        /\ UNCHANGED <<layout, produced, paused, calls, due, faults>>
    BY <1>8 DEF CleanStage, Worker, env
  <2> HIDE DEF mark
  <2>4. Moves(d, Completed(d, [mem[d] EXCEPT !.target = -1], n), [disk[d] EXCEPT !.stageCleaned = mark])
    BY <2>2, <2>3 DEF Moves
  <2> QED BY <1>2, <1>3, <1>4, <2>1, <2>3, <2>4
<1> QED BY <1>6, <1>7, <1>8 DEF Clean

\* The cleanup keeps the types.
LEMMA TypeInvClean ==
  ASSUME TypeInv, NEW d \in Dst, Clean(d)
  PROVE  TypeInv'
<1> DEFINE n == Front(d)
<1>1. /\ db' \in [Dst -> DbType] /\ mem[d].tmp = {} /\ n \in Seg /\ Shaped(mem[d], disk[d])
      /\ mem[d] \in MemType /\ disk[d] \in DiskType /\ mem[d].pc \in Cleaning \union {"authorize"}
  BY CleanEffect DEF TypeInv, Cleaning, Shaped
<1>2. Waiting(mem[d]) # {} /\ stage' \subseteq stage
  BY <1>1, CleanEffect DEF Shaped, Draining, Cleaning
<1> HIDE DEF n
<1>3. ASSUME NEW target \in -1 .. MaxSegment
      PROVE  LET k == [disk[d] EXCEPT !.authorized = IF @ >= target THEN @ ELSE target] IN
             /\ Shaped(Completed(d, mem[d], n), k)
             /\ Shaped([mem[d] EXCEPT !.target = target, !.pc = "clean_work"], k)
  <2> DEFINE k == [disk[d] EXCEPT !.authorized = IF @ >= target THEN @ ELSE target]
             m == [mem[d] EXCEPT !.target = target, !.pc = "clean_work"]
  <2>1. k \in DiskType /\ k.work = disk[d].work
    BY <1>1 DEF DiskType
  <2>2. m \in MemType /\ m.inbox = mem[d].inbox /\ m.pending = mem[d].pending /\ m.tmp = {}
        /\ m.pc = "clean_work"
    BY <1>1 DEF MemType, PC
  <2> HIDE DEF k, m
  <2>3. Shaped(mem[d], k)
    BY <1>1, <2>1 DEF Shaped
  <2>4. Shaped(Completed(d, mem[d], n), k) /\ Shaped(m, k)
    BY <1>1, <2>2, <2>3, CompletedShaped, SameQueueShaped DEF Draining, Cleaning
  <2> QED BY <2>4 DEF k, m
<1>4. ASSUME NEW w \in [Seg -> {"none", "copy", "applied"}], NEW c \in [Seg -> SUBSET Txn],
             NEW z \in -1 .. MaxSegment, \A i \in Seg : w[i] # "none" => disk[d].work[i] # "none"
      PROVE  Shaped([mem[d] EXCEPT !.pc = "clean_stage"], [disk[d] EXCEPT !.work = w, !.cdc = c, !.cleaned = z])
  <2> DEFINE k == [disk[d] EXCEPT !.work = w, !.cdc = c, !.cleaned = z]
             m == [mem[d] EXCEPT !.pc = "clean_stage"]
  <2>1. k \in DiskType /\ k.work = w
    BY <1>1 DEF DiskType
  <2>2. m \in MemType /\ m.inbox = mem[d].inbox /\ m.pending = mem[d].pending /\ m.tmp = {}
        /\ m.pc = "clean_stage"
    BY <1>1 DEF MemType, PC
  <2> HIDE DEF k, m
  <2>3. Shaped(mem[d], k)
    BY <1>1, <1>4, <2>1 DEF Shaped
  <2>4. Shaped(m, k)
    BY <1>1, <2>2, <2>3, SameQueueShaped DEF Draining, Cleaning
  <2> QED BY <2>4 DEF k, m
<1>5. ASSUME NEW mark \in -1 .. MaxSegment
      PROVE  Shaped(Completed(d, [mem[d] EXCEPT !.target = -1], n), [disk[d] EXCEPT !.stageCleaned = mark])
  <2> DEFINE k == [disk[d] EXCEPT !.stageCleaned = mark]
             m == [mem[d] EXCEPT !.target = -1]
  <2>1. k \in DiskType /\ k.work = disk[d].work
    BY <1>1 DEF DiskType
  <2>2. m \in MemType /\ m.inbox = mem[d].inbox /\ m.pending = mem[d].pending /\ m.tmp = {}
        /\ m.pc = mem[d].pc
    <3>1. -1 \in -1 .. MaxSegment
      BY CountAssumption
    <3> QED BY <1>1, <3>1 DEF MemType
  <2> HIDE DEF k, m
  <2>3. Shaped(mem[d], k)
    BY <1>1, <2>1 DEF Shaped
  <2>4. Shaped(m, k)
    BY <1>1, <2>2, <2>3, SameQueueShaped DEF Draining, Cleaning
  <2>5. Shaped(Completed(d, m, n), k)
    BY <1>1, <2>2, <2>4, CompletedShaped
  <2> QED BY <2>5 DEF k, m
<1>6. CASE mem[d].pc = "authorize"
  <2>1. PICK target \in -1 .. MaxSegment :
          LET k == [disk[d] EXCEPT !.authorized = IF @ >= target THEN @ ELSE target] IN
          \/ Moves(d, Completed(d, mem[d], n), k)
          \/ Moves(d, [mem[d] EXCEPT !.target = target, !.pc = "clean_work"], k)
    BY <1>6, CleanEffect, Zenon DEF n
  <2> QED BY <1>1, <1>2, <1>3, <2>1, WorkerTyped, Zenon
<1>7. CASE mem[d].pc = "clean_work"
  <2> DEFINE w == [i \in Seg |-> IF i \in disk[d].cleaned + 1 .. mem[d].target
                                 THEN "none" ELSE disk[d].work[i]]
             c == [i \in Seg |-> IF i \in disk[d].cleaned + 1 .. mem[d].target
                                 THEN {} ELSE disk[d].cdc[i]]
  <2>1. PICK written \in BOOLEAN :
          Moves(d, [mem[d] EXCEPT !.pc = "clean_stage"],
                [disk[d] EXCEPT !.work = w, !.cdc = c,
                                !.cleaned = IF written /\ mem[d].target > @ THEN mem[d].target ELSE @])
    BY <1>7, CleanEffect DEF n
  <2>2. /\ w \in [Seg -> {"none", "copy", "applied"}] /\ c \in [Seg -> SUBSET Txn]
        /\ \A i \in Seg : w[i] # "none" => disk[d].work[i] # "none"
    BY FieldTypes
  <2> DEFINE z == IF written /\ mem[d].target > disk[d].cleaned THEN mem[d].target ELSE disk[d].cleaned
  <2>3. z \in -1 .. MaxSegment
    BY FieldTypes
  <2> HIDE DEF w, c, z
  <2>4. Moves(d, [mem[d] EXCEPT !.pc = "clean_stage"], [disk[d] EXCEPT !.work = w, !.cdc = c, !.cleaned = z])
    BY <2>1 DEF z
  <2>5. Shaped([mem[d] EXCEPT !.pc = "clean_stage"], [disk[d] EXCEPT !.work = w, !.cdc = c, !.cleaned = z])
    BY <1>4, <2>2, <2>3
  <2> QED BY <1>1, <1>2, <2>4, <2>5, WorkerTyped
<1>8. CASE mem[d].pc = "clean_stage"
  <2>1. PICK mark \in -1 .. MaxSegment :
          Moves(d, Completed(d, [mem[d] EXCEPT !.target = -1], n), [disk[d] EXCEPT !.stageCleaned = mark])
    BY <1>8, CleanEffect, Zenon DEF n
  <2>2. Shaped(Completed(d, [mem[d] EXCEPT !.target = -1], n), [disk[d] EXCEPT !.stageCleaned = mark])
    BY <1>5
  <2> QED BY <1>1, <1>2, <2>1, <2>2, WorkerTyped
<1> QED BY <1>1, <1>6, <1>7, <1>8 DEF Cleaning

\* Shutdown and the faults of one worker.
LEMMA TypeInvFault ==
  ASSUME TypeInv, NEW d \in Dst, Shutdown(d) \/ StepFails(d) \/ TempDirCleared(d)
  PROVE  TypeInv'
<1>1. Shaped(mem[d], disk[d]) /\ mem[d] \in MemType /\ disk[d] \in DiskType /\ db \in [Dst -> DbType]
      /\ disk = [disk EXCEPT ![d] = disk[d]] /\ mem = [mem EXCEPT ![d] = mem[d]]
  BY DEF TypeInv, Shaped
<1>2. CASE Shutdown(d)
  <2> DEFINE m == [mem[d] EXCEPT !.stop = "asked"]
  <2>1. Dst' = Dst /\ UNCHANGED <<layout, produced, paused, stage, due, faults, disk, db>>
        /\ calls' = calls + 1 /\ calls < layout.calls
    BY <1>2 DEF Shutdown, Dst
  <2>2. m \in MemType /\ m.inbox = mem[d].inbox /\ m.pending = mem[d].pending /\ m.tmp = mem[d].tmp
        /\ m.pc = mem[d].pc
    BY <1>1 DEF MemType
  <2>3. mem' = [mem EXCEPT ![d] = m]
    BY <1>2 DEF Shutdown
  <2> HIDE DEF m
  <2>4. Shaped(m, disk[d])
    <3>1. (mem[d].tmp # {} => mem[d].pc = "replay") /\ (mem[d].pc = "checkpoint" => OwnCheckpoint)
      BY <1>1 DEF Shaped
    <3> QED BY <1>1, <2>2, <3>1, SameQueueShaped
  <2>5. mem' \in [Dst -> MemType] /\ \A e \in Dst : Shaped(mem'[e], disk[e])
    BY <2>2, <2>3, <2>4 DEF TypeInv
  <2>6. calls' \in 0 .. layout.calls
    BY <2>1, LayoutFacts DEF TypeInv
  <2>7. \A e \in Dst : Shaped(mem[e], disk[e])'
    BY <2>1, <2>5 DEF Shaped, OwnCheckpoint, Waiting
  <2> QED BY <2>1, <2>5, <2>6, <2>7 DEF TypeInv
<1>3. CASE StepFails(d)
  <2>1. Moves(d, Rest(mem[d]), disk[d]) /\ stage' \subseteq stage /\ db' \in [Dst -> DbType]
    BY <1>1, <1>3 DEF StepFails, Moves, env, Fault
  <2>2. Shaped(Rest(mem[d]), disk[d])
    BY <1>1, RestShaped
  <2> QED BY <2>1, <2>2, WorkerTyped
<1>4. CASE TempDirCleared(d)
  <2> DEFINE k == [disk[d] EXCEPT !.init = FALSE, !.commit = 0, !.authorized = -1, !.stageCleaned = -1]
  <2>1. k \in DiskType /\ k.work = disk[d].work
    <3>1. -1 \in -1 .. MaxSegment
      BY CountAssumption
    <3> QED BY <1>1, <3>1 DEF DiskType
  <2>2. disk' = [disk EXCEPT ![d] = k]
    BY <1>1, <1>4 DEF TempDirCleared, DiskType, TypeInv
  <2> HIDE DEF k
  <2>3. Moves(d, mem[d], k) /\ stage' \subseteq stage /\ db' \in [Dst -> DbType]
    BY <1>1, <1>4, <2>2 DEF TempDirCleared, Moves, env, Fault
  <2>4. Shaped(mem[d], k)
    BY <1>1, <2>1 DEF Shaped
  <2> QED BY <2>3, <2>4, WorkerTyped
<1> QED BY <1>2, <1>3, <1>4

\* Every step keeps the types.
LEMMA TypeInvStep ==
  ASSUME TypeInv, [Next]_vars
  PROVE  TypeInv'
<1>1. CASE UNCHANGED vars
  <2>1. UNCHANGED <<layout, produced, paused, calls, stage, due, faults, mem, disk, db>>
    BY <1>1 DEF vars, env
  <2>2. Dst' = Dst /\ \A d \in Dst : Shaped(mem[d], disk[d])'
    BY <2>1 DEF Dst, Shaped, OwnCheckpoint, Waiting, TypeInv
  <2> QED BY <2>1, <2>2 DEF TypeInv
<1>2. CASE \E d \in Dst : Step(d) \/ Shutdown(d) \/ StepFails(d) \/ CheckpointFails(d) \/ TempDirCleared(d)
  <2>1. PICK d \in Dst : Step(d) \/ Shutdown(d) \/ StepFails(d) \/ CheckpointFails(d) \/ TempDirCleared(d)
    BY <1>2
  <2>2. CASE Step(d)
    BY <2>2, TypeInvLoop, TypeInvBoot, TypeInvProcess, TypeInvReplay, TypeInvApply, TypeInvRecord,
       TypeInvClean, Zenon DEF Step
  <2> QED BY <2>1, <2>2, TypeInvRecord, TypeInvFault, Zenon
<1>3. CASE ShipSegment \/ Notify \/ Open \/ PauseSync \/ ResumeSync \/ Crash
  BY <1>3, TypeInvEnvironment
<1> QED BY <1>1, <1>2, <1>3 DEF Next

\* The inductive type invariant holds in every state.
LEMMA TypesHold == Spec => []TypeInv
<1>1. Init => TypeInv
  BY TypeInvInit
<1>2. TypeInv /\ [Next]_vars => TypeInv'
  BY TypeInvStep
<1> QED BY <1>1, <1>2, PTL DEF Spec

\* Every state of the consolidator is well-typed (TypeOK), for any number of segments,
\* transactions, destinations and faults.
THEOREM ConsolidatorTyped == Spec => []TypeOK
BY TypesHold, TypeInvGivesTypeOK, PTL

--------------------------------------------------------------------------------
(* Delivery                                                                    *)

\* What a step leaves alone that decides whether a worker is through with a segment.
Keeps(d) ==
  /\ layout' = layout
  /\ db'[d].ck = db[d].ck /\ \A n \in Seg : Delivered(d, n)' = Delivered(d, n)
  /\ disk'[d].authorized = disk[d].authorized /\ disk'[d].cleaned = disk[d].cleaned
  /\ disk'[d].cdc = disk[d].cdc /\ disk'[d].resume = disk[d].resume
  /\ \A n \in Seg : \/ disk'[d].work[n] = disk[d].work[n]
                    \/ disk[d].work[n] # "applied" /\ disk'[d].work[n] = "copy"

\* Nothing that is still needed leaves stage, and what is new is there.
Stays ==
  /\ \A n \in Seg : n < produced' => n < produced \/ n \in stage'
  /\ \A n \in Seg : n \in stage => n \in stage' \/ \A e \in Dst : Through(e, n)

\* The workers stay through with what they were through with.
Still == \A e \in Dst, n \in Seg : Through(e, n) => Through(e, n)'

\* What only depends on the layout.
LEMMA LayoutKept ==
  ASSUME layout' = layout
  PROVE  /\ Dst' = Dst /\ (SqlDevice' <=> SqlDevice) /\ (OwnCheckpoint' <=> OwnCheckpoint)
         /\ \A n \in Seg : Wanted(n)' = Wanted(n)
BY DEF Dst, SqlDevice, OwnCheckpoint, Wanted

\* A step of the kind Keeps(d) changes nothing about what the worker is through with.
LEMMA KeepsFacts ==
  ASSUME NEW d, Keeps(d)
  PROVE  \A n \in Seg : /\ Owed(d, n)' = Owed(d, n)
                        /\ Covered(d, n)' <=> Covered(d, n)
                        /\ Passed(d, n)' <=> Passed(d, n)
                        /\ Through(d, n)' <=> Through(d, n)
                        /\ ToReplay(d, n)' = ToReplay(d, n)
<1> SUFFICES ASSUME NEW n \in Seg
             PROVE  /\ Owed(d, n)' = Owed(d, n)
                    /\ Covered(d, n)' <=> Covered(d, n)
                    /\ Passed(d, n)' <=> Passed(d, n)
                    /\ Through(d, n)' <=> Through(d, n)
                    /\ ToReplay(d, n)' = ToReplay(d, n)
  OBVIOUS
<1>1. layout' = layout /\ Wanted(n)' = Wanted(n) /\ Delivered(d, n)' = Delivered(d, n)
      /\ (OwnCheckpoint' <=> OwnCheckpoint)
  BY LayoutKept DEF Keeps
<1>2. Owed(d, n)' = Owed(d, n)
  BY <1>1 DEF Owed
<1>3. Covered(d, n)' <=> Covered(d, n)
  BY <1>1 DEF Covered, Keeps
<1>4. Passed(d, n)' <=> Passed(d, n)
  BY <1>3 DEF Passed, Keeps
<1>5. Through(d, n)' <=> Through(d, n)
  BY <1>2, <1>4 DEF Through
<1>6. ToReplay(d, n)' = ToReplay(d, n)
  BY DEF ToReplay, ReplicaResume, Committed, Keeps
<1> QED BY <1>2, <1>3, <1>4, <1>5, <1>6

\* A worker that a step does not move keeps everything, as long as the others stay
\* through with what they were through with.
LEMMA OtherWorkerDone ==
  ASSUME TypeInv, NEW e \in Dst, WorkerDone(e), Stays, layout' = layout,
         ~ layout.stageDir /\ ~ paused => ~ paused',
         mem'[e].pc = mem[e].pc, mem'[e].pending = mem[e].pending,
         mem'[e].progress = mem[e].progress, mem'[e].tmp = mem[e].tmp,
         mem'[e].target = mem[e].target, disk'[e] = disk[e], db'[e] = db[e],
         \A d \in Dst, n \in Seg : Through(d, n) => Through(d, n)'
  PROVE  WorkerDone(e)'
<1>1. Keeps(e)
  BY DEF Keeps, Delivered
<1>2. Dst' = Dst /\ (SqlDevice' <=> SqlDevice) /\ (OwnCheckpoint' <=> OwnCheckpoint)
      /\ Waiting(mem[e])' = Waiting(mem[e]) /\ Front(e)' = Front(e)
  BY LayoutKept DEF Waiting, Front
<1>3. \A n \in Seg : /\ Owed(e, n)' = Owed(e, n)
                     /\ Covered(e, n)' <=> Covered(e, n)
                     /\ Passed(e, n)' <=> Passed(e, n)
                     /\ Through(e, n)' <=> Through(e, n)
                     /\ ToReplay(e, n)' = ToReplay(e, n)
  BY <1>1, KeepsFacts
<1>4. ReadDone(e)'
  BY <1>3 DEF WorkerDone, ReadDone, Stays
<1>5. DrainDone(e)'
  BY <1>2, <1>3 DEF WorkerDone, DrainDone
<1>6. RetainedDone(e)'
  BY <1>3 DEF WorkerDone, RetainedDone
<1>7. HeadDone(e)'
  <2>1. mem[e].pc \in Draining => Front(e) \in Seg
    BY HeadFacts
  <2> QED BY <1>2, <1>3, <2>1 DEF WorkerDone, HeadDone, Draining, Handling
<1>8. ProgressDone(e)'
  BY <1>2, <1>3 DEF WorkerDone, ProgressDone
<1>9. TargetDone(e)'
  BY <1>2, <1>3 DEF WorkerDone, TargetDone
<1>10. ReplayDone(e)'
  <2>1. mem[e].pc \in Draining => Front(e) \in Seg
    BY HeadFacts
  <2> QED BY <1>2, <1>3, <2>1 DEF WorkerDone, ReplayDone, Draining
<1>11. CheckpointDone(e)'
  <2>1. db[e].ck.seg \in Seg
    BY FieldTypes
  <2>2. Owed(e, db[e].ck.seg)' = Owed(e, db[e].ck.seg)
    BY <1>1, LayoutKept DEF Owed, Keeps, Delivered, Wanted
  <2> QED BY <1>3, <2>1, <2>2 DEF WorkerDone, CheckpointDone
<1> QED BY <1>4, <1>5, <1>6, <1>7, <1>8, <1>9, <1>10, <1>11 DEF WorkerDone

\* The parts that depend on nothing else.
LEMMA KeptParts ==
  ASSUME TypeInv, NEW d \in Dst, WorkerDone(d), Stays, Keeps(d)
  PROVE  ReadDone(d)' /\ CheckpointDone(d)'
<1>1. (SqlDevice' <=> SqlDevice) /\ (OwnCheckpoint' <=> OwnCheckpoint)
  BY LayoutKept DEF Keeps
<1>2. \A n \in Seg : /\ Owed(d, n)' = Owed(d, n)
                     /\ Passed(d, n)' <=> Passed(d, n)
                     /\ Through(d, n)' <=> Through(d, n)
  BY KeepsFacts
<1>3. ReadDone(d)'
  <2>1. \A n \in Seg : disk[d].work[n] = "copy" => disk'[d].work[n] = "copy"
    BY DEF Keeps
  <2> QED BY <1>2, <2>1 DEF WorkerDone, ReadDone, Stays
<1>4. CheckpointDone(d)'
  <2>1. db[d].ck.seg \in Seg /\ db'[d].ck = db[d].ck
    BY FieldTypes DEF Keeps
  <2>2. Owed(d, db[d].ck.seg)' = Owed(d, db[d].ck.seg)
    <3>1. PICK n \in Seg : n = db[d].ck.seg
      BY <2>1
    <3> QED BY <1>2, <2>1, <3>1, LayoutKept DEF Owed, Delivered, Wanted, Keeps
  <2> QED BY <1>2, <2>1, <2>2 DEF WorkerDone, CheckpointDone
<1> QED BY <1>3, <1>4

\* A worker that goes back to its loop, to its bootstrap or to the next head.
LEMMA SettledDone ==
  ASSUME TypeInv, NEW d \in Dst, WorkerDone(d), Stays, Keeps(d),
         mem'[d].pc \in {"off", "recv", "boot", "boot_local", "head"},
         mem'[d].progress = mem[d].progress \/ mem'[d].progress = -1,
         mem[d].pc = "replay" => mem[d].tmp = {},
         DrainDone(d)', RetainedDone(d)'
  PROVE  WorkerDone(d)'
<1>1. (SqlDevice' <=> SqlDevice) /\ (OwnCheckpoint' <=> OwnCheckpoint)
  BY LayoutKept DEF Keeps
<1>2. \A n \in Seg : /\ Owed(d, n)' = Owed(d, n)
                     /\ Covered(d, n)' <=> Covered(d, n)
                     /\ Passed(d, n)' <=> Passed(d, n)
                     /\ Through(d, n)' <=> Through(d, n)
                     /\ ToReplay(d, n)' = ToReplay(d, n)
  BY KeepsFacts
<1>3. ReadDone(d)' /\ CheckpointDone(d)'
  BY KeptParts
<1>4. HeadDone(d)'
  BY DEF HeadDone, Handling
<1>5. ProgressDone(d)'
  <2>1. \A n \in Seg : ~ (n <= -1)
    BY DEF Seg
  <2>2. \A n \in Seg : n <= mem'[d].progress => n <= mem[d].progress
    BY <2>1
  <2>3. OwnCheckpoint => mem'[d].progress <= db[d].ck.seg
    BY FieldTypes DEF WorkerDone, ProgressDone, Seg
  <2>4. \A n \in Seg : disk'[d].work[n] = "applied" => disk[d].work[n] = "applied"
    BY DEF Keeps
  <2> QED BY <1>1, <1>2, <2>2, <2>3, <2>4 DEF WorkerDone, ProgressDone, Keeps
<1>6. TargetDone(d)'
  BY DEF TargetDone, Cleaning
<1>7. ReplayDone(d)'
  <2>1. ASSUME SqlDevice, NEW n \in Seg
        PROVE  Owed(d, n) \subseteq IF disk[d].cdc[n] # {} THEN disk[d].cdc[n] ELSE ToReplay(d, n)
    BY <2>1 DEF WorkerDone, ReplayDone
  <2> QED BY <1>1, <1>2, <2>1 DEF ReplayDone, Keeps
<1> QED BY <1>3, <1>4, <1>5, <1>6, <1>7 DEF WorkerDone

\* What a flush finds is everything before its last segment that the worker is not
\* through with.
LEMMA FlushFindsAll ==
  ASSUME TypeInv, NEW d \in Dst, WorkerDone(d), NEW m \in MemType,
         \A n \in Seg : m.pending[n] \in {mem[d].pending[n], "stage"},
         NEW p \in Seg, Discovered(d, m.pending)[p] # "no", p < produced,
         NEW i \in Seg, i < p, ~ Through(d, i)
  PROVE  Discovered(d, m.pending)[i] # "no"
<1>1. i < produced
  BY DEF Seg, TypeInv
<1>2. i \in stage \/ disk[d].work[i] = "copy"
  BY <1>1 DEF WorkerDone, ReadDone
<1>3. CASE disk[d].work[i] # "none" \/ m.pending[i] # "no"
  BY <1>3 DEF Discovered, MemType
<1>4. CASE i \in stage /\ layout.stageDir
  BY <1>4 DEF Discovered, ReadableStage
<1>5. CASE i \in stage /\ ~ layout.stageDir
  <2>1. ~ (disk[d].work[p] # "none" \/ mem[d].pending[p] = "work")
    BY <1>5 DEF WorkerDone, RetainedDone
  <2>2. m.pending[p] = "stage" \/ p \in ReadableStage(m.pending)
    <3>1. m.pending[p] \in {"no", "stage", "work"}
      BY DEF MemType
    <3>2. m.pending[p] # "work"
      BY <2>1
    <3> QED BY <2>1, <3>1, <3>2 DEF Discovered
  <2>3. \E h \in Seg : m.pending[h] = "stage" /\ p <= h
    BY <1>5, <2>2 DEF ReadableStage, Seg
  <2>4. \E h \in Seg : m.pending[h] = "stage" /\ i <= h
    BY <2>3 DEF Seg
  <2> QED BY <1>5, <2>4 DEF Discovered, ReadableStage
<1> QED BY <1>2, <1>3, <1>4, <1>5

\* Where the stage directory is not known, nothing new appears in the work directory but
\* what comes after segments the worker is through with.
LEMMA RetainedKept ==
  ASSUME NEW d, RetainedDone(d), layout' = layout,
         ~ layout.stageDir /\ ~ paused => ~ paused',
         \A n \in Seg : Through(d, n) => Through(d, n)',
         ~ layout.stageDir =>
            \A p \in Seg : disk'[d].work[p] # "none" \/ mem'[d].pending[p] = "work" =>
               \/ disk[d].work[p] # "none" \/ mem[d].pending[p] = "work"
               \/ \A i \in Seg : i < p => Through(d, i)
  PROVE  RetainedDone(d)'
BY DEF RetainedDone

\* A drain that goes on with the same segments, or without some the worker is through with.
LEMMA DrainKept ==
  ASSUME NEW d, DrainDone(d), mem[d].pc \in Draining,
         \A n \in Seg : Through(d, n) => Through(d, n)',
         Waiting(mem[d])' \subseteq Waiting(mem[d]),
         \A n \in Waiting(mem[d]) : n \in Waiting(mem[d])' \/ Through(d, n)
  PROVE  DrainDone(d)'
BY DEF DrainDone

\* A flush finds everything the worker is not through with.
LEMMA FlushDone ==
  ASSUME TypeInv, NEW d \in Dst, WorkerDone(d), Keeps(d), Stays,
         produced' = produced, paused' = paused,
         NEW m \in MemType, m.tmp = {}, m.progress = mem[d].progress,
         \A n \in Seg : m.pending[n] \in {mem[d].pending[n], "stage"} /\ (m.pending[n] # "no" => n < produced),
         mem'[d] = Flushed(d, m), mem[d].pc = "replay" => mem[d].tmp = {},
         ~ paused => \A n \in Seg : disk'[d].work[n] = disk[d].work[n]
  PROVE  WorkerDone(d)'
<1>1. /\ mem'[d].pc \in {"off", "recv", "head"}
      /\ mem'[d].pc = "head" => mem'[d].pending = Discovered(d, m.pending)
      /\ \A n \in Seg : mem'[d].pending[n] \in {m.pending[n], Discovered(d, m.pending)[n], "no"}
      /\ mem'[d].progress = m.progress \/ mem'[d].progress = -1
  BY FlushedFacts
<1>2. \A n \in Seg : Through(d, n)' <=> Through(d, n)
  BY KeepsFacts
<1>3. DrainDone(d)'
  <2>1. SUFFICES ASSUME mem'[d].pc = "head",
                        NEW p \in Seg, mem'[d].pending[p] # "no",
                        NEW i \in Seg, i < p, ~ Through(d, i)
                 PROVE  mem'[d].pending[i] # "no"
    BY <1>1, <1>2 DEF DrainDone, Draining, Waiting
  <2>2. p < produced
    <3>1. m.pending[p] # "no" \/ p \in stage \/ disk[d].work[p] # "none"
      BY <1>1, <2>1, DiscoveredFacts DEF MemType
    <3>2. disk[d].work[p] # "none" \/ p \in stage => p < produced
      BY FieldTypes DEF Shaped, TypeInv, Seg
    <3> QED BY <3>1, <3>2
  <2> QED BY <1>1, <2>1, <2>2, FlushFindsAll
<1>4. RetainedDone(d)'
  <2>1. ASSUME ~ layout.stageDir, NEW p \in Seg,
               disk'[d].work[p] # "none" \/ mem'[d].pending[p] = "work"
        PROVE  disk[d].work[p] # "none" \/ mem[d].pending[p] = "work"
    <3>1. ~ paused
      BY <2>1 DEF WorkerDone, RetainedDone
    <3>2. CASE disk'[d].work[p] # "none"
      BY <3>1, <3>2
    <3>3. CASE mem'[d].pending[p] = "work"
      <4>1. m.pending[p] = "work" \/ Discovered(d, m.pending)[p] = "work"
        BY <1>1, <3>3
      <4>2. Discovered(d, m.pending)[p] = "work" => m.pending[p] = "work" \/ disk[d].work[p] # "none"
        BY DEF Discovered
      <4> QED BY <4>1, <4>2
    <3> QED BY <2>1, <3>2, <3>3
  <2> QED BY <1>2, <2>1, RetainedKept DEF WorkerDone, Keeps
<1> QED BY <1>1, <1>3, <1>4, SettledDone

\* A worker that does not drain, and what it knows beyond that it was told.
LEMMA RestDone ==
  ASSUME TypeInv, NEW d \in Dst, WorkerDone(d), Keeps(d), Stays, produced' = produced,
         layout.stageDir \/ paused' = paused,
         ~ paused => \A n \in Seg : disk'[d].work[n] = disk[d].work[n],
         mem'[d].pc \in {"off", "recv", "boot", "boot_local"},
         mem'[d].progress = mem[d].progress \/ mem'[d].progress = -1,
         \A n \in Seg : mem'[d].pending[n] \in {mem[d].pending[n], "stage", "no"},
         mem[d].pc = "replay" => mem[d].tmp = {}
  PROVE  WorkerDone(d)'
<1>1. \A n \in Seg : Through(d, n)' <=> Through(d, n)
  BY KeepsFacts
<1>2. DrainDone(d)'
  BY DEF DrainDone, Draining
<1>3. RetainedDone(d)'
  <2>1. ASSUME ~ layout.stageDir, NEW p \in Seg,
               disk'[d].work[p] # "none" \/ mem'[d].pending[p] = "work"
        PROVE  disk[d].work[p] # "none" \/ mem[d].pending[p] = "work"
    <3>1. ~ paused
      BY <2>1 DEF WorkerDone, RetainedDone
    <3> QED BY <2>1, <3>1
  <2> QED BY <1>1, <2>1, RetainedKept DEF WorkerDone, Keeps
<1> QED BY <1>2, <1>3, SettledDone

\* A move of one worker, seen from it and from the others.
LEMMA MovesFacts ==
  ASSUME TypeInv, NEW d \in Dst, NEW m, NEW k, Moves(d, m, k)
  PROVE  /\ mem'[d] = m /\ disk'[d] = k /\ layout' = layout /\ produced' = produced /\ paused' = paused
         /\ \A e \in Dst : e # d => mem'[e] = mem[e] /\ disk'[e] = disk[e]
BY DEF Moves, TypeInv

\* A step of one worker keeps the invariant when that worker's part of it holds, the worker
\* stays through with what it was through with, and stage keeps what is needed.
LEMMA OneWorker ==
  ASSUME TypeInv, DeliveryInv, NEW d \in Dst, NEW m, NEW k, Moves(d, m, k), Stays,
         \A e \in Dst : e # d => db'[e] = db[e],
         \A n \in Seg : Through(d, n) => Through(d, n)',
         WorkerDone(d)'
  PROVE  DeliveryInv' /\ Still
<1>1. layout' = layout /\ paused' = paused /\ Dst' = Dst
      /\ \A e \in Dst : e # d => mem'[e] = mem[e] /\ disk'[e] = disk[e]
  BY MovesFacts, LayoutKept
<1>2. \A e \in Dst, n \in Seg : Through(e, n) => Through(e, n)'
  <2>1. ASSUME NEW e \in Dst, e # d, NEW n \in Seg PROVE Through(e, n)' <=> Through(e, n)
    <3>1. Keeps(e)
      BY <1>1, <2>1 DEF Keeps, Delivered
    <3> QED BY <3>1, KeepsFacts
  <2> QED BY <2>1
<1>3. ASSUME NEW e \in Dst PROVE WorkerDone(e)'
  <2>1. CASE e = d
    BY <2>1
  <2>2. CASE e # d
    BY <1>1, <1>2, <2>2, OtherWorkerDone DEF DeliveryInv
  <2> QED BY <2>1, <2>2
<1> QED BY <1>1, <1>2, <1>3 DEF DeliveryInv, Still

\* Where stage and what was produced are left alone, nothing goes away.
LEMMA NothingGone ==
  ASSUME produced' = produced, stage \subseteq stage'
  PROVE  Stays
BY DEF Stays

\* The work copy is marked no more and no less than it was.
LEMMA MirroredFacts ==
  ASSUME TypeInv, NEW d \in Dst, NEW n \in Seg
  PROVE  \/ Mirrored(d, n) = disk[d].work[n]
         \/ disk[d].work[n] # "applied" /\ Mirrored(d, n) = "copy"
BY DEF Mirrored

\* The loop.
LEMMA DeliveryLoop ==
  ASSUME TypeInv, DeliveryInv, NEW d \in Dst, Receive(d) \/ Tick(d) \/ LastFlush(d)
  PROVE  DeliveryInv' /\ Still
<1>1. WorkerDone(d) /\ Shaped(mem[d], disk[d]) /\ mem[d] \in MemType /\ disk[d] \in DiskType
  BY DEF DeliveryInv, TypeInv
<1>2. ASSUME NEW m, NEW k, Shaped(m, k), m.tmp = {}, m.progress = mem[d].progress,
             mem[d].pc = "recv", stage' = stage, db' = db,
             \A n \in Seg : m.pending[n] \in {mem[d].pending[n], "stage"},
             \/ k = disk[d]
             \/ paused /\ \E n \in Seg : k = [disk[d] EXCEPT !.work[n] = Mirrored(d, n)],
             \/ Moves(d, Flushed(d, m), k)
             \/ Moves(d, m, k) /\ m.pc \in {"off", "recv", "boot", "boot_local"}
             \/ Moves(d, [m EXCEPT !.pc = "boot"], k)
      PROVE  DeliveryInv' /\ Still
  <2>1. PICK f : /\ Moves(d, f, k)
                 /\ \/ f = Flushed(d, m)
                    \/ f = m /\ m.pc \in {"off", "recv", "boot", "boot_local"}
                    \/ f = [m EXCEPT !.pc = "boot"]
    BY <1>2, Zenon
  <2>2. mem'[d] = f /\ disk'[d] = k /\ layout' = layout /\ produced' = produced /\ paused' = paused
    BY <2>1, MovesFacts
  <2>3. Keeps(d)
    <3>1. k.authorized = disk[d].authorized /\ k.cleaned = disk[d].cleaned
          /\ k.cdc = disk[d].cdc /\ k.resume = disk[d].resume
      BY <1>1, <1>2 DEF DiskType
    <3>2. \A n \in Seg : \/ k.work[n] = disk[d].work[n]
                         \/ disk[d].work[n] # "applied" /\ k.work[n] = "copy"
      BY <1>1, <1>2, MirroredFacts DEF DiskType
    <3> QED BY <1>2, <2>2, <3>1, <3>2 DEF Keeps, Delivered
  <2>4. Stays
    BY <1>2, <2>2, NothingGone
  <2>5. ~ paused => \A n \in Seg : disk'[d].work[n] = disk[d].work[n]
    BY <1>2, <2>2
  <2>6. m \in MemType /\ \A n \in Seg : m.pending[n] # "no" => n < produced
    BY <1>2 DEF Shaped
  <2>7. WorkerDone(d)'
    <3>1. CASE f = Flushed(d, m)
      BY <1>1, <1>2, <2>2, <2>3, <2>4, <2>5, <2>6, <3>1, FlushDone
    <3>2. CASE f = m /\ m.pc \in {"off", "recv", "boot", "boot_local"}
      <4>1. \A n \in Seg : mem'[d].pending[n] \in {mem[d].pending[n], "stage", "no"}
        BY <1>2, <2>2, <3>2
      <4> QED BY <1>1, <1>2, <2>2, <2>3, <2>4, <2>5, <3>2, <4>1, RestDone
    <3>3. CASE f = [m EXCEPT !.pc = "boot"]
      <4>1. f.pc = "boot" /\ f.progress = m.progress /\ f.pending = m.pending
        BY <2>6, <3>3 DEF MemType
      <4>2. \A n \in Seg : mem'[d].pending[n] \in {mem[d].pending[n], "stage", "no"}
        BY <1>2, <2>2, <4>1
      <4> QED BY <1>1, <1>2, <2>2, <2>3, <2>4, <2>5, <4>1, <4>2, RestDone
    <3> QED BY <2>1, <3>1, <3>2, <3>3
  <2>8. \A n \in Seg : Through(d, n) => Through(d, n)'
    BY <2>3, KeepsFacts
  <2> QED BY <1>2, <2>1, <2>4, <2>7, <2>8, OneWorker
<1>3. CASE Receive(d)
  <2>1. PICK n, m, k :
          /\ n \in Seg
          /\ m = [mem[d] EXCEPT !.inbox = Tail(mem[d].inbox), !.pending[n] = "stage"]
          /\ m.pc = "recv" /\ m.tmp = {} /\ Shaped(m, k) /\ mem[d].pc = "recv"
          /\ k = disk[d] \/ (paused /\ k = [disk[d] EXCEPT !.work[n] = Mirrored(d, n)])
          /\ stage' = stage /\ db' = db
          /\ \/ Moves(d, Flushed(d, m), k)
             \/ Moves(d, m, k)
             \/ Moves(d, [m EXCEPT !.pc = "boot"], k)
    BY <1>3, ReceiveEffect, Zenon
  <2>2. m.progress = mem[d].progress /\ \A i \in Seg : m.pending[i] \in {mem[d].pending[i], "stage"}
    BY <1>1, <2>1 DEF MemType
  <2>3. m.pc \in {"off", "recv", "boot", "boot_local"}
    BY <2>1
  <2>4. \/ k = disk[d]
        \/ paused /\ \E i \in Seg : k = [disk[d] EXCEPT !.work[i] = Mirrored(d, i)]
    BY <2>1
  <2>5. /\ Shaped(m, k) /\ m.tmp = {} /\ mem[d].pc = "recv" /\ stage' = stage /\ db' = db
        /\ \/ Moves(d, Flushed(d, m), k)
           \/ Moves(d, m, k) /\ m.pc \in {"off", "recv", "boot", "boot_local"}
           \/ Moves(d, [m EXCEPT !.pc = "boot"], k)
    BY <2>1, <2>3, Zenon
  <2> QED BY <1>2, <2>2, <2>4, <2>5, Zenon
<1>4. CASE Tick(d)
  <2>1. /\ mem[d].pc = "recv" /\ mem[d].tmp = {} /\ stage' = stage /\ db' = db
        /\ \/ Moves(d, Flushed(d, mem[d]), disk[d])
           \/ Moves(d, [mem[d] EXCEPT !.pc = "boot"], disk[d])
    BY <1>4, TickEffect, Zenon
  <2>2. \A n \in Seg : mem[d].pending[n] \in {mem[d].pending[n], "stage"}
    OBVIOUS
  <2> QED BY <1>1, <1>2, <2>1, <2>2, Zenon
<1>5. CASE LastFlush(d)
  <2>1. PICK h, m :
          /\ h \subseteq Seg
          /\ m.pending = [n \in Seg |-> IF n \in h THEN "stage" ELSE mem[d].pending[n]]
          /\ m.progress = mem[d].progress /\ m.tmp = {} /\ Shaped(m, disk[d])
          /\ mem[d].pc = "recv" /\ stage' = stage /\ db' = db
          /\ \/ Moves(d, Flushed(d, m), disk[d])
             \/ m.pc = "boot" /\ Moves(d, m, disk[d])
             \/ Moves(d, Off, disk[d])
    BY <1>5, LastFlushEffect, Zenon
  <2>2. \A n \in Seg : m.pending[n] \in {mem[d].pending[n], "stage"}
    BY <2>1
  <2>3. CASE Moves(d, Flushed(d, m), disk[d]) \/ (m.pc = "boot" /\ Moves(d, m, disk[d]))
    <3>1. m.pc = "boot" => m.pc \in {"off", "recv", "boot", "boot_local"}
      OBVIOUS
    <3> QED BY <1>2, <2>1, <2>2, <2>3, <3>1, Zenon
  <2>4. CASE Moves(d, Off, disk[d])
    <3>1. mem'[d] = Off /\ disk'[d] = disk[d] /\ layout' = layout /\ produced' = produced /\ paused' = paused
      BY <2>4, MovesFacts
    <3>2. Keeps(d) /\ Stays
      BY <2>1, <3>1, NothingGone DEF Keeps, Delivered
    <3>3. Off.pc = "off" /\ Off.progress = -1 /\ \A n \in Seg : Off.pending[n] = "no"
      BY DEF Off
    <3>4. WorkerDone(d)'
      BY <1>1, <2>1, <3>1, <3>2, <3>3, RestDone
    <3>5. \A n \in Seg : Through(d, n) => Through(d, n)'
      BY <3>2, KeepsFacts
    <3> QED BY <2>1, <2>4, <3>2, <3>4, <3>5, OneWorker
  <2> QED BY <2>1, <2>3, <2>4
<1> QED BY <1>3, <1>4, <1>5

\* What appending to the log of a destination delivers.
LEMMA AppendDelivers ==
  ASSUME TypeInv, NEW d \in Dst, layout' = layout, NEW s, NEW t,
         db'[d].log = Append(db[d].log, [seg |-> s, txns |-> t])
  PROVE  \A n \in Seg : Delivered(d, n)' = Delivered(d, n) \union (IF n = s THEN t ELSE {})
<1>1. db[d].log \in Seq([seg : -1 .. MaxSegment, txns : SUBSET Txn])
  BY FieldTypes
<1>2. PICK len \in Nat : len = Len(db[d].log) /\ DOMAIN db[d].log = 1 .. len
  BY <1>1, LenProperties
<1>3. /\ DOMAIN db'[d].log = 1 .. len + 1
      /\ \A i \in 1 .. len : db'[d].log[i] = db[d].log[i]
      /\ db'[d].log[len + 1] = [seg |-> s, txns |-> t]
  BY <1>1, <1>2
<1>4. ASSUME NEW n \in Seg PROVE Delivered(d, n)' = Delivered(d, n) \union (IF n = s THEN t ELSE {})
  <2>1. \A x : x \in Delivered(d, n)' <=>
          \E i \in 1 .. len + 1 : db'[d].log[i].seg = n /\ x \in db'[d].log[i].txns
    BY <1>3 DEF Delivered
  <2>2. \A x : x \in Delivered(d, n) <=> \E i \in 1 .. len : db[d].log[i].seg = n /\ x \in db[d].log[i].txns
    BY <1>2 DEF Delivered
  <2>3. \A i \in 1 .. len + 1 : i \in 1 .. len \/ i = len + 1
    BY <1>2
  <2>4. \A i \in 1 .. len : i \in 1 .. len + 1
    BY <1>2
  <2>5. len + 1 \in 1 .. len + 1
    BY <1>2
  <2> QED BY <1>3, <2>1, <2>2, <2>3, <2>4, <2>5
<1> QED BY <1>4

\* The bootstrap, and a step that fails.
LEMMA DeliveryBoot ==
  ASSUME TypeInv, DeliveryInv, NEW d \in Dst, Bootstrap(d)
  PROVE  DeliveryInv' /\ Still
<1>1. WorkerDone(d) /\ Shaped(mem[d], disk[d]) /\ mem[d] \in MemType /\ disk[d] \in DiskType
      /\ stage' = stage /\ mem[d].tmp = {}
  BY BootEffect DEF DeliveryInv, TypeInv, Shaped
<1>2. CASE mem[d].pc = "boot"
  <2> DEFINE m == [mem[d] EXCEPT !.pc = "boot_local"]
  <2>1. /\ Moves(d, m, disk[d])
        /\ db' = IF SnapshotCompleted(d) THEN db
                 ELSE [db EXCEPT ![d].log = Append(@, [seg |-> -1, txns |-> {}])]
    BY <1>2, BootEffect
  <2>2. m.pc = "boot_local" /\ m.progress = mem[d].progress /\ m.pending = mem[d].pending
    BY <1>1 DEF MemType
  <2> HIDE DEF m
  <2>3. mem'[d] = m /\ disk'[d] = disk[d] /\ layout' = layout /\ produced' = produced /\ paused' = paused
    BY <2>1, MovesFacts
  <2>4. db'[d].ck = db[d].ck /\ \A n \in Seg : Delivered(d, n)' = Delivered(d, n)
    <3>1. CASE db' = db
      BY <3>1 DEF Delivered
    <3>2. CASE db' = [db EXCEPT ![d].log = Append(@, [seg |-> -1, txns |-> {}])]
      <4>1. db[d] \in DbType /\ db \in [Dst -> DbType]
        BY FieldTypes DEF TypeInv
      <4>2. db'[d].log = Append(db[d].log, [seg |-> -1, txns |-> {}]) /\ db'[d].ck = db[d].ck
        BY <3>2, <4>1 DEF DbType
      <4>4. \A n \in Seg : Delivered(d, n)' = Delivered(d, n) \union (IF n = -1 THEN {} ELSE {})
        BY <2>3, <4>2, AppendDelivers
      <4> QED BY <4>2, <4>4
    <3> QED BY <2>1, <3>1, <3>2
  <2>5. Keeps(d) /\ Stays
    BY <1>1, <2>3, <2>4, NothingGone DEF Keeps
  <2>6. WorkerDone(d)'
    BY <1>1, <2>2, <2>3, <2>5, RestDone
  <2>7. \A e \in Dst : e # d => db'[e] = db[e]
    BY <2>1 DEF TypeInv
  <2>8. \A n \in Seg : Through(d, n) => Through(d, n)'
    BY <2>5, KeepsFacts
  <2> QED BY <2>1, <2>5, <2>6, <2>7, <2>8, OneWorker
<1>3. CASE mem[d].pc # "boot"
  <2> DEFINE k == [disk[d] EXCEPT !.init = TRUE]
  <2>1. Moves(d, Flushed(d, mem[d]), k) /\ db' = db
    BY <1>3, BootEffect, Zenon
  <2>2. /\ k.authorized = disk[d].authorized /\ k.cleaned = disk[d].cleaned
        /\ k.cdc = disk[d].cdc /\ k.resume = disk[d].resume /\ k.work = disk[d].work
    BY <1>1 DEF DiskType
  <2> HIDE DEF k
  <2>3. mem'[d] = Flushed(d, mem[d]) /\ disk'[d] = k /\ layout' = layout /\ produced' = produced
        /\ paused' = paused
    BY <2>1, MovesFacts
  <2>4. Keeps(d) /\ Stays
    BY <1>1, <2>1, <2>2, <2>3, NothingGone DEF Keeps, Delivered
  <2>5. \A n \in Seg : mem[d].pending[n] \in {mem[d].pending[n], "stage"}
                       /\ (mem[d].pending[n] # "no" => n < produced)
    BY <1>1 DEF Shaped
  <2>6. WorkerDone(d)'
    BY <1>1, <2>2, <2>3, <2>4, <2>5, FlushDone
  <2>7. \A n \in Seg : Through(d, n) => Through(d, n)'
    BY <2>4, KeepsFacts
  <2> QED BY <2>1, <2>4, <2>6, <2>7, OneWorker
<1> QED BY <1>2, <1>3

\* A step that fails gives up the drain; its head is found again.
LEMMA DeliveryStepFails ==
  ASSUME TypeInv, DeliveryInv, ~ ReplayMayStop, NEW d \in Dst, StepFails(d)
  PROVE  DeliveryInv' /\ Still
<1>1. WorkerDone(d) /\ Shaped(mem[d], disk[d]) /\ mem[d] \in MemType
      /\ disk = [disk EXCEPT ![d] = disk[d]]
  BY DEF DeliveryInv, TypeInv, Shaped
<1>2. Moves(d, Rest(mem[d]), disk[d]) /\ stage' = stage /\ db' = db /\ mem[d].tmp = {}
  BY <1>1 DEF StepFails, Moves, env, Fault, MayStop
<1>3. mem'[d] = Rest(mem[d]) /\ disk'[d] = disk[d] /\ layout' = layout /\ produced' = produced
      /\ paused' = paused
  BY <1>2, MovesFacts
<1>4. Keeps(d) /\ Stays
  BY <1>2, <1>3, NothingGone DEF Keeps, Delivered
<1>5. /\ Rest(mem[d]).pc \in {"off", "recv"}
      /\ Rest(mem[d]).progress = mem[d].progress \/ Rest(mem[d]).progress = -1
      /\ \A n \in Seg : Rest(mem[d]).pending[n] = mem[d].pending[n] \/ Rest(mem[d]).pending[n] = "no"
  BY <1>1, RestFacts
<1>6. WorkerDone(d)'
  BY <1>1, <1>2, <1>3, <1>4, <1>5, RestDone
<1>7. \A n \in Seg : Through(d, n) => Through(d, n)'
  BY <1>4, KeepsFacts
<1> QED BY <1>2, <1>4, <1>6, <1>7, OneWorker

\* Whatever comes before the head, the worker is through with.
LEMMA BeforeFront ==
  ASSUME TypeInv, NEW d \in Dst, DrainDone(d), mem[d].pc \in Draining
  PROVE  \A i \in Seg : i < Front(d) => Through(d, i)
<1>1. /\ Front(d) \in Waiting(mem[d]) /\ Front(d) \in Seg
      /\ \A n \in Waiting(mem[d]) : Front(d) <= n
  BY HeadFacts
<1> QED BY <1>1 DEF DrainDone, Seg

\* A step within the processing of the head.
LEMMA QueueKept ==
  ASSUME TypeInv, NEW d \in Dst, WorkerDone(d), mem[d].pc \in Draining,
         mem'[d].pending = mem[d].pending, layout' = layout, paused' = paused,
         \A n \in Seg : Through(d, n) => Through(d, n)',
         \A n \in Seg : disk'[d].work[n] # "none" => disk[d].work[n] # "none" \/ n = Front(d)
  PROVE  /\ Waiting(mem[d])' = Waiting(mem[d]) /\ Front(d)' = Front(d)
         /\ DrainDone(d)' /\ RetainedDone(d)'
<1>1. Waiting(mem[d])' = Waiting(mem[d]) /\ Front(d)' = Front(d)
  BY DEF Waiting, Front
<1>2. DrainDone(d)'
  BY <1>1, DrainKept DEF WorkerDone
<1>3. \A i \in Seg : i < Front(d) => Through(d, i)
  BY BeforeFront DEF WorkerDone
<1>4. RetainedDone(d)'
  BY <1>3, RetainedKept DEF WorkerDone
<1> QED BY <1>1, <1>2, <1>4

\* The head is done, and the drain goes on or ends.
LEMMA CompletedDone ==
  ASSUME TypeInv, NEW d \in Dst, WorkerDone(d), Keeps(d), Stays,
         mem[d].pc \in Draining, produced' = produced, paused' = paused,
         disk'[d].work = disk[d].work,
         NEW m \in MemType, m.tmp = {}, m.progress = mem[d].progress, m.pending = mem[d].pending,
         NEW n \in Seg, Through(d, n), mem'[d] = Completed(d, m, n), mem[d].tmp = {}
  PROVE  WorkerDone(d)'
<1>1. PICK c : c = Completed(d, m, n)
  OBVIOUS
<1>2. Finished(c, m, n)
  BY <1>1, CompletedFacts
<1>3. mem'[d] = c
  BY <1>1
<1>4. \A i \in Seg : Through(d, i)' <=> Through(d, i)
  BY KeepsFacts
<1>5. DrainDone(d)'
  <2>1. CASE c.pc = "head"
    <3>1. Waiting(mem[d])' \subseteq Waiting(mem[d])
          /\ \A i \in Waiting(mem[d]) : i \in Waiting(mem[d])' \/ i = n
      BY <1>2, <1>3, <2>1 DEF Waiting, Finished
    <3> QED BY <1>4, <3>1, DrainKept DEF WorkerDone
  <2>2. CASE c.pc # "head"
    BY <1>2, <1>3, <2>2 DEF DrainDone, Draining, Finished
  <2> QED BY <2>1, <2>2
<1>6. RetainedDone(d)'
  <2>1. \A p \in Seg : disk'[d].work[p] # "none" \/ mem'[d].pending[p] = "work" =>
                         disk[d].work[p] # "none" \/ mem[d].pending[p] = "work"
    BY <1>2, <1>3 DEF Finished
  <2> QED BY <1>4, <2>1, RetainedKept DEF WorkerDone, Keeps
<1>7. mem'[d].pc \in {"off", "recv", "boot", "boot_local", "head"}
      /\ (mem'[d].progress = mem[d].progress \/ mem'[d].progress = -1)
  BY <1>2, <1>3 DEF Finished
<1> QED BY <1>5, <1>6, <1>7, SettledDone

\* A step within the processing of the head that changes nothing that decides what the
\* worker is through with.
LEMMA HeadStepDone ==
  ASSUME TypeInv, NEW d \in Dst, WorkerDone(d), Keeps(d), Stays, mem[d].pc \in Draining,
         mem'[d].pending = mem[d].pending, paused' = paused,
         \A n \in Seg : disk'[d].work[n] # "none" => disk[d].work[n] # "none" \/ n = Front(d),
         HeadDone(d)', ProgressDone(d)', TargetDone(d)',
         mem[d].pc # "replay", mem'[d].pc = "replay" => mem'[d].tmp = {},
         SqlDevice /\ mem'[d].pc = "apply" => Owed(d, Front(d)) \subseteq disk[d].cdc[Front(d)]
  PROVE  WorkerDone(d)'
<1>1. layout' = layout /\ (SqlDevice' <=> SqlDevice)
  BY LayoutKept DEF Keeps
<1>2. \A n \in Seg : /\ Owed(d, n)' = Owed(d, n)
                     /\ Through(d, n)' <=> Through(d, n)
                     /\ ToReplay(d, n)' = ToReplay(d, n)
  BY KeepsFacts
<1>3. Front(d)' = Front(d) /\ DrainDone(d)' /\ RetainedDone(d)'
  BY <1>1, <1>2, QueueKept
<1>4. ReadDone(d)' /\ CheckpointDone(d)'
  BY KeptParts
<1>5. ReplayDone(d)'
  <2>1. ASSUME SqlDevice, NEW n \in Seg
        PROVE  Owed(d, n) \subseteq IF disk[d].cdc[n] # {} THEN disk[d].cdc[n] ELSE ToReplay(d, n)
    BY <2>1 DEF WorkerDone, ReplayDone
  <2>2. Front(d) \in Seg /\ disk'[d].cdc = disk[d].cdc
    BY HeadFacts DEF Keeps
  <2> QED BY <1>1, <1>2, <1>3, <2>1, <2>2 DEF ReplayDone
<1> QED BY <1>3, <1>4, <1>5 DEF WorkerDone

\* Taking up the head.
LEMMA DeliveryProcess ==
  ASSUME TypeInv, DeliveryInv, NEW d \in Dst, ProcessHead(d)
  PROVE  DeliveryInv' /\ Still
<1>1. PICK n, copy, k :
         /\ n = Front(d) /\ copy = Mirrored(d, n) /\ k = [disk[d] EXCEPT !.work[n] = copy]
         /\ mem[d].pc = "head" /\ mem[d].tmp = {} /\ stage' = stage /\ db' = db
         /\ \/ /\ n <= disk[d].authorized \/ n <= disk[d].cleaned
               /\ Moves(d, Completed(d, mem[d], n), disk[d])
            \/ copy = "none" /\ Moves(d, Rest(mem[d]), k)
            \/ /\ copy = "applied" \/ (~ SqlDevice /\ Covered(d, n))
               /\ Moves(d, Recorded(mem[d], n), k)
            \/ /\ n > disk[d].authorized /\ n > disk[d].cleaned /\ copy = "copy"
               /\ SqlDevice \/ ~ Covered(d, n)
               /\ Moves(d, [mem[d] EXCEPT !.pc = IF SqlDevice THEN "replay" ELSE "apply"], k)
  BY ProcessEffect, Zenon
<1>2. /\ WorkerDone(d) /\ mem[d] \in MemType /\ disk[d] \in DiskType /\ mem[d].pc \in Draining
      /\ n \in Seg /\ Shaped(mem[d], disk[d])
  BY <1>1, HeadFacts DEF DeliveryInv, Draining
<1>3. PICK m, j : Moves(d, m, j) /\ mem'[d] = m /\ disk'[d] = j /\ layout' = layout
                  /\ produced' = produced /\ paused' = paused /\ (j = disk[d] \/ j = k)
  BY <1>1, MovesFacts
<1>4. /\ copy = disk[d].work[n] \/ (disk[d].work[n] # "applied" /\ copy = "copy")
      /\ k.authorized = disk[d].authorized /\ k.cleaned = disk[d].cleaned
      /\ k.cdc = disk[d].cdc /\ k.resume = disk[d].resume
      /\ k.work[n] = copy /\ \A i \in Seg : i # n => k.work[i] = disk[d].work[i]
  BY <1>1, <1>2, MirroredFacts DEF DiskType
<1>5. Keeps(d) /\ Stays
  <2>1. \A i \in Seg : \/ j.work[i] = disk[d].work[i]
                       \/ disk[d].work[i] # "applied" /\ j.work[i] = "copy"
    BY <1>3, <1>4
  <2>2. j.authorized = disk[d].authorized /\ j.cleaned = disk[d].cleaned
        /\ j.cdc = disk[d].cdc /\ j.resume = disk[d].resume
    BY <1>3, <1>4
  <2>3. db'[d].ck = db[d].ck /\ \A i \in Seg : Delivered(d, i)' = Delivered(d, i)
    BY <1>1 DEF Delivered
  <2> QED BY <1>1, <1>3, <2>1, <2>2, <2>3, NothingGone DEF Keeps
<1>6. \A i \in Seg : /\ Owed(d, i)' = Owed(d, i)
                     /\ Covered(d, i)' <=> Covered(d, i)
                     /\ Passed(d, i)' <=> Passed(d, i)
                     /\ Through(d, i)' <=> Through(d, i)
  BY <1>5, KeepsFacts
<1>7. Passed(d, n) => Through(d, n)
  BY <1>2 DEF WorkerDone, ReadDone, Through
<1>8. /\ layout' = layout /\ (SqlDevice' <=> SqlDevice) /\ (OwnCheckpoint' <=> OwnCheckpoint)
  BY <1>3, LayoutKept
<1>9. \A i \in Seg : disk'[d].work[i] # "none" => disk[d].work[i] # "none" \/ i = n
  BY <1>3, <1>4
<1>10. WorkerDone(d)'
  <2>1. CASE (n <= disk[d].authorized \/ n <= disk[d].cleaned)
             /\ Moves(d, Completed(d, mem[d], n), disk[d])
    <3>1. mem'[d] = Completed(d, mem[d], n) /\ disk'[d] = disk[d]
      BY <2>1, MovesFacts
    <3>2. Through(d, n)
      BY <1>7, <2>1 DEF Passed
    <3> QED BY <1>1, <1>2, <1>3, <1>5, <3>1, <3>2, CompletedDone
  <2>2. CASE copy = "none" /\ Moves(d, Rest(mem[d]), k)
    <3>1. mem'[d] = Rest(mem[d]) /\ disk'[d] = k
      BY <2>2, MovesFacts
    <3>2. /\ Rest(mem[d]).pc \in {"off", "recv"}
          /\ Rest(mem[d]).progress = mem[d].progress \/ Rest(mem[d]).progress = -1
          /\ \A i \in Seg : Rest(mem[d]).pending[i] = mem[d].pending[i] \/ Rest(mem[d]).pending[i] = "no"
      BY <1>2, RestFacts
    <3>3. \A i \in Seg : k.work[i] = disk[d].work[i]
      BY <1>4, <2>2
    <3>4. mem'[d].pc \in {"off", "recv", "boot", "boot_local"}
          /\ (mem'[d].progress = mem[d].progress \/ mem'[d].progress = -1)
          /\ \A i \in Seg : mem'[d].pending[i] \in {mem[d].pending[i], "stage", "no"}
      BY <3>1, <3>2
    <3>5. \A i \in Seg : disk'[d].work[i] = disk[d].work[i]
      BY <3>1, <3>3
    <3> QED BY <1>1, <1>2, <1>3, <1>5, <3>4, <3>5, RestDone
  <2>3. CASE (copy = "applied" \/ (~ SqlDevice /\ Covered(d, n))) /\ Moves(d, Recorded(mem[d], n), k)
    <3>1. mem'[d] = Recorded(mem[d], n) /\ disk'[d] = k
      BY <2>3, MovesFacts
    <3>2. mem'[d].pending = mem[d].pending /\ mem'[d].pc = "authorize" /\ mem'[d].progress = n
      BY <1>2, <3>1, RecordedFacts
    <3>3. Through(d, n)
      BY <1>4, <1>7, <2>3 DEF Passed
    <3>4. HeadDone(d)'
      <4>1. Front(d)' = n
        BY <1>1, <3>2 DEF Front, Waiting
      <4> QED BY <1>2, <1>6, <3>2, <3>3, <4>1 DEF HeadDone, Handling
    <3>5. ProgressDone(d)'
      <4>1. \A i \in Seg : i <= n => Through(d, i)'
        <5>1. \A i \in Seg : i <= n => i < n \/ i = n
          BY <1>2 DEF Seg
        <5> QED BY <1>1, <1>2, <1>6, <3>3, <5>1, BeforeFront DEF WorkerDone
      <4>2. OwnCheckpoint => n <= db[d].ck.seg
        <5>1. copy = "applied" => disk[d].work[n] = "applied"
          BY <1>4
        <5>2. db[d].ck.seg \in Int /\ n \in Int
          BY <1>2, FieldTypes DEF Seg
        <5> QED BY <1>2, <2>3, <5>1, <5>2 DEF WorkerDone, ProgressDone, Covered
      <4>3. \A i \in Seg : disk'[d].work[i] = "applied" => disk[d].work[i] = "applied"
        BY <1>5 DEF Keeps
      <4> QED BY <1>1, <1>2, <1>3, <1>4, <1>6, <1>8, <3>1, <3>2, <4>1, <4>2, <4>3
          DEF WorkerDone, ProgressDone
    <3>6. TargetDone(d)'
      BY <3>2 DEF TargetDone, Cleaning
    <3> QED BY <1>1, <1>2, <1>3, <1>5, <1>9, <3>2, <3>4, <3>5, <3>6, HeadStepDone
  <2>4. CASE /\ n > disk[d].authorized /\ n > disk[d].cleaned /\ copy = "copy"
             /\ SqlDevice \/ ~ Covered(d, n)
             /\ Moves(d, [mem[d] EXCEPT !.pc = IF SqlDevice THEN "replay" ELSE "apply"], k)
    <3>1. mem'[d] = [mem[d] EXCEPT !.pc = IF SqlDevice THEN "replay" ELSE "apply"] /\ disk'[d] = k
      BY <2>4, MovesFacts
    <3>2. mem'[d].pending = mem[d].pending /\ mem'[d].pc = (IF SqlDevice THEN "replay" ELSE "apply")
          /\ mem'[d].progress = mem[d].progress /\ mem'[d].tmp = {}
      BY <1>1, <1>2, <3>1 DEF MemType
    <3>3. Front(d)' = n
      BY <1>1, <3>2 DEF Front, Waiting
    <3>4. HeadDone(d)'
      <4>1. disk'[d].work[n] = "copy" /\ n > disk'[d].authorized /\ n > disk'[d].cleaned
        BY <1>4, <2>4, <3>1
      <4>2. ~ SqlDevice' => ~ Covered(d, n)'
        BY <1>2, <1>6, <1>8, <2>4
      <4>3. mem'[d].pc \notin {"checkpoint", "local", "mark", "authorize", "clean_work", "clean_stage"}
        BY <3>2
      <4> QED BY <1>2, <3>3, <4>1, <4>2, <4>3 DEF HeadDone
    <3>5. ProgressDone(d)'
      <4>1. \A i \in Seg : disk'[d].work[i] = "applied" => disk[d].work[i] = "applied"
        BY <1>5 DEF Keeps
      <4> QED BY <1>1, <1>2, <1>3, <1>4, <1>6, <1>8, <3>1, <3>2, <4>1
          DEF WorkerDone, ProgressDone
    <3>6. TargetDone(d)'
      BY <3>2 DEF TargetDone, Cleaning
    <3> QED BY <1>1, <1>2, <1>3, <1>5, <1>9, <3>2, <3>4, <3>5, <3>6, HeadStepDone
  <2> QED BY <1>1, <2>1, <2>2, <2>3, <2>4
<1> QED BY <1>1, <1>3, <1>5, <1>6, <1>10, OneWorker

\* A step that only touches the replica, the change logs and what the state database says
\* of itself decides nothing about what was delivered or passed.
LEMMA ReplicaStepFacts ==
  ASSUME NEW d, layout' = layout, db' = db,
         disk'[d].authorized = disk[d].authorized, disk'[d].cleaned = disk[d].cleaned,
         disk'[d].work = disk[d].work
  PROVE  \A i \in Seg : /\ Owed(d, i)' = Owed(d, i)
                        /\ Covered(d, i)' <=> Covered(d, i)
                        /\ Passed(d, i)' <=> Passed(d, i)
                        /\ Through(d, i)' <=> Through(d, i)
<1> SUFFICES ASSUME NEW i \in Seg
             PROVE  /\ Owed(d, i)' = Owed(d, i)
                    /\ Covered(d, i)' <=> Covered(d, i)
                    /\ Passed(d, i)' <=> Passed(d, i)
                    /\ Through(d, i)' <=> Through(d, i)
  OBVIOUS
<1>1. Owed(d, i)' = Owed(d, i)
  BY LayoutKept DEF Owed, Delivered
<1>2. Covered(d, i)' <=> Covered(d, i)
  BY LayoutKept DEF Covered
<1>3. Passed(d, i)' <=> Passed(d, i)
  BY <1>2 DEF Passed
<1> QED BY <1>1, <1>2, <1>3 DEF Through

\* What the replay of a transaction, and the end of the replay, do to the worker.
LEMMA ReplayMoves ==
  ASSUME TypeInv, NEW d \in Dst, Replay(d)
  PROVE  \E n, m, k :
         /\ n = Front(d)
         /\ Moves(d, m, k)
         /\ m.pending = mem[d].pending /\ m.progress = mem[d].progress
         /\ k.commit = disk[d].commit /\ k.work = disk[d].work
         /\ k.authorized = disk[d].authorized /\ k.cleaned = disk[d].cleaned
         /\ \A i \in Seg : i # n => k.cdc[i] = disk[d].cdc[i]
         /\ \/ /\ disk[d].cdc[n] = {} /\ m.pc = "replay" /\ k.cdc[n] = {}
               /\ \E i \in ToReplay(d, n) :
                    /\ \A j \in ToReplay(d, n) : i <= j
                    /\ k.resume = <<n, i>> /\ m.tmp = mem[d].tmp \union {i}
            \/ /\ disk[d].cdc[n] = {} => ToReplay(d, n) = {} /\ k.cdc[n] = mem[d].tmp
               /\ disk[d].cdc[n] # {} => k.cdc[n] = disk[d].cdc[n]
               /\ k.resume = disk[d].resume /\ m.pc = "apply" /\ m.tmp = {}
<1>0. PICK n : n = Front(d)
  OBVIOUS
<1>1. mem[d] \in MemType /\ disk[d] \in DiskType /\ n \in Seg /\ mem[d].pc = "replay"
  BY <1>0, ReplayEffect, HeadFacts DEF Draining
<1>2. CASE /\ disk[d].cdc[n] = {}
           /\ \E i \in ToReplay(d, n) :
                /\ \A j \in ToReplay(d, n) : i <= j
                /\ Moves(d, [mem[d] EXCEPT !.tmp = @ \union {i}], [disk[d] EXCEPT !.resume = <<n, i>>])
  <2>1. PICK i \in ToReplay(d, n) :
           /\ \A j \in ToReplay(d, n) : i <= j
           /\ Moves(d, [mem[d] EXCEPT !.tmp = @ \union {i}], [disk[d] EXCEPT !.resume = <<n, i>>])
    BY <1>2
  <2> DEFINE m == [mem[d] EXCEPT !.tmp = @ \union {i}]
             k == [disk[d] EXCEPT !.resume = <<n, i>>]
  <2>2. m.pending = mem[d].pending /\ m.progress = mem[d].progress /\ m.pc = "replay"
        /\ m.tmp = mem[d].tmp \union {i}
    BY <1>1 DEF MemType
  <2>3. /\ k.work = disk[d].work /\ k.authorized = disk[d].authorized /\ k.cleaned = disk[d].cleaned
        /\ k.cdc = disk[d].cdc /\ k.resume = <<n, i>> /\ k.commit = disk[d].commit
    BY <1>1 DEF DiskType
  <2>4. Moves(d, m, k)
    BY <2>1
  <2> HIDE DEF m, k
  <2> QED BY <1>0, <1>2, <2>1, <2>2, <2>3, <2>4
<1>3. CASE /\ disk[d].cdc[n] = {} => ToReplay(d, n) = {}
           /\ Moves(d, [mem[d] EXCEPT !.pc = "apply", !.tmp = {}],
                       IF disk[d].cdc[n] = {} THEN [disk[d] EXCEPT !.cdc[n] = mem[d].tmp] ELSE disk[d])
  <2> DEFINE m == [mem[d] EXCEPT !.pc = "apply", !.tmp = {}]
             k == IF disk[d].cdc[n] = {} THEN [disk[d] EXCEPT !.cdc[n] = mem[d].tmp] ELSE disk[d]
  <2>2. m.pending = mem[d].pending /\ m.progress = mem[d].progress /\ m.pc = "apply" /\ m.tmp = {}
    BY <1>1 DEF MemType
  <2>3. /\ k.work = disk[d].work /\ k.authorized = disk[d].authorized /\ k.cleaned = disk[d].cleaned
        /\ k.commit = disk[d].commit /\ k.resume = disk[d].resume
        /\ \A i \in Seg : i # n => k.cdc[i] = disk[d].cdc[i]
        /\ disk[d].cdc[n] = {} => k.cdc[n] = mem[d].tmp
        /\ disk[d].cdc[n] # {} => k.cdc[n] = disk[d].cdc[n]
    BY <1>1 DEF DiskType
  <2>4. Moves(d, m, k)
    BY <1>3
  <2> HIDE DEF m, k
  <2> QED BY <1>0, <1>3, <2>2, <2>3, <2>4
<1> QED BY <1>0, <1>1, <1>2, <1>3, ReplayEffect, Zenon

\* A step of the replay.
LEMMA DeliveryReplay ==
  ASSUME TypeInv, DeliveryInv, NEW d \in Dst, Replay(d)
  PROVE  DeliveryInv' /\ Still
<1>1. /\ mem[d].pc = "replay" /\ mem[d].pc \in Draining /\ stage' = stage /\ db' = db
      /\ WorkerDone(d) /\ Front(d) \in Seg
      /\ mem[d] \in MemType /\ disk[d] \in DiskType /\ Shaped(mem[d], disk[d])
  BY ReplayEffect, HeadFacts DEF DeliveryInv, Draining
<1>2. PICK n, m, k :
         /\ n = Front(d)
         /\ Moves(d, m, k)
         /\ m.pending = mem[d].pending /\ m.progress = mem[d].progress
         /\ k.commit = disk[d].commit /\ k.work = disk[d].work
         /\ k.authorized = disk[d].authorized /\ k.cleaned = disk[d].cleaned
         /\ \A i \in Seg : i # n => k.cdc[i] = disk[d].cdc[i]
         /\ \/ /\ disk[d].cdc[n] = {} /\ m.pc = "replay" /\ k.cdc[n] = {}
               /\ \E i \in ToReplay(d, n) :
                    /\ \A j \in ToReplay(d, n) : i <= j
                    /\ k.resume = <<n, i>> /\ m.tmp = mem[d].tmp \union {i}
            \/ /\ disk[d].cdc[n] = {} => ToReplay(d, n) = {} /\ k.cdc[n] = mem[d].tmp
               /\ disk[d].cdc[n] # {} => k.cdc[n] = disk[d].cdc[n]
               /\ k.resume = disk[d].resume /\ m.pc = "apply" /\ m.tmp = {}
  BY ReplayMoves, Zenon
<1>4. mem'[d] = m /\ disk'[d] = k /\ layout' = layout /\ produced' = produced /\ paused' = paused
  BY <1>2, MovesFacts
<1>5. /\ (SqlDevice' <=> SqlDevice) /\ (OwnCheckpoint' <=> OwnCheckpoint)
      /\ \A i \in Seg : /\ Owed(d, i)' = Owed(d, i)
                        /\ Covered(d, i)' <=> Covered(d, i)
                        /\ Passed(d, i)' <=> Passed(d, i)
                        /\ Through(d, i)' <=> Through(d, i)
  BY <1>1, <1>2, <1>4, LayoutKept, ReplicaStepFacts
<1>6. Stays
  BY <1>1, <1>4, NothingGone
<1>7. Front(d)' = n /\ DrainDone(d)' /\ RetainedDone(d)'
  BY <1>1, <1>2, <1>4, <1>5, QueueKept
<1>8. ReadDone(d)'
  BY <1>1, <1>2, <1>4, <1>5 DEF WorkerDone, ReadDone
<1>9. CheckpointDone(d)'
  <2>1. db[d].ck.seg \in Seg
    BY FieldTypes
  <2> QED BY <1>1, <1>5, <2>1 DEF WorkerDone, CheckpointDone
<1>10. HeadDone(d)'
  <2>1. mem'[d].pc \in {"replay", "apply"}
    BY <1>2, <1>4
  <2>2. /\ disk[d].work[n] = "copy" /\ n > disk[d].authorized /\ n > disk[d].cleaned
        /\ ~ SqlDevice => ~ Covered(d, n)
    BY <1>1, <1>2 DEF WorkerDone, HeadDone, Handling
  <2> QED BY <1>1, <1>2, <1>4, <1>5, <1>7, <2>1, <2>2 DEF HeadDone
<1>11. ProgressDone(d)'
  <2>1. mem'[d].pc \in {"replay", "apply"}
    BY <1>2, <1>4
  <2> QED BY <1>1, <1>2, <1>4, <1>5, <2>1 DEF WorkerDone, ProgressDone
<1>12. TargetDone(d)'
  BY <1>2, <1>4 DEF TargetDone, Cleaning
<1>13. ReplayDone(d)'
  <2> SUFFICES ASSUME SqlDevice
               PROVE  /\ \A i \in Seg :
                           Owed(d, i) \subseteq
                             IF k.cdc[i] # {} THEN k.cdc[i]
                             ELSE ToReplay(d, i)' \union (IF m.pc = "replay" /\ i = n THEN m.tmp ELSE {})
                      /\ m.pc = "apply" => Owed(d, n) \subseteq k.cdc[n]
    BY <1>1, <1>2, <1>4, <1>5, <1>7 DEF ReplayDone
  <2>1. \A i \in Seg : Owed(d, i) \subseteq
          IF disk[d].cdc[i] # {} THEN disk[d].cdc[i]
          ELSE ToReplay(d, i) \union (IF i = n THEN mem[d].tmp ELSE {})
    BY <1>1, <1>2 DEF WorkerDone, ReplayDone
  <2>2. \A i \in Seg : i < n => Owed(d, i) = {}
    BY <1>1, <1>2, BeforeFront DEF WorkerDone, Through
  <2>3. CASE /\ disk[d].cdc[n] = {} /\ m.pc = "replay" /\ k.cdc[n] = {}
             /\ \E i \in ToReplay(d, n) :
                  /\ \A j \in ToReplay(d, n) : i <= j
                  /\ k.resume = <<n, i>> /\ m.tmp = mem[d].tmp \union {i}
    <3>1. PICK i \in ToReplay(d, n) : /\ \A j \in ToReplay(d, n) : i <= j
                                      /\ k.resume = <<n, i>> /\ m.tmp = mem[d].tmp \union {i}
      BY <2>3
    <3>2. \A j \in Seg : ToReplay(d, j)' = { x \in Committed(j) : n < j \/ (n = j /\ x > i) }
      BY <1>4, <3>1 DEF ToReplay, ReplicaResume, Committed
    <3>3. \A j \in Seg : j > n => ToReplay(d, j) \subseteq ToReplay(d, j)'
      BY <3>2 DEF ToReplay
    <3>4. ToReplay(d, n) \subseteq ToReplay(d, n)' \union {i}
      <4>1. \A x \in ToReplay(d, n) : x \in Int /\ x \in Committed(n) /\ i <= x
        BY <3>1 DEF ToReplay, Committed, Txn
      <4> QED BY <1>1, <1>2, <3>1, <3>2, <4>1
    <3>5. ASSUME NEW j \in Seg, k.cdc[j] = {}
          PROVE  Owed(d, j) \subseteq ToReplay(d, j)' \union (IF j = n THEN m.tmp ELSE {})
      <4>1. disk[d].cdc[j] = {}
        BY <1>2, <2>3, <3>5
      <4>2. j < n \/ j = n \/ j > n
        BY <1>1, <1>2 DEF Seg
      <4> QED BY <2>1, <2>2, <3>1, <3>3, <3>4, <4>1, <4>2
    <3>6. ASSUME NEW j \in Seg, k.cdc[j] # {} PROVE Owed(d, j) \subseteq k.cdc[j]
      BY <1>2, <2>1, <2>3, <3>6
    <3> QED BY <2>3, <3>5, <3>6
  <2>4. CASE /\ disk[d].cdc[n] = {} => ToReplay(d, n) = {} /\ k.cdc[n] = mem[d].tmp
             /\ disk[d].cdc[n] # {} => k.cdc[n] = disk[d].cdc[n]
             /\ k.resume = disk[d].resume /\ m.pc = "apply" /\ m.tmp = {}
    <3>1. \A j \in Seg : ToReplay(d, j)' = ToReplay(d, j)
      BY <1>4, <2>4 DEF ToReplay, ReplicaResume, Committed
    <3>2. Owed(d, n) \subseteq k.cdc[n]
      BY <1>1, <1>2, <2>1, <2>4
    <3>3. \A j \in Seg : j # n => k.cdc[j] = disk[d].cdc[j]
      BY <1>2
    <3>4. ASSUME NEW j \in Seg
          PROVE  Owed(d, j) \subseteq IF k.cdc[j] # {} THEN k.cdc[j] ELSE ToReplay(d, j)'
      <4>1. CASE j = n
        BY <3>2, <4>1
      <4>2. CASE j # n
        BY <2>1, <3>1, <3>3, <4>2
      <4> QED BY <4>1, <4>2
    <3> QED BY <2>4, <3>2, <3>4
  <2> QED BY <1>2, <2>3, <2>4
<1>14. WorkerDone(d)'
  BY <1>7, <1>8, <1>9, <1>10, <1>11, <1>12, <1>13 DEF WorkerDone
<1> QED BY <1>1, <1>2, <1>5, <1>6, <1>14, OneWorker

\* What a destination lacks of the head is among what is sent to it.
LEMMA OwedIsSent ==
  ASSUME TypeInv, NEW d \in Dst, WorkerDone(d), mem[d].pc = "apply"
  PROVE  Owed(d, Front(d)) \subseteq ToSend(d, Front(d))
<1>1. PICK n \in Seg : n = Front(d)
  BY HeadFacts DEF Draining
<1>2. Owed(d, n) \subseteq Content(d, n)
  BY <1>1 DEF WorkerDone, ReplayDone, Content, Owed, Wanted
<1>3. Filtered(d, n) => \A k \in Owed(d, n) : k > db[d].ck.change
  BY DEF WorkerDone, CheckpointDone, Filtered
<1> QED BY <1>1, <1>2, <1>3 DEF ToSend

\* Sending the head.
LEMMA DeliveryApply ==
  ASSUME TypeInv, DeliveryInv, NEW d \in Dst, Apply(d)
  PROVE  DeliveryInv' /\ Still
<1>1. PICK n, rows :
         /\ n = Front(d) /\ rows = ToSend(d, n)
         /\ mem[d].pc = "apply" /\ mem[d].tmp = {} /\ stage' = stage
         /\ \/ /\ SqlDevice /\ Covered(d, n) /\ db' = db
               /\ Moves(d, [mem[d] EXCEPT !.pc = "mark"], disk[d])
            \/ /\ ~ (SqlDevice /\ Covered(d, n))
               /\ db' = IF rows = {} THEN db
                        ELSE [db EXCEPT ![d].log = Append(@, [seg |-> n, txns |-> rows])]
               /\ Moves(d, [mem[d] EXCEPT !.sent = rows, !.commit = AppliedCommit(d, n),
                                          !.pc = IF OwnCheckpoint THEN "checkpoint" ELSE "local"],
                           disk[d])
  BY ApplyEffect, Zenon
<1>2. /\ WorkerDone(d) /\ mem[d] \in MemType /\ disk[d] \in DiskType /\ mem[d].pc \in Draining
      /\ n \in Seg /\ Shaped(mem[d], disk[d])
  BY <1>1, HeadFacts DEF DeliveryInv, Draining
<1>3. /\ disk[d].work[n] = "copy" /\ n > disk[d].authorized /\ n > disk[d].cleaned
      /\ ~ SqlDevice => ~ Covered(d, n)
      /\ Owed(d, n) \subseteq rows
  BY <1>1, <1>2, OwedIsSent DEF WorkerDone, HeadDone, Handling
<1>4. CASE /\ SqlDevice /\ Covered(d, n) /\ db' = db
           /\ Moves(d, [mem[d] EXCEPT !.pc = "mark"], disk[d])
  <2>1. PICK m : m = [mem[d] EXCEPT !.pc = "mark"]
    OBVIOUS
  <2>2. m.pc = "mark" /\ m.pending = mem[d].pending /\ m.progress = mem[d].progress
    BY <1>2, <2>1 DEF MemType
  <2>3. Moves(d, m, disk[d])
    BY <1>4, <2>1
  <2>4. mem'[d] = m /\ disk'[d] = disk[d] /\ layout' = layout /\ produced' = produced /\ paused' = paused
    BY <2>3, MovesFacts
  <2>5. Keeps(d) /\ Stays
    BY <1>1, <1>4, <2>4, NothingGone DEF Keeps, Delivered
  <2>6. /\ (SqlDevice' <=> SqlDevice) /\ (OwnCheckpoint' <=> OwnCheckpoint)
        /\ \A i \in Seg : /\ Owed(d, i)' = Owed(d, i)
                          /\ Covered(d, i)' <=> Covered(d, i)
                          /\ Through(d, i)' <=> Through(d, i)
    BY <2>4, <2>5, KeepsFacts, LayoutKept
  <2>7. Owed(d, n) = {}
    BY <1>2, <1>4 DEF WorkerDone, ReadDone, Passed
  <2>8. Front(d)' = n
    BY <1>1, <2>2, <2>4 DEF Front, Waiting
  <2>9. HeadDone(d)'
    BY <1>2, <1>3, <1>4, <2>2, <2>4, <2>6, <2>7, <2>8 DEF HeadDone
  <2>10. ProgressDone(d)'
    <3>1. OwnCheckpoint => n <= db[d].ck.seg
      <4>1. n \in Int /\ db[d].ck.seg \in Int
        BY <1>2, FieldTypes DEF Seg
      <4> QED BY <1>4, <4>1 DEF Covered
    <3> QED BY <1>2, <1>4, <2>2, <2>4, <2>6, <2>8, <3>1 DEF WorkerDone, ProgressDone
  <2>11. TargetDone(d)'
    BY <2>2, <2>4 DEF TargetDone, Cleaning
  <2>12. WorkerDone(d)'
    BY <1>1, <1>2, <2>2, <2>4, <2>5, <2>9, <2>10, <2>11, HeadStepDone
  <2> QED BY <1>4, <2>3, <2>5, <2>6, <2>12, OneWorker
<1>5. CASE /\ ~ (SqlDevice /\ Covered(d, n))
           /\ db' = IF rows = {} THEN db
                    ELSE [db EXCEPT ![d].log = Append(@, [seg |-> n, txns |-> rows])]
           /\ Moves(d, [mem[d] EXCEPT !.sent = rows, !.commit = AppliedCommit(d, n),
                                      !.pc = IF OwnCheckpoint THEN "checkpoint" ELSE "local"],
                       disk[d])
  <2>1. PICK m : m = [mem[d] EXCEPT !.sent = rows, !.commit = AppliedCommit(d, n),
                                    !.pc = IF OwnCheckpoint THEN "checkpoint" ELSE "local"]
    OBVIOUS
  <2>2. /\ m.pc = (IF OwnCheckpoint THEN "checkpoint" ELSE "local")
        /\ m.pending = mem[d].pending /\ m.progress = mem[d].progress
    BY <1>2, <2>1 DEF MemType
  <2>3. Moves(d, m, disk[d])
    BY <1>5, <2>1
  <2>4. mem'[d] = m /\ disk'[d] = disk[d] /\ layout' = layout /\ produced' = produced /\ paused' = paused
    BY <2>3, MovesFacts
  <2>5. db'[d].ck = db[d].ck /\ \A e \in Dst : e # d => db'[e] = db[e]
    BY <1>5, FieldTypes DEF DbType, TypeInv
  <2>6. \A i \in Seg : Delivered(d, i)' = Delivered(d, i) \union (IF i = n THEN rows ELSE {})
    <3>1. CASE rows = {}
      BY <1>5, <3>1 DEF Delivered
    <3>2. CASE rows # {}
      <4>1. db'[d].log = Append(db[d].log, [seg |-> n, txns |-> rows])
        BY <1>5, <3>2, FieldTypes DEF DbType, TypeInv
      <4> QED BY <2>4, <4>1, AppendDelivers
    <3> QED BY <3>1, <3>2
  <2>7. (SqlDevice' <=> SqlDevice) /\ (OwnCheckpoint' <=> OwnCheckpoint)
        /\ \A i \in Seg : Wanted(i)' = Wanted(i)
    BY <2>4, LayoutKept
  <2>8. Owed(d, n)' = {} /\ \A i \in Seg : Owed(d, i)' \subseteq Owed(d, i)
    <3>1. \A i \in Seg : Owed(d, i)' = Wanted(i) \ (Delivered(d, i) \union (IF i = n THEN rows ELSE {}))
      BY <2>6, <2>7 DEF Owed
    <3> QED BY <1>2, <1>3, <3>1 DEF Owed
  <2>9. \A i \in Seg : (Covered(d, i)' <=> Covered(d, i)) /\ (Passed(d, i)' <=> Passed(d, i))
    <3>1. \A i \in Seg : Covered(d, i)' <=> Covered(d, i)
      BY <2>5, <2>7 DEF Covered
    <3> QED BY <2>4, <3>1 DEF Passed
  <2>10. \A i \in Seg : Through(d, i) => Through(d, i)'
    BY <2>8, <2>9 DEF Through
  <2>11. Stays
    BY <1>1, <2>4, NothingGone
  <2>12. Front(d)' = n /\ DrainDone(d)' /\ RetainedDone(d)'
    BY <1>1, <1>2, <2>2, <2>4, <2>10, QueueKept
  <2>13. ReadDone(d)'
    BY <1>1, <1>2, <2>4, <2>8, <2>9, <2>10 DEF WorkerDone, ReadDone
  <2>14. CheckpointDone(d)'
    <3>1. db[d].ck.seg \in Seg
      BY FieldTypes
    <3>2. PICK i \in Seg : i = db[d].ck.seg
      BY <3>1
    <3>3. db'[d].ck.change >= 0 => \A k \in Owed(d, i)' : k > db'[d].ck.change
      BY <1>2, <2>5, <2>8, <3>2 DEF WorkerDone, CheckpointDone
    <3>4. Owed(d, db[d].ck.seg)' = Owed(d, i)'
      BY <2>5, <2>7, <3>2 DEF Owed, Delivered, Wanted
    <3> QED BY <3>3, <3>4 DEF CheckpointDone
  <2>15. HeadDone(d)'
    <3>1. mem'[d].pc \in {"checkpoint", "local"}
      BY <2>2, <2>4
    <3>2. ~ SqlDevice \/ mem'[d].pc = "checkpoint" => ~ Covered(d, n)
      BY <1>3, <1>5
    <3> QED BY <1>2, <1>3, <2>4, <2>7, <2>8, <2>9, <2>12, <3>1, <3>2 DEF HeadDone
  <2>16. ProgressDone(d)'
    <3>1. OwnCheckpoint => mem'[d].pc \notin {"local", "mark"}
      BY <2>2, <2>4
    <3> QED BY <1>2, <2>2, <2>4, <2>5, <2>7, <2>9, <2>10, <3>1 DEF WorkerDone, ProgressDone
  <2>17. TargetDone(d)'
    BY <2>2, <2>4 DEF TargetDone, Cleaning
  <2>18. ReplayDone(d)'
    <3>1. \A i \in Seg : ToReplay(d, i)' = ToReplay(d, i)
      BY <2>4 DEF ToReplay, ReplicaResume, Committed
    <3>2. mem'[d].pc \notin {"replay", "apply"}
      BY <2>2, <2>4
    <3>3. ASSUME SqlDevice, NEW i \in Seg
          PROVE  Owed(d, i) \subseteq IF disk[d].cdc[i] # {} THEN disk[d].cdc[i] ELSE ToReplay(d, i)
      BY <1>1, <1>2, <3>3 DEF WorkerDone, ReplayDone
    <3> QED BY <2>4, <2>7, <2>8, <3>1, <3>2, <3>3 DEF ReplayDone
  <2>19. WorkerDone(d)'
    BY <2>12, <2>13, <2>14, <2>15, <2>16, <2>17, <2>18 DEF WorkerDone
  <2> QED BY <2>3, <2>5, <2>10, <2>11, <2>19, OneWorker
<1> QED BY <1>1, <1>4, <1>5

\* The checkpoint of the destination moves to the head, and passes only what came before.
LEMMA DeliveryCheckpoint ==
  ASSUME TypeInv, DeliveryInv, NEW d \in Dst, Checkpoint(d)
  PROVE  DeliveryInv' /\ Still
<1>0. PICK ck \in [seg : Seg, change : -1 .. Txns, commit : Nat] :
         /\ ck.seg = (IF db[d].ck.seg >= Front(d) THEN db[d].ck.seg ELSE Front(d))
         /\ db' = [db EXCEPT ![d] = [db[d] EXCEPT !.ck = ck]]
  BY CheckpointEffect, Zenon
<1>1. PICK n :
         /\ n = Front(d) /\ mem[d].pc = "checkpoint" /\ stage' = stage
         /\ Moves(d, [mem[d] EXCEPT !.pc = "local"], disk[d])
         /\ ck.seg = (IF db[d].ck.seg >= n THEN db[d].ck.seg ELSE n)
         /\ db' = [db EXCEPT ![d] = [db[d] EXCEPT !.ck = ck]]
  BY <1>0, CheckpointEffect, Zenon
<1>2. /\ WorkerDone(d) /\ mem[d] \in MemType /\ mem[d].pc \in Draining
      /\ n \in Seg /\ Shaped(mem[d], disk[d])
  BY <1>1, HeadFacts DEF DeliveryInv, Draining
<1>3. PICK m : m = [mem[d] EXCEPT !.pc = "local"]
  OBVIOUS
<1>4. m.pc = "local" /\ m.pending = mem[d].pending /\ m.progress = mem[d].progress
  BY <1>2, <1>3 DEF MemType
<1>5. Moves(d, m, disk[d])
  BY <1>1, <1>3
<1>6. mem'[d] = m /\ disk'[d] = disk[d] /\ layout' = layout /\ produced' = produced /\ paused' = paused
  BY <1>5, MovesFacts
<1>7. db'[d].ck = ck /\ db'[d].log = db[d].log /\ \A e \in Dst : e # d => db'[e] = db[e]
  BY <1>1, FieldTypes DEF DbType, TypeInv
<1>8. OwnCheckpoint /\ ~ Covered(d, n) /\ Owed(d, n) = {}
      /\ disk[d].work[n] = "copy" /\ n > disk[d].authorized /\ n > disk[d].cleaned
  BY <1>1, <1>2 DEF WorkerDone, HeadDone, Handling, Shaped
<1>9. ck.seg = n /\ db[d].ck.seg <= n /\ n \in Int /\ db[d].ck.seg \in Int
  <2>1. n \in Int /\ db[d].ck.seg \in Int
    BY <1>2, FieldTypes DEF Seg
  <2> QED BY <1>1, <1>8, <2>1 DEF Covered
<1>10. /\ (SqlDevice' <=> SqlDevice) /\ (OwnCheckpoint' <=> OwnCheckpoint)
       /\ \A i \in Seg : Owed(d, i)' = Owed(d, i)
  BY <1>6, <1>7, LayoutKept DEF Owed, Delivered
<1>11. \A i \in Seg : (Covered(d, i)' <=> i < n) /\ (Covered(d, i) => i < n)
  BY <1>7, <1>8, <1>9, <1>10 DEF Covered, Seg
<1>12. \A i \in Seg : i < n => Through(d, i)
  BY <1>1, <1>2, BeforeFront DEF WorkerDone
<1>13. \A i \in Seg : (Passed(d, i) => Passed(d, i)') /\ (Passed(d, i)' => Passed(d, i) \/ i < n)
  BY <1>6, <1>11 DEF Passed
<1>14. \A i \in Seg : Through(d, i) => Through(d, i)'
  BY <1>10, <1>13 DEF Through
<1>15. Stays
  BY <1>1, <1>6, NothingGone
<1>16. Front(d)' = n /\ DrainDone(d)' /\ RetainedDone(d)'
  BY <1>1, <1>2, <1>4, <1>6, <1>14, QueueKept
<1>17. ReadDone(d)'
  <2>1. \A i \in Seg : Passed(d, i)' => Owed(d, i)' = {}
    BY <1>2, <1>10, <1>12, <1>13 DEF WorkerDone, ReadDone, Through
  <2> QED BY <1>1, <1>2, <1>6, <1>14, <2>1 DEF WorkerDone, ReadDone
<1>18. CheckpointDone(d)'
  <2>1. Owed(d, n)' = {}
    BY <1>2, <1>8, <1>10
  <2>2. Owed(d, db[d].ck.seg)' = Owed(d, n)'
    BY <1>7, <1>9 DEF Owed, Delivered, Wanted
  <2> QED BY <2>1, <2>2 DEF CheckpointDone
<1>19. HeadDone(d)'
  <2>1. ~ Covered(d, n)'
    BY <1>2, <1>9, <1>11
  <2> QED BY <1>2, <1>4, <1>6, <1>8, <1>10, <1>16, <2>1 DEF HeadDone
<1>20. ProgressDone(d)'
  <2>1. /\ mem[d].progress <= db[d].ck.seg
        /\ \A i \in Seg : i <= disk[d].authorized => Covered(d, i)
        /\ \A i \in Seg : disk[d].work[i] = "applied" => i <= db[d].ck.seg
        /\ \A i \in Seg : i <= mem[d].progress => Through(d, i)
    BY <1>2, <1>8 DEF WorkerDone, ProgressDone
  <2>2. mem[d].progress \in Int
    BY FieldTypes
  <2>3. mem[d].progress <= n
    BY <1>9, <2>1, <2>2
  <2>4. \A i \in Seg : disk[d].work[i] = "applied" => i <= n
    BY <1>9, <2>1 DEF Seg
  <2> QED BY <1>4, <1>6, <1>7, <1>9, <1>11, <1>14, <1>16, <2>1, <2>3, <2>4 DEF ProgressDone
<1>21. TargetDone(d)'
  BY <1>4, <1>6 DEF TargetDone, Cleaning
<1>22. ReplayDone(d)'
  <2>1. \A i \in Seg : ToReplay(d, i)' = ToReplay(d, i)
    BY <1>6 DEF ToReplay, ReplicaResume, Committed
  <2>2. ASSUME SqlDevice, NEW i \in Seg
        PROVE  Owed(d, i) \subseteq IF disk[d].cdc[i] # {} THEN disk[d].cdc[i] ELSE ToReplay(d, i)
    BY <1>1, <1>2, <2>2 DEF WorkerDone, ReplayDone
  <2> QED BY <1>4, <1>6, <1>10, <2>1, <2>2 DEF ReplayDone
<1>23. WorkerDone(d)'
  BY <1>16, <1>17, <1>18, <1>19, <1>20, <1>21, <1>22 DEF WorkerDone
<1> QED BY <1>5, <1>7, <1>14, <1>15, <1>23, OneWorker

\* The steps that end the processing of the head.
LEMMA DeliveryRecord ==
  ASSUME TypeInv, DeliveryInv, NEW d \in Dst, CheckpointFails(d) \/ LocalCheckpoint(d) \/ Mark(d)
  PROVE  DeliveryInv' /\ Still
<1>1. PICK n :
        /\ n = Front(d) /\ stage' = stage /\ db' = db /\ mem[d].tmp = {}
        /\ \/ mem[d].pc = "checkpoint" /\ Moves(d, [mem[d] EXCEPT !.pc = "apply"], disk[d])
           \/ /\ mem[d].pc = "local"
              /\ Moves(d, [mem[d] EXCEPT !.pc = "mark"], [disk[d] EXCEPT !.commit = mem[d].commit])
           \/ /\ mem[d].pc = "mark"
              /\ \/ Moves(d, Recorded(mem[d], n), [disk[d] EXCEPT !.work[n] = "applied"])
                 \/ MarkMayFail /\ Moves(d, Recorded(mem[d], n), disk[d])
  BY RecordEffect, Zenon
<1>2. /\ WorkerDone(d) /\ mem[d] \in MemType /\ disk[d] \in DiskType /\ mem[d].pc \in Draining
      /\ n \in Seg /\ Shaped(mem[d], disk[d]) /\ mem[d].pc \in {"checkpoint", "local", "mark"}
  BY <1>1, HeadFacts DEF DeliveryInv, Draining
<1>3. /\ disk[d].work[n] = "copy" /\ n > disk[d].authorized /\ n > disk[d].cleaned
      /\ ~ SqlDevice \/ mem[d].pc = "checkpoint" => ~ Covered(d, n)
      /\ Owed(d, n) = {}
      /\ OwnCheckpoint /\ mem[d].pc \in {"local", "mark"} => n <= db[d].ck.seg
  BY <1>1, <1>2 DEF WorkerDone, HeadDone, ProgressDone, Handling
<1>4. CASE mem[d].pc \in {"checkpoint", "local"}
  <2>1. PICK m, k :
           /\ Moves(d, m, k) /\ m.pending = mem[d].pending /\ m.progress = mem[d].progress
           /\ \/ mem[d].pc = "checkpoint" /\ m.pc = "apply"
              \/ mem[d].pc = "local" /\ m.pc = "mark"
           /\ k.work = disk[d].work /\ k.authorized = disk[d].authorized /\ k.cleaned = disk[d].cleaned
           /\ k.cdc = disk[d].cdc /\ k.resume = disk[d].resume
    <3>1. CASE mem[d].pc = "checkpoint" /\ Moves(d, [mem[d] EXCEPT !.pc = "apply"], disk[d])
      <4> DEFINE m == [mem[d] EXCEPT !.pc = "apply"]
      <4>1. m.pending = mem[d].pending /\ m.progress = mem[d].progress /\ m.pc = "apply"
        BY <1>2 DEF MemType
      <4>2. Moves(d, m, disk[d])
        BY <3>1
      <4> HIDE DEF m
      <4> QED BY <3>1, <4>1, <4>2
    <3>2. CASE /\ mem[d].pc = "local"
               /\ Moves(d, [mem[d] EXCEPT !.pc = "mark"], [disk[d] EXCEPT !.commit = mem[d].commit])
      <4> DEFINE m == [mem[d] EXCEPT !.pc = "mark"]
                 k == [disk[d] EXCEPT !.commit = mem[d].commit]
      <4>1. m.pending = mem[d].pending /\ m.progress = mem[d].progress /\ m.pc = "mark"
        BY <1>2 DEF MemType
      <4>2. /\ k.work = disk[d].work /\ k.authorized = disk[d].authorized /\ k.cleaned = disk[d].cleaned
            /\ k.cdc = disk[d].cdc /\ k.resume = disk[d].resume
        BY <1>2 DEF DiskType
      <4>3. Moves(d, m, k)
        BY <3>2
      <4> HIDE DEF m, k
      <4> QED BY <3>2, <4>1, <4>2, <4>3
    <3> QED BY <1>1, <1>4, <3>1, <3>2
  <2>2. mem'[d] = m /\ disk'[d] = k /\ layout' = layout /\ produced' = produced /\ paused' = paused
    BY <2>1, MovesFacts
  <2>3. Keeps(d) /\ Stays
    BY <1>1, <2>1, <2>2, NothingGone DEF Keeps, Delivered
  <2>4. /\ (SqlDevice' <=> SqlDevice) /\ (OwnCheckpoint' <=> OwnCheckpoint)
        /\ \A i \in Seg : /\ Owed(d, i)' = Owed(d, i)
                          /\ Covered(d, i)' <=> Covered(d, i)
                          /\ Through(d, i)' <=> Through(d, i)
    BY <2>2, <2>3, KeepsFacts, LayoutKept
  <2>5. Front(d)' = n
    BY <1>1, <2>1, <2>2 DEF Front, Waiting
  <2>6. mem'[d].pc \in {"apply", "mark"}
    BY <2>1, <2>2
  <2>7. HeadDone(d)'
    BY <1>2, <1>3, <2>1, <2>2, <2>4, <2>5, <2>6 DEF HeadDone
  <2>8. ProgressDone(d)'
    <3>1. OwnCheckpoint /\ mem'[d].pc = "mark" => n <= db[d].ck.seg
      BY <1>3, <2>1, <2>2
    <3> QED BY <1>1, <1>2, <2>1, <2>2, <2>4, <2>5, <2>6, <3>1 DEF WorkerDone, ProgressDone
  <2>9. TargetDone(d)'
    BY <2>6 DEF TargetDone, Cleaning
  <2>10. WorkerDone(d)'
    BY <1>1, <1>2, <1>3, <2>1, <2>2, <2>3, <2>6, <2>7, <2>8, <2>9, HeadStepDone
  <2> QED BY <1>1, <2>1, <2>3, <2>4, <2>10, OneWorker
<1>5. CASE mem[d].pc = "mark"
  <2>1. PICK k :
           /\ Moves(d, Recorded(mem[d], n), k)
           /\ k.work[n] = "applied" \/ (MarkMayFail /\ k.work[n] = disk[d].work[n])
           /\ \A i \in Seg : i # n => k.work[i] = disk[d].work[i]
           /\ k.authorized = disk[d].authorized /\ k.cleaned = disk[d].cleaned
           /\ k.cdc = disk[d].cdc /\ k.resume = disk[d].resume
    <3>1. CASE Moves(d, Recorded(mem[d], n), [disk[d] EXCEPT !.work[n] = "applied"])
      <4> DEFINE k == [disk[d] EXCEPT !.work[n] = "applied"]
      <4>1. /\ k.work[n] = "applied" /\ \A i \in Seg : i # n => k.work[i] = disk[d].work[i]
            /\ k.authorized = disk[d].authorized /\ k.cleaned = disk[d].cleaned
            /\ k.cdc = disk[d].cdc /\ k.resume = disk[d].resume
        BY <1>2 DEF DiskType
      <4>2. Moves(d, Recorded(mem[d], n), k)
        BY <3>1
      <4> HIDE DEF k
      <4> QED BY <4>1, <4>2
    <3>2. CASE MarkMayFail /\ Moves(d, Recorded(mem[d], n), disk[d])
      BY <3>2
    <3> QED BY <1>1, <1>5, <3>1, <3>2
  <2>2. mem'[d] = Recorded(mem[d], n) /\ disk'[d] = k /\ layout' = layout /\ produced' = produced
        /\ paused' = paused
    BY <2>1, MovesFacts
  <2>3. mem'[d].pending = mem[d].pending /\ mem'[d].pc = "authorize" /\ mem'[d].progress = n
    BY <1>2, <2>2, RecordedFacts
  <2>4. /\ (SqlDevice' <=> SqlDevice) /\ (OwnCheckpoint' <=> OwnCheckpoint)
        /\ \A i \in Seg : /\ Owed(d, i)' = Owed(d, i)
                          /\ Covered(d, i)' <=> Covered(d, i)
                          /\ ToReplay(d, i)' = ToReplay(d, i)
    BY <1>1, <2>1, <2>2, LayoutKept
       DEF Owed, Delivered, Covered, ToReplay, ReplicaResume, Committed
  <2>5. \A i \in Seg : i # n => (Passed(d, i)' <=> Passed(d, i))
    BY <2>1, <2>2, <2>4 DEF Passed
  <2>6. Passed(d, n) => Passed(d, n)'
    BY <1>2, <1>3, <2>1, <2>2, <2>4 DEF Passed
  <2>7. Through(d, n)'
    BY <1>2, <1>3, <2>1, <2>2, <2>4 DEF Through, Passed
  <2>8. \A i \in Seg : Through(d, i) => Through(d, i)'
    BY <2>4, <2>5, <2>7 DEF Through
  <2>9. Stays
    BY <1>1, <2>2, NothingGone
  <2>10. Front(d)' = n /\ DrainDone(d)' /\ RetainedDone(d)'
    <3>1. \A i \in Seg : disk'[d].work[i] # "none" => disk[d].work[i] # "none" \/ i = n
      BY <2>1, <2>2
    <3> QED BY <1>1, <1>2, <2>2, <2>3, <2>8, <3>1, QueueKept
  <2>11. ReadDone(d)'
    <3>1. ASSUME NEW i \in Seg, i # n
          PROVE  /\ i < produced /\ ~ Through(d, i)' => i \in stage \/ k.work[i] = "copy"
                 /\ Passed(d, i)' => Owed(d, i)' = {}
      BY <1>2, <2>1, <2>4, <2>5, <2>8, <3>1 DEF WorkerDone, ReadDone
    <3>2. Owed(d, n)' = {}
      BY <1>2, <1>3, <2>4
    <3>3. ASSUME NEW i \in Seg
          PROVE  /\ i < produced /\ ~ Through(d, i)' => i \in stage \/ k.work[i] = "copy"
                 /\ Passed(d, i)' => Owed(d, i)' = {}
      <4>1. CASE i = n
        BY <2>7, <3>2, <4>1
      <4> QED BY <3>1, <4>1
    <3> QED BY <1>1, <2>2, <3>3 DEF ReadDone
  <2>12. CheckpointDone(d)'
    <3>1. db[d].ck.seg \in Seg
      BY FieldTypes
    <3> QED BY <1>1, <1>2, <2>4, <3>1 DEF WorkerDone, CheckpointDone
  <2>13. HeadDone(d)'
    BY <2>3, <2>7, <2>10 DEF HeadDone, Handling, Through
  <2>14. ProgressDone(d)'
    <3>1. \A i \in Seg : i <= n => Through(d, i)'
      <4>1. \A i \in Seg : i <= n => i < n \/ i = n
        BY <1>2 DEF Seg
      <4> QED BY <1>1, <1>2, <2>7, <2>8, <4>1, BeforeFront DEF WorkerDone
    <3>2. OwnCheckpoint =>
            /\ n <= db[d].ck.seg
            /\ \A i \in Seg : i <= disk[d].authorized => Covered(d, i)
            /\ \A i \in Seg : disk[d].work[i] = "applied" => i <= db[d].ck.seg
      BY <1>2, <1>3, <1>5 DEF WorkerDone, ProgressDone
    <3>3. OwnCheckpoint => \A i \in Seg : k.work[i] = "applied" => i <= db[d].ck.seg
      BY <2>1, <3>2
    <3> QED BY <1>1, <2>1, <2>2, <2>3, <2>4, <3>1, <3>2, <3>3 DEF ProgressDone
  <2>15. TargetDone(d)'
    BY <2>3 DEF TargetDone, Cleaning
  <2>16. ReplayDone(d)'
    <3>1. ASSUME SqlDevice, NEW i \in Seg
          PROVE  Owed(d, i) \subseteq IF disk[d].cdc[i] # {} THEN disk[d].cdc[i] ELSE ToReplay(d, i)
      BY <1>2, <1>5, <3>1 DEF WorkerDone, ReplayDone
    <3> QED BY <2>1, <2>2, <2>3, <2>4, <3>1 DEF ReplayDone
  <2>17. WorkerDone(d)'
    BY <2>10, <2>11, <2>12, <2>13, <2>14, <2>15, <2>16 DEF WorkerDone
  <2> QED BY <1>1, <2>1, <2>8, <2>9, <2>17, OneWorker
<1> QED BY <1>2, <1>4, <1>5

\* The other workers are not touched by a step of one.
LEMMA OthersKeep ==
  ASSUME TypeInv, NEW d \in Dst, NEW m, NEW k, Moves(d, m, k), NEW e \in Dst, e # d, db'[e] = db[e]
  PROVE  \A i \in Seg : Through(e, i)' <=> Through(e, i)
<1>1. layout' = layout /\ mem'[e] = mem[e] /\ disk'[e] = disk[e]
  BY MovesFacts
<1>2. Keeps(e)
  BY <1>1 DEF Keeps, Delivered
<1> QED BY <1>2, KeepsFacts

\* Authorizing passes only what every destination has been seen to have.
LEMMA DeliveryAuthorize ==
  ASSUME TypeInv, DeliveryInv, NEW d \in Dst, mem[d].pc = "authorize", stage' = stage, db' = db,
         NEW target \in -1 .. MaxSegment,
         target # -1 => \A e \in Dst : target < mem[e].progress,
         Moves(d, [mem[d] EXCEPT !.target = target, !.pc = "clean_work"],
                  [disk[d] EXCEPT !.authorized = IF @ >= target THEN @ ELSE target])
  PROVE  DeliveryInv' /\ Still
<1>1. PICK n : n = Front(d)
  OBVIOUS
<1>2. /\ WorkerDone(d) /\ mem[d] \in MemType /\ disk[d] \in DiskType /\ mem[d].pc \in Draining
      /\ n \in Seg
  BY <1>1, HeadFacts DEF DeliveryInv, Draining
<1>3. PICK m, k : /\ m = [mem[d] EXCEPT !.target = target, !.pc = "clean_work"]
                  /\ k = [disk[d] EXCEPT !.authorized = IF @ >= target THEN @ ELSE target]
  OBVIOUS
<1>4. Moves(d, m, k)
  BY <1>3
<1>5. /\ m.pending = mem[d].pending /\ m.progress = mem[d].progress /\ m.pc = "clean_work"
      /\ m.target = target
  BY <1>2, <1>3 DEF MemType
<1>6. /\ k.work = disk[d].work /\ k.cleaned = disk[d].cleaned /\ k.cdc = disk[d].cdc
      /\ k.resume = disk[d].resume
      /\ k.authorized = IF disk[d].authorized >= target THEN disk[d].authorized ELSE target
  BY <1>2, <1>3 DEF DiskType
<1>7. mem'[d] = m /\ disk'[d] = k /\ layout' = layout /\ produced' = produced /\ paused' = paused
  BY <1>4, MovesFacts
<1>8. ASSUME NEW i \in Seg, i <= target, NEW e \in Dst
      PROVE  Through(e, i) /\ i <= mem[e].progress /\ i < mem[e].progress
  <2>1. target # -1 /\ i \in Int /\ mem[e].progress \in Int
    BY <1>8, FieldTypes DEF Seg
  <2>2. i < mem[e].progress
    BY <1>8, <2>1
  <2> QED BY <1>8, <2>1, <2>2 DEF DeliveryInv, WorkerDone, ProgressDone
<1>9. \A i \in Seg : (i <= disk[d].authorized => i <= k.authorized)
                     /\ (i <= target => i <= k.authorized)
                     /\ (i <= k.authorized => i <= disk[d].authorized \/ i <= target)
  <2>1. disk[d].authorized \in Int /\ target \in Int
    BY FieldTypes
  <2> QED BY <1>6, <2>1 DEF Seg
<1>10. /\ (SqlDevice' <=> SqlDevice) /\ (OwnCheckpoint' <=> OwnCheckpoint)
       /\ \A i \in Seg : /\ Owed(d, i)' = Owed(d, i)
                         /\ Covered(d, i)' <=> Covered(d, i)
                         /\ ToReplay(d, i)' = ToReplay(d, i)
  BY <1>6, <1>7, LayoutKept DEF Owed, Delivered, Covered, ToReplay, ReplicaResume, Committed
<1>11. \A i \in Seg : (Passed(d, i) => Passed(d, i)') /\ (Passed(d, i)' => Passed(d, i) \/ i <= target)
  BY <1>6, <1>7, <1>9, <1>10 DEF Passed
<1>12. \A i \in Seg : Through(d, i) => Through(d, i)'
  BY <1>10, <1>11 DEF Through
<1>13. Stays
  BY <1>7, NothingGone
<1>14. Front(d)' = n /\ DrainDone(d)' /\ RetainedDone(d)'
  BY <1>1, <1>2, <1>5, <1>6, <1>7, <1>12, QueueKept
<1>15. ReadDone(d)'
  <2>1. \A i \in Seg : Passed(d, i)' => Owed(d, i)' = {}
    BY <1>2, <1>8, <1>10, <1>11 DEF WorkerDone, ReadDone, Through
  <2> QED BY <1>2, <1>6, <1>7, <1>12, <2>1 DEF WorkerDone, ReadDone
<1>16. CheckpointDone(d)'
  <2>1. db[d].ck.seg \in Seg
    BY FieldTypes
  <2> QED BY <1>2, <1>10, <2>1 DEF WorkerDone, CheckpointDone
<1>17. HeadDone(d)'
  <2>1. Through(d, n)'
    BY <1>1, <1>2, <1>12 DEF WorkerDone, HeadDone
  <2> QED BY <1>5, <1>7, <1>14, <2>1 DEF HeadDone, Handling
<1>18. ProgressDone(d)'
  <2>1. OwnCheckpoint => /\ mem[d].progress <= db[d].ck.seg
                         /\ \A i \in Seg : i <= disk[d].authorized => Covered(d, i)
                         /\ \A i \in Seg : disk[d].work[i] = "applied" => i <= db[d].ck.seg
    BY <1>2 DEF WorkerDone, ProgressDone
  <2>2. \A i \in Seg : i <= mem[d].progress => Through(d, i)
    BY <1>2 DEF WorkerDone, ProgressDone
  <2>3. ASSUME OwnCheckpoint, NEW i \in Seg, i <= target PROVE Covered(d, i)
    <3>1. i < mem[d].progress
      BY <1>8, <2>3
    <3>2. i \in Int /\ mem[d].progress \in Int /\ db[d].ck.seg \in Int
      BY FieldTypes DEF Seg
    <3> QED BY <2>1, <2>3, <3>1, <3>2 DEF Covered
  <2> QED BY <1>5, <1>6, <1>7, <1>9, <1>10, <1>12, <2>1, <2>2, <2>3 DEF ProgressDone
<1>19. TargetDone(d)'
  <2>1. Dst' = Dst
    BY <1>7, LayoutKept
  <2>2. ASSUME NEW i \in Seg, i <= target, NEW e \in Dst PROVE Through(e, i)'
    <3>1. Through(e, i)
      BY <1>8, <2>2
    <3>2. e # d => Through(e, i)'
      BY <1>4, <3>1, OthersKeep
    <3> QED BY <1>12, <3>1, <3>2
  <2> QED BY <1>5, <1>7, <1>9, <2>1, <2>2 DEF TargetDone
<1>20. ReplayDone(d)'
  <2>1. ASSUME SqlDevice, NEW i \in Seg
        PROVE  Owed(d, i) \subseteq IF disk[d].cdc[i] # {} THEN disk[d].cdc[i] ELSE ToReplay(d, i)
    BY <1>2, <2>1 DEF WorkerDone, ReplayDone
  <2> QED BY <1>5, <1>6, <1>7, <1>10, <2>1 DEF ReplayDone
<1>21. WorkerDone(d)'
  BY <1>14, <1>15, <1>16, <1>17, <1>18, <1>19, <1>20 DEF WorkerDone
<1> QED BY <1>4, <1>12, <1>13, <1>21, OneWorker

\* What is removed from the work directory, every destination is through with.
LEMMA DeliveryCleanWork ==
  ASSUME TypeInv, DeliveryInv, NEW d \in Dst, mem[d].pc = "clean_work", stage' = stage, db' = db,
         NEW k, Moves(d, [mem[d] EXCEPT !.pc = "clean_stage"], k),
         \A i \in Seg : \/ k.work[i] = disk[d].work[i] /\ k.cdc[i] = disk[d].cdc[i]
                        \/ i <= mem[d].target /\ k.work[i] = "none" /\ k.cdc[i] = {},
         k.cleaned = disk[d].cleaned \/ k.cleaned = mem[d].target,
         k.cleaned >= disk[d].cleaned,
         k.authorized = disk[d].authorized, k.resume = disk[d].resume
  PROVE  DeliveryInv' /\ Still
<1>1. PICK n : n = Front(d)
  OBVIOUS
<1>2. /\ WorkerDone(d) /\ mem[d] \in MemType /\ disk[d] \in DiskType /\ mem[d].pc \in Draining
      /\ n \in Seg
  BY <1>1, HeadFacts DEF DeliveryInv, Draining
<1>3. PICK m : m = [mem[d] EXCEPT !.pc = "clean_stage"]
  OBVIOUS
<1>4. Moves(d, m, k)
  BY <1>3
<1>5. /\ m.pending = mem[d].pending /\ m.progress = mem[d].progress /\ m.pc = "clean_stage"
      /\ m.target = mem[d].target
  BY <1>2, <1>3 DEF MemType
<1>7. mem'[d] = m /\ disk'[d] = k /\ layout' = layout /\ produced' = produced /\ paused' = paused
  BY <1>4, MovesFacts
<1>8. \A i \in Seg : i <= mem[d].target => i <= disk[d].authorized /\ \A e \in Dst : Through(e, i)
  BY <1>2 DEF WorkerDone, TargetDone, Cleaning
<1>10. /\ (SqlDevice' <=> SqlDevice) /\ (OwnCheckpoint' <=> OwnCheckpoint)
       /\ \A i \in Seg : /\ Owed(d, i)' = Owed(d, i)
                         /\ Covered(d, i)' <=> Covered(d, i)
                         /\ ToReplay(d, i)' = ToReplay(d, i)
  BY <1>7, LayoutKept DEF Owed, Delivered, Covered, ToReplay, ReplicaResume, Committed
<1>11. \A i \in Seg : Passed(d, i)' <=> Passed(d, i)
  <2>1. \A i \in Seg : i <= k.cleaned => i <= disk[d].cleaned \/ i <= mem[d].target
    OBVIOUS
  <2>2. \A i \in Seg : i <= disk[d].cleaned => i <= k.cleaned
    <3>1. disk[d].cleaned \in Int /\ mem[d].target \in Int
      BY FieldTypes
    <3> QED BY <3>1 DEF Seg
  <2>3. \A i \in Seg : k.work[i] = "applied" => disk[d].work[i] = "applied"
    OBVIOUS
  <2>4. \A i \in Seg : disk[d].work[i] = "applied" => k.work[i] = "applied" \/ i <= mem[d].target
    OBVIOUS
  <2> QED BY <1>7, <1>8, <1>10, <2>1, <2>2, <2>3, <2>4 DEF Passed
<1>12. \A i \in Seg : Through(d, i) => Through(d, i)'
  BY <1>10, <1>11 DEF Through
<1>13. Stays
  BY <1>7, NothingGone
<1>14. Front(d)' = n /\ DrainDone(d)' /\ RetainedDone(d)'
  <2>1. \A i \in Seg : disk'[d].work[i] # "none" => disk[d].work[i] # "none" \/ i = Front(d)
    BY <1>7
  <2> QED BY <1>1, <1>2, <1>5, <1>7, <1>12, <2>1, QueueKept
<1>15. ReadDone(d)'
  <2>1. \A i \in Seg : Passed(d, i)' => Owed(d, i)' = {}
    BY <1>2, <1>10, <1>11 DEF WorkerDone, ReadDone
  <2>2. \A i \in Seg : ~ Through(d, i)' => ~ Through(d, i) /\ k.work[i] = disk[d].work[i]
    BY <1>8, <1>12
  <2>3. \A i \in Seg : i < produced /\ ~ Through(d, i) => i \in stage \/ disk[d].work[i] = "copy"
    BY <1>2 DEF WorkerDone, ReadDone
  <2> QED BY <1>7, <2>1, <2>2, <2>3 DEF ReadDone
<1>16. CheckpointDone(d)'
  <2>1. db[d].ck.seg \in Seg
    BY FieldTypes
  <2> QED BY <1>2, <1>10, <2>1 DEF WorkerDone, CheckpointDone
<1>17. HeadDone(d)'
  <2>1. Through(d, n)'
    BY <1>1, <1>2, <1>12 DEF WorkerDone, HeadDone
  <2> QED BY <1>5, <1>7, <1>14, <2>1 DEF HeadDone, Handling
<1>18. ProgressDone(d)'
  <2>1. OwnCheckpoint => /\ mem[d].progress <= db[d].ck.seg
                         /\ \A i \in Seg : i <= disk[d].authorized => Covered(d, i)
                         /\ \A i \in Seg : disk[d].work[i] = "applied" => i <= db[d].ck.seg
    BY <1>2 DEF WorkerDone, ProgressDone
  <2>2. \A i \in Seg : i <= mem[d].progress => Through(d, i)
    BY <1>2 DEF WorkerDone, ProgressDone
  <2>3. \A i \in Seg : k.work[i] = "applied" => disk[d].work[i] = "applied"
    OBVIOUS
  <2> QED BY <1>5, <1>7, <1>10, <1>12, <2>1, <2>2, <2>3 DEF ProgressDone
<1>19. TargetDone(d)'
  <2>1. Dst' = Dst
    BY <1>7, LayoutKept
  <2>2. ASSUME NEW i \in Seg, i <= mem[d].target, NEW e \in Dst PROVE Through(e, i)'
    <3>1. Through(e, i)
      BY <1>8, <2>2
    <3>2. e # d => Through(e, i)'
      BY <1>4, <3>1, OthersKeep
    <3> QED BY <1>12, <3>1, <3>2
  <2> QED BY <1>5, <1>7, <1>8, <2>1, <2>2 DEF TargetDone
<1>20. ReplayDone(d)'
  <2>1. ASSUME SqlDevice, NEW i \in Seg
        PROVE  Owed(d, i) \subseteq IF k.cdc[i] # {} THEN k.cdc[i] ELSE ToReplay(d, i)
    <3>1. CASE i <= mem[d].target
      BY <1>8, <3>1 DEF Through
    <3>2. CASE ~ (i <= mem[d].target)
      <4>1. k.cdc[i] = disk[d].cdc[i]
        BY <3>2
      <4> QED BY <1>2, <2>1, <4>1 DEF WorkerDone, ReplayDone
    <3> QED BY <3>1, <3>2
  <2> QED BY <1>5, <1>7, <1>10, <2>1 DEF ReplayDone
<1>21. WorkerDone(d)'
  BY <1>14, <1>15, <1>16, <1>17, <1>18, <1>19, <1>20 DEF WorkerDone
<1> QED BY <1>4, <1>12, <1>13, <1>21, OneWorker

\* Cleaning up.
LEMMA DeliveryClean ==
  ASSUME TypeInv, DeliveryInv, NEW d \in Dst, Clean(d)
  PROVE  DeliveryInv' /\ Still
<1>1. PICK n :
         /\ n = Front(d) /\ db' = db /\ mem[d].tmp = {} /\ n \in Seg /\ Shaped(mem[d], disk[d])
         /\ \/ /\ mem[d].pc = "authorize" /\ stage' = stage
               /\ \E target \in -1 .. MaxSegment :
                    /\ target # -1 => \A e \in Dst : target < mem[e].progress
                    /\ LET k == [disk[d] EXCEPT !.authorized = IF @ >= target THEN @ ELSE target] IN
                       \/ target = -1 /\ Moves(d, Completed(d, mem[d], n), k)
                       \/ Moves(d, [mem[d] EXCEPT !.target = target, !.pc = "clean_work"], k)
            \/ /\ mem[d].pc = "clean_work" /\ stage' = stage
               /\ \E written \in BOOLEAN :
                    Moves(d, [mem[d] EXCEPT !.pc = "clean_stage"],
                          [disk[d] EXCEPT
                             !.work = [i \in Seg |-> IF i \in disk[d].cleaned + 1 .. mem[d].target
                                                     THEN "none" ELSE @[i]],
                             !.cdc  = [i \in Seg |-> IF i \in disk[d].cleaned + 1 .. mem[d].target
                                                     THEN {} ELSE @[i]],
                             !.cleaned = IF written /\ mem[d].target > @ THEN mem[d].target ELSE @])
            \/ /\ mem[d].pc = "clean_stage"
               /\ stage' \subseteq stage
               /\ \A i \in stage : i \notin stage' => i \in disk[d].stageCleaned + 1 .. mem[d].target
               /\ \E mark \in -1 .. MaxSegment :
                    Moves(d, Completed(d, [mem[d] EXCEPT !.target = -1], n),
                             [disk[d] EXCEPT !.stageCleaned = mark])
  BY CleanEffect, Zenon
<1>2. /\ WorkerDone(d) /\ mem[d] \in MemType /\ disk[d] \in DiskType
  BY <1>1 DEF DeliveryInv, Shaped
<1>3. mem[d].pc \in {"authorize", "clean_work", "clean_stage"} /\ mem[d].pc \in Draining
  BY <1>1 DEF Draining
<1>4. Through(d, n)
  BY <1>1, <1>2, <1>3 DEF WorkerDone, HeadDone
<1>5. ASSUME NEW m, NEW k, Moves(d, Completed(d, m, n), k), m \in MemType, m.tmp = {},
             m.progress = mem[d].progress, m.pending = mem[d].pending,
             k.authorized = disk[d].authorized, k.cleaned = disk[d].cleaned,
             k.cdc = disk[d].cdc, k.resume = disk[d].resume, k.work = disk[d].work,
             \A i \in stage : i \in stage' \/ \A e \in Dst : Through(e, i)
      PROVE  DeliveryInv' /\ Still
  <2>1. /\ mem'[d] = Completed(d, m, n) /\ disk'[d] = k /\ layout' = layout /\ produced' = produced
        /\ paused' = paused
    BY <1>5, MovesFacts
  <2>2. Keeps(d)
    BY <1>1, <1>5, <2>1 DEF Keeps, Delivered
  <2>3. Stays
    BY <1>5, <2>1 DEF Stays
  <2>4. WorkerDone(d)'
    BY <1>1, <1>2, <1>3, <1>4, <1>5, <2>1, <2>2, <2>3, CompletedDone
  <2>5. \A i \in Seg : Through(d, i) => Through(d, i)'
    BY <2>2, KeepsFacts
  <2> QED BY <1>1, <1>5, <2>3, <2>4, <2>5, OneWorker
<1>6. CASE mem[d].pc = "authorize"
  <2>1. PICK target \in -1 .. MaxSegment :
           /\ stage' = stage
           /\ target # -1 => \A e \in Dst : target < mem[e].progress
           /\ \/ target = -1 /\ Moves(d, Completed(d, mem[d], n),
                                         [disk[d] EXCEPT !.authorized = IF @ >= target THEN @ ELSE target])
              \/ Moves(d, [mem[d] EXCEPT !.target = target, !.pc = "clean_work"],
                          [disk[d] EXCEPT !.authorized = IF @ >= target THEN @ ELSE target])
    BY <1>1, <1>6
  <2>2. CASE target = -1 /\ Moves(d, Completed(d, mem[d], n),
                                     [disk[d] EXCEPT !.authorized = IF @ >= target THEN @ ELSE target])
    <3>1. PICK k : k = [disk[d] EXCEPT !.authorized = IF @ >= target THEN @ ELSE target]
      OBVIOUS
    <3>2. disk[d].authorized >= -1
      BY FieldTypes
    <3>3. k.authorized = disk[d].authorized /\ k.cleaned = disk[d].cleaned
          /\ k.cdc = disk[d].cdc /\ k.resume = disk[d].resume /\ k.work = disk[d].work
      BY <1>2, <2>2, <3>1, <3>2 DEF DiskType
    <3>4. Moves(d, Completed(d, mem[d], n), k)
      BY <2>2, <3>1
    <3> QED BY <1>1, <1>2, <1>5, <2>1, <3>3, <3>4
  <2>3. CASE Moves(d, [mem[d] EXCEPT !.target = target, !.pc = "clean_work"],
                      [disk[d] EXCEPT !.authorized = IF @ >= target THEN @ ELSE target])
    BY <1>1, <1>6, <2>1, <2>3, DeliveryAuthorize
  <2> QED BY <2>1, <2>2, <2>3
<1>7. CASE mem[d].pc = "clean_work"
  <2>1. PICK written \in BOOLEAN :
           Moves(d, [mem[d] EXCEPT !.pc = "clean_stage"],
                 [disk[d] EXCEPT
                    !.work = [i \in Seg |-> IF i \in disk[d].cleaned + 1 .. mem[d].target
                                            THEN "none" ELSE @[i]],
                    !.cdc  = [i \in Seg |-> IF i \in disk[d].cleaned + 1 .. mem[d].target
                                            THEN {} ELSE @[i]],
                    !.cleaned = IF written /\ mem[d].target > @ THEN mem[d].target ELSE @])
    BY <1>1, <1>7
  <2>2. PICK k : k = [disk[d] EXCEPT
                        !.work = [i \in Seg |-> IF i \in disk[d].cleaned + 1 .. mem[d].target
                                                THEN "none" ELSE @[i]],
                        !.cdc  = [i \in Seg |-> IF i \in disk[d].cleaned + 1 .. mem[d].target
                                                THEN {} ELSE @[i]],
                        !.cleaned = IF written /\ mem[d].target > @ THEN mem[d].target ELSE @]
    OBVIOUS
  <2>3. disk[d].cleaned \in Int /\ mem[d].target \in Int
    BY FieldTypes
  <2>4. /\ k.authorized = disk[d].authorized /\ k.resume = disk[d].resume
        /\ k.cleaned = IF written /\ mem[d].target > disk[d].cleaned THEN mem[d].target ELSE disk[d].cleaned
        /\ \A i \in Seg : k.work[i] = IF i \in disk[d].cleaned + 1 .. mem[d].target
                                      THEN "none" ELSE disk[d].work[i]
        /\ \A i \in Seg : k.cdc[i] = IF i \in disk[d].cleaned + 1 .. mem[d].target
                                     THEN {} ELSE disk[d].cdc[i]
    BY <1>2, <2>2 DEF DiskType
  <2>5. \A i \in Seg : \/ k.work[i] = disk[d].work[i] /\ k.cdc[i] = disk[d].cdc[i]
                       \/ i <= mem[d].target /\ k.work[i] = "none" /\ k.cdc[i] = {}
    BY <2>3, <2>4
  <2>6. /\ k.cleaned = disk[d].cleaned \/ k.cleaned = mem[d].target
        /\ k.cleaned >= disk[d].cleaned
    BY <2>3, <2>4
  <2>7. Moves(d, [mem[d] EXCEPT !.pc = "clean_stage"], k) /\ stage' = stage
    BY <1>1, <1>7, <2>1, <2>2
  <2> QED BY <1>1, <1>7, <2>4, <2>5, <2>6, <2>7, DeliveryCleanWork
<1>8. CASE mem[d].pc = "clean_stage"
  <2>1. PICK mark \in -1 .. MaxSegment :
           Moves(d, Completed(d, [mem[d] EXCEPT !.target = -1], n), [disk[d] EXCEPT !.stageCleaned = mark])
    BY <1>1, <1>8
  <2>2. PICK m, k : m = [mem[d] EXCEPT !.target = -1] /\ k = [disk[d] EXCEPT !.stageCleaned = mark]
    OBVIOUS
  <2>3. -1 \in -1 .. MaxSegment
    BY CountAssumption
  <2>4. m \in MemType /\ m.tmp = {} /\ m.progress = mem[d].progress /\ m.pending = mem[d].pending
    BY <1>1, <1>2, <2>2, <2>3 DEF MemType
  <2>5. k.authorized = disk[d].authorized /\ k.cleaned = disk[d].cleaned
        /\ k.cdc = disk[d].cdc /\ k.resume = disk[d].resume /\ k.work = disk[d].work
    BY <1>2, <2>2 DEF DiskType
  <2>6. \A i \in stage : i \in stage' \/ \A e \in Dst : Through(e, i)
    <3>1. \A i \in Seg : i <= mem[d].target => \A e \in Dst : Through(e, i)
      BY <1>2, <1>8 DEF WorkerDone, TargetDone, Cleaning
    <3>2. \A i \in stage : i \notin stage' => i <= mem[d].target
      <4>1. disk[d].stageCleaned \in Int /\ mem[d].target \in Int
        BY FieldTypes
      <4> QED BY <1>1, <1>8, <4>1
    <3> QED BY <3>1, <3>2, ShippedIsSeg
  <2>7. Moves(d, Completed(d, m, n), k)
    BY <2>1, <2>2
  <2> QED BY <1>5, <2>4, <2>5, <2>6, <2>7
<1> QED BY <1>3, <1>6, <1>7, <1>8

\* With the checkpoint in the destination nothing is lost with the state database.
LEMMA DeliveryTempDirCleared ==
  ASSUME TypeInv, DeliveryInv, NEW d \in Dst, TempDirCleared(d)
  PROVE  DeliveryInv' /\ Still
<1>1. OwnCheckpoint /\ mem[d].pc = "off" /\ stage' = stage /\ db' = db /\ WorkerDone(d)
      /\ mem[d] \in MemType /\ disk[d] \in DiskType
  BY DEF TempDirCleared, Running, DeliveryInv, TypeInv
<1>2. PICK k : k = [disk[d] EXCEPT !.init = FALSE, !.commit = 0, !.authorized = -1, !.stageCleaned = -1]
  OBVIOUS
<1>3. /\ k.work = disk[d].work /\ k.cleaned = disk[d].cleaned /\ k.cdc = disk[d].cdc
      /\ k.resume = disk[d].resume /\ k.authorized = -1
  BY <1>1, <1>2 DEF DiskType
<1>4. disk' = [disk EXCEPT ![d] = k]
  BY <1>1, <1>2 DEF TempDirCleared, DiskType, TypeInv
<1>5. Moves(d, mem[d], k)
  <2>1. mem = [mem EXCEPT ![d] = mem[d]]
    BY DEF TypeInv
  <2> QED BY <1>4, <2>1 DEF TempDirCleared, Moves, env, Fault
<1>6. mem'[d] = mem[d] /\ disk'[d] = k /\ layout' = layout /\ produced' = produced /\ paused' = paused
  BY <1>5, MovesFacts
<1>7. /\ (SqlDevice' <=> SqlDevice) /\ (OwnCheckpoint' <=> OwnCheckpoint)
      /\ \A i \in Seg : /\ Owed(d, i)' = Owed(d, i)
                        /\ Covered(d, i)' <=> Covered(d, i)
                        /\ ToReplay(d, i)' = ToReplay(d, i)
  BY <1>1, <1>3, <1>6, LayoutKept DEF Owed, Delivered, Covered, ToReplay, ReplicaResume, Committed
<1>8. \A i \in Seg : Passed(d, i)' <=> Passed(d, i)
  <2>1. \A i \in Seg : i <= disk[d].authorized => Covered(d, i)
    BY <1>1 DEF WorkerDone, ProgressDone
  <2>2. \A i \in Seg : ~ (i <= -1)
    BY DEF Seg
  <2> QED BY <1>3, <1>6, <1>7, <2>1, <2>2 DEF Passed
<1>9. \A i \in Seg : Through(d, i)' <=> Through(d, i)
  BY <1>7, <1>8 DEF Through
<1>10. Stays
  BY <1>1, <1>6, NothingGone
<1>11. DrainDone(d)' /\ HeadDone(d)' /\ TargetDone(d)'
  BY <1>1, <1>6 DEF DrainDone, HeadDone, TargetDone, Draining, Handling, Cleaning
<1>12. RetainedDone(d)'
  BY <1>1, <1>3, <1>6, <1>9 DEF WorkerDone, RetainedDone
<1>13. ReadDone(d)'
  BY <1>1, <1>3, <1>6, <1>7, <1>8, <1>9 DEF WorkerDone, ReadDone
<1>14. CheckpointDone(d)'
  <2>1. db[d].ck.seg \in Seg
    BY FieldTypes
  <2> QED BY <1>1, <1>7, <2>1 DEF WorkerDone, CheckpointDone
<1>15. ProgressDone(d)'
  <2>1. \A i \in Seg : ~ (i <= -1)
    BY DEF Seg
  <2> QED BY <1>1, <1>3, <1>6, <1>7, <1>9, <2>1 DEF WorkerDone, ProgressDone
<1>16. ReplayDone(d)'
  <2>1. ASSUME SqlDevice, NEW i \in Seg
        PROVE  Owed(d, i) \subseteq IF disk[d].cdc[i] # {} THEN disk[d].cdc[i] ELSE ToReplay(d, i)
    BY <1>1, <2>1 DEF WorkerDone, ReplayDone
  <2> QED BY <1>1, <1>3, <1>6, <1>7, <2>1 DEF ReplayDone
<1>17. WorkerDone(d)'
  BY <1>11, <1>12, <1>13, <1>14, <1>15, <1>16 DEF WorkerDone
<1> QED BY <1>1, <1>5, <1>9, <1>10, <1>17, OneWorker

\* The steps of everything around the workers.  The application pauses only a device that
\* knows its stage directory, and the process does not stop within a replay.
LEMMA DeliveryEnvironment ==
  ASSUME TypeInv, DeliveryInv, ~ ReplayMayStop, ~ PausePushOnly,
         \/ ShipSegment \/ Notify \/ Open \/ PauseSync \/ ResumeSync \/ Crash \/ UNCHANGED vars
         \/ \E d \in Dst : Shutdown(d)
  PROVE  DeliveryInv' /\ Still
<1>1. UNCHANGED <<layout, disk, db>>
  BY DEF ShipSegment, Notify, Open, PauseSync, ResumeSync, Crash, Shutdown, vars, env
<1>2. Dst' = Dst /\ \A d \in Dst : Keeps(d)
  BY <1>1, LayoutKept DEF Keeps, Delivered
<1>3. Stays
  <2>1. CASE ShipSegment
    <3>1. \A n \in Seg : n < produced' => n < produced \/ n = produced
      BY <2>1, ShippedIsSeg DEF ShipSegment, Seg
    <3> QED BY <2>1, <3>1 DEF ShipSegment, Stays
  <2>2. CASE ~ ShipSegment
    <3>1. produced' = produced /\ stage' = stage
      BY <2>2 DEF Notify, Open, PauseSync, ResumeSync, Crash, Shutdown, vars, env
    <3> QED BY <3>1, NothingGone
  <2> QED BY <2>1, <2>2
<1>4. ~ layout.stageDir /\ ~ paused => ~ paused'
  BY DEF ShipSegment, Notify, Open, PauseSync, ResumeSync, Crash, Shutdown, vars, env
<1>5. ASSUME NEW e \in Dst
      PROVE  \/ mem'[e].pc = mem[e].pc /\ mem'[e].pending = mem[e].pending
                /\ mem'[e].progress = mem[e].progress /\ mem'[e].tmp = mem[e].tmp
                /\ mem'[e].target = mem[e].target
             \/ /\ mem'[e].pc \in {"off", "recv"} /\ mem'[e].progress = -1 /\ mem[e].tmp = {}
                /\ \A n \in Seg : mem'[e].pending[n] = "no"
                /\ produced' = produced /\ paused' = paused
  <2>1. mem[e] \in MemType /\ mem \in [Dst -> MemType]
    BY DEF TypeInv
  <2>2. CASE Notify
    <3>1. mem'[e] = mem[e] \/ mem'[e] = [mem[e] EXCEPT !.inbox = Queued(@, Min(due))]
      BY <2>2 DEF Notify
    <3> QED BY <2>1, <3>1 DEF MemType
  <2>3. CASE Open
    <3>1. /\ mem'[e] = mem[e] \/ (~ Running(e) /\ mem'[e] = [Off EXCEPT !.pc = "recv"])
          /\ produced' = produced /\ paused' = paused
      BY <2>3 DEF Open, env
    <3>2. CASE ~ Running(e) /\ mem'[e] = [Off EXCEPT !.pc = "recv"]
      <4>1. mem[e].tmp = {}
        BY <3>2 DEF Running, TypeInv, Shaped
      <4> QED BY <2>3, <3>2, <4>1 DEF Off, Open, env
    <3> QED BY <3>1, <3>2
  <2>4. CASE Crash
    <3>1. mem'[e] = Off /\ MayStop(e) /\ produced' = produced /\ paused' = paused
      BY <2>4 DEF Crash, env
    <3> QED BY <3>1 DEF MayStop, Off
  <2>5. CASE \E d \in Dst : Shutdown(d)
    <3>1. PICK d \in Dst : mem' = [mem EXCEPT ![d].stop = "asked"]
      BY <2>5 DEF Shutdown
    <3>2. mem'[e] = mem[e] \/ mem'[e] = [mem[e] EXCEPT !.stop = "asked"]
      BY <2>1, <3>1
    <3> QED BY <2>1, <3>2 DEF MemType
  <2>6. CASE ShipSegment \/ PauseSync \/ ResumeSync \/ UNCHANGED vars
    BY <2>6 DEF ShipSegment, PauseSync, ResumeSync, vars
  <2> QED BY <2>2, <2>3, <2>4, <2>5, <2>6
<1>6. ASSUME NEW e \in Dst PROVE WorkerDone(e)'
  <2>1. WorkerDone(e) /\ Keeps(e)
    BY <1>2 DEF DeliveryInv
  <2>2. CASE mem'[e].pc = mem[e].pc /\ mem'[e].pending = mem[e].pending
             /\ mem'[e].progress = mem[e].progress /\ mem'[e].tmp = mem[e].tmp
             /\ mem'[e].target = mem[e].target
    <3>1. \A d \in Dst : \A n \in Seg : Through(d, n) => Through(d, n)'
      BY <1>2, KeepsFacts
    <3>2. disk'[e] = disk[e] /\ db'[e] = db[e] /\ layout' = layout
      BY <1>1
    <3> QED BY <1>3, <1>4, <2>1, <2>2, <3>1, <3>2, OtherWorkerDone
  <2>3. CASE /\ mem'[e].pc \in {"off", "recv"} /\ mem'[e].progress = -1 /\ mem[e].tmp = {}
             /\ \A n \in Seg : mem'[e].pending[n] = "no"
             /\ produced' = produced /\ paused' = paused
    <3>1. \A n \in Seg : disk'[e].work[n] = disk[e].work[n]
      BY <1>1
    <3>2. \A n \in Seg : mem'[e].pending[n] \in {mem[e].pending[n], "stage", "no"}
      BY <2>3
    <3> QED BY <1>3, <2>1, <2>3, <3>1, <3>2, RestDone
  <2> QED BY <1>5, <2>2, <2>3
<1>7. Still
  BY <1>2, KeepsFacts DEF Still
<1> QED BY <1>2, <1>6, <1>7 DEF DeliveryInv

\* Nothing is passed before anything was produced.
LEMMA DeliveryInit == Init => DeliveryInv
<1> SUFFICES ASSUME Init, NEW d \in Dst PROVE WorkerDone(d)
  BY DEF DeliveryInv
<1>1. mem[d] = Off /\ disk[d] = Fresh /\ produced = 0 /\ paused = FALSE
      /\ db[d] = [log |-> <<>>, ck |-> [seg |-> 0, change |-> -1, commit |-> 0]]
  BY DEF Init
<1>2. /\ mem[d].pc = "off" /\ mem[d].progress = -1 /\ mem[d].tmp = {}
      /\ \A n \in Seg : mem[d].pending[n] = "no"
  BY <1>1 DEF Off
<1>3. /\ disk[d].authorized = -1 /\ disk[d].cleaned = -1 /\ disk[d].resume = <<-1, 0>>
      /\ \A n \in Seg : disk[d].work[n] = "none" /\ disk[d].cdc[n] = {}
  BY <1>1 DEF Fresh
<1>4. db[d].ck.seg = 0 /\ db[d].ck.change = -1
  BY <1>1
<1>5. \A n \in Seg : n \in Nat /\ ~ (n <= -1) /\ ~ (n < 0)
  BY DEF Seg
<1>6. \A n \in Seg : ~ Passed(d, n)
  BY <1>3, <1>4, <1>5 DEF Passed, Covered
<1>7. ReadDone(d) /\ DrainDone(d) /\ RetainedDone(d) /\ HeadDone(d) /\ TargetDone(d) /\ CheckpointDone(d)
  BY <1>1, <1>2, <1>3, <1>4, <1>5, <1>6
     DEF ReadDone, DrainDone, RetainedDone, HeadDone, TargetDone, CheckpointDone,
         Draining, Handling, Cleaning
<1>8. ProgressDone(d)
  BY <1>2, <1>3, <1>4, <1>5 DEF ProgressDone
<1>9. ReplayDone(d)
  <2>1. \A n \in Seg : ToReplay(d, n) = Committed(n)
    BY <1>3, <1>5 DEF ToReplay, ReplicaResume, Committed
  <2> QED BY <1>2, <1>3, <2>1 DEF ReplayDone, Owed, Wanted
<1> QED BY <1>7, <1>8, <1>9 DEF WorkerDone

\* The process does not stop within a replay that has committed on the replica, and only a
\* device whose workers know the stage directory is paused.
Careful == ~ ReplayMayStop /\ ~ PausePushOnly

\* No step of the careful system breaks the delivery invariant.
LEMMA DeliveryStep ==
  ASSUME TypeInv, DeliveryInv, Careful, [Next]_vars
  PROVE  DeliveryInv' /\ Still
<1>1. ~ ReplayMayStop /\ ~ PausePushOnly
  BY DEF Careful
<1>2. CASE \E d \in Dst : Step(d) \/ Shutdown(d) \/ StepFails(d) \/ CheckpointFails(d) \/ TempDirCleared(d)
  <2>1. PICK d \in Dst : Step(d) \/ Shutdown(d) \/ StepFails(d) \/ CheckpointFails(d) \/ TempDirCleared(d)
    BY <1>2
  <2>2. CASE Step(d)
    BY <2>2, DeliveryLoop, DeliveryBoot, DeliveryProcess, DeliveryReplay, DeliveryApply,
       DeliveryCheckpoint, DeliveryRecord, DeliveryClean, Zenon DEF Step
  <2>3. CASE Shutdown(d)
    BY <1>1, <2>3, DeliveryEnvironment
  <2>4. CASE StepFails(d) \/ CheckpointFails(d) \/ TempDirCleared(d)
    BY <1>1, <2>4, DeliveryStepFails, DeliveryRecord, DeliveryTempDirCleared, Zenon
  <2> QED BY <2>1, <2>2, <2>3, <2>4
<1>3. CASE ShipSegment \/ Notify \/ Open \/ PauseSync \/ ResumeSync \/ Crash \/ UNCHANGED vars
  BY <1>1, <1>3, DeliveryEnvironment
<1> QED BY <1>2, <1>3 DEF Next

\* What a worker is not through with can still be read.
LEMMA DeliveryGivesReadable ==
  ASSUME TypeInv, DeliveryInv
  PROVE  UndeliveredIsReadable
<1> SUFFICES ASSUME NEW d \in Dst, NEW n \in Shipped, Owed(d, n) # {}
             PROVE  /\ n \in stage \/ disk[d].work[n] = "copy"
                    /\ disk[d].work[n] # "applied"
                    /\ n > disk[d].authorized /\ n > disk[d].cleaned /\ ~ Covered(d, n)
                    /\ SqlDevice => Owed(d, n) \subseteq
                         IF disk[d].cdc[n] # {} THEN disk[d].cdc[n] ELSE ToReplay(d, n) \union mem[d].tmp
  BY DEF UndeliveredIsReadable
<1>1. WorkerDone(d)
  BY DEF DeliveryInv
<1>2. n \in Seg /\ n \in Int /\ n < produced
  BY ShippedIsSeg DEF Shipped, Seg
<1>3. ~ Through(d, n) /\ ~ Passed(d, n)
  BY <1>1, <1>2 DEF Through, WorkerDone, ReadDone
<1>4. disk[d].authorized \in Int /\ disk[d].cleaned \in Int
  BY FieldTypes
<1>5. n \in stage \/ disk[d].work[n] = "copy"
  BY <1>1, <1>2, <1>3 DEF WorkerDone, ReadDone
<1>6. SqlDevice => Owed(d, n) \subseteq
        IF disk[d].cdc[n] # {} THEN disk[d].cdc[n] ELSE ToReplay(d, n) \union mem[d].tmp
  BY <1>1, <1>2 DEF WorkerDone, ReplayDone
<1> QED BY <1>2, <1>3, <1>4, <1>5, <1>6 DEF Passed

\* The delivery invariant holds in every state of the careful system.
LEMMA DeliveryHolds == Spec => [](Careful => DeliveryInv)
<1>1. Init => (Careful => DeliveryInv)
  BY DeliveryInit
<1>2. TypeInv /\ (Careful => DeliveryInv) /\ [Next]_vars => (Careful => DeliveryInv)'
  BY DeliveryStep DEF Careful
<1> QED BY <1>1, <1>2, TypesHold, PTL DEF Spec

\* Nothing a destination lacks gets lost on the way to it: neither a crash, a failing step,
\* a pause, a cleanup by the worker of another destination nor a cleared directory passes
\* over a segment that was not delivered, or removes the last copy of it.
THEOREM UndeliveredStaysReadable == Spec => [](Careful => UndeliveredIsReadable)
<1>1. TypeInv /\ (Careful => DeliveryInv) => (Careful => UndeliveredIsReadable)
  BY DeliveryGivesReadable
<1> QED BY <1>1, TypesHold, DeliveryHolds, PTL

--------------------------------------------------------------------------------
(* Order                                                                        *)

\* The head is sent to the destination.
Sends(d) ==
  /\ mem[d].pc = "apply" /\ ~ (SqlDevice /\ Covered(d, Front(d)))
  /\ mem'[d].pc \in {"checkpoint", "local"} /\ mem'[d].pending = mem[d].pending
  /\ \E rows \in SUBSET Txn :
       rows # {} /\ db'[d].log = Append(db[d].log, [seg |-> Front(d), txns |-> rows])

\* What a step may do to the log of a destination and to the head of its worker.
LogStep(d) ==
  /\ layout' = layout /\ faults' \in {faults, faults + 1}
  /\ \/ db'[d].log = db[d].log
     \/ db[d].log = <<>> /\ db'[d].log = Append(<<>>, [seg |-> -1, txns |-> {}])
     \/ Sends(d)
  /\ disk'[d].init \/ mem'[d].pc \in Started =>
       disk[d].init \/ mem[d].pc \in Started \/ db'[d].log # <<>>
  /\ mem[d].pc \in Sending =>
       \/ mem'[d].pc \in Sending \union {"authorize"} /\ mem'[d].pending = mem[d].pending
       \/ faults' = faults + 1

\* A step of worker d, which leaves the other workers alone.
OwnStep(d) ==
  /\ LogStep(d)
  /\ \A e \in Dst : e # d => mem'[e] = mem[e] /\ disk'[e] = disk[e] /\ db'[e] = db[e]

\* A move that leaves the log alone is such a step.
LEMMA OwnStepFromMove ==
  ASSUME TypeInv, NEW d \in Dst, NEW m, NEW k, Moves(d, m, k),
         db'[d].log = db[d].log, \A e \in Dst : e # d => db'[e] = db[e],
         k.init \/ m.pc \in Started => disk[d].init \/ mem[d].pc \in Started,
         mem[d].pc \in Sending => m.pc \in Sending \union {"authorize"} /\ m.pending = mem[d].pending
  PROVE  OwnStep(d)
<1>1. faults' \in {faults, faults + 1}
  BY DEF Moves, Fault
<1> QED BY <1>1, MovesFacts DEF OwnStep, LogStep

\* Every step of a worker is one.
LEMMA OwnStepFacts ==
  ASSUME TypeInv, NEW d \in Dst, Step(d)
  PROVE  OwnStep(d)
<1>1. mem[d] \in MemType /\ disk[d] \in DiskType /\ Shaped(mem[d], disk[d])
  BY DEF TypeInv
<1>2. CASE Receive(d)
  <2>1. PICK n, m, k :
          /\ n \in Seg
          /\ m.pc = "recv" /\ m.tmp = {} /\ Shaped(m, k) /\ mem[d].pc = "recv"
          /\ k = disk[d] \/ (paused /\ k = [disk[d] EXCEPT !.work[n] = Mirrored(d, n)])
          /\ db' = db
          /\ \/ disk[d].init /\ Moves(d, Flushed(d, m), k)
             \/ Moves(d, m, k)
             \/ Moves(d, [m EXCEPT !.pc = "boot"], k)
    BY <1>2, ReceiveEffect, Zenon
  <2>2. k.init = disk[d].init
    BY <1>1, <2>1 DEF DiskType
  <2>3. [m EXCEPT !.pc = "boot"].pc = "boot"
    BY <2>1 DEF Shaped, MemType
  <2>4. mem[d].pc \notin Sending /\ "recv" \notin Started /\ "boot" \notin Started
    BY <2>1 DEF Sending, Started, Draining
  <2>5. PICK f : /\ Moves(d, f, k)
                 /\ disk[d].init \/ f.pc = "recv" \/ f.pc = "boot"
    BY <2>1, <2>3, Zenon
  <2> QED BY <2>1, <2>2, <2>4, <2>5, OwnStepFromMove
<1>3. CASE Tick(d)
  <2>1. /\ mem[d].pc = "recv" /\ db' = db
        /\ \/ disk[d].init /\ Moves(d, Flushed(d, mem[d]), disk[d])
           \/ Moves(d, [mem[d] EXCEPT !.pc = "boot"], disk[d])
    BY <1>3, TickEffect, Zenon
  <2>2. [mem[d] EXCEPT !.pc = "boot"].pc = "boot"
    BY <1>1 DEF MemType
  <2>3. mem[d].pc \notin Sending /\ "boot" \notin Started
    BY <2>1 DEF Sending, Started, Draining
  <2>4. PICK f : Moves(d, f, disk[d]) /\ (disk[d].init \/ f.pc = "boot")
    BY <2>1, <2>2, Zenon
  <2> QED BY <2>1, <2>3, <2>4, OwnStepFromMove
<1>4. CASE LastFlush(d)
  <2>1. PICK m :
          /\ mem[d].pc = "recv" /\ db' = db
          /\ \/ disk[d].init /\ Moves(d, Flushed(d, m), disk[d])
             \/ m.pc = "boot" /\ Moves(d, m, disk[d])
             \/ Moves(d, Off, disk[d])
    BY <1>4, LastFlushEffect, Zenon
  <2>2. Off.pc = "off"
    BY DEF Off
  <2>3. mem[d].pc \notin Sending /\ "boot" \notin Started /\ "off" \notin Started
    BY <2>1 DEF Sending, Started, Draining
  <2>4. PICK f : Moves(d, f, disk[d]) /\ (disk[d].init \/ f.pc = "boot" \/ f.pc = "off")
    BY <2>1, <2>2, Zenon
  <2> QED BY <2>1, <2>3, <2>4, OwnStepFromMove
<1>5. CASE Bootstrap(d)
  <2>1. CASE /\ mem[d].pc = "boot"
             /\ Moves(d, [mem[d] EXCEPT !.pc = "boot_local"], disk[d])
             /\ db' = IF SnapshotCompleted(d) THEN db
                      ELSE [db EXCEPT ![d].log = Append(@, [seg |-> -1, txns |-> {}])]
    <3>1. mem'[d].pc = "boot_local" /\ disk'[d] = disk[d] /\ layout' = layout
          /\ \A e \in Dst : e # d => mem'[e] = mem[e] /\ disk'[e] = disk[e]
      BY <1>1, <2>1, MovesFacts DEF MemType
    <3>2. (db' = db /\ db[d].log # <<>>) \/ db[d].log = <<>>
      BY <2>1 DEF SnapshotCompleted
    <3>3. CASE db[d].log = <<>>
      <4>1. db' = [db EXCEPT ![d].log = Append(@, [seg |-> -1, txns |-> {}])]
        BY <2>1, <3>3 DEF SnapshotCompleted
      <4>2. db'[d].log = Append(<<>>, [seg |-> -1, txns |-> {}])
            /\ \A e \in Dst : e # d => db'[e] = db[e]
        BY <3>3, <4>1, FieldTypes DEF TypeInv, DbType
      <4>3. db'[d].log # <<>>
        BY <4>2
      <4>4. faults' \in {faults, faults + 1}
        BY <2>1 DEF Moves, Fault
      <4> QED BY <2>1, <3>1, <3>3, <4>2, <4>3, <4>4 DEF OwnStep, LogStep, Sending
    <3>4. CASE db[d].log # <<>>
      <4>1. db' = db
        BY <2>1, <3>4 DEF SnapshotCompleted
      <4>2. faults' \in {faults, faults + 1}
        BY <2>1 DEF Moves, Fault
      <4> QED BY <2>1, <3>1, <3>4, <4>1, <4>2 DEF OwnStep, LogStep, Sending
    <3> QED BY <3>3, <3>4
  <2>2. CASE /\ mem[d].pc = "boot_local" /\ db' = db
             /\ Moves(d, Flushed(d, mem[d]), [disk[d] EXCEPT !.init = TRUE])
    BY <2>2, OwnStepFromMove DEF Started, Sending
  <2> QED BY <1>5, <2>1, <2>2, BootEffect
<1>6. CASE ProcessHead(d)
  <2>1. mem[d].pc = "head" /\ db' = db /\ \E m, k : Moves(d, m, k) /\ k.init = disk[d].init
    <3>1. [disk[d] EXCEPT !.work[Front(d)] = Mirrored(d, Front(d))].init = disk[d].init
      BY <1>1 DEF DiskType
    <3> QED BY <1>6, <3>1, ProcessEffect, Zenon
  <2> QED BY <2>1, OwnStepFromMove DEF Started, Sending, Draining
<1>7. CASE Replay(d)
  <2>1. mem[d].pc = "replay" /\ db' = db /\ \E m, k : Moves(d, m, k)
    BY <1>7, ReplayEffect, Zenon
  <2> QED BY <2>1, OwnStepFromMove DEF Started, Sending, Draining
<1>8. CASE Apply(d)
  <2>1. mem[d].pc = "apply" /\ \E m, k : Moves(d, m, k)
    BY <1>8, ApplyEffect, Zenon
  <2>2. CASE db' = db
    BY <2>1, <2>2, OwnStepFromMove DEF Started, Sending, Draining
  <2>3. CASE db' # db
    <3> DEFINE n == Front(d)
               rows == ToSend(d, n)
    <3>1. /\ ~ (SqlDevice /\ Covered(d, n)) /\ rows # {}
          /\ db' = [db EXCEPT ![d].log = Append(@, [seg |-> n, txns |-> rows])]
          /\ Moves(d, [mem[d] EXCEPT !.sent = rows, !.commit = AppliedCommit(d, n),
                                     !.pc = IF OwnCheckpoint THEN "checkpoint" ELSE "local"],
                      disk[d])
      BY <1>8, <2>3, ApplyEffect
    <3>2. n \in Seg
      BY <2>1, HeadFacts DEF Draining
    <3>3. rows \in SUBSET Txn
      BY <3>2, ContentFacts
    <3> HIDE DEF n, rows
    <3>4. PICK m : m = [mem[d] EXCEPT !.sent = rows, !.commit = AppliedCommit(d, n),
                                      !.pc = IF OwnCheckpoint THEN "checkpoint" ELSE "local"]
      OBVIOUS
    <3>5. m.pc \in {"checkpoint", "local"} /\ m.pending = mem[d].pending
      BY <1>1, <3>4 DEF MemType
    <3>6. Moves(d, m, disk[d])
      BY <3>1, <3>4
    <3>7. db'[d].log = Append(db[d].log, [seg |-> n, txns |-> rows])
          /\ \A e \in Dst : e # d => db'[e] = db[e]
      BY <3>1, FieldTypes DEF TypeInv, DbType
    <3>8. Sends(d)
      BY <2>1, <3>1, <3>3, <3>5, <3>6, <3>7, MovesFacts DEF Sends, n
    <3>9. faults' \in {faults, faults + 1}
      BY <3>6 DEF Moves, Fault
    <3> QED BY <2>1, <3>6, <3>7, <3>8, <3>9, MovesFacts DEF OwnStep, LogStep, Sending, Started, Draining
  <2> QED BY <2>2, <2>3
<1>9. CASE Checkpoint(d)
  <2>1. PICK ck : /\ mem[d].pc = "checkpoint" /\ Moves(d, [mem[d] EXCEPT !.pc = "local"], disk[d])
                  /\ db' = [db EXCEPT ![d] = [db[d] EXCEPT !.ck = ck]]
    <3>1. PICK ck \in [seg : Seg, change : -1 .. Txns, commit : Nat] :
             db' = [db EXCEPT ![d] = [db[d] EXCEPT !.ck = ck]]
      BY <1>9, CheckpointEffect, Zenon
    <3> QED BY <1>9, <3>1, CheckpointEffect, Zenon
  <2>2. db'[d].log = db[d].log /\ \A e \in Dst : e # d => db'[e] = db[e]
    BY <2>1, FieldTypes DEF TypeInv, DbType
  <2>3. PICK m : m = [mem[d] EXCEPT !.pc = "local"]
    OBVIOUS
  <2>4. m.pc = "local" /\ m.pending = mem[d].pending
    BY <1>1, <2>3 DEF MemType
  <2>5. Moves(d, m, disk[d])
    BY <2>1, <2>3
  <2> QED BY <2>1, <2>2, <2>4, <2>5, OwnStepFromMove DEF Started, Sending, Draining
<1>10. CASE LocalCheckpoint(d) \/ Mark(d)
  <2>1. mem[d].pc \in {"local", "mark"} /\ db' = db
    BY <1>10 DEF LocalCheckpoint, Mark, Worker
  <2>2. PICK m, k : /\ Moves(d, m, k) /\ m.pc \in Sending \union {"authorize"}
                    /\ m.pending = mem[d].pending
    <3>1. /\ [mem[d] EXCEPT !.pc = "mark"].pc \in Sending \union {"authorize"}
          /\ [mem[d] EXCEPT !.pc = "mark"].pending = mem[d].pending
      BY <1>1 DEF MemType, Sending
    <3>2. Front(d) \in Seg
      BY <2>1, HeadFacts DEF Draining
    <3>3. /\ Recorded(mem[d], Front(d)).pc \in Sending \union {"authorize"}
          /\ Recorded(mem[d], Front(d)).pending = mem[d].pending
      BY <1>1, <3>2, RecordedFacts
    <3>4. "checkpoint" \notin {"local", "mark"}
      OBVIOUS
    <3> QED BY <1>10, <2>1, <3>1, <3>3, <3>4, RecordEffect, Zenon
  <2> QED BY <2>1, <2>2, OwnStepFromMove DEF Started, Draining
<1>11. CASE Clean(d)
  <2>1. mem[d].pc \in {"authorize", "clean_work", "clean_stage"} /\ db' = db
        /\ \E m, k : Moves(d, m, k)
    <3>1. db' = db /\ mem[d].pc \in {"authorize", "clean_work", "clean_stage"}
      BY <1>11 DEF Clean, Authorize, CleanWork, CleanStage, Worker
    <3>2. \E m, k : Moves(d, m, k)
      BY <1>11, CleanEffect, Zenon
    <3> QED BY <3>1, <3>2
  <2> QED BY <2>1, OwnStepFromMove DEF Started, Sending, Draining
<1> QED BY <1>2, <1>3, <1>4, <1>5, <1>6, <1>7, <1>8, <1>9, <1>10, <1>11 DEF Step

\* Every step is of this kind for every destination.
LEMMA EveryLogStep ==
  ASSUME TypeInv, [Next]_vars, NEW e \in Dst
  PROVE  LogStep(e)
<1>1. mem[e] \in MemType /\ mem \in [Dst -> MemType] /\ faults \in Nat
  BY LayoutFacts DEF TypeInv
<1>2. CASE \E d \in Dst : Step(d)
  <2>1. PICK d \in Dst : OwnStep(d)
    BY <1>2, OwnStepFacts
  <2>2. CASE e = d
    BY <2>1, <2>2 DEF OwnStep
  <2>3. CASE e # d
    <3>1. mem'[e] = mem[e] /\ disk'[e] = disk[e] /\ db'[e] = db[e]
          /\ layout' = layout /\ faults' \in {faults, faults + 1}
      BY <2>1, <2>3 DEF OwnStep, LogStep
    <3> QED BY <3>1 DEF LogStep
  <2> QED BY <2>2, <2>3
<1>3. ASSUME UNCHANGED <<layout, disk, db>>, faults' \in {faults, faults + 1},
             \/ mem'[e].pc = mem[e].pc /\ mem'[e].pending = mem[e].pending
             \/ mem[e].pc \notin Sending /\ mem'[e].pc \notin Started
             \/ mem'[e].pc \notin Started /\ faults' = faults + 1
      PROVE  LogStep(e)
  BY <1>3 DEF LogStep
<1>4. CASE ShipSegment \/ PauseSync \/ ResumeSync \/ UNCHANGED vars
  BY <1>3, <1>4 DEF ShipSegment, PauseSync, ResumeSync, vars, env
<1>5. CASE Notify
  <2>1. mem'[e] = mem[e] \/ mem'[e] = [mem[e] EXCEPT !.inbox = Queued(@, Min(due))]
    BY <1>5 DEF Notify
  <2> QED BY <1>1, <1>3, <1>5, <2>1 DEF MemType, Notify, env
<1>6. CASE Open
  <2>1. mem'[e] = mem[e] \/ (~ Running(e) /\ mem'[e] = [Off EXCEPT !.pc = "recv"])
    BY <1>6 DEF Open
  <2> QED BY <1>3, <1>6, <2>1 DEF Open, env, Running, Off, Sending, Started, Draining
<1>7. CASE Crash
  <2>1. mem'[e] = Off /\ faults' = faults + 1 /\ UNCHANGED <<layout, disk, db>>
    BY <1>7 DEF Crash, env, Fault
  <2> QED BY <1>3, <2>1 DEF Off, Started, Draining
<1>8. CASE \E d \in Dst : Shutdown(d)
  <2>1. PICK d \in Dst : mem' = [mem EXCEPT ![d].stop = "asked"]
    BY <1>8 DEF Shutdown
  <2>2. mem'[e] = mem[e] \/ mem'[e] = [mem[e] EXCEPT !.stop = "asked"]
    BY <1>1, <2>1
  <2> QED BY <1>1, <1>3, <1>8, <2>2 DEF MemType, Shutdown
<1>9. CASE \E d \in Dst : StepFails(d)
  <2>1. PICK d \in Dst : StepFails(d)
    BY <1>9
  <2>2. mem' = [mem EXCEPT ![d] = Rest(mem[d])] /\ faults' = faults + 1 /\ UNCHANGED <<layout, disk, db>>
    BY <2>1 DEF StepFails, env, Fault
  <2>3. Rest(mem[d]).pc \in {"off", "recv"}
    BY RestFacts DEF TypeInv
  <2>4. mem'[e] = mem[e] \/ mem'[e].pc \in {"off", "recv"}
    BY <1>1, <2>2, <2>3
  <2> QED BY <1>3, <2>2, <2>4 DEF Started, Draining
<1>10. CASE \E d \in Dst : CheckpointFails(d)
  <2>1. PICK d \in Dst : CheckpointFails(d)
    BY <1>10
  <2>2. /\ mem[d].pc = "checkpoint" /\ mem' = [mem EXCEPT ![d] = [mem[d] EXCEPT !.pc = "apply"]]
        /\ faults' = faults + 1 /\ UNCHANGED <<layout, disk, db>>
    BY <2>1 DEF CheckpointFails, Worker, env, Fault
  <2>3. mem'[e].pc \in Started => mem[e].pc \in Started
    BY <1>1, <2>2 DEF Started, Draining
  <2> QED BY <2>2, <2>3 DEF LogStep
<1>11. CASE \E d \in Dst : TempDirCleared(d)
  <2>1. PICK d \in Dst : TempDirCleared(d)
    BY <1>11
  <2>2. /\ disk' = [disk EXCEPT ![d].init = FALSE, ![d].commit = 0, ![d].authorized = -1,
                                ![d].stageCleaned = -1]
        /\ faults' = faults + 1 /\ UNCHANGED <<layout, mem, db>>
    BY <2>1 DEF TempDirCleared, env, Fault
  <2>3. disk'[e].init => disk[e].init
    <3>1. disk[e] \in DiskType /\ disk \in [Dst -> DiskType]
      BY DEF TypeInv
    <3> QED BY <2>2, <3>1 DEF DiskType
  <2> QED BY <2>2, <2>3 DEF LogStep
<1> QED BY <1>2, <1>4, <1>5, <1>6, <1>7, <1>8, <1>9, <1>10, <1>11 DEF Next

\* The head that is sent comes after everything the destination has, follows what the
\* worker is through with, and is not passed.
LEMMA HeadIsNext ==
  ASSUME TypeInv, DeliveryInv, ~ MarkMayFail, NEW d \in Dst, LogDone(d), Sends(d)
  PROVE  /\ Front(d) \in Seg /\ db[d].log # <<>> /\ ~ Passed(d, Front(d))
         /\ \A m \in Seg : m < Front(d) => Through(d, m)
         /\ \A i \in DOMAIN db[d].log : db[d].log[i].seg <= Front(d)
<1>1. WorkerDone(d) /\ mem[d].pc = "apply" /\ ~ (SqlDevice /\ Covered(d, Front(d)))
  BY DEF DeliveryInv, Sends
<1>2. mem[d].pc \in Draining /\ mem[d].pc \in Handling /\ mem[d].pc \in Started
  BY <1>1 DEF Draining, Handling, Started
<1>3. Front(d) \in Seg
  BY <1>2, HeadFacts
<1>4. \A m \in Seg : m < Front(d) => Through(d, m)
  BY <1>1, <1>2, BeforeFront DEF WorkerDone
<1>5. disk[d].authorized \in Int /\ disk[d].cleaned \in Int /\ Front(d) \in Int
  BY <1>3, FieldTypes DEF Seg
<1>6. ~ Passed(d, Front(d))
  BY <1>1, <1>2, <1>5 DEF WorkerDone, HeadDone, Passed
<1>7. ASSUME NEW i \in DOMAIN db[d].log PROVE db[d].log[i].seg <= Front(d)
  <2>1. db[d].log \in Seq([seg : -1 .. MaxSegment, txns : SUBSET Txn])
    BY FieldTypes
  <2>2. db[d].log[i] \in [seg : -1 .. MaxSegment, txns : SUBSET Txn]
    BY <2>1, ElementOfSeq, LenProperties
  <2>3. db[d].log[i].seg \in Int
    BY <2>2
  <2>4. Front(d) < db[d].log[i].seg => Through(d, Front(d))
    BY <1>3 DEF LogDone
  <2> QED BY <1>5, <1>6, <2>3, <2>4 DEF Through
<1> QED BY <1>1, <1>2, <1>3, <1>4, <1>6, <1>7 DEF LogDone

\* A log that gets one more entry.
LEMMA Appended ==
  ASSUME TypeInv, NEW d \in Dst, NEW x, db'[d].log = Append(db[d].log, x)
  PROVE  \E len \in Nat :
           /\ DOMAIN db[d].log = 1 .. len /\ DOMAIN db'[d].log = 1 .. len + 1
           /\ \A i \in 1 .. len : db'[d].log[i] = db[d].log[i]
           /\ db'[d].log[len + 1] = x
           /\ len = 0 <=> db[d].log = <<>>
<1>1. db[d].log \in Seq([seg : -1 .. MaxSegment, txns : SUBSET Txn])
  BY FieldTypes
<1>2. PICK len \in Nat : len = Len(db[d].log) /\ DOMAIN db[d].log = 1 .. len
  BY <1>1, LenProperties
<1>3. len = 0 <=> db[d].log = <<>>
  BY <1>1, <1>2, EmptySeq
<1> QED BY <1>1, <1>2, <1>3

\* The log of a destination stays in order, whatever the step.
LEMMA LogDoneStep ==
  ASSUME TypeInv, DeliveryInv, ~ MarkMayFail, NEW d \in Dst, LogDone(d), LogStep(d), Still
  PROVE  LogDone(d)'
<1>1. \A m \in Seg : Through(d, m) => Through(d, m)'
  BY DEF Still
<1>2. disk'[d].init \/ mem'[d].pc \in Started => db[d].log # <<>> \/ db'[d].log # <<>>
  BY DEF LogStep, LogDone
<1>3. CASE db'[d].log = db[d].log
  BY <1>1, <1>2, <1>3 DEF LogDone
<1>4. CASE db[d].log = <<>> /\ db'[d].log = Append(<<>>, [seg |-> -1, txns |-> {}])
  <2>1. db'[d].log = <<[seg |-> -1, txns |-> {}]>>
    BY <1>4
  <2>2. DOMAIN db'[d].log = {1} /\ db'[d].log[1].seg = -1 /\ db'[d].log # <<>>
    BY <2>1
  <2>3. \A m \in Seg : ~ (m < -1)
    BY DEF Seg
  <2> QED BY <2>2, <2>3 DEF LogDone
<1>5. CASE Sends(d)
  <2>1. /\ Front(d) \in Seg /\ db[d].log # <<>>
        /\ \A m \in Seg : m < Front(d) => Through(d, m)
        /\ \A i \in DOMAIN db[d].log : db[d].log[i].seg <= Front(d)
    BY <1>5, HeadIsNext
  <2>2. PICK rows : db'[d].log = Append(db[d].log, [seg |-> Front(d), txns |-> rows])
    BY <1>5 DEF Sends
  <2>3. PICK n \in Seg : n = Front(d)
    BY <2>1
  <2>4. PICK len \in Nat :
          /\ DOMAIN db[d].log = 1 .. len /\ DOMAIN db'[d].log = 1 .. len + 1
          /\ \A i \in 1 .. len : db'[d].log[i] = db[d].log[i]
          /\ db'[d].log[len + 1] = [seg |-> n, txns |-> rows]
          /\ len = 0 <=> db[d].log = <<>>
    BY <2>2, <2>3, Appended
  <2>5. db'[d].log[len + 1].seg = n /\ n # -1 /\ n \in Int /\ len # 0
    BY <2>1, <2>4 DEF Seg
  <2>6. ASSUME NEW i \in DOMAIN db'[d].log
        PROVE  /\ db'[d].log[i].seg = -1 <=> i = 1
               /\ \A m \in Seg : m < db'[d].log[i].seg => Through(d, m)'
               /\ \A j \in 1 .. i : db'[d].log[j].seg <= db'[d].log[i].seg
    <3>1. CASE i \in 1 .. len
      <4>1. \A j \in 1 .. i : db'[d].log[j] = db[d].log[j]
        BY <2>4, <3>1
      <4> QED BY <1>1, <2>4, <3>1, <4>1 DEF LogDone
    <3>2. CASE i = len + 1
      <4>1. \A j \in 1 .. i : j \in 1 .. len \/ j = len + 1
        BY <2>4, <3>2
      <4>2. db'[d].log[i].seg = n /\ i # 1
        BY <2>4, <2>5, <3>2
      <4>3. \A m \in Seg : m < n => Through(d, m)'
        BY <1>1, <2>1, <2>3
      <4>4. \A j \in 1 .. len : db'[d].log[j].seg <= n
        BY <2>1, <2>3, <2>4
      <4>5. \A j \in 1 .. i : db'[d].log[j].seg <= n
        BY <2>5, <3>2, <4>1, <4>4
      <4> QED BY <2>5, <4>2, <4>3, <4>5
    <3> QED BY <2>4, <3>1, <3>2
  <2>7. db'[d].log # <<>>
    BY <2>4
  <2> QED BY <2>6, <2>7 DEF LogDone
<1> QED BY <1>3, <1>4, <1>5 DEF LogStep

\* What a worker has passed it does not come back to.
LEMMA PassedStays ==
  ASSUME DeliveryInv, ~ MarkMayFail, Still, NEW d \in Dst, NEW n \in Seg, Passed(d, n)
  PROVE  Passed(d, n)'
<1>1. Owed(d, n) = {}
  BY DEF DeliveryInv, WorkerDone, ReadDone
<1>2. Through(d, n)'
  BY <1>1 DEF Still, Through
<1> QED BY <1>2 DEF Through

\* No more segments are exposed as long as nothing is sent and nothing fails.
LEMMA ExposedStays ==
  ASSUME TypeInv, DeliveryInv, DeliveryInv', ~ MarkMayFail, NEW d \in Dst, LogStep(d), Still,
         db'[d].log = db[d].log, Exposed(d)'
  PROVE  Exposed(d) \/ faults' = faults + 1
<1> SUFFICES ASSUME faults' # faults + 1 PROVE Exposed(d)
  OBVIOUS
<1>1. \A n \in Seg : Delivered(d, n)' = Delivered(d, n)
  BY DEF Delivered
<1>2. PICK n \in Seg : /\ Delivered(d, n)' # {} /\ ~ Passed(d, n)'
                       /\ ~ (mem'[d].pc \in Sending /\ n = Front(d)')
  BY DEF Exposed
<1>3. Delivered(d, n) # {} /\ ~ Passed(d, n)
  BY <1>1, <1>2, PassedStays
<1>4. ASSUME mem[d].pc \in Sending, n = Front(d) PROVE FALSE
  <2>1. mem'[d].pc \in Sending \union {"authorize"} /\ Front(d)' = n
    BY <1>4 DEF LogStep, Front, Waiting
  <2>2. mem'[d].pc = "authorize"
    BY <1>2, <2>1
  <2>3. d \in Dst'
    BY LayoutKept DEF LogStep
  <2>4. HeadDone(d)'
    BY <2>3 DEF DeliveryInv, WorkerDone
  <2>5. Through(d, n)'
    BY <2>1, <2>2, <2>4 DEF HeadDone, Through, Passed, Covered, Owed, Delivered
  <2> QED BY <1>2, <2>5 DEF Through
<1> QED BY <1>3, <1>4 DEF Exposed

\* The entries that repeat something can be counted.
LEMMA RepeatsFinite ==
  ASSUME TypeInv, NEW d \in Dst
  PROVE  IsFiniteSet(Repeats(d)) /\ Cardinality(Repeats(d)) \in Nat
<1>1. db[d].log \in Seq([seg : -1 .. MaxSegment, txns : SUBSET Txn])
  BY FieldTypes
<1>2. PICK len \in Nat : DOMAIN db[d].log = 1 .. len
  BY <1>1, LenProperties
<1>3. IsFiniteSet(1 .. len)
  BY FS_Interval
<1>4. Repeats(d) \subseteq 1 .. len
  BY <1>2 DEF Repeats
<1>5. IsFiniteSet(Repeats(d))
  BY <1>3, <1>4, FS_Subset
<1> QED BY <1>5, FS_CardinalityType

\* What is sent again was exposed before, and nothing is exposed after.
LEMMA SentRepeats ==
  ASSUME TypeInv, DeliveryInv, ~ MarkMayFail, NEW d \in Dst, LogDone(d), Sends(d), Still,
         layout' = layout
  PROVE  /\ ~ Exposed(d)'
         /\ \E i : Repeats(d)' \subseteq Repeats(d) \union {i}
         /\ Exposed(d) \/ Repeats(d)' \subseteq Repeats(d)
<1>1. /\ Front(d) \in Seg /\ db[d].log # <<>> /\ ~ Passed(d, Front(d))
      /\ \A m \in Seg : m < Front(d) => Through(d, m)
      /\ \A i \in DOMAIN db[d].log : db[d].log[i].seg <= Front(d)
  BY HeadIsNext
<1>2. PICK n \in Seg : n = Front(d)
  BY <1>1
<1>3. PICK rows \in SUBSET Txn : db'[d].log = Append(db[d].log, [seg |-> n, txns |-> rows])
  BY <1>2 DEF Sends
<1>4. PICK len \in Nat :
        /\ DOMAIN db[d].log = 1 .. len /\ DOMAIN db'[d].log = 1 .. len + 1
        /\ \A i \in 1 .. len : db'[d].log[i] = db[d].log[i]
        /\ db'[d].log[len + 1] = [seg |-> n, txns |-> rows]
        /\ len = 0 <=> db[d].log = <<>>
  BY <1>3, Appended
<1>5. mem[d].pc = "apply" /\ mem'[d].pc \in Sending /\ Front(d)' = n
  BY <1>2 DEF Sends, Sending, Front, Waiting
<1>6. ~ Exposed(d)'
  <2> SUFFICES ASSUME NEW m \in Seg, Delivered(d, m)' # {}, ~ Passed(d, m)',
                      ~ (mem'[d].pc \in Sending /\ m = Front(d)')
               PROVE  FALSE
    BY DEF Exposed
  <2>1. m # n /\ m \in Int /\ n \in Int
    BY <1>5 DEF Seg
  <2>2. Delivered(d, m) # {}
    <3>1. Delivered(d, m)' = Delivered(d, m) \union (IF m = n THEN rows ELSE {})
      BY <1>3, AppendDelivers
    <3> QED BY <2>1, <3>1
  <2>3. PICK i \in DOMAIN db[d].log : db[d].log[i].seg = m
    BY <2>2 DEF Delivered
  <2>4. m < n
    BY <1>1, <1>2, <2>1, <2>3
  <2>5. Through(d, m)'
    BY <1>1, <1>2, <2>4 DEF Still
  <2> QED BY <2>5 DEF Through
<1>7. Repeats(d)' \subseteq Repeats(d) \union {len + 1}
  <2> SUFFICES ASSUME NEW i \in Repeats(d)', i # len + 1 PROVE i \in Repeats(d)
    OBVIOUS
  <2>1. i \in 1 .. len
    BY <1>4 DEF Repeats
  <2>2. \A j \in 1 .. i - 1 : db'[d].log[j] = db[d].log[j]
    BY <1>4, <2>1
  <2> QED BY <1>4, <2>1, <2>2 DEF Repeats
<1>8. ASSUME ~ Exposed(d) PROVE len + 1 \notin Repeats(d)'
  <2> SUFFICES ASSUME len + 1 \in Repeats(d)' PROVE FALSE
    OBVIOUS
  <2>1. PICK j \in 1 .. len + 1 - 1 : /\ db'[d].log[j].seg = db'[d].log[len + 1].seg
                                      /\ db'[d].log[j].txns \intersect db'[d].log[len + 1].txns # {}
    BY DEF Repeats
  <2>2. j \in 1 .. len
    BY <1>4
  <2>3. db[d].log[j].seg = n /\ db[d].log[j].txns # {}
    BY <1>4, <2>1, <2>2
  <2>4. Delivered(d, n) # {}
    BY <1>4, <2>2, <2>3 DEF Delivered
  <2> QED BY <1>1, <1>2, <1>5, <1>8, <2>4 DEF Exposed, Sending
<1>9. Exposed(d) \/ Repeats(d)' \subseteq Repeats(d)
  BY <1>7, <1>8
<1> QED BY <1>6, <1>7, <1>9

\* A fault has paid for whatever is sent again.
LEMMA RepeatDoneStep ==
  ASSUME TypeInv, DeliveryInv, DeliveryInv', ~ MarkMayFail, NEW d \in Dst, LogDone(d),
         LogStep(d), Still, RepeatDone(d)
  PROVE  RepeatDone(d)'
<1>1. /\ faults \in Nat /\ faults' \in {faults, faults + 1} /\ layout' = layout
      /\ IsFiniteSet(Repeats(d)) /\ Cardinality(Repeats(d)) \in Nat
  BY LayoutFacts, RepeatsFinite DEF LogStep, TypeInv
<1>2. Cardinality(Repeats(d)) + (IF Exposed(d) THEN 1 ELSE 0) <= faults
  BY DEF RepeatDone
<1>3. CASE db'[d].log = db[d].log
  <2>1. Repeats(d)' = Repeats(d)
    BY <1>3 DEF Repeats
  <2>2. Exposed(d)' => Exposed(d) \/ faults' = faults + 1
    BY <1>3, ExposedStays
  <2> QED BY <1>1, <1>2, <2>1, <2>2 DEF RepeatDone
<1>4. CASE db[d].log = <<>> /\ db'[d].log = Append(<<>>, [seg |-> -1, txns |-> {}])
  <2>1. db'[d].log = <<[seg |-> -1, txns |-> {}]>>
    BY <1>4
  <2>2. DOMAIN db'[d].log = {1} /\ db'[d].log[1].seg = -1 /\ db'[d].log[1].txns = {}
    BY <2>1
  <2>3. Repeats(d)' = {}
    BY <2>2 DEF Repeats
  <2>4. \A n \in Seg : Delivered(d, n)' = {}
    BY <2>2 DEF Delivered
  <2>5. ~ Exposed(d)'
    BY <2>4 DEF Exposed
  <2>6. Cardinality(Repeats(d)') = 0
    BY <2>3, FS_EmptySet
  <2> QED BY <1>1, <2>5, <2>6 DEF RepeatDone
<1>5. CASE Sends(d)
  <2>1. PICK i : /\ ~ Exposed(d)' /\ Repeats(d)' \subseteq Repeats(d) \union {i}
                 /\ Exposed(d) \/ Repeats(d)' \subseteq Repeats(d)
    BY <1>1, <1>5, SentRepeats
  <2>2. CASE Exposed(d)
    <3>1. IsFiniteSet(Repeats(d) \union {i})
          /\ Cardinality(Repeats(d) \union {i}) \in {Cardinality(Repeats(d)), Cardinality(Repeats(d)) + 1}
      BY <1>1, FS_AddElement
    <3>2. IsFiniteSet(Repeats(d)') /\ Cardinality(Repeats(d)') <= Cardinality(Repeats(d) \union {i})
      BY <2>1, <3>1, FS_Subset
    <3>3. Cardinality(Repeats(d)') \in Nat
      BY <3>2, FS_CardinalityType
    <3> QED BY <1>1, <1>2, <2>1, <2>2, <3>1, <3>2, <3>3 DEF RepeatDone
  <2>3. CASE ~ Exposed(d)
    <3>1. IsFiniteSet(Repeats(d)') /\ Cardinality(Repeats(d)') <= Cardinality(Repeats(d))
      BY <1>1, <2>1, <2>3, FS_Subset
    <3>2. Cardinality(Repeats(d)') \in Nat
      BY <3>1, FS_CardinalityType
    <3> QED BY <1>1, <1>2, <2>1, <2>3, <3>1, <3>2 DEF RepeatDone
  <2> QED BY <2>2, <2>3
<1> QED BY <1>3, <1>4, <1>5 DEF LogStep

\* An empty log is in order and repeats nothing.
LEMMA OrderInit == Init => LogInv /\ RepeatInv
<1> SUFFICES ASSUME Init, NEW d \in Dst PROVE LogDone(d) /\ RepeatDone(d)
  BY DEF LogInv, RepeatInv
<1>1. /\ mem[d].pc = "off" /\ disk[d].init = FALSE /\ db[d].log = <<>> /\ faults = 0
  BY DEF Init, Off, Fresh
<1>2. DOMAIN db[d].log = {}
  BY <1>1
<1>3. LogDone(d)
  BY <1>1, <1>2 DEF LogDone, Started, Draining
<1>4. Repeats(d) = {} /\ ~ Exposed(d)
  BY <1>2 DEF Repeats, Exposed, Delivered
<1>5. Cardinality(Repeats(d)) = 0
  BY <1>4, FS_EmptySet
<1> QED BY <1>1, <1>3, <1>4, <1>5 DEF RepeatDone

\* No step breaks the order, where the mark on an applied segment gets written.
LEMMA OrderStep ==
  ASSUME TypeInv, DeliveryInv, LogInv, RepeatInv, Careful, ~ MarkMayFail, [Next]_vars
  PROVE  LogInv' /\ RepeatInv'
<1>1. DeliveryInv' /\ Still
  BY DeliveryStep
<1>2. Dst # {} /\ \A d \in Dst : LogStep(d)
  BY LayoutFacts, EveryLogStep
<1>3. Dst' = Dst
  BY <1>2, LayoutKept DEF LogStep
<1>4. ASSUME NEW d \in Dst PROVE LogDone(d)' /\ RepeatDone(d)'
  BY <1>1, <1>2, LogDoneStep, RepeatDoneStep DEF LogInv, RepeatInv
<1> QED BY <1>3, <1>4 DEF LogInv, RepeatInv

\* The two invariants are what the run checks of the log.
LEMMA OrderGivesDelivered ==
  ASSUME TypeInv, ~ MarkMayFail, LogInv, RepeatInv
  PROVE  DeliveredInOrder
<1>1. DestinationInOrder
  <2> SUFFICES ASSUME NEW d \in Dst, NEW i \in DOMAIN db[d].log
               PROVE  /\ db[d].log[i].seg = -1 <=> i = 1
                      /\ \A j \in 1 .. i : db[d].log[j].seg <= db[d].log[i].seg
                      /\ \A n \in Shipped : n < db[d].log[i].seg => Owed(d, n) = {}
    BY DEF DestinationInOrder
  <2>1. LogDone(d)
    BY DEF LogInv
  <2>2. \A n \in Shipped : n \in Seg
    BY ShippedIsSeg DEF Shipped
  <2>3. \A n \in Shipped : n < db[d].log[i].seg => Owed(d, n) = {}
    BY <2>1, <2>2 DEF LogDone, Through
  <2> QED BY <2>1, <2>3 DEF LogDone
<1>2. ASSUME NEW d \in Dst PROVE Cardinality(Repeats(d)) <= faults
  <2>1. Cardinality(Repeats(d)) \in Nat /\ faults \in Nat
    BY RepeatsFinite, LayoutFacts DEF TypeInv
  <2>2. Cardinality(Repeats(d)) + (IF Exposed(d) THEN 1 ELSE 0) <= faults
    BY DEF RepeatInv, RepeatDone
  <2> QED BY <2>1, <2>2
<1>3. RepeatsAreFaults
  BY <1>2 DEF RepeatsAreFaults, Repeats
<1> QED BY <1>1, <1>3 DEF DeliveredInOrder

\* The order holds in every state of such a system.
LEMMA OrderHolds == Spec => [](Careful /\ ~ MarkMayFail => LogInv /\ RepeatInv)
<1>1. Init => (Careful /\ ~ MarkMayFail => LogInv /\ RepeatInv)
  BY OrderInit
<1>2. TypeInv /\ (Careful => DeliveryInv)
      /\ (Careful /\ ~ MarkMayFail => LogInv /\ RepeatInv) /\ [Next]_vars
      => (Careful /\ ~ MarkMayFail => LogInv /\ RepeatInv)'
  BY OrderStep DEF Careful
<1> QED BY <1>1, <1>2, TypesHold, DeliveryHolds, PTL DEF Spec

\* A destination gets the snapshot first and once, then the segments in order with none
\* passed over, and an entry repeats what it has only where a fault interrupted the
\* worker between the data and its record of it.
THEOREM SentInOrder == Spec => [](Careful /\ ~ MarkMayFail => DeliveredInOrder)
<1>1. TypeInv /\ (Careful /\ ~ MarkMayFail => LogInv /\ RepeatInv)
      => (Careful /\ ~ MarkMayFail => DeliveredInOrder)
  BY OrderGivesDelivered
<1> QED BY <1>1, TypesHold, OrderHolds, PTL

--------------------------------------------------------------------------------
(***************************************************************************)
(* await_sync waits for exactly what is missing: the commit id it reads is *)
(* below every commit that a destination lacks, and is not below any that  *)
(* a worker has recorded.                                                  *)
(*                                                                         *)
(* The first half (AheadDone) only needs that data is sent before its      *)
(* commit id is written.  The second (ReachDone) needs more: the commit id *)
(* is taken from what is left of a segment after the filter, so it reaches *)
(* the last transaction of the segment only if the change log is complete  *)
(* (ChangesDone), and if the filter leaves something (Settled).            *)
(***************************************************************************)

\* In each segment something committed, and the last transaction did where every logged
\* statement is sent and the destination has the checkpoint: it would otherwise leave
\* neither a row nor a marker for a second attempt to take the commit id from.
Settled ==
  \A n \in Seg : /\ Committed(n) # {}
                 /\ SqlDevice \/ ~ OwnCheckpoint \/ Txns \in Committed(n)

\* A commit id below everything that the destination lacks, or up to a segment.
Ahead(d, c) == \A n \in Seg : \A k \in Owed(d, n) : c < Commit(n, k)
Reaches(c, n) == \A k \in Committed(n) : Commit(n, k) <= c

\* No commit id is ahead of the data.
AheadDone(d) ==
  /\ Ahead(d, db[d].ck.commit) /\ Ahead(d, disk[d].commit)
  /\ mem[d].pc \in {"checkpoint", "local"} => Ahead(d, mem[d].commit)

AheadInv == \A d \in Dst : AheadDone(d)

\* The commit id that is read reaches what is passed; that of the head, once the head is
\* sent, reaches the head and everything before it.
ReachDone(d) ==
  /\ \A n \in Seg : Passed(d, n) => Reaches(Seen(d), n)
  /\ mem[d].pc \in {"checkpoint", "local"} =>
       \A n \in Seg : n <= Front(d) => Reaches(mem[d].commit, n)
  /\ mem[d].pc = "mark" \/ (mem[d].pc = "local" /\ OwnCheckpoint) => Reaches(Seen(d), Front(d))

\* The change logs of a SQL device hold committed transactions, and with what is still to
\* be replayed all of those of a segment that is not passed; the checkpoint of the
\* destination is on one of them.
ChangesDone(d) ==
  SqlDevice =>
    /\ \A n \in Seg : disk[d].cdc[n] \subseteq Committed(n)
    /\ mem[d].pc = "replay" => mem[d].tmp \subseteq Committed(Front(d))
    /\ \A n \in Seg : ~ Passed(d, n) =>
         Committed(n) \subseteq
           IF disk[d].cdc[n] # {} THEN disk[d].cdc[n]
           ELSE ToReplay(d, n) \union (IF mem[d].pc = "replay" /\ n = Front(d) THEN mem[d].tmp ELSE {})
    /\ mem[d].pc \in {"apply", "checkpoint"} /\ ~ Passed(d, Front(d)) =>
         Committed(Front(d)) \subseteq disk[d].cdc[Front(d)]
    /\ db[d].ck.change >= 0 => db[d].ck.change \in Committed(db[d].ck.seg)
    /\ mem[d].pc = "checkpoint" =>
         /\ mem[d].sent \subseteq Committed(Front(d))
         /\ mem[d].sent = {} => db[d].ck.seg = Front(d)

ReachInv == \A d \in Dst : ReachDone(d) /\ ChangesDone(d)

--------------------------------------------------------------------------------
(* Steps                                                                       *)

\* What a step that is not about the data of the head leaves alone.
Quiet(d) ==
  /\ layout' = layout
  /\ db'[d].ck = db[d].ck
  /\ disk'[d].commit = disk[d].commit /\ disk'[d].resume = disk[d].resume
  /\ \A n \in Seg : \/ disk'[d].cdc[n] = disk[d].cdc[n]
                    \/ disk'[d].cdc[n] = {} /\ n <= disk'[d].authorized
  /\ mem[d].tmp # {} => mem'[d].pc = "replay"
  /\ \/ mem'[d].pc \notin Handling
     \/ /\ mem'[d].pc = mem[d].pc /\ mem'[d].pending = mem[d].pending
        /\ mem'[d].tmp = mem[d].tmp /\ mem'[d].sent = mem[d].sent /\ mem'[d].commit = mem[d].commit
     \/ /\ mem[d].tmp = {} /\ mem'[d].tmp = {}
        /\ mem'[d].pc = IF SqlDevice THEN "replay" ELSE "apply"
  /\ ~ MarkMayFail => \A n \in Seg : Passed(d, n)' => Passed(d, n)

\* Every other step that concerns a destination.
SyncStep(d) ==
  \/ Quiet(d) \/ Replay(d) \/ Apply(d) \/ Checkpoint(d) \/ CheckpointFails(d)
  \/ LocalCheckpoint(d) \/ Mark(d) \/ TempDirCleared(d)

\* Where a step leaves the checkpoint of the destination alone, and what it writes to the
\* state database covers nothing that was not passed, it passes nothing new.
LEMMA PassesNothing ==
  ASSUME NEW d, layout' = layout, db'[d].ck = db[d].ck,
         \A n \in Seg : /\ n <= disk'[d].authorized => Passed(d, n)
                        /\ n <= disk'[d].cleaned => Passed(d, n)
                        /\ disk'[d].work[n] = "applied" => Passed(d, n)
  PROVE  \A n \in Seg : Passed(d, n)' => Passed(d, n)
<1>1. \A n \in Seg : Covered(d, n)' <=> Covered(d, n)
  BY LayoutKept DEF Covered
<1> QED BY <1>1 DEF Passed

\* The head stays where the queue does.
LEMMA FrontKept ==
  ASSUME NEW d, mem'[d].pending = mem[d].pending
  PROVE  Front(d)' = Front(d)
BY DEF Front, Waiting

\* A worker that a step does not move.
LEMMA QuietUnmoved ==
  ASSUME TypeInv, NEW d \in Dst, layout' = layout,
         mem'[d] = mem[d], disk'[d] = disk[d], db'[d] = db[d]
  PROVE  Quiet(d)
<1>1. \A n \in Seg : Passed(d, n)' => Passed(d, n)
  BY PassesNothing DEF Passed
<1>2. mem[d].tmp # {} => mem[d].pc = "replay"
  BY DEF TypeInv, Shaped
<1> QED BY <1>1, <1>2 DEF Quiet

\* A move outside the processing of the head's data.
LEMMA QuietFromMove ==
  ASSUME TypeInv, NEW d \in Dst, NEW m, NEW k, Moves(d, m, k),
         mem[d].tmp = {}, db'[d].ck = db[d].ck,
         k.commit = disk[d].commit, k.resume = disk[d].resume, k.cdc = disk[d].cdc,
         k.authorized = disk[d].authorized, k.cleaned = disk[d].cleaned,
         \A n \in Seg : k.work[n] = "applied" => disk[d].work[n] = "applied",
         \/ m.pc \notin Handling
         \/ m.tmp = {} /\ m.pc = IF SqlDevice THEN "replay" ELSE "apply"
  PROVE  Quiet(d)
<1>1. mem'[d] = m /\ disk'[d] = k /\ layout' = layout
  BY MovesFacts
<1>2. \A n \in Seg : Passed(d, n)' => Passed(d, n)
  BY <1>1, PassesNothing DEF Passed
<1> QED BY <1>1, <1>2 DEF Quiet

\* The loop, the bootstrap and the decision on the head are quiet.
LEMMA QuietLoop ==
  ASSUME TypeInv, NEW d \in Dst,
         Receive(d) \/ Tick(d) \/ LastFlush(d) \/ Bootstrap(d) \/ ProcessHead(d)
  PROVE  Quiet(d)
<1>1. mem[d] \in MemType /\ disk[d] \in DiskType /\ Shaped(mem[d], disk[d])
  BY DEF TypeInv
<1>2. ASSUME NEW n \in Seg, NEW k,
             k = disk[d] \/ k = [disk[d] EXCEPT !.work[n] = Mirrored(d, n)]
      PROVE  /\ k.commit = disk[d].commit /\ k.resume = disk[d].resume /\ k.cdc = disk[d].cdc
             /\ k.authorized = disk[d].authorized /\ k.cleaned = disk[d].cleaned
             /\ \A i \in Seg : k.work[i] = "applied" => disk[d].work[i] = "applied"
  <2>1. Mirrored(d, n) = "applied" => disk[d].work[n] = "applied"
    BY MirroredFacts
  <2> QED BY <1>1, <1>2, <2>1 DEF DiskType
<1>3. ASSUME NEW n \in Seg, NEW k,
             k = disk[d] \/ k = [disk[d] EXCEPT !.work[n] = Mirrored(d, n)],
             NEW m, Moves(d, m, k), mem[d].tmp = {}, db'[d].ck = db[d].ck,
             \/ m.pc \notin Handling
             \/ m.tmp = {} /\ m.pc = IF SqlDevice THEN "replay" ELSE "apply"
      PROVE  Quiet(d)
  BY <1>2, <1>3, QuietFromMove
<1>4. ASSUME NEW m, Shaped(m, disk[d]) \/ m = mem[d], m.tmp = {}
      PROVE  Flushed(d, m).pc \notin Handling
  BY <1>1, <1>4, FlushedFacts DEF Handling, Shaped
<1>5. CASE Receive(d)
  <2>1. PICK n, m, k :
          /\ n \in Seg
          /\ m.pc = "recv" /\ m.tmp = {} /\ Shaped(m, k) /\ mem[d].pc = "recv"
          /\ k = disk[d] \/ (paused /\ k = [disk[d] EXCEPT !.work[n] = Mirrored(d, n)])
          /\ db' = db
          /\ \/ disk[d].init /\ Moves(d, Flushed(d, m), k)
             \/ Moves(d, m, k)
             \/ Moves(d, [m EXCEPT !.pc = "boot"], k)
    BY <1>5, ReceiveEffect, Zenon
  <2>2. [m EXCEPT !.pc = "boot"].pc = "boot" /\ m \in MemType
    BY <2>1 DEF Shaped, MemType
  <2>3. Flushed(d, m).pc \notin Handling
    BY <2>1, <2>2, FlushedFacts DEF Handling
  <2>4. mem[d].tmp = {}
    BY <1>1, <2>1 DEF Shaped
  <2>5. PICK f : Moves(d, f, k) /\ f.pc \notin Handling
    <3>1. "recv" \notin Handling /\ "boot" \notin Handling
      BY DEF Handling
    <3> QED BY <2>1, <2>2, <2>3, <3>1, Zenon
  <2> QED BY <1>3, <2>1, <2>4, <2>5
<1>6. CASE Tick(d)
  <2>1. /\ mem[d].pc = "recv" /\ mem[d].tmp = {} /\ db' = db
        /\ \/ Moves(d, Flushed(d, mem[d]), disk[d])
           \/ Moves(d, [mem[d] EXCEPT !.pc = "boot"], disk[d])
    BY <1>6, TickEffect, Zenon
  <2>2. [mem[d] EXCEPT !.pc = "boot"].pc \notin Handling
    BY <1>1 DEF MemType, Handling
  <2>3. PICK f : Moves(d, f, disk[d]) /\ f.pc \notin Handling
    BY <1>4, <2>1, <2>2, Zenon
  <2>4. 0 \in Seg
    BY CountAssumption DEF Seg
  <2> QED BY <1>3, <2>1, <2>3, <2>4
<1>7. CASE LastFlush(d)
  <2>1. PICK m :
          /\ mem[d].pc = "recv" /\ db' = db /\ m.tmp = {} /\ Shaped(m, disk[d])
          /\ \/ disk[d].init /\ Moves(d, Flushed(d, m), disk[d])
             \/ m.pc = "boot" /\ Moves(d, m, disk[d])
             \/ Moves(d, Off, disk[d])
    BY <1>7, LastFlushEffect, Zenon
  <2>2. Off.pc \notin Handling /\ "boot" \notin Handling
    BY DEF Off, Handling
  <2>3. PICK f : Moves(d, f, disk[d]) /\ f.pc \notin Handling
    BY <1>4, <2>1, <2>2, Zenon
  <2>4. mem[d].tmp = {} /\ 0 \in Seg
    BY <1>1, <2>1, CountAssumption DEF Shaped, Seg
  <2> QED BY <1>3, <2>1, <2>3, <2>4
<1>8. CASE Bootstrap(d)
  <2>1. mem[d].tmp = {} /\ db'[d].ck = db[d].ck
    <3>1. db' = db \/ db' = [db EXCEPT ![d].log = Append(@, [seg |-> -1, txns |-> {}])]
      BY <1>8, BootEffect
    <3>2. db[d] \in DbType /\ db \in [Dst -> DbType]
      BY DEF TypeInv
    <3>3. db'[d].ck = db[d].ck
      BY <3>1, <3>2 DEF DbType
    <3> QED BY <1>8, <3>3, BootEffect
  <2>2. CASE Moves(d, [mem[d] EXCEPT !.pc = "boot_local"], disk[d])
    <3>1. [mem[d] EXCEPT !.pc = "boot_local"].pc \notin Handling /\ 0 \in Seg
      BY <1>1, CountAssumption DEF MemType, Handling, Seg
    <3>2. PICK f : Moves(d, f, disk[d]) /\ f.pc \notin Handling
      BY <2>2, <3>1, Zenon
    <3> QED BY <1>3, <2>1, <3>1, <3>2
  <2>3. CASE Moves(d, Flushed(d, mem[d]), [disk[d] EXCEPT !.init = TRUE])
    <3>1. Flushed(d, mem[d]).pc \notin Handling
      BY <1>4, <2>1
    <3>2. PICK k : k = [disk[d] EXCEPT !.init = TRUE]
      OBVIOUS
    <3>3. /\ k.commit = disk[d].commit /\ k.resume = disk[d].resume /\ k.cdc = disk[d].cdc
          /\ k.authorized = disk[d].authorized /\ k.cleaned = disk[d].cleaned
          /\ k.work = disk[d].work
      BY <1>1, <3>2 DEF DiskType
    <3> QED BY <2>1, <2>3, <3>1, <3>2, <3>3, QuietFromMove
  <2> QED BY <1>8, <2>2, <2>3, BootEffect
<1>9. CASE ProcessHead(d)
  <2>1. PICK n, k :
          /\ n = Front(d) /\ k = [disk[d] EXCEPT !.work[n] = Mirrored(d, n)]
          /\ mem[d].pc = "head" /\ mem[d].tmp = {} /\ db' = db
          /\ \/ Moves(d, Completed(d, mem[d], n), disk[d])
             \/ Moves(d, Rest(mem[d]), k)
             \/ Moves(d, Recorded(mem[d], n), k)
             \/ Moves(d, [mem[d] EXCEPT !.pc = IF SqlDevice THEN "replay" ELSE "apply"], k)
    BY <1>9, ProcessEffect, Zenon
  <2>2. n \in Seg
    BY <2>1, HeadFacts DEF Draining
  <2>3. /\ Completed(d, mem[d], n).pc \notin Handling /\ Rest(mem[d]).pc \notin Handling
        /\ Recorded(mem[d], n).pc \notin Handling
    <3>1. Completed(d, mem[d], n).pc \in {"off", "recv", "head"}
      BY <1>1, <2>1, <2>2, CompletedFacts DEF Finished
    <3>2. Rest(mem[d]).pc \in {"off", "recv"}
      BY <1>1, RestFacts
    <3>3. Recorded(mem[d], n).pc = "authorize"
      BY <1>1, <2>2, RecordedFacts
    <3> QED BY <3>1, <3>2, <3>3 DEF Handling
  <2>4. PICK h : h = [mem[d] EXCEPT !.pc = IF SqlDevice THEN "replay" ELSE "apply"]
    OBVIOUS
  <2>5. h.tmp = {} /\ h.pc = IF SqlDevice THEN "replay" ELSE "apply"
    BY <1>1, <2>1, <2>4 DEF MemType
  <2>6. CASE Moves(d, Completed(d, mem[d], n), disk[d])
    BY <1>3, <2>1, <2>2, <2>3, <2>6
  <2>7. CASE Moves(d, Rest(mem[d]), k)
    BY <1>3, <2>1, <2>2, <2>3, <2>7
  <2>8. CASE Moves(d, Recorded(mem[d], n), k)
    BY <1>3, <2>1, <2>2, <2>3, <2>8
  <2>9. CASE Moves(d, h, k)
    BY <1>3, <2>1, <2>2, <2>5, <2>9
  <2> QED BY <2>1, <2>4, <2>6, <2>7, <2>8, <2>9, Zenon
<1> QED BY <1>5, <1>6, <1>7, <1>8, <1>9

\* So is the cleanup, which passes only what the worker is through with.
LEMMA QuietClean ==
  ASSUME TypeInv, DeliveryInv, NEW d \in Dst, Clean(d)
  PROVE  Quiet(d)
<1>1. /\ mem[d].tmp = {} /\ db' = db /\ WorkerDone(d) /\ mem[d] \in MemType /\ disk[d] \in DiskType
  BY CleanEffect DEF DeliveryInv, TypeInv
<1>2. PICK n \in Seg : n = Front(d)
  BY CleanEffect
<1>3. /\ disk[d].authorized \in Int /\ disk[d].cleaned \in Int /\ mem[d].target \in Int
  BY FieldTypes
<1>4. CASE mem[d].pc = "authorize" /\
           \E target \in -1 .. MaxSegment :
             /\ target # -1 => \A e \in Dst : target < mem[e].progress
             /\ LET k == [disk[d] EXCEPT !.authorized = IF @ >= target THEN @ ELSE target] IN
                \/ target = -1 /\ Moves(d, Completed(d, mem[d], n), k)
                \/ Moves(d, [mem[d] EXCEPT !.target = target, !.pc = "clean_work"], k)
  <2>1. PICK target, k :
          /\ target \in -1 .. MaxSegment
          /\ target # -1 => \A e \in Dst : target < mem[e].progress
          /\ k = [disk[d] EXCEPT !.authorized = IF @ >= target THEN @ ELSE target]
          /\ \/ Moves(d, Completed(d, mem[d], n), k)
             \/ Moves(d, [mem[d] EXCEPT !.target = target, !.pc = "clean_work"], k)
    BY <1>4
  <2>2. /\ k.commit = disk[d].commit /\ k.resume = disk[d].resume /\ k.cdc = disk[d].cdc
        /\ k.cleaned = disk[d].cleaned /\ k.work = disk[d].work
        /\ k.authorized = IF disk[d].authorized >= target THEN disk[d].authorized ELSE target
    BY <1>1, <2>1 DEF DiskType
  <2>3. PICK m : Moves(d, m, k) /\ m.pc \notin Handling
    <3>1. Completed(d, mem[d], n).pc \in {"off", "recv", "head"}
      BY <1>1, CompletedFacts DEF Finished
    <3>2. [mem[d] EXCEPT !.target = target, !.pc = "clean_work"].pc = "clean_work"
      BY <1>1 DEF MemType
    <3>3. /\ Completed(d, mem[d], n).pc \notin Handling
          /\ [mem[d] EXCEPT !.target = target, !.pc = "clean_work"].pc \notin Handling
      BY <3>1, <3>2 DEF Handling
    <3> QED BY <2>1, <3>3, Zenon
  <2>4. mem'[d] = m /\ disk'[d] = k /\ layout' = layout
    BY <2>3, MovesFacts
  <2>5. ASSUME ~ MarkMayFail, NEW i \in Seg, i <= k.authorized PROVE Passed(d, i)
    <3>1. i \in Nat /\ target \in Int /\ mem[d].progress \in Int
      BY <2>1, FieldTypes DEF Seg
    <3>2. CASE i <= disk[d].authorized
      BY <3>2 DEF Passed
    <3>3. CASE ~ (i <= disk[d].authorized)
      <4>1. i <= target /\ target # -1
        BY <1>3, <2>2, <2>5, <3>1, <3>3
      <4>2. i <= mem[d].progress
        BY <2>1, <3>1, <4>1
      <4> QED BY <1>1, <2>5, <4>2 DEF WorkerDone, ProgressDone, Through
    <3> QED BY <3>2, <3>3
  <2>6. ~ MarkMayFail => \A i \in Seg : Passed(d, i)' => Passed(d, i)
    BY <1>1, <2>2, <2>4, <2>5, PassesNothing DEF Passed
  <2> QED BY <1>1, <2>2, <2>3, <2>4, <2>6 DEF Quiet
<1>5. CASE mem[d].pc = "clean_work" /\
           \E written \in BOOLEAN :
             Moves(d, [mem[d] EXCEPT !.pc = "clean_stage"],
                   [disk[d] EXCEPT
                      !.work = [i \in Seg |-> IF i \in disk[d].cleaned + 1 .. mem[d].target
                                              THEN "none" ELSE @[i]],
                      !.cdc  = [i \in Seg |-> IF i \in disk[d].cleaned + 1 .. mem[d].target
                                              THEN {} ELSE @[i]],
                      !.cleaned = IF written /\ mem[d].target > @ THEN mem[d].target ELSE @])
  <2>1. PICK written, k :
          /\ k = [disk[d] EXCEPT
                      !.work = [i \in Seg |-> IF i \in disk[d].cleaned + 1 .. mem[d].target
                                              THEN "none" ELSE @[i]],
                      !.cdc  = [i \in Seg |-> IF i \in disk[d].cleaned + 1 .. mem[d].target
                                              THEN {} ELSE @[i]],
                      !.cleaned = IF written /\ mem[d].target > @ THEN mem[d].target ELSE @]
          /\ Moves(d, [mem[d] EXCEPT !.pc = "clean_stage"], k)
    BY <1>5
  <2>2. /\ k.commit = disk[d].commit /\ k.resume = disk[d].resume
        /\ k.authorized = disk[d].authorized
        /\ k.cleaned \in {disk[d].cleaned, mem[d].target}
        /\ \A i \in Seg : /\ k.cdc[i] = disk[d].cdc[i] \/ (k.cdc[i] = {} /\ i <= mem[d].target)
                          /\ k.work[i] = "applied" => disk[d].work[i] = "applied"
    BY <1>1, <1>3, <2>1 DEF DiskType, Seg
  <2>3. \A i \in Seg : i <= mem[d].target => i <= disk[d].authorized
    BY <1>1, <1>5 DEF WorkerDone, TargetDone, Cleaning
  <2>4. mem'[d] = [mem[d] EXCEPT !.pc = "clean_stage"] /\ disk'[d] = k /\ layout' = layout
    BY <2>1, MovesFacts
  <2>5. mem'[d].pc \notin Handling
    BY <1>1, <2>4 DEF MemType, Handling
  <2>6. \A i \in Seg : Passed(d, i)' => Passed(d, i)
    BY <1>1, <2>2, <2>3, <2>4, PassesNothing DEF Passed
  <2> QED BY <1>1, <2>2, <2>3, <2>4, <2>5, <2>6 DEF Quiet
<1>6. CASE mem[d].pc = "clean_stage" /\
           \E mark \in -1 .. MaxSegment :
             Moves(d, Completed(d, [mem[d] EXCEPT !.target = -1], n),
                      [disk[d] EXCEPT !.stageCleaned = mark])
  <2>1. PICK mark, m, k :
          /\ m = [mem[d] EXCEPT !.target = -1] /\ k = [disk[d] EXCEPT !.stageCleaned = mark]
          /\ Moves(d, Completed(d, m, n), k)
    BY <1>6
  <2>2. /\ k.commit = disk[d].commit /\ k.resume = disk[d].resume /\ k.cdc = disk[d].cdc
        /\ k.authorized = disk[d].authorized /\ k.cleaned = disk[d].cleaned
        /\ k.work = disk[d].work
    BY <1>1, <2>1 DEF DiskType
  <2>3. m \in MemType /\ m.tmp = {}
    <3>1. -1 \in -1 .. MaxSegment
      BY CountAssumption
    <3> QED BY <1>1, <2>1, <3>1 DEF MemType
  <2>4. Completed(d, m, n).pc \in {"off", "recv", "head"}
    BY <2>3, CompletedFacts DEF Finished
  <2>5. Completed(d, m, n).pc \notin Handling
    BY <2>4 DEF Handling
  <2> QED BY <1>1, <2>1, <2>2, <2>5, QuietFromMove
<1> QED BY <1>2, <1>4, <1>5, <1>6, CleanEffect, Zenon

\* Every step of a careful system is of one of these kinds for every destination.
LEMMA EverySyncStep ==
  ASSUME TypeInv, DeliveryInv, Careful, [Next]_vars, NEW e \in Dst
  PROVE  SyncStep(e)
<1>1. mem[e] \in MemType /\ mem \in [Dst -> MemType] /\ Shaped(mem[e], disk[e]) /\ ~ ReplayMayStop
  BY DEF TypeInv, Careful
<1>2. ASSUME UNCHANGED <<layout, disk, db>>,
             \/ mem'[e] = mem[e]
             \/ /\ mem'[e].pc = mem[e].pc /\ mem'[e].pending = mem[e].pending
                /\ mem'[e].tmp = mem[e].tmp /\ mem'[e].sent = mem[e].sent
                /\ mem'[e].commit = mem[e].commit
             \/ mem'[e].pc \in {"off", "recv"} /\ mem[e].tmp = {}
      PROVE  SyncStep(e)
  <2>1. \A n \in Seg : Passed(e, n)' => Passed(e, n)
    BY <1>2, PassesNothing DEF Passed
  <2>2. mem[e].tmp # {} => mem[e].pc = "replay"
    BY <1>1 DEF Shaped
  <2> QED BY <1>2, <2>1, <2>2 DEF Quiet, SyncStep, Handling
<1>3. CASE \E d \in Dst : Step(d)
  <2>1. PICK d \in Dst : Step(d)
    BY <1>3
  <2>2. CASE e = d
    <3>1. SyncStep(d)
      BY <2>1, QuietLoop, QuietClean, Zenon DEF Step, SyncStep
    <3> QED BY <2>2, <3>1
  <2>3. CASE e # d
    <3>1. OwnStep(d)
      BY <2>1, OwnStepFacts
    <3>2. mem'[e] = mem[e] /\ disk'[e] = disk[e] /\ db'[e] = db[e] /\ layout' = layout
      BY <2>3, <3>1 DEF OwnStep, LogStep
    <3> QED BY <3>2, QuietUnmoved DEF SyncStep
  <2> QED BY <2>2, <2>3
<1>4. CASE ShipSegment \/ PauseSync \/ ResumeSync \/ UNCHANGED vars
  BY <1>2, <1>4 DEF ShipSegment, PauseSync, ResumeSync, vars, env
<1>5. CASE Notify
  <2>1. mem'[e] = mem[e] \/ mem'[e] = [mem[e] EXCEPT !.inbox = Queued(@, Min(due))]
    BY <1>5 DEF Notify
  <2> QED BY <1>1, <1>2, <1>5, <2>1 DEF MemType, Notify, env
<1>6. CASE Open
  <2>1. mem'[e] = mem[e] \/ (~ Running(e) /\ mem'[e] = [Off EXCEPT !.pc = "recv"])
    BY <1>6 DEF Open
  <2>2. ~ Running(e) => mem[e].tmp = {}
    BY <1>1 DEF Running, Shaped
  <2> QED BY <1>2, <1>6, <2>1, <2>2 DEF Open, env, Off
<1>7. CASE Crash
  <2>1. mem'[e] = Off /\ MayStop(e) /\ UNCHANGED <<layout, disk, db>>
    BY <1>7 DEF Crash, env
  <2> QED BY <1>1, <1>2, <2>1 DEF Off, MayStop
<1>8. CASE \E d \in Dst : Shutdown(d)
  <2>1. PICK d \in Dst : mem' = [mem EXCEPT ![d].stop = "asked"]
    BY <1>8 DEF Shutdown
  <2>2. mem'[e] = mem[e] \/ mem'[e] = [mem[e] EXCEPT !.stop = "asked"]
    BY <1>1, <2>1
  <2> QED BY <1>1, <1>2, <1>8, <2>2 DEF MemType, Shutdown
<1>9. CASE \E d \in Dst : StepFails(d)
  <2>1. PICK d \in Dst : StepFails(d)
    BY <1>9
  <2>2. mem' = [mem EXCEPT ![d] = Rest(mem[d])] /\ UNCHANGED <<layout, disk, db>> /\ MayStop(d)
    BY <2>1 DEF StepFails, env
  <2>3. Rest(mem[d]).pc \in {"off", "recv"}
    BY RestFacts DEF TypeInv
  <2>4. mem'[e] = mem[e] \/ (mem'[e].pc \in {"off", "recv"} /\ MayStop(e))
    BY <1>1, <2>2, <2>3
  <2> QED BY <1>1, <1>2, <2>2, <2>4 DEF MayStop
<1>10. CASE \E d \in Dst : CheckpointFails(d)
  <2>1. PICK d \in Dst : CheckpointFails(d)
    BY <1>10
  <2>2. mem' = [mem EXCEPT ![d] = [mem[d] EXCEPT !.pc = "apply"]] /\ UNCHANGED <<layout, disk, db>>
    BY <2>1 DEF CheckpointFails, Worker, env
  <2>3. e = d \/ mem'[e] = mem[e]
    BY <1>1, <2>2
  <2> QED BY <1>2, <2>1, <2>2, <2>3 DEF SyncStep
<1>11. CASE \E d \in Dst : TempDirCleared(d)
  <2>1. PICK d \in Dst : TempDirCleared(d)
    BY <1>11
  <2>2. /\ disk' = [disk EXCEPT ![d].init = FALSE, ![d].commit = 0, ![d].authorized = -1,
                                ![d].stageCleaned = -1]
        /\ UNCHANGED <<layout, mem, db>>
    BY <2>1 DEF TempDirCleared, env
  <2>3. e = d \/ disk'[e] = disk[e]
    BY <2>2 DEF TypeInv
  <2> QED BY <2>1, <2>2, <2>3, QuietUnmoved DEF SyncStep
<1> QED BY <1>3, <1>4, <1>5, <1>6, <1>7, <1>8, <1>9, <1>10, <1>11 DEF Next

--------------------------------------------------------------------------------
(* Commit ids                                                                  *)

\* Commit ids grow with the segment, and within it with the transaction.
LEMMA CommitOrder ==
  ASSUME NEW m \in Seg, NEW n \in Seg, NEW j \in Txn, NEW k \in Txn
  PROVE  /\ Commit(n, k) \in Nat /\ Commit(n, k) > n * Txns /\ n * Txns \in Nat
         /\ Commit(n, k) <= n * Txns + Txns
         /\ m < n => Commit(m, j) < Commit(n, k) /\ m * Txns + Txns < Commit(n, k)
         /\ j <= k => Commit(n, j) <= Commit(n, k)
<1>1. n \in Nat /\ m \in Nat /\ Txns \in Nat /\ k \in Nat /\ j \in Nat
      /\ 1 <= k /\ k <= Txns /\ 1 <= j /\ j <= Txns
  BY CountAssumption DEF Seg, Txn
<1>2. n * Txns \in Nat /\ m * Txns \in Nat
  BY <1>1
<1>3. m < n => m * Txns + Txns <= n * Txns
  <2>1. ASSUME m < n PROVE m * Txns + Txns <= n * Txns
    <3>1. PICK i \in Nat : n = m + 1 + i
      <4>1. n - m - 1 \in Nat /\ n = m + 1 + (n - m - 1)
        BY <1>1, <2>1
      <4> QED BY <4>1
    <3>2. i * Txns \in Nat /\ n * Txns = m * Txns + Txns + i * Txns
      BY <1>1, <3>1
    <3> QED BY <1>1, <1>2, <3>2
  <2> QED BY <2>1
<1> QED BY <1>1, <1>2, <1>3 DEF Commit

\* The commit id of what is applied is one of its segment, and not below any that is left
\* after the filter.
LEMMA AppliedBounds ==
  ASSUME TypeInv, NEW d \in Dst, NEW n \in Seg
  PROVE  /\ AppliedCommit(d, n) \in Nat /\ AppliedCommit(d, n) <= n * Txns + Txns
         /\ Content(d, n) # {} => AppliedCommit(d, n) > n * Txns
         /\ \A k \in ToSend(d, n) \union Markers(d, n) : Commit(n, k) <= AppliedCommit(d, n)
<1> DEFINE first == IF Content(d, n) = {} THEN 0 ELSE Commit(n, Min(Content(d, n)))
           S == {first} \union { Commit(n, k) : k \in ToSend(d, n) \union Markers(d, n) }
<1>1. n * Txns + Txns \in Nat /\ n * Txns \in Nat
  BY CountAssumption DEF Seg
<1>2. \A k \in Txn : Commit(n, k) \in Nat /\ Commit(n, k) <= n * Txns + Txns /\ Commit(n, k) > n * Txns
  BY CommitOrder
<1>3. first \in Nat /\ first <= n * Txns + Txns /\ (Content(d, n) # {} => first > n * Txns)
  <2>1. CASE Content(d, n) = {}
    BY <1>1, <2>1
  <2>2. CASE Content(d, n) # {}
    <3>1. Content(d, n) \in SUBSET Int /\ \A x \in Content(d, n) : 1 <= x
      BY ContentFacts DEF Txn
    <3>2. Min(Content(d, n)) \in Txn
      BY <2>2, <3>1, MinIsLeast, ContentFacts
    <3> QED BY <1>2, <2>2, <3>2
  <2> QED BY <2>1, <2>2
<1> HIDE DEF first
<1>4. \A k \in ToSend(d, n) \union Markers(d, n) : k \in Txn
  BY ContentFacts
<1>5. S \in SUBSET Nat /\ S # {} /\ \A x \in S : x <= n * Txns + Txns
  BY <1>2, <1>3, <1>4
<1>6. S \in SUBSET Int /\ n * Txns + Txns \in Int
  BY <1>1, <1>5
<1>7. first \in S /\ \A k \in ToSend(d, n) \union Markers(d, n) : Commit(n, k) \in S
  OBVIOUS
<1> HIDE DEF S
<1>8. PICK c : c = Max(S) /\ c \in S /\ \A x \in S : x <= c
  BY <1>5, <1>6, MaxIsGreatest
<1>9. AppliedCommit(d, n) = c
  BY <1>8 DEF AppliedCommit, S, first
<1>10. c \in Nat /\ c <= n * Txns + Txns /\ first <= c
  BY <1>5, <1>7, <1>8
<1>11. Content(d, n) # {} => c > n * Txns
  BY <1>1, <1>3, <1>10
<1>12. \A k \in ToSend(d, n) \union Markers(d, n) : Commit(n, k) <= c
  BY <1>7, <1>8
<1> QED BY <1>9, <1>10, <1>11, <1>12

--------------------------------------------------------------------------------
(* No commit id is ahead of the data                                           *)

\* A destination never lacks what it has had.
LEMMA OwedShrinks ==
  ASSUME TypeInv, NEW d \in Dst, LogStep(d)
  PROVE  \A n \in Seg : Owed(d, n)' \subseteq Owed(d, n)
<1>1. layout' = layout /\ \A n \in Seg : Wanted(n)' = Wanted(n)
  BY LayoutKept DEF LogStep
<1>2. CASE db'[d].log = db[d].log
  BY <1>1, <1>2 DEF Owed, Delivered
<1>3. ASSUME NEW s, NEW t, db'[d].log = Append(db[d].log, [seg |-> s, txns |-> t])
      PROVE  \A n \in Seg : Owed(d, n)' \subseteq Owed(d, n)
  <2>1. \A n \in Seg : Delivered(d, n) \subseteq Delivered(d, n)'
    BY <1>1, <1>3, AppendDelivers
  <2> QED BY <1>1, <2>1 DEF Owed
<1>4. CASE db[d].log = <<>> /\ db'[d].log = Append(<<>>, [seg |-> -1, txns |-> {}])
  BY <1>3, <1>4
<1>5. CASE Sends(d)
  BY <1>3, <1>5 DEF Sends
<1> QED BY <1>2, <1>4, <1>5 DEF LogStep

\* What is owed are transactions.
LEMMA OwedAreTxns ==
  ASSUME NEW d, NEW n \in Seg
  PROVE  Owed(d, n) \subseteq Txn
BY DEF Owed, Wanted, Committed

\* The commit id of what was just sent: the head and all before it were delivered.
LEMMA AheadOfSent ==
  ASSUME TypeInv, DeliveryInv, DeliveryInv', NEW d \in Dst, Dst' = Dst, mem[d].pc \in Draining,
         mem'[d].pc \in {"checkpoint", "local"}, mem'[d].pending = mem[d].pending,
         \A i \in Seg : Owed(d, i)' \subseteq Owed(d, i),
         NEW c \in Nat, c <= Front(d) * Txns + Txns
  PROVE  Ahead(d, c)'
<1>1. Front(d) \in Seg
  BY HeadFacts
<1>2. Front(d)' = Front(d)
  BY DEF Front, Waiting
<1>3. PICK n \in Seg : n = Front(d)
  BY <1>1
<1>4. Owed(d, n)' = {}
  BY <1>2, <1>3 DEF DeliveryInv, WorkerDone, HeadDone
<1>5. \A i \in Seg : i < n => Owed(d, i) = {}
  BY <1>3, BeforeFront DEF DeliveryInv, WorkerDone, Through
<1>6. ASSUME NEW i \in Seg, NEW k \in Owed(d, i)' PROVE c < Commit(i, k)
  <2>1. i # n /\ ~ (i < n)
    BY <1>4, <1>5, <1>6
  <2>2. n < i
    BY <2>1 DEF Seg
  <2>3. k \in Txn
    BY <1>6, OwedAreTxns
  <2>4. n * Txns + Txns < Commit(i, k) /\ Commit(i, k) \in Nat /\ n * Txns \in Nat
    BY <2>2, <2>3, CommitOrder
  <2>5. Txns \in Nat
    BY CountAssumption
  <2> QED BY <1>3, <2>4, <2>5
<1> QED BY <1>6 DEF Ahead

\* No step puts a commit id ahead of the data.
LEMMA AheadStep ==
  ASSUME TypeInv, DeliveryInv, DeliveryInv', NEW d \in Dst, LogStep(d), SyncStep(d), AheadDone(d)
  PROVE  AheadDone(d)'
<1>1. \A n \in Seg : Owed(d, n)' \subseteq Owed(d, n)
  BY OwedShrinks
<1>2. layout' = layout /\ Dst' = Dst
  BY LayoutKept DEF LogStep
<1>3. PICK a, b, c : a = db'[d].ck.commit /\ b = disk'[d].commit /\ c = mem'[d].commit
  OBVIOUS
<1>4. mem[d] \in MemType /\ disk[d] \in DiskType /\ mem[d].commit \in Nat
      /\ disk[d].commit \in Nat /\ db[d].ck.commit \in Nat /\ db[d] \in DbType
  BY FieldTypes DEF DiskType
<1>5. ASSUME NEW x, Ahead(d, x) PROVE Ahead(d, x)'
  BY <1>1, <1>5 DEF Ahead
<1>6. PICK a0, b0, c0 : a0 = db[d].ck.commit /\ b0 = disk[d].commit /\ c0 = mem[d].commit
  OBVIOUS
<1>7. /\ Ahead(d, a0) /\ Ahead(d, b0)
      /\ mem[d].pc \in {"checkpoint", "local"} => Ahead(d, c0)
  BY <1>6 DEF AheadDone
<1>8. SUFFICES /\ Ahead(d, a)' /\ Ahead(d, b)'
               /\ mem'[d].pc \in {"checkpoint", "local"} => Ahead(d, c)'
  BY <1>3 DEF AheadDone, Ahead
<1>9. ASSUME a = a0 \/ (a = c0 /\ mem[d].pc \in {"checkpoint", "local"}),
             b = b0 \/ (b = c0 /\ mem[d].pc \in {"checkpoint", "local"}),
             \/ mem'[d].pc \notin {"checkpoint", "local"}
             \/ mem[d].pc \in {"checkpoint", "local"} /\ c = c0
      PROVE  /\ Ahead(d, a)' /\ Ahead(d, b)'
             /\ mem'[d].pc \in {"checkpoint", "local"} => Ahead(d, c)'
  BY <1>5, <1>7, <1>9
<1>10. CASE Quiet(d)
  <2>1. a = a0 /\ b = b0
    BY <1>3, <1>6, <1>10 DEF Quiet
  <2>2. \/ mem'[d].pc \notin {"checkpoint", "local"}
        \/ mem[d].pc \in {"checkpoint", "local"} /\ c = c0
    BY <1>3, <1>6, <1>10 DEF Quiet, Handling
  <2> QED BY <1>9, <2>1, <2>2
<1>11. ASSUME NEW m, NEW k, Moves(d, m, k), db'[d].ck = db[d].ck, k.commit = disk[d].commit,
              m.pc \notin {"checkpoint", "local"}
       PROVE  /\ Ahead(d, a)' /\ Ahead(d, b)'
              /\ mem'[d].pc \in {"checkpoint", "local"} => Ahead(d, c)'
  <2>1. mem'[d] = m /\ disk'[d] = k
    BY <1>11, MovesFacts
  <2> QED BY <1>3, <1>6, <1>9, <1>11, <2>1
<1>12. CASE Replay(d)
  <2>1. db' = db /\ Front(d) \in Seg
    BY <1>12, ReplayEffect, HeadFacts DEF Draining
  <2>2. PICK m, k : Moves(d, m, k) /\ k.commit = disk[d].commit /\ m.pc \in {"replay", "apply"}
    <3>1. \A i : [mem[d] EXCEPT !.tmp = @ \union {i}].pc = mem[d].pc
                 /\ [disk[d] EXCEPT !.resume = <<Front(d), i>>].commit = disk[d].commit
      BY <1>4 DEF MemType, DiskType
    <3>2. [mem[d] EXCEPT !.pc = "apply", !.tmp = {}].pc = "apply"
      BY <1>4 DEF MemType
    <3>3. (IF disk[d].cdc[Front(d)] = {}
           THEN [disk[d] EXCEPT !.cdc[Front(d)] = mem[d].tmp] ELSE disk[d]).commit = disk[d].commit
      BY <1>4 DEF DiskType
    <3>4. mem[d].pc = "replay"
      BY <1>12, ReplayEffect
    <3> QED BY <1>12, <3>1, <3>2, <3>3, <3>4, ReplayEffect
  <2> QED BY <1>11, <2>1, <2>2
<1>13. CASE Apply(d)
  <2>1. PICK n, rows :
          /\ n = Front(d) /\ rows = ToSend(d, n)
          /\ mem[d].pc = "apply"
          /\ \/ /\ SqlDevice /\ Covered(d, n) /\ db' = db
                /\ Moves(d, [mem[d] EXCEPT !.pc = "mark"], disk[d])
             \/ /\ ~ (SqlDevice /\ Covered(d, n))
                /\ db' = IF rows = {} THEN db
                         ELSE [db EXCEPT ![d].log = Append(@, [seg |-> n, txns |-> rows])]
                /\ Moves(d, [mem[d] EXCEPT !.sent = rows, !.commit = AppliedCommit(d, n),
                                           !.pc = IF OwnCheckpoint THEN "checkpoint" ELSE "local"],
                            disk[d])
    BY <1>13, ApplyEffect, Zenon
  <2>2. mem[d].pc \in Draining /\ n \in Seg
    BY <2>1, HeadFacts DEF Draining
  <2>3. db'[d].ck = db[d].ck
    BY <1>4, <2>1 DEF TypeInv, DbType
  <2>4. CASE Moves(d, [mem[d] EXCEPT !.pc = "mark"], disk[d])
    <3>1. PICK m : m = [mem[d] EXCEPT !.pc = "mark"]
      OBVIOUS
    <3>2. m.pc = "mark" /\ Moves(d, m, disk[d])
      BY <1>4, <2>4, <3>1 DEF MemType
    <3> QED BY <1>11, <2>3, <3>2
  <2>5. CASE Moves(d, [mem[d] EXCEPT !.sent = rows, !.commit = AppliedCommit(d, n),
                                     !.pc = IF OwnCheckpoint THEN "checkpoint" ELSE "local"],
                      disk[d])
    <3>1. PICK m : m = [mem[d] EXCEPT !.sent = rows, !.commit = AppliedCommit(d, n),
                                      !.pc = IF OwnCheckpoint THEN "checkpoint" ELSE "local"]
      OBVIOUS
    <3>2. /\ m.pc \in {"checkpoint", "local"} /\ m.pending = mem[d].pending
          /\ m.commit = AppliedCommit(d, n) /\ Moves(d, m, disk[d])
      BY <1>4, <2>5, <3>1 DEF MemType
    <3>3. mem'[d] = m /\ disk'[d] = disk[d]
      BY <3>2, MovesFacts
    <3>4. c \in Nat /\ c <= Front(d) * Txns + Txns
      BY <1>3, <2>1, <2>2, <3>2, <3>3, AppliedBounds
    <3>5. Ahead(d, c)'
      BY <1>1, <1>2, <2>2, <3>2, <3>3, <3>4, AheadOfSent
    <3>6. a = a0 /\ b = b0
      BY <1>3, <1>6, <2>3, <3>3
    <3> QED BY <1>5, <1>7, <3>5, <3>6
  <2> QED BY <2>1, <2>4, <2>5, Zenon
<1>14. CASE Checkpoint(d)
  <2>1. PICK m, ck :
          /\ mem[d].pc = "checkpoint" /\ m = [mem[d] EXCEPT !.pc = "local"]
          /\ Moves(d, m, disk[d]) /\ ck.commit = mem[d].commit
          /\ db' = [db EXCEPT ![d] = [db[d] EXCEPT !.ck = ck]]
    <3>1. PICK m : m = [mem[d] EXCEPT !.pc = "local"]
      OBVIOUS
    <3>2. mem[d].pc = "checkpoint" /\ Moves(d, m, disk[d])
      BY <1>14, <3>1, CheckpointEffect
    <3>3. PICK ck : /\ ck.commit = mem[d].commit
                    /\ db' = [db EXCEPT ![d] = [db[d] EXCEPT !.ck = ck]]
      BY <1>14, CheckpointEffect, Zenon
    <3> QED BY <3>1, <3>2, <3>3
  <2>2. mem'[d] = m /\ disk'[d] = disk[d] /\ m.commit = mem[d].commit
    BY <1>4, <2>1, MovesFacts DEF MemType
  <2>3. db'[d].ck = ck
    BY <1>4, <2>1 DEF TypeInv, DbType
  <2> QED BY <1>3, <1>6, <1>9, <2>1, <2>2, <2>3
<1>15. CASE CheckpointFails(d) \/ LocalCheckpoint(d) \/ Mark(d)
  <2>1. db'[d].ck = db[d].ck
    BY <1>15, RecordEffect
  <2>2. CASE mem[d].pc = "checkpoint" /\ Moves(d, [mem[d] EXCEPT !.pc = "apply"], disk[d])
    <3>1. PICK m : m = [mem[d] EXCEPT !.pc = "apply"]
      OBVIOUS
    <3>2. m.pc = "apply" /\ Moves(d, m, disk[d])
      BY <1>4, <2>2, <3>1 DEF MemType
    <3> QED BY <1>11, <2>1, <3>2
  <2>3. CASE /\ mem[d].pc = "local"
             /\ Moves(d, [mem[d] EXCEPT !.pc = "mark"], [disk[d] EXCEPT !.commit = mem[d].commit])
    <3>1. PICK m, k : m = [mem[d] EXCEPT !.pc = "mark"] /\ k = [disk[d] EXCEPT !.commit = mem[d].commit]
      OBVIOUS
    <3>2. m.pc = "mark" /\ k.commit = mem[d].commit /\ Moves(d, m, k)
      BY <1>4, <2>3, <3>1 DEF MemType, DiskType
    <3>3. mem'[d] = m /\ disk'[d] = k
      BY <3>2, MovesFacts
    <3> QED BY <1>3, <1>6, <1>9, <2>1, <2>3, <3>2, <3>3
  <2>4. CASE /\ mem[d].pc = "mark"
             /\ \/ Moves(d, Recorded(mem[d], Front(d)), [disk[d] EXCEPT !.work[Front(d)] = "applied"])
                \/ MarkMayFail /\ Moves(d, Recorded(mem[d], Front(d)), disk[d])
    <3>1. Front(d) \in Seg
      BY <2>4, HeadFacts DEF Draining
    <3>2. PICK m : m = Recorded(mem[d], Front(d))
      OBVIOUS
    <3>3. m.pc = "authorize"
      BY <1>4, <3>1, <3>2, RecordedFacts
    <3>4. PICK k : Moves(d, m, k) /\ k.commit = disk[d].commit
      <4>1. [disk[d] EXCEPT !.work[Front(d)] = "applied"].commit = disk[d].commit
        BY <1>4 DEF DiskType
      <4> QED BY <2>4, <3>2, <4>1
    <3> QED BY <1>11, <2>1, <3>3, <3>4
  <2> QED BY <1>15, <2>2, <2>3, <2>4, RecordEffect
<1>16. CASE TempDirCleared(d)
  <2>1. /\ mem' = mem /\ db' = db
        /\ disk' = [disk EXCEPT ![d].init = FALSE, ![d].commit = 0, ![d].authorized = -1,
                                ![d].stageCleaned = -1]
        /\ mem[d].pc = "off"
    BY <1>16 DEF TempDirCleared, env, Running
  <2>2. b = 0
    BY <1>3, <1>4, <2>1 DEF TypeInv, DiskType
  <2>3. Ahead(d, b)'
    <3>1. ASSUME NEW n \in Seg, NEW k \in Owed(d, n) PROVE 0 < Commit(n, k)
      <4>1. k \in Txn
        BY OwedAreTxns
      <4> QED BY <4>1, CommitOrder
    <3> QED BY <1>1, <2>2, <3>1 DEF Ahead
  <2>4. a = a0 /\ mem'[d].pc \notin {"checkpoint", "local"}
    BY <1>3, <1>6, <2>1
  <2> QED BY <1>5, <1>7, <2>3, <2>4
<1> QED BY <1>10, <1>12, <1>13, <1>14, <1>15, <1>16 DEF SyncStep

--------------------------------------------------------------------------------
(* The change logs are complete                                                *)

\* What is committed, and left to replay, where the replica and the head stay.
LEMMA ToReplayKept ==
  ASSUME NEW d, disk'[d].resume = disk[d].resume
  PROVE  \A n \in Seg : ToReplay(d, n)' = ToReplay(d, n)
BY DEF ToReplay, ReplicaResume, Committed, Commit

\* Steps of a worker that replays nothing and changes neither its change logs nor the
\* checkpoint of the destination.
LEMMA ChangesKept ==
  ASSUME TypeInv, NEW d \in Dst, ChangesDone(d), layout' = layout,
         disk'[d].cdc = disk[d].cdc, disk'[d].resume = disk[d].resume, db'[d].ck = db[d].ck,
         \A n \in Seg : Passed(d, n) => Passed(d, n)',
         mem[d].pc # "replay", mem'[d].pc \notin {"replay", "checkpoint"},
         mem'[d].pc = "apply" => mem[d].pc = "checkpoint" /\ mem'[d].pending = mem[d].pending
  PROVE  ChangesDone(d)'
<1>1. SqlDevice' <=> SqlDevice
  BY LayoutKept
<1>2. \A n \in Seg : ToReplay(d, n)' = ToReplay(d, n)
  BY ToReplayKept
<1>3. mem'[d].pc = "apply" => Front(d)' = Front(d) /\ Front(d) \in Seg
  BY HeadFacts DEF Front, Waiting, Draining
<1>4. db[d].ck.seg \in Seg
  BY FieldTypes
<1>5. \A n \in Seg : Committed(n)' = Committed(n)
  BY DEF Committed, Commit
<1> QED BY <1>1, <1>2, <1>3, <1>4, <1>5 DEF ChangesDone

\* A quiet step drops change logs of what is passed only, and is not in the midst of a replay.
LEMMA ChangesQuiet ==
  ASSUME TypeInv, NEW d \in Dst, ChangesDone(d), Quiet(d),
         \A n \in Seg : Passed(d, n) => Passed(d, n)'
  PROVE  ChangesDone(d)'
<1> SUFFICES ASSUME SqlDevice PROVE ChangesDone(d)'
  BY LayoutKept DEF Quiet, ChangesDone
<1>1. \A n \in Seg : ToReplay(d, n)' = ToReplay(d, n)
  BY ToReplayKept DEF Quiet
<1>2. \A n \in Seg : Committed(n)' = Committed(n)
  BY DEF Committed, Commit
<1>3. \A n \in Seg : \/ disk'[d].cdc[n] = disk[d].cdc[n]
                     \/ disk'[d].cdc[n] = {} /\ Passed(d, n)'
  BY DEF Quiet, Passed
<1>4. ASSUME mem'[d].pc \in Handling
      PROVE  \/ /\ mem'[d].pc = mem[d].pc /\ Front(d)' = Front(d) /\ Front(d) \in Seg
                /\ mem'[d].tmp = mem[d].tmp /\ mem'[d].sent = mem[d].sent
             \/ mem'[d].tmp = {} /\ mem[d].tmp = {} /\ mem'[d].pc = "replay"
  BY <1>4, HeadFacts DEF Quiet, Front, Waiting, Draining, Handling
<1>5. \A n \in Seg : disk'[d].cdc[n] \subseteq Committed(n)
  BY <1>3 DEF ChangesDone
<1>6. mem'[d].pc = "replay" => mem'[d].tmp \subseteq Committed(Front(d)')
  BY <1>4 DEF ChangesDone, Handling
<1>7. ASSUME NEW n \in Seg, ~ Passed(d, n)'
      PROVE  Committed(n) \subseteq
               IF disk'[d].cdc[n] # {} THEN disk'[d].cdc[n]
               ELSE ToReplay(d, n) \union (IF mem'[d].pc = "replay" /\ n = Front(d)' THEN mem'[d].tmp ELSE {})
  <2>1. disk'[d].cdc[n] = disk[d].cdc[n] /\ ~ Passed(d, n)
    BY <1>3, <1>7
  <2>2. Committed(n) \subseteq
               IF disk[d].cdc[n] # {} THEN disk[d].cdc[n]
               ELSE ToReplay(d, n) \union (IF mem[d].pc = "replay" /\ n = Front(d) THEN mem[d].tmp ELSE {})
    BY <2>1 DEF ChangesDone
  <2>3. CASE mem[d].tmp = {}
    BY <2>1, <2>2, <2>3
  <2>4. CASE mem[d].tmp # {}
    <3>1. mem'[d].pc = "replay"
      BY <2>4 DEF Quiet
    <3>2. mem'[d].pc = mem[d].pc /\ Front(d)' = Front(d) /\ mem'[d].tmp = mem[d].tmp
      BY <1>4, <2>4, <3>1 DEF Handling
    <3> QED BY <2>1, <2>2, <3>2
  <2> QED BY <2>3, <2>4
<1>8. mem'[d].pc \in {"apply", "checkpoint"} /\ ~ Passed(d, Front(d))' =>
        Committed(Front(d)') \subseteq disk'[d].cdc[Front(d)']
  <2>1. ASSUME mem'[d].pc \in {"apply", "checkpoint"}, ~ Passed(d, Front(d))'
        PROVE  Committed(Front(d)') \subseteq disk'[d].cdc[Front(d)']
    <3>1. mem'[d].pc = mem[d].pc /\ Front(d)' = Front(d) /\ Front(d) \in Seg
      BY <1>4, <2>1 DEF Handling
    <3>2. PICK n \in Seg : n = Front(d)
      BY <3>1
    <3>3. ~ Passed(d, n)' /\ ~ Passed(d, n) /\ disk'[d].cdc[n] = disk[d].cdc[n]
      BY <1>3, <2>1, <3>1, <3>2
    <3> QED BY <2>1, <3>1, <3>2, <3>3 DEF ChangesDone
  <2> QED BY <2>1
<1>9. db'[d].ck = db[d].ck /\ db[d].ck.seg \in Seg
  BY FieldTypes DEF Quiet
<1>10. mem'[d].pc = "checkpoint" =>
         /\ mem'[d].sent \subseteq Committed(Front(d)')
         /\ mem'[d].sent = {} => db'[d].ck.seg = Front(d)'
  BY <1>4, <1>9 DEF ChangesDone, Handling
<1> QED BY <1>1, <1>2, <1>5, <1>6, <1>7, <1>8, <1>9, <1>10 DEF ChangesDone

\* What is replayed of the head ends up in its change log.
LEMMA ChangesReplay ==
  ASSUME TypeInv, DeliveryInv, ~ MarkMayFail, NEW d \in Dst, ChangesDone(d), Replay(d),
         \A n \in Seg : Passed(d, n) => Passed(d, n)'
  PROVE  ChangesDone(d)'
<1>1. PICK n, m, k :
         /\ n = Front(d)
         /\ Moves(d, m, k)
         /\ m.pending = mem[d].pending /\ m.progress = mem[d].progress
         /\ k.commit = disk[d].commit /\ k.work = disk[d].work
         /\ k.authorized = disk[d].authorized /\ k.cleaned = disk[d].cleaned
         /\ \A i \in Seg : i # n => k.cdc[i] = disk[d].cdc[i]
         /\ \/ /\ disk[d].cdc[n] = {} /\ m.pc = "replay" /\ k.cdc[n] = {}
               /\ \E i \in ToReplay(d, n) :
                    /\ \A j \in ToReplay(d, n) : i <= j
                    /\ k.resume = <<n, i>> /\ m.tmp = mem[d].tmp \union {i}
            \/ /\ disk[d].cdc[n] = {} => ToReplay(d, n) = {} /\ k.cdc[n] = mem[d].tmp
               /\ disk[d].cdc[n] # {} => k.cdc[n] = disk[d].cdc[n]
               /\ k.resume = disk[d].resume /\ m.pc = "apply" /\ m.tmp = {}
  BY ReplayMoves, Zenon
<1>2. mem[d].pc = "replay" /\ n \in Seg /\ db' = db /\ WorkerDone(d) /\ mem[d].pc \in Draining
  BY <1>1, ReplayEffect, HeadFacts DEF Draining, DeliveryInv
<1>3. mem'[d] = m /\ disk'[d] = k /\ layout' = layout /\ Front(d)' = n
  <2>1. mem'[d] = m /\ disk'[d] = k /\ layout' = layout
    BY <1>1, MovesFacts
  <2> QED BY <1>1, <2>1, FrontKept
<1> SUFFICES ASSUME SqlDevice PROVE ChangesDone(d)'
  BY <1>3, LayoutKept DEF ChangesDone
<1>4. \A i \in Seg : Committed(i)' = Committed(i)
  BY DEF Committed, Commit
<1>5. /\ \A i \in Seg : disk[d].cdc[i] \subseteq Committed(i)
      /\ mem[d].tmp \subseteq Committed(n)
      /\ \A i \in Seg : ~ Passed(d, i) =>
           Committed(i) \subseteq
             IF disk[d].cdc[i] # {} THEN disk[d].cdc[i]
             ELSE ToReplay(d, i) \union (IF i = n THEN mem[d].tmp ELSE {})
      /\ db[d].ck.change >= 0 => db[d].ck.change \in Committed(db[d].ck.seg)
  BY <1>1, <1>2 DEF ChangesDone
<1>6. db'[d].ck = db[d].ck /\ db[d].ck.seg \in Seg
  BY <1>2, FieldTypes
<1>7. SUFFICES /\ \A i \in Seg : k.cdc[i] \subseteq Committed(i)
               /\ m.pc = "replay" => m.tmp \subseteq Committed(n)
               /\ \A i \in Seg : ~ Passed(d, i) =>
                    Committed(i) \subseteq
                      IF k.cdc[i] # {} THEN k.cdc[i]
                      ELSE ToReplay(d, i)' \union (IF m.pc = "replay" /\ i = n THEN m.tmp ELSE {})
               /\ m.pc = "apply" /\ ~ Passed(d, n) => Committed(n) \subseteq k.cdc[n]
  BY <1>1, <1>2, <1>3, <1>4, <1>5, <1>6 DEF ChangesDone
<1>8. CASE /\ disk[d].cdc[n] = {} /\ m.pc = "replay" /\ k.cdc[n] = {}
           /\ \E i \in ToReplay(d, n) :
                /\ \A j \in ToReplay(d, n) : i <= j
                /\ k.resume = <<n, i>> /\ m.tmp = mem[d].tmp \union {i}
  <2>1. PICK i \in ToReplay(d, n) : /\ \A j \in ToReplay(d, n) : i <= j
                                    /\ k.resume = <<n, i>> /\ m.tmp = mem[d].tmp \union {i}
    BY <1>8
  <2>2. \A j \in Seg : ToReplay(d, j)' = { x \in Committed(j) : n < j \/ (n = j /\ x > i) }
    BY <1>3, <2>1 DEF ToReplay, ReplicaResume, Committed
  <2>3. \A j \in Seg : j > n => ToReplay(d, j) \subseteq ToReplay(d, j)'
    BY <2>2 DEF ToReplay
  <2>4. ToReplay(d, n) \subseteq ToReplay(d, n)' \union {i}
    <3>1. \A x \in ToReplay(d, n) : x \in Int /\ x \in Committed(n) /\ i <= x
      BY <2>1 DEF ToReplay, Committed, Txn
    <3> QED BY <1>2, <2>1, <2>2, <3>1
  <2>5. \A j \in Seg : j < n => Passed(d, j)
    BY <1>1, <1>2, BeforeFront DEF WorkerDone, Through
  <2>6. ASSUME NEW j \in Seg, ~ Passed(d, j), k.cdc[j] = {}
        PROVE  Committed(j) \subseteq ToReplay(d, j)' \union (IF j = n THEN m.tmp ELSE {})
    <3>1. disk[d].cdc[j] = {}
      BY <1>1, <1>8, <2>6
    <3>2. j = n \/ j > n
      BY <1>2, <2>5, <2>6 DEF Seg
    <3> QED BY <1>5, <2>1, <2>3, <2>4, <2>6, <3>1, <3>2
  <2>7. \A j \in Seg : k.cdc[j] = disk[d].cdc[j]
    BY <1>1, <1>8
  <2>8. m.tmp \subseteq Committed(n)
    BY <1>5, <2>1 DEF ToReplay
  <2> QED BY <1>5, <1>8, <2>6, <2>7, <2>8
<1>9. CASE /\ disk[d].cdc[n] = {} => ToReplay(d, n) = {} /\ k.cdc[n] = mem[d].tmp
           /\ disk[d].cdc[n] # {} => k.cdc[n] = disk[d].cdc[n]
           /\ k.resume = disk[d].resume /\ m.pc = "apply" /\ m.tmp = {}
  <2>1. \A j \in Seg : ToReplay(d, j)' = ToReplay(d, j)
    BY <1>3, <1>9, ToReplayKept
  <2>2. ~ Passed(d, n) => Committed(n) \subseteq k.cdc[n]
    BY <1>2, <1>5, <1>9
  <2>3. \A j \in Seg : j # n => k.cdc[j] = disk[d].cdc[j]
    BY <1>1
  <2>4. \A j \in Seg : k.cdc[j] \subseteq Committed(j)
    BY <1>5, <1>9, <2>3
  <2>5. ASSUME NEW j \in Seg, ~ Passed(d, j)
        PROVE  Committed(j) \subseteq IF k.cdc[j] # {} THEN k.cdc[j] ELSE ToReplay(d, j)'
    <3>1. CASE j = n
      BY <2>2, <2>5, <3>1
    <3>2. CASE j # n
      BY <1>5, <2>1, <2>3, <2>5, <3>2
    <3> QED BY <3>1, <3>2
  <2> QED BY <1>9, <2>2, <2>4, <2>5
<1> QED BY <1>1, <1>8, <1>9

\* The head is not passed while it is handled, unless the checkpoint of the destination
\* is beyond it.
LEMMA HeadNotPassed ==
  ASSUME TypeInv, DeliveryInv, NEW d \in Dst, mem[d].pc \in Handling, ~ Covered(d, Front(d))
  PROVE  ~ Passed(d, Front(d))
<1>1. PICK n \in Seg : n = Front(d)
  BY HeadFacts DEF Draining, Handling
<1>2. disk[d].work[n] = "copy" /\ n > disk[d].authorized /\ n > disk[d].cleaned
  BY <1>1 DEF DeliveryInv, WorkerDone, HeadDone
<1>3. n \in Int /\ disk[d].authorized \in Int /\ disk[d].cleaned \in Int
  BY FieldTypes DEF Seg
<1>4. ~ (n <= disk[d].authorized) /\ ~ (n <= disk[d].cleaned)
  BY <1>2, <1>3
<1> QED BY <1>1, <1>2, <1>4 DEF Passed

\* The change log of a head that is not passed holds all that committed of it, so that
\* nothing is left to send only when the checkpoint of the destination is on the head.
LEMMA ChangesApply ==
  ASSUME TypeInv, DeliveryInv, Settled, NEW d \in Dst, ChangesDone(d), Apply(d),
         \A n \in Seg : Passed(d, n) => Passed(d, n)'
  PROVE  ChangesDone(d)'
<1>1. PICK n, rows :
        /\ n = Front(d) /\ rows = ToSend(d, n)
        /\ mem[d].pc = "apply"
        /\ \/ /\ SqlDevice /\ Covered(d, n) /\ db' = db
              /\ Moves(d, [mem[d] EXCEPT !.pc = "mark"], disk[d])
           \/ /\ ~ (SqlDevice /\ Covered(d, n))
              /\ db' = IF rows = {} THEN db
                       ELSE [db EXCEPT ![d].log = Append(@, [seg |-> n, txns |-> rows])]
              /\ Moves(d, [mem[d] EXCEPT !.sent = rows, !.commit = AppliedCommit(d, n),
                                         !.pc = IF OwnCheckpoint THEN "checkpoint" ELSE "local"],
                          disk[d])
  BY ApplyEffect, Zenon
<1>2. /\ mem[d].pc \in Draining /\ n \in Seg /\ WorkerDone(d)
      /\ mem[d] \in MemType /\ db[d] \in DbType
  BY <1>1, HeadFacts, FieldTypes DEF Draining, DeliveryInv
<1>3. db'[d].ck = db[d].ck
  BY <1>1, <1>2 DEF TypeInv, DbType
<1>4. CASE Moves(d, [mem[d] EXCEPT !.pc = "mark"], disk[d])
  <2>1. mem'[d].pc = "mark" /\ disk'[d] = disk[d] /\ layout' = layout
    <3>1. PICK m : m = [mem[d] EXCEPT !.pc = "mark"]
      OBVIOUS
    <3>2. m.pc = "mark" /\ Moves(d, m, disk[d])
      BY <1>2, <1>4, <3>1 DEF MemType
    <3> QED BY <3>2, MovesFacts
  <2> QED BY <1>1, <1>3, <2>1, ChangesKept
<1>5. CASE /\ ~ (SqlDevice /\ Covered(d, n))
           /\ Moves(d, [mem[d] EXCEPT !.sent = rows, !.commit = AppliedCommit(d, n),
                                      !.pc = IF OwnCheckpoint THEN "checkpoint" ELSE "local"],
                       disk[d])
  <2>1. PICK m : m = [mem[d] EXCEPT !.sent = rows, !.commit = AppliedCommit(d, n),
                                    !.pc = IF OwnCheckpoint THEN "checkpoint" ELSE "local"]
    OBVIOUS
  <2>2. /\ m.pc \in {"checkpoint", "local"} /\ m.pending = mem[d].pending /\ m.sent = rows
        /\ Moves(d, m, disk[d])
    BY <1>2, <1>5, <2>1 DEF MemType
  <2>3. /\ mem'[d] = m /\ disk'[d] = disk[d] /\ layout' = layout /\ Front(d)' = n
    <3>1. mem'[d] = m /\ disk'[d] = disk[d] /\ layout' = layout
      BY <2>2, MovesFacts
    <3> QED BY <1>1, <2>2, <3>1, FrontKept
  <2> SUFFICES ASSUME SqlDevice PROVE ChangesDone(d)'
    BY <2>3, LayoutKept DEF ChangesDone
  <2>4. \A i \in Seg : ToReplay(d, i)' = ToReplay(d, i)
    BY <2>3, ToReplayKept
  <2>5. \A i \in Seg : Committed(i)' = Committed(i)
    BY DEF Committed, Commit
  <2>6. ~ Passed(d, n)
    BY <1>1, <1>5, HeadNotPassed DEF Handling
  <2>7. Committed(n) \subseteq disk[d].cdc[n] /\ disk[d].cdc[n] \subseteq Committed(n)
    BY <1>1, <1>2, <2>6 DEF ChangesDone
  <2>8. rows \subseteq Committed(n)
    BY <1>1, <2>7 DEF ToSend, Content
  <2>9. rows = {} => db[d].ck.seg = n
    <3>1. PICK x : x \in Content(d, n)
      BY <1>2, <2>7 DEF Settled, Content
    <3> QED BY <1>1, <3>1 DEF ToSend, Filtered
  <2>10. db[d].ck.seg \in Seg
    BY FieldTypes
  <2> QED BY <1>1, <1>2, <1>3, <2>2, <2>3, <2>4, <2>5, <2>6, <2>7, <2>8, <2>9, <2>10 DEF ChangesDone
<1> QED BY <1>1, <1>4, <1>5, Zenon

\* The checkpoint of the destination is one of what was sent.
LEMMA ChangesCheckpoint ==
  ASSUME TypeInv, DeliveryInv, NEW d \in Dst, ChangesDone(d), Checkpoint(d),
         \A n \in Seg : Passed(d, n) => Passed(d, n)'
  PROVE  ChangesDone(d)'
<1>1. PICK m : m = [mem[d] EXCEPT !.pc = "local"]
  OBVIOUS
<1>2. /\ mem[d].pc = "checkpoint" /\ Moves(d, m, disk[d])
  BY <1>1, CheckpointEffect
<1>3. PICK n : n = Front(d)
  OBVIOUS
<1>4. PICK ck :
        /\ ck.seg = (IF db[d].ck.seg >= n THEN db[d].ck.seg ELSE n)
        /\ mem[d].sent = {} => ck.change = db[d].ck.change
        /\ mem[d].sent # {} => ck.change \in mem[d].sent
        /\ db' = [db EXCEPT ![d] = [db[d] EXCEPT !.ck = ck]]
  BY <1>3, CheckpointEffect
<1>5. /\ mem[d] \in MemType /\ db[d] \in DbType /\ n \in Seg /\ WorkerDone(d)
      /\ db[d].ck.seg \in Seg /\ Shaped(mem[d], disk[d])
  BY <1>2, <1>3, HeadFacts, FieldTypes DEF DeliveryInv, Draining
<1>6. mem'[d] = m /\ m.pc = "local" /\ disk'[d] = disk[d] /\ layout' = layout /\ db'[d].ck = ck
  <2>1. m.pc = "local"
    BY <1>1, <1>5 DEF MemType
  <2>2. mem'[d] = m /\ disk'[d] = disk[d] /\ layout' = layout
    BY <1>2, MovesFacts
  <2>3. db'[d].ck = ck
    BY <1>4, <1>5 DEF DbType, TypeInv
  <2> QED BY <2>1, <2>2, <2>3
<1> SUFFICES ASSUME SqlDevice PROVE ChangesDone(d)'
  BY <1>6, LayoutKept DEF ChangesDone
<1>7. ck.seg = n
  <2>1. ~ (db[d].ck.seg > n)
    BY <1>2, <1>3, <1>5 DEF WorkerDone, HeadDone, Handling, Covered, Shaped
  <2> QED BY <1>4, <1>5, <2>1 DEF Seg
<1>8. ck.change >= 0 => ck.change \in Committed(ck.seg)
  <2>1. mem[d].sent \subseteq Committed(n) /\ (mem[d].sent = {} => db[d].ck.seg = n)
    BY <1>2, <1>3 DEF ChangesDone
  <2>2. db[d].ck.change >= 0 => db[d].ck.change \in Committed(db[d].ck.seg)
    BY DEF ChangesDone
  <2> QED BY <1>4, <1>7, <2>1, <2>2
<1>9. \A i \in Seg : ToReplay(d, i)' = ToReplay(d, i)
  BY <1>6, ToReplayKept
<1>10. \A i \in Seg : Committed(i)' = Committed(i)
  BY DEF Committed, Commit
<1> QED BY <1>2, <1>5, <1>6, <1>7, <1>8, <1>9, <1>10 DEF ChangesDone

\* No step loses a committed transaction on the way to a change log.
LEMMA ChangesStep ==
  ASSUME TypeInv, DeliveryInv, ~ MarkMayFail, Settled, Still, NEW d \in Dst,
         SyncStep(d), ChangesDone(d)
  PROVE  ChangesDone(d)'
<1>1. \A n \in Seg : Passed(d, n) => Passed(d, n)'
  BY PassedStays
<1>2. mem[d] \in MemType /\ disk[d] \in DiskType
  BY FieldTypes
<1>3. CASE CheckpointFails(d) \/ LocalCheckpoint(d) \/ Mark(d)
  <2>1. db' = db /\ mem[d].pc \in {"checkpoint", "local", "mark"}
    BY <1>3, RecordEffect
  <2>2. PICK m, k :
          /\ Moves(d, m, k) /\ k.cdc = disk[d].cdc /\ k.resume = disk[d].resume
          /\ \/ m.pc \in {"mark", "authorize"}
             \/ m.pc = "apply" /\ mem[d].pc = "checkpoint" /\ m.pending = mem[d].pending
    <3>1. CASE mem[d].pc = "checkpoint" /\ Moves(d, [mem[d] EXCEPT !.pc = "apply"], disk[d])
      <4>1. [mem[d] EXCEPT !.pc = "apply"].pc = "apply"
            /\ [mem[d] EXCEPT !.pc = "apply"].pending = mem[d].pending
        BY <1>2 DEF MemType
      <4> QED BY <3>1, <4>1
    <3>2. CASE /\ mem[d].pc = "local"
               /\ Moves(d, [mem[d] EXCEPT !.pc = "mark"], [disk[d] EXCEPT !.commit = mem[d].commit])
      <4>1. /\ [mem[d] EXCEPT !.pc = "mark"].pc = "mark"
            /\ [disk[d] EXCEPT !.commit = mem[d].commit].cdc = disk[d].cdc
            /\ [disk[d] EXCEPT !.commit = mem[d].commit].resume = disk[d].resume
        BY <1>2 DEF MemType, DiskType
      <4> QED BY <3>2, <4>1
    <3>3. CASE /\ mem[d].pc = "mark"
               /\ \/ Moves(d, Recorded(mem[d], Front(d)), [disk[d] EXCEPT !.work[Front(d)] = "applied"])
                  \/ MarkMayFail /\ Moves(d, Recorded(mem[d], Front(d)), disk[d])
      <4>1. Front(d) \in Seg
        BY <3>3, HeadFacts DEF Draining
      <4>2. Recorded(mem[d], Front(d)).pc = "authorize"
        BY <1>2, <4>1, RecordedFacts
      <4>3. /\ [disk[d] EXCEPT !.work[Front(d)] = "applied"].cdc = disk[d].cdc
            /\ [disk[d] EXCEPT !.work[Front(d)] = "applied"].resume = disk[d].resume
        BY <1>2 DEF DiskType
      <4> QED BY <3>3, <4>2, <4>3
    <3> QED BY <1>3, <3>1, <3>2, <3>3, RecordEffect
  <2>3. mem'[d] = m /\ disk'[d] = k /\ layout' = layout
    BY <2>2, MovesFacts
  <2> QED BY <1>1, <2>1, <2>2, <2>3, ChangesKept
<1>4. CASE TempDirCleared(d)
  <2>1. /\ mem' = mem /\ db' = db /\ layout' = layout /\ mem[d].pc = "off"
        /\ disk' = [disk EXCEPT ![d].init = FALSE, ![d].commit = 0, ![d].authorized = -1,
                                ![d].stageCleaned = -1]
    BY <1>4 DEF TempDirCleared, env, Running
  <2>2. disk'[d].cdc = disk[d].cdc /\ disk'[d].resume = disk[d].resume
    BY <1>2, <2>1 DEF TypeInv, DiskType
  <2> QED BY <1>1, <2>1, <2>2, ChangesKept
<1> QED BY <1>1, <1>3, <1>4, ChangesQuiet, ChangesReplay, ChangesApply, ChangesCheckpoint DEF SyncStep

--------------------------------------------------------------------------------
(* The commit id that is read reaches what is passed                           *)

\* What committed is wanted, so that a segment of which nothing is owed is in the log.
LEMMA NothingBeyond ==
  ASSUME TypeInv, DeliveryInv, ~ MarkMayFail, Settled, NEW d \in Dst, LogDone(d),
         mem[d].pc \in Handling, ~ Covered(d, Front(d))
  PROVE  \A n \in Seg : Passed(d, n) => n < Front(d)
<1>1. PICK f \in Seg : f = Front(d)
  BY HeadFacts DEF Draining, Handling
<1>2. ~ Passed(d, f)
  BY <1>1, HeadNotPassed
<1> SUFFICES ASSUME NEW n \in Seg, Passed(d, n), ~ (n < f) PROVE FALSE
  BY <1>1
<1>3. f < n
  <2>1. n # f
    BY <1>2
  <2> QED BY <2>1 DEF Seg
<1>4. Owed(d, n) = {}
  BY DEF DeliveryInv, WorkerDone, ReadDone
<1>5. PICK k : k \in Committed(n)
  BY DEF Settled
<1>6. k \in Delivered(d, n)
  BY <1>4, <1>5 DEF Owed, Wanted, Committed
<1>7. PICK i \in DOMAIN db[d].log : db[d].log[i].seg = n
  BY <1>6 DEF Delivered
<1>8. Through(d, f)
  BY <1>3, <1>7 DEF LogDone
<1> QED BY <1>2, <1>8 DEF Through

\* A commit id of a segment is beyond those of the segments before.
LEMMA ReachesBefore ==
  ASSUME NEW n \in Seg, NEW f \in Seg, n < f, NEW c \in Nat, c > f * Txns
  PROVE  Reaches(c, n)
<1> SUFFICES ASSUME NEW k \in Committed(n) PROVE Commit(n, k) <= c
  BY DEF Reaches
<1>1. k \in Txn /\ 1 \in Txn
  BY CountAssumption DEF Committed, Txn
<1>2. Commit(n, k) < Commit(f, 1) /\ Commit(n, k) \in Nat /\ f * Txns \in Nat
  BY <1>1, CommitOrder
<1>3. Commit(f, 1) = f * Txns + 1
  BY DEF Commit
<1> QED BY <1>2, <1>3

\* What is applied has the commit id of the last transaction that committed, or a greater one.
LEMMA AppliedReaches ==
  ASSUME TypeInv, DeliveryInv, Settled, NEW d \in Dst, ChangesDone(d), mem[d].pc = "apply",
         ~ (SqlDevice /\ Covered(d, Front(d)))
  PROVE  \A n \in Seg : n <= Front(d) => Reaches(AppliedCommit(d, Front(d)), n)
<1>1. PICK f \in Seg : f = Front(d)
  BY HeadFacts DEF Draining
<1>2. PICK c : c = AppliedCommit(d, f)
  OBVIOUS
<1>3. ~ Covered(d, f)
  BY <1>1 DEF DeliveryInv, WorkerDone, HeadDone, Handling
<1>4. ~ Passed(d, f)
  BY <1>1, <1>3, HeadNotPassed DEF Handling
<1>5. Committed(f) \subseteq Content(d, f)
  BY <1>1, <1>4 DEF ChangesDone, Content, Committed
<1>6. c \in Nat /\ c > f * Txns
      /\ \A k \in ToSend(d, f) \union Markers(d, f) : Commit(f, k) <= c
  BY <1>2, <1>5, AppliedBounds DEF Settled
<1>7. \A n \in Seg : n < f => Reaches(c, n)
  BY <1>6, ReachesBefore
<1>8. ASSUME NEW k \in Committed(f) PROVE Commit(f, k) <= c
  <2>1. k \in Content(d, f) /\ k \in Txn /\ k \in Int
    BY <1>5 DEF Committed, Txn
  <2>2. db[d].ck.change \in -1 .. Txns /\ Txns \in Nat
    BY FieldTypes, CountAssumption
  <2>3. ASSUME NEW j \in Txn, j \in Markers(d, f), k <= j PROVE Commit(f, k) <= c
    <3>1. Commit(f, k) <= Commit(f, j) /\ Commit(f, k) \in Nat /\ Commit(f, j) \in Nat
      BY <2>1, <2>3, CommitOrder
    <3>2. Commit(f, j) <= c
      BY <1>6, <2>3
    <3> QED BY <1>6, <3>1, <3>2
  <2>4. CASE Filtered(d, f) => k > db[d].ck.change
    <3>1. k \in ToSend(d, f)
      BY <2>1, <2>4 DEF ToSend
    <3> QED BY <1>6, <3>1
  <2>5. CASE Filtered(d, f) /\ k <= db[d].ck.change /\ SqlDevice
    <3>1. PICK j : j = db[d].ck.change
      OBVIOUS
    <3>2. j \in Committed(f)
      BY <2>5, <3>1 DEF Filtered, ChangesDone
    <3>3. j \in Markers(d, f) /\ j \in Txn /\ j >= j
      BY <1>5, <2>2, <3>1, <3>2 DEF Markers, Committed
    <3> QED BY <2>3, <2>5, <3>1, <3>3
  <2>6. CASE Filtered(d, f) /\ k <= db[d].ck.change /\ ~ SqlDevice
    <3>1. Txns \in Committed(f)
      BY <2>6 DEF Filtered, Settled
    <3>2. Txns \in Markers(d, f) /\ Txns \in Txn /\ k <= Txns
      BY <1>5, <2>1, <2>2, <3>1 DEF Markers, Committed, Txn
    <3> QED BY <2>3, <3>2
  <2> QED BY <2>1, <2>2, <2>4, <2>5, <2>6
<1>9. Reaches(c, f)
  BY <1>8 DEF Reaches
<1>10. \A n \in Seg : n <= f => n < f \/ n = f
  BY DEF Seg
<1> QED BY <1>1, <1>2, <1>7, <1>9, <1>10

\* Steps that leave the commit id that is read, and pass nothing new.
LEMMA ReachKept ==
  ASSUME NEW d, ReachDone(d), layout' = layout, Seen(d)' = Seen(d),
         \A n \in Seg : Passed(d, n)' => Passed(d, n),
         \/ mem'[d].pc \notin Sending
         \/ /\ mem'[d].pc = mem[d].pc /\ mem'[d].pending = mem[d].pending
            /\ mem'[d].commit = mem[d].commit
  PROVE  ReachDone(d)'
<1>1. PICK s : s = Seen(d) /\ s = Seen(d)'
  OBVIOUS
<1>2. \A n \in Seg : Passed(d, n)' => Reaches(s, n)'
  BY <1>1 DEF ReachDone, Reaches, Committed, Commit
<1>3. OwnCheckpoint' <=> OwnCheckpoint
  BY LayoutKept
<1>4. CASE mem'[d].pc \notin Sending
  BY <1>1, <1>2, <1>4 DEF ReachDone, Sending, Reaches
<1>5. CASE /\ mem'[d].pc = mem[d].pc /\ mem'[d].pending = mem[d].pending
           /\ mem'[d].commit = mem[d].commit
  <2>1. Front(d)' = Front(d)
    BY <1>5, FrontKept
  <2> QED BY <1>1, <1>2, <1>3, <1>5, <2>1 DEF ReachDone, Reaches, Committed, Commit
<1> QED BY <1>4, <1>5

\* The same, where the step says what the commit id and the head are.
LEMMA ReachFrom ==
  ASSUME NEW d, layout' = layout, NEW s, Seen(d)' = s, NEW f, Front(d)' = f,
         NEW c, mem'[d].commit = c,
         \A n \in Seg : Passed(d, n)' => Reaches(s, n),
         mem'[d].pc \in {"checkpoint", "local"} => \A n \in Seg : n <= f => Reaches(c, n),
         mem'[d].pc = "mark" \/ (mem'[d].pc = "local" /\ OwnCheckpoint) => Reaches(s, f)
  PROVE  ReachDone(d)'
<1>1. OwnCheckpoint' <=> OwnCheckpoint
  BY LayoutKept
<1>2. \A n \in Seg : Passed(d, n)' => Reaches(Seen(d), n)'
  BY DEF Reaches, Committed, Commit
<1>3. mem'[d].pc \in {"checkpoint", "local"} => \A n \in Seg : n <= Front(d)' => Reaches(mem[d].commit, n)'
  BY DEF Reaches, Committed, Commit
<1>4. mem'[d].pc = "mark" \/ (mem'[d].pc = "local" /\ OwnCheckpoint) => Reaches(Seen(d), Front(d))'
  BY DEF Reaches, Committed, Commit
<1> QED BY <1>1, <1>2, <1>3, <1>4 DEF ReachDone

\* What is sent has a commit id that reaches it.
LEMMA ReachApply ==
  ASSUME TypeInv, DeliveryInv, Settled, NEW d \in Dst, ReachDone(d), ChangesDone(d), Apply(d)
  PROVE  ReachDone(d)'
<1>1. PICK n, rows :
        /\ n = Front(d) /\ rows = ToSend(d, n)
        /\ mem[d].pc = "apply"
        /\ \/ /\ SqlDevice /\ Covered(d, n) /\ db' = db
              /\ Moves(d, [mem[d] EXCEPT !.pc = "mark"], disk[d])
           \/ /\ ~ (SqlDevice /\ Covered(d, n))
              /\ db' = IF rows = {} THEN db
                       ELSE [db EXCEPT ![d].log = Append(@, [seg |-> n, txns |-> rows])]
              /\ Moves(d, [mem[d] EXCEPT !.sent = rows, !.commit = AppliedCommit(d, n),
                                         !.pc = IF OwnCheckpoint THEN "checkpoint" ELSE "local"],
                          disk[d])
  BY ApplyEffect, Zenon
<1>2. n \in Seg /\ mem[d] \in MemType /\ db[d] \in DbType
  BY <1>1, HeadFacts, FieldTypes DEF Draining
<1>3. db'[d].ck = db[d].ck
  BY <1>1, <1>2 DEF TypeInv, DbType
<1>4. ASSUME NEW m, Moves(d, m, disk[d]), m.pending = mem[d].pending
      PROVE  /\ mem'[d] = m /\ layout' = layout /\ Seen(d)' = Seen(d) /\ Front(d)' = n
             /\ \A i \in Seg : Passed(d, i)' => Passed(d, i)
  <2>1. mem'[d] = m /\ disk'[d] = disk[d] /\ layout' = layout
    BY <1>4, MovesFacts
  <2>2. \A i \in Seg : Passed(d, i)' => Passed(d, i)
    BY <1>3, <2>1, PassesNothing DEF Passed
  <2>3. Seen(d)' = Seen(d)
    BY <1>3, <2>1, LayoutKept DEF Seen
  <2> QED BY <1>1, <1>4, <2>1, <2>2, <2>3, FrontKept
<1>5. CASE SqlDevice /\ Covered(d, n) /\ Moves(d, [mem[d] EXCEPT !.pc = "mark"], disk[d])
  <2>1. PICK m : m = [mem[d] EXCEPT !.pc = "mark"]
    OBVIOUS
  <2>2. m.pc = "mark" /\ Moves(d, m, disk[d]) /\ m.pending = mem[d].pending
    BY <1>2, <1>5, <2>1 DEF MemType
  <2>3. Reaches(Seen(d), n)
    BY <1>2, <1>5 DEF ReachDone, Passed
  <2>4. \A i \in Seg : Passed(d, i)' => Reaches(Seen(d), i)
    BY <1>4, <2>2 DEF ReachDone
  <2> QED BY <1>4, <2>2, <2>3, <2>4, ReachFrom
<1>6. CASE /\ ~ (SqlDevice /\ Covered(d, n))
           /\ Moves(d, [mem[d] EXCEPT !.sent = rows, !.commit = AppliedCommit(d, n),
                                      !.pc = IF OwnCheckpoint THEN "checkpoint" ELSE "local"],
                       disk[d])
  <2>1. PICK m : m = [mem[d] EXCEPT !.sent = rows, !.commit = AppliedCommit(d, n),
                                    !.pc = IF OwnCheckpoint THEN "checkpoint" ELSE "local"]
    OBVIOUS
  <2>2. /\ m.pc = (IF OwnCheckpoint THEN "checkpoint" ELSE "local")
        /\ m.commit = AppliedCommit(d, n)
        /\ Moves(d, m, disk[d]) /\ m.pending = mem[d].pending
    BY <1>2, <1>6, <2>1 DEF MemType
  <2>3. \A i \in Seg : i <= n => Reaches(m.commit, i)
    BY <1>1, <1>6, <2>2, AppliedReaches
  <2>4. \A i \in Seg : Passed(d, i)' => Reaches(Seen(d), i)
    BY <1>4, <2>2 DEF ReachDone
  <2>5. m.pc # "mark" /\ ~ (m.pc = "local" /\ OwnCheckpoint)
    BY <2>2
  <2> QED BY <1>4, <2>2, <2>3, <2>4, <2>5, ReachFrom
<1> QED BY <1>1, <1>5, <1>6, Zenon

\* Where the destination has the checkpoint, it gets that commit id.
LEMMA ReachCheckpoint ==
  ASSUME TypeInv, DeliveryInv, ~ MarkMayFail, Settled, NEW d \in Dst, LogDone(d), ReachDone(d),
         Checkpoint(d)
  PROVE  ReachDone(d)'
<1>1. PICK m : m = [mem[d] EXCEPT !.pc = "local"]
  OBVIOUS
<1>2. mem[d].pc = "checkpoint" /\ Moves(d, m, disk[d])
  BY <1>1, CheckpointEffect
<1>3. PICK n : n = Front(d)
  OBVIOUS
<1>4. PICK ck :
        /\ ck.seg = (IF db[d].ck.seg >= n THEN db[d].ck.seg ELSE n)
        /\ ck.commit = mem[d].commit
        /\ db' = [db EXCEPT ![d] = [db[d] EXCEPT !.ck = ck]]
  BY <1>3, CheckpointEffect
<1>5. /\ mem[d] \in MemType /\ db[d] \in DbType /\ n \in Seg
      /\ db[d].ck.seg \in Seg /\ OwnCheckpoint /\ ~ Covered(d, n)
  BY <1>2, <1>3, HeadFacts, FieldTypes DEF DeliveryInv, WorkerDone, HeadDone, Handling, Draining, Shaped
<1>6. /\ mem'[d] = m /\ disk'[d] = disk[d] /\ layout' = layout
      /\ m.pc = "local" /\ m.pending = mem[d].pending /\ m.commit = mem[d].commit
  <2>1. m.pc = "local" /\ m.pending = mem[d].pending /\ m.commit = mem[d].commit
    BY <1>1, <1>5 DEF MemType
  <2> QED BY <1>2, <2>1, MovesFacts
<1>7. db'[d].ck = ck
  BY <1>4, <1>5 DEF DbType, TypeInv
<1>8. Front(d)' = n /\ Seen(d)' = mem[d].commit
  <2>1. OwnCheckpoint'
    BY <1>5, <1>6, LayoutKept
  <2> QED BY <1>3, <1>4, <1>6, <1>7, <2>1, FrontKept DEF Seen
<1>9. ck.seg = n
  <2>1. ~ (db[d].ck.seg > n)
    BY <1>5 DEF Covered
  <2> QED BY <1>4, <1>5, <2>1 DEF Seg
<1>10. \A i \in Seg : i <= n => Reaches(mem[d].commit, i)
  BY <1>2, <1>3 DEF ReachDone
<1>11. ASSUME NEW i \in Seg, Passed(d, i)' PROVE i <= n
  <2>1. CASE Passed(d, i)
    <3>1. i < n
      BY <1>2, <1>3, <1>5, <2>1, NothingBeyond DEF Handling
    <3> QED BY <1>5, <3>1 DEF Seg
  <2>2. CASE ~ Passed(d, i)
    <3>1. Covered(d, i)'
      BY <1>6, <1>11, <2>2 DEF Passed
    <3>2. n > i
      BY <1>7, <1>9, <3>1 DEF Covered
    <3> QED BY <1>5, <3>2 DEF Seg
  <2> QED BY <2>1, <2>2
<1>12. Reaches(mem[d].commit, n)
  BY <1>5, <1>10 DEF Seg
<1> QED BY <1>6, <1>8, <1>10, <1>11, <1>12, ReachFrom

\* Else the state database gets it.
LEMMA ReachLocal ==
  ASSUME TypeInv, DeliveryInv, ~ MarkMayFail, Settled, NEW d \in Dst, LogDone(d), ReachDone(d),
         LocalCheckpoint(d)
  PROVE  ReachDone(d)'
<1>1. mem[d].pc = "local" /\ db' = db /\ mem[d] \in MemType /\ disk[d] \in DiskType
  BY RecordEffect, FieldTypes DEF LocalCheckpoint, Worker
<1>2. PICK n \in Seg : n = Front(d)
  BY <1>1, HeadFacts DEF Draining
<1>3. PICK m, k : m = [mem[d] EXCEPT !.pc = "mark"] /\ k = [disk[d] EXCEPT !.commit = mem[d].commit]
  OBVIOUS
<1>4. /\ m.pc = "mark" /\ m.pending = mem[d].pending
      /\ k.commit = mem[d].commit /\ k.authorized = disk[d].authorized
      /\ k.cleaned = disk[d].cleaned /\ k.work = disk[d].work
  BY <1>1, <1>3 DEF MemType, DiskType
<1>5. mem'[d] = m /\ disk'[d] = k /\ layout' = layout
  BY <1>1, <1>3 DEF LocalCheckpoint, Worker, TypeInv, env
<1>6. \A i \in Seg : Passed(d, i)' => Passed(d, i)
  BY <1>1, <1>4, <1>5, PassesNothing DEF Passed
<1>7. Front(d)' = n /\ (OwnCheckpoint' <=> OwnCheckpoint)
  BY <1>2, <1>4, <1>5, FrontKept, LayoutKept
<1>8. \A i \in Seg : i <= n => Reaches(mem[d].commit, i)
  BY <1>1, <1>2 DEF ReachDone
<1>9. CASE OwnCheckpoint
  <2>1. Seen(d)' = Seen(d)
    BY <1>1, <1>7, <1>9 DEF Seen
  <2>2. Reaches(Seen(d), n)
    BY <1>1, <1>2, <1>9 DEF ReachDone
  <2>3. \A i \in Seg : Passed(d, i)' => Reaches(Seen(d), i)
    BY <1>6 DEF ReachDone
  <2> QED BY <1>4, <1>5, <1>7, <2>1, <2>2, <2>3, ReachFrom
<1>10. CASE ~ OwnCheckpoint
  <2>1. Seen(d)' = mem[d].commit
    BY <1>4, <1>5, <1>7, <1>10 DEF Seen
  <2>2. ~ Covered(d, Front(d))
    BY <1>10 DEF Covered
  <2>3. \A i \in Seg : Passed(d, i) => i < n
    BY <1>1, <1>2, <2>2, NothingBeyond DEF Handling
  <2>4. \A i \in Seg : Passed(d, i)' => i <= n
    BY <1>6, <2>3 DEF Seg
  <2>5. Reaches(mem[d].commit, n)
    BY <1>8 DEF Seg
  <2>6. \A i \in Seg : Passed(d, i)' => Reaches(mem[d].commit, i)
    BY <1>8, <2>4
  <2> QED BY <1>4, <1>5, <1>7, <2>1, <2>5, <2>6, ReachFrom
<1> QED BY <1>9, <1>10

\* The mark passes the head.
LEMMA ReachMark ==
  ASSUME TypeInv, ~ MarkMayFail, NEW d \in Dst, ReachDone(d), Mark(d)
  PROVE  ReachDone(d)'
<1>1. PICK n : n = Front(d)
  OBVIOUS
<1>2. PICK m, k : m = Recorded(mem[d], n) /\ k = [disk[d] EXCEPT !.work[n] = "applied"]
  OBVIOUS
<1>3. /\ mem[d].pc = "mark" /\ db' = db /\ layout' = layout /\ disk' = [disk EXCEPT ![d] = k]
      /\ mem' = [mem EXCEPT ![d] = m]
  BY <1>1, <1>2 DEF Mark, Worker, env
<1>4. mem[d] \in MemType /\ disk[d] \in DiskType /\ n \in Seg
  BY <1>1, <1>3, HeadFacts, FieldTypes DEF Draining
<1>5. mem'[d] = m /\ disk'[d] = k /\ m.pc = "authorize"
  BY <1>2, <1>3, <1>4, RecordedFacts DEF TypeInv
<1>6. /\ k.authorized = disk[d].authorized /\ k.cleaned = disk[d].cleaned /\ k.commit = disk[d].commit
      /\ \A i \in Seg : i # n => k.work[i] = disk[d].work[i]
  BY <1>2, <1>4 DEF DiskType
<1>7. Seen(d)' = Seen(d)
  BY <1>3, <1>5, <1>6, LayoutKept DEF Seen
<1>8. \A i \in Seg : Covered(d, i)' <=> Covered(d, i)
  BY <1>3, LayoutKept DEF Covered
<1>9. \A i \in Seg : Passed(d, i)' => Passed(d, i) \/ i = n
  BY <1>5, <1>6, <1>8 DEF Passed
<1>10. Reaches(Seen(d), n)
  BY <1>1, <1>3 DEF ReachDone
<1>11. \A i \in Seg : Passed(d, i)' => Reaches(Seen(d), i)
  BY <1>9, <1>10 DEF ReachDone
<1> QED BY <1>3, <1>5, <1>7, <1>11, ReachFrom

\* No step of a worker makes the commit id that is read fall behind what it has passed.
LEMMA ReachStep ==
  ASSUME TypeInv, DeliveryInv, ~ MarkMayFail, Settled, NEW d \in Dst, LogDone(d),
         SyncStep(d), ReachDone(d), ChangesDone(d)
  PROVE  ReachDone(d)'
<1>1. mem[d] \in MemType /\ disk[d] \in DiskType
  BY FieldTypes
<1>2. CASE Quiet(d)
  <2>1. Seen(d)' = Seen(d)
    BY <1>2, LayoutKept DEF Quiet, Seen
  <2>2. \/ mem'[d].pc \notin Sending
        \/ /\ mem'[d].pc = mem[d].pc /\ mem'[d].pending = mem[d].pending
           /\ mem'[d].commit = mem[d].commit
    BY <1>2 DEF Quiet, Handling, Sending
  <2> QED BY <1>2, <2>1, <2>2, ReachKept DEF Quiet
<1>3. CASE Replay(d)
  <2>1. PICK m, k :
          /\ Moves(d, m, k) /\ m.pc \in {"replay", "apply"} /\ k.commit = disk[d].commit
          /\ k.authorized = disk[d].authorized /\ k.cleaned = disk[d].cleaned /\ k.work = disk[d].work
    BY <1>3, ReplayMoves
  <2>2. db' = db /\ mem'[d] = m /\ disk'[d] = k /\ layout' = layout
    <3>1. db' = db
      BY <1>3, ReplayEffect
    <3> QED BY <2>1, <3>1, MovesFacts
  <2>3. \A n \in Seg : Passed(d, n)' => Passed(d, n)
    BY <2>1, <2>2, ReplicaStepFacts
  <2>4. Seen(d)' = Seen(d)
    BY <2>1, <2>2, LayoutKept DEF Seen
  <2> QED BY <2>1, <2>2, <2>3, <2>4, ReachKept DEF Sending
<1>4. CASE CheckpointFails(d)
  <2>1. /\ mem' = [mem EXCEPT ![d] = [mem[d] EXCEPT !.pc = "apply"]]
        /\ disk' = disk /\ db' = db /\ layout' = layout
    BY <1>4 DEF CheckpointFails, Worker, env
  <2>2. mem'[d].pc = "apply"
    BY <1>1, <2>1 DEF TypeInv, MemType
  <2>3. \A n \in Seg : Passed(d, n)' => Passed(d, n)
    BY <2>1, PassesNothing DEF Passed
  <2>4. Seen(d)' = Seen(d)
    BY <2>1, LayoutKept DEF Seen
  <2> QED BY <2>1, <2>2, <2>3, <2>4, ReachKept DEF Sending
<1>5. CASE TempDirCleared(d)
  <2>1. /\ mem' = mem /\ db' = db /\ layout' = layout /\ mem[d].pc = "off" /\ OwnCheckpoint
        /\ disk' = [disk EXCEPT ![d].init = FALSE, ![d].commit = 0, ![d].authorized = -1,
                                ![d].stageCleaned = -1]
    BY <1>5 DEF TempDirCleared, env, Running
  <2>2. disk'[d].cleaned = disk[d].cleaned /\ disk'[d].work = disk[d].work /\ disk'[d].authorized = -1
    BY <1>1, <2>1 DEF TypeInv, DiskType
  <2>3. \A n \in Seg : ~ (n <= -1)
    BY DEF Seg
  <2>4. \A n \in Seg : Passed(d, n)' => Passed(d, n)
    BY <2>1, <2>2, <2>3, PassesNothing DEF Passed
  <2>5. Seen(d)' = Seen(d)
    BY <2>1, LayoutKept DEF Seen
  <2> QED BY <2>1, <2>4, <2>5, ReachKept DEF Sending
<1> QED BY <1>2, <1>3, <1>4, <1>5, ReachApply, ReachCheckpoint, ReachLocal, ReachMark DEF SyncStep

--------------------------------------------------------------------------------
(* await_sync                                                                  *)

\* At first no commit id is known, and nothing is passed.
LEMMA SyncInit == Init => AheadInv /\ ReachInv
<1> SUFFICES ASSUME Init, NEW d \in Dst PROVE AheadDone(d) /\ ReachDone(d) /\ ChangesDone(d)
  BY DEF AheadInv, ReachInv
<1>1. /\ mem[d].pc = "off" /\ disk[d] = Fresh
      /\ db[d].ck = [seg |-> 0, change |-> -1, commit |-> 0]
  BY DEF Init, Off
<1>2. /\ disk[d].commit = 0 /\ disk[d].authorized = -1 /\ disk[d].cleaned = -1
      /\ disk[d].resume = <<-1, 0>> /\ db[d].ck.commit = 0 /\ db[d].ck.seg = 0
      /\ db[d].ck.change = -1
      /\ \A n \in Seg : disk[d].work[n] = "none" /\ disk[d].cdc[n] = {}
  BY <1>1 DEF Fresh
<1>3. AheadDone(d)
  <2>1. ASSUME NEW n \in Seg, NEW k \in Owed(d, n) PROVE 0 < Commit(n, k)
    <3>1. k \in Txn
      BY OwedAreTxns
    <3> QED BY <3>1, CommitOrder
  <2> QED BY <1>1, <1>2, <2>1 DEF AheadDone, Ahead
<1>4. \A n \in Seg : ~ Passed(d, n)
  <2>1. \A n \in Seg : n \in Nat
    BY DEF Seg
  <2> QED BY <1>2, <2>1 DEF Passed, Covered
<1>5. ReachDone(d)
  BY <1>1, <1>4 DEF ReachDone
<1>6. \A n \in Seg : ToReplay(d, n) = Committed(n)
  BY <1>2 DEF ToReplay, ReplicaResume, Seg
<1>7. ChangesDone(d)
  BY <1>1, <1>2, <1>6 DEF ChangesDone
<1> QED BY <1>3, <1>5, <1>7

\* In a careful system no commit id is ever ahead of the data.
LEMMA AheadHolds == Spec => [](Careful => AheadInv)
<1>1. Init => (Careful => AheadInv)
  BY SyncInit
<1>2. TypeInv /\ (Careful => DeliveryInv) /\ (Careful => AheadInv) /\ [Next]_vars
      => (Careful => AheadInv)'
  <2> SUFFICES ASSUME TypeInv, DeliveryInv, AheadInv, Careful, [Next]_vars
               PROVE  AheadInv'
    BY DEF Careful
  <2>1. DeliveryInv' /\ \A d \in Dst : LogStep(d) /\ SyncStep(d)
    BY DeliveryStep, EveryLogStep, EverySyncStep
  <2>2. Dst' = Dst
    BY <2>1, LayoutFacts, LayoutKept DEF LogStep
  <2>3. \A d \in Dst : AheadDone(d)'
    BY <2>1, AheadStep DEF AheadInv
  <2> QED BY <2>2, <2>3 DEF AheadInv
<1> QED BY <1>1, <1>2, TypesHold, DeliveryHolds, PTL DEF Spec

\* Where the mark gets written as well, and every segment leaves a trace, no commit id
\* falls behind what a worker has passed.
LEMMA ReachHolds == Spec => [](Careful /\ ~ MarkMayFail /\ Settled => ReachInv)
<1>1. Init => (Careful /\ ~ MarkMayFail /\ Settled => ReachInv)
  BY SyncInit
<1>2. TypeInv /\ (Careful => DeliveryInv)
      /\ (Careful /\ ~ MarkMayFail => LogInv /\ RepeatInv)
      /\ (Careful /\ ~ MarkMayFail /\ Settled => ReachInv) /\ [Next]_vars
      => (Careful /\ ~ MarkMayFail /\ Settled => ReachInv)'
  <2> SUFFICES ASSUME TypeInv, DeliveryInv, LogInv, Careful, ~ MarkMayFail, Settled => ReachInv,
                      [Next]_vars, Settled'
               PROVE  ReachInv'
    BY DEF Careful
  <2>1. Still /\ \A d \in Dst : LogStep(d) /\ SyncStep(d)
    BY DeliveryStep, EveryLogStep, EverySyncStep
  <2>2. layout' = layout
    BY <2>1, LayoutFacts DEF LogStep
  <2>3. Settled /\ Dst' = Dst
    BY <2>2, LayoutKept DEF Settled, Committed, Commit
  <2>4. \A d \in Dst : ReachDone(d)' /\ ChangesDone(d)'
    BY <2>1, <2>3, ReachStep, ChangesStep DEF ReachInv, LogInv
  <2> QED BY <2>3, <2>4 DEF ReachInv
<1> QED BY <1>1, <1>2, TypesHold, DeliveryHolds, OrderHolds, PTL DEF Spec

\* What await_sync reads is a commit id of the state database or of the destination.
LEMMA AheadGivesSynced ==
  ASSUME TypeInv, AheadInv
  PROVE  SyncedMeansApplied
<1> SUFFICES ASSUME NEW d \in Dst, NEW n \in Shipped, NEW k \in Owed(d, n)
             PROVE  Seen(d) < Commit(n, k)
  BY DEF SyncedMeansApplied
<1>1. n \in Seg
  BY ShippedIsSeg DEF Shipped
<1> QED BY <1>1 DEF AheadInv, AheadDone, Ahead, Seen

\* A worker that has recorded a segment is through with it and has passed it.
LEMMA ReachGivesSeen ==
  ASSUME TypeInv, DeliveryInv, ~ MarkMayFail, ReachInv
  PROVE  AppliedIsSeen
<1> SUFFICES ASSUME NEW d \in Dst, mem[d].progress = produced - 1,
                    NEW n \in Shipped, NEW k \in Txn, k \in Committed(n)
             PROVE  Seen(d) >= Commit(n, k)
  BY DEF AppliedIsSeen
<1>1. n \in Seg /\ n <= mem[d].progress
  <2>1. n \in Seg
    BY ShippedIsSeg DEF Shipped
  <2>2. produced \in Int
    BY DEF TypeInv
  <2> QED BY <2>1, <2>2 DEF Shipped
<1>2. Passed(d, n)
  BY <1>1 DEF DeliveryInv, WorkerDone, ProgressDone, Through
<1>3. Commit(n, k) <= Seen(d)
  BY <1>1, <1>2 DEF ReachInv, ReachDone, Reaches
<1>4. Commit(n, k) \in Nat /\ Seen(d) \in Nat
  <2>1. disk[d].commit \in Nat /\ db[d].ck.commit \in Nat
    BY FieldTypes DEF DiskType
  <2> QED BY <1>1, <2>1, CommitType DEF Seen
<1> QED BY <1>3, <1>4

\* When await_sync returns, the destination has every commit up to the one waited for: the
\* commit id that is read is that of something it got.  A mark that is not written does not
\* matter here.
THEOREM SyncedIsApplied == Spec => [](Careful => SyncedMeansApplied)
<1>1. TypeInv /\ (Careful => AheadInv) => (Careful => SyncedMeansApplied)
  BY AheadGivesSynced
<1> QED BY <1>1, TypesHold, AheadHolds, PTL

\* await_sync waits for exactly what is missing: it also returns when the worker is through
\* with all that was shipped, if every segment leaves something to take a commit id from.
THEOREM AwaitWaitsExactly ==
  Spec => [](Careful /\ ~ MarkMayFail /\ Settled => AwaitIsExact)
<1>1. /\ TypeInv /\ (Careful => DeliveryInv) /\ (Careful => AheadInv)
      /\ (Careful /\ ~ MarkMayFail /\ Settled => ReachInv)
      => (Careful /\ ~ MarkMayFail /\ Settled => AwaitIsExact)
  BY AheadGivesSynced, ReachGivesSeen DEF AwaitIsExact
<1> QED BY <1>1, TypesHold, DeliveryHolds, AheadHolds, ReachHolds, PTL

=================================================================================
