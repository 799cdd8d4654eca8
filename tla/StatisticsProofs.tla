---------------------------- MODULE StatisticsProofs ----------------------------
(***************************************************************************)
(* What may go wrong between the commit of a segment and its mark, for     *)
(* every number of devices, segments, operations and faults.               *)
(*                                                                         *)
(* The core invariant relates three things of a device: the place of its   *)
(* worker, what keeps a segment from being sent again (its mark, the       *)
(* watermark of the cleanup, the checkpoint at the destination), and how   *)
(* often it was sent and counted.  A segment that nothing keeps from being *)
(* sent, and that is not in doubt at this moment, was sent at most as      *)
(* often as a fault came in doubt (Sends); one that may be counted again   *)
(* was counted at most as often as a fault came before its mark (Passes).  *)
(* That a drain goes through the segments in order is what makes all       *)
(* segments before its place, the watermark and the checkpoints be sent    *)
(* (InOrder).                                                              *)
(*                                                                         *)
(* What is told of a device then follows from sums over its segments: its  *)
(* counters and what its worker still owes them of the segment it is at    *)
(* are at most the operations of the segments, each taken as often as it   *)
(* was sent, or counted (SumsInv), and all of them while nothing has       *)
(* failed (Exact).  The sum is the community modules' fold over a set; the *)
(* laws it obeys are proved first.                                         *)
(***************************************************************************)
EXTENDS Statistics, FiniteSetTheorems, WellFoundedInduction, TLAPS

Place == {"off", "publish", "idle", "destination", "checkpoint", "tables", "read", "write",
          "mark", "clean"}
Busy == Place \ {"off", "publish", "idle"}

\* The types of what the invariants are about; plan and the totals of the dashboard are not.
TypeInv ==
  /\ layout \in Layouts
  /\ pc \in [Device -> Place] /\ at \in [Device -> 0 .. MaxSegment]
  /\ sent \in [Device -> Nat] /\ left \in [Device -> Nat]
  /\ ckpt \in [Device -> 0 .. MaxSegment] /\ initialized \in [Device -> BOOLEAN]
  /\ dstck \in [Device -> 0 .. MaxSegment] /\ cleaned \in [Device -> 0 .. MaxSegment]
  /\ marked \in [Device -> SUBSET Seg]
  /\ own \in [Device -> [segs : Nat, oper : Nat, txn : Nat, size : Nat]]
  /\ tables \in [Device -> Nat] /\ DOMAIN row = Device
  /\ times \in [Device -> [Seg -> Nat]] /\ passes \in [Device -> [Seg -> Nat]]
  /\ opers \in [Device -> [Seg -> Nat]]
  /\ cut \in [Device -> [Seg -> Nat]] /\ redo \in [Device -> [Seg -> Nat]]
  /\ faults \in Nat

\* There are finitely many segments.
LEMMA SegIsFinite == IsFiniteSet(Seg) /\ MaxSegment \in Nat
BY StatisticsAssumption, FS_Interval DEF Seg

\* The types hold at the start.
LEMMA InitType == Init => TypeInv
BY StatisticsAssumption DEF Init, TypeInv, Place, Zero

\* A worker that is busy is so with a segment.
InSegments(d) == pc[d] \in Busy => at[d] \in Seg

\* A fault keeps the types, and is counted.
LEMMA InterruptsType ==
  ASSUME TypeInv, \A d \in Device : InSegments(d), NEW ds, Interrupts(ds)
  PROVE  /\ cut' \in [Device -> [Seg -> Nat]] /\ redo' \in [Device -> [Seg -> Nat]]
         /\ faults' \in Nat /\ faults' # 0 /\ layout' = layout
<1>1. ASSUME NEW d \in Device, InDoubt(d) \/ Unmarked(d) PROVE at[d] \in Seg
  BY <1>1 DEF InDoubt, Unmarked, InSegments, Counting, At, Busy, Place
<1>2. cut' \in [Device -> [Seg -> Nat]]
  BY <1>1 DEF Interrupts, TypeInv
<1>3. redo' \in [Device -> [Seg -> Nat]]
  BY <1>1 DEF Interrupts, TypeInv
<1> QED BY <1>2, <1>3 DEF Interrupts, TypeInv

\* So does a worker that comes to rest.
LEMMA RestType ==
  ASSUME TypeInv, NEW d \in Device, NEW p \in Place, NEW n \in 0 .. MaxSegment, Rest(d, p, n)
  PROVE  /\ pc' \in [Device -> Place] /\ at' \in [Device -> 0 .. MaxSegment]
         /\ sent' \in [Device -> Nat] /\ left' \in [Device -> Nat]
BY DEF TypeInv, Rest

\* The segment a drain takes next is one of them.
LEMMA CurrentInSeg ==
  ASSUME TypeInv, NEW d \in Device, Current(d) <= layout.segments[d]
  PROVE  Current(d) \in Seg
<1>1. layout.segments[d] \in 0 .. MaxSegment
  BY StatisticsAssumption DEF TypeInv
<1>2. at[d] \in Nat /\ MaxSegment \in Nat
  BY StatisticsAssumption DEF TypeInv
<1> QED BY <1>1, <1>2 DEF Current, Seg

\* Each step keeps the types.
LEMMA TypeStep ==
  ASSUME TypeInv, \A d \in Device : InSegments(d), [Next]_vars
  PROVE  TypeInv'
<1> USE DEF worker, progress, counts, history, env
<1>0. MaxSegment \in Nat /\ MaxOpers \in Nat /\ \A n \in Seg : n \in 0 .. MaxSegment
  BY StatisticsAssumption DEF Seg
<1>1. ASSUME NEW d \in Device, Spawn(d) PROVE TypeInv'
  BY <1>1 DEF TypeInv, Spawn, Goto, Place
<1>2. ASSUME NEW d \in Device, Publish(d) PROVE TypeInv'
  BY <1>2 DEF TypeInv, Publish, Goto, Place
<1>3. ASSUME NEW d \in Device, PublishFails(d) PROVE TypeInv'
  BY <1>3, <1>0, RestType, InterruptsType DEF TypeInv, PublishFails, Place
<1>4. ASSUME NEW d \in Device, Skip(d) PROVE TypeInv'
  BY <1>4, <1>0, RestType, CurrentInSeg DEF TypeInv, Skip, Place
<1>5. ASSUME NEW d \in Device, Apply(d) PROVE TypeInv'
  BY <1>5, <1>0, CurrentInSeg DEF TypeInv, Apply, Place
<1>6. ASSUME NEW d \in Device, Filter(d) PROVE TypeInv'
  BY <1>6, <1>0, RestType, CurrentInSeg DEF TypeInv, Filter, Place
<1>7. ASSUME NEW d \in Device, StoreAtDestination(d) PROVE TypeInv'
  BY <1>7 DEF TypeInv, StoreAtDestination, Goto, Place
<1>8. ASSUME NEW d \in Device, StoreCheckpoint(d) PROVE TypeInv'
  <2>1. at[d] \in Seg /\ opers[d][at[d]] \in Nat
    BY <1>8 DEF TypeInv, StoreCheckpoint, Place, InSegments, At, Busy
  <2> QED BY <1>8, <1>0, <2>1 DEF TypeInv, StoreCheckpoint, Place
<1>9. ASSUME NEW d \in Device, Mark(d) PROVE TypeInv'
  BY <1>9 DEF TypeInv, Mark, Goto, Place, InSegments, At, Busy
<1>10. ASSUME NEW d \in Device, MarkFails(d) PROVE TypeInv'
  BY <1>10, InterruptsType DEF TypeInv, MarkFails, Goto, Place
<1>11. ASSUME NEW d \in Device, Clean(d) PROVE TypeInv'
  BY <1>11, <1>0 DEF TypeInv, Clean, Goto, Place
<1>12. ASSUME NEW d \in Device, EndDrain(d) PROVE TypeInv'
  BY <1>12, <1>0, RestType DEF TypeInv, EndDrain, Place
<1>13. ASSUME NEW d \in Device, StepFails(d) PROVE TypeInv'
  BY <1>13, <1>0, RestType, InterruptsType DEF TypeInv, StepFails, Place
<1>14. ASSUME NEW d \in Device, CountRow(d) PROVE TypeInv'
  BY <1>14 DEF TypeInv, CountRow
<1>15. ASSUME NEW d \in Device, CountOwn(d) PROVE TypeInv'
  <2>1. Plus(own[d], [Added(d) EXCEPT !.segs = 0]) \in [segs : Nat, oper : Nat, txn : Nat,
          size : Nat]
    <3> DEFINE a == own[d]
               b == [Added(d) EXCEPT !.segs = 0]
    <3>1. a \in [segs : Nat, oper : Nat, txn : Nat, size : Nat] /\ sent[d] \in Nat
      BY DEF TypeInv
    <3>2. b \in [segs : Nat, oper : Nat, txn : Nat, size : Nat]
      BY <3>1 DEF Added
    <3> HIDE DEF a, b
    <3>3. Plus(a, b) \in [segs : Nat, oper : Nat, txn : Nat, size : Nat]
      BY <3>1, <3>2 DEF Plus
    <3> QED BY <3>3 DEF a, b
  <2> QED BY <1>15, <2>1 DEF TypeInv, CountOwn, Goto, Place
<1>16. ASSUME NEW d \in Device, ReadTotals(d) PROVE TypeInv'
  BY <1>16 DEF TypeInv, ReadTotals, Place
<1>17. ASSUME NEW d \in Device, WriteTotal(d) PROVE TypeInv'
  BY <1>17 DEF TypeInv, WriteTotal
<1>18. ASSUME NEW d \in Device, WriteRow(d) PROVE TypeInv'
  BY <1>18, RestType DEF TypeInv, WriteRow, Place
<1>19. ASSUME NEW d \in Device, CountFails(d) PROVE TypeInv'
  BY <1>19, RestType DEF TypeInv, CountFails, Place
<1>20. ASSUME Die PROVE TypeInv'
  BY <1>20, <1>0, InterruptsType DEF TypeInv, Die, Place
<1>21. ASSUME UNCHANGED vars PROVE TypeInv'
  BY <1>21 DEF TypeInv, vars
<1> QED BY <1>1, <1>2, <1>3, <1>4, <1>5, <1>6, <1>7, <1>8, <1>9, <1>10, <1>11, <1>12, <1>13,
           <1>14, <1>15, <1>16, <1>17, <1>18, <1>19, <1>20, <1>21 DEF Next

--------------------------------------------------------------------------------
(* The core invariant                                                           *)

\* All segments up to m were sent.
UpTo(d, m) == \A n \in 1 .. m : times[d][n] > 0

\* The segment the worker is at is sent, or was before, and is not yet marked.
Open(d) == pc[d] \in {"destination", "checkpoint", "mark"} \union Counting

InOrder(d) ==
  /\ pc[d] \in Busy => at[d] > 0
  /\ UpTo(d, at[d]) /\ UpTo(d, cleaned[d]) /\ UpTo(d, dstck[d]) /\ UpTo(d, ckpt[d])
  /\ \A n \in marked[d] : times[d][n] > 0
  /\ Open(d) => /\ at[d] \notin marked[d] /\ at[d] > cleaned[d]
                /\ d \in AtDestination => dstck[d] <= at[d]
  /\ \A n \in Seg : passes[d][n] > 0 => times[d][n] > 0

\* Nothing keeps the segment from being sent, and it is not on its way.
Sendable(d, n) ==
  /\ n \notin marked[d] /\ n > cleaned[d]
  /\ d \in AtDestination => dstck[d] < n
  /\ ~ (InDoubt(d) /\ at[d] = n)

\* Nothing keeps it from being counted, and it is not being counted.
Countable(d, n) ==
  /\ n \notin marked[d] /\ n > cleaned[d]
  /\ d \in AtDestination => dstck[d] <= n
  /\ ~ (Unmarked(d) /\ at[d] = n)

Sends(d) ==
  \A n \in Seg : /\ times[d][n] <= 1 + cut[d][n]
                 /\ Sendable(d, n) => times[d][n] <= cut[d][n]

Passes(d) ==
  \A n \in Seg : /\ passes[d][n] <= 1 + redo[d][n]
                 /\ Countable(d, n) => passes[d][n] <= redo[d][n]

Core(d) == InOrder(d) /\ Sends(d) /\ Passes(d)
CoreInv == TypeInv /\ \A d \in Device : Core(d)

\* What the core invariant says of a device is left alone.
Same(e) ==
  /\ pc'[e] = pc[e] /\ at'[e] = at[e] /\ dstck'[e] = dstck[e] /\ marked'[e] = marked[e]
  /\ cleaned'[e] = cleaned[e] /\ ckpt'[e] = ckpt[e]
  /\ times'[e] = times[e] /\ passes'[e] = passes[e] /\ cut'[e] = cut[e] /\ redo'[e] = redo[e]

\* A device of which nothing changes keeps it.
LEMMA SameCore ==
  ASSUME NEW e \in Device, Same(e), layout' = layout, Core(e)
  PROVE  Core(e)'
BY DEF Same, Core, InOrder, Sends, Passes, Sendable, Countable, UpTo, Open, InDoubt, Unmarked, At,
       AtDestination

\* The types of one device
View(d) ==
  /\ pc[d] \in Place /\ at[d] \in Nat /\ at[d] <= MaxSegment
  /\ dstck[d] \in Nat /\ cleaned[d] \in Nat /\ ckpt[d] \in Nat /\ marked[d] \subseteq Seg
  /\ times[d] \in [Seg -> Nat] /\ passes[d] \in [Seg -> Nat]
  /\ cut[d] \in [Seg -> Nat] /\ redo[d] \in [Seg -> Nat]

\* The types of one device follow from those of all.
LEMMA TypesOf == ASSUME TypeInv, NEW d \in Device PROVE View(d)
BY StatisticsAssumption DEF TypeInv, View

\* Apply: the segment was sendable, and is in doubt from now on.
LEMMA ApplyCore == ASSUME CoreInv, TypeInv', NEW d \in Device, Apply(d) PROVE CoreInv'
<1> USE DEF worker, progress, counts, history, env
<1>1. \A e \in Device : e # d => Same(e)
  BY DEF Apply, Same, CoreInv, TypeInv
<1>2. /\ pc[d] = "idle" /\ pc'[d] = IF d \in AtDestination THEN "destination" ELSE "checkpoint"
      /\ at'[d] = at[d] + 1 /\ Current(d) = at[d] + 1 /\ at[d] + 1 \in Seg
      /\ times'[d] = [times[d] EXCEPT ![at[d] + 1] = @ + 1]
      /\ UNCHANGED <<dstck, marked, cleaned, ckpt, passes, cut, redo, layout>>
      /\ AtDestination' = AtDestination
  BY CurrentInSeg DEF Apply, CoreInv, TypeInv, At, Current, AtDestination
<1>t. View(d) /\ Core(d)
  BY TypesOf DEF CoreInv
<1>3. /\ at[d] + 1 \notin marked[d] /\ at[d] + 1 > cleaned[d]
      /\ d \in AtDestination => dstck[d] < at[d] + 1
  BY <1>2, <1>t DEF Apply, Passed, CoveredAt, View
<1>5. InOrder(d)'
  <2>1. \A n \in Seg : times'[d][n] >= times[d][n]
    BY <1>2, <1>t DEF View
  <2>2. \A n \in Seg : times[d][n] > 0 => times'[d][n] > 0
    BY <1>2, <1>t DEF View
  <2>3. times'[d][at[d]+1] > 0
    BY <1>2, <1>t DEF View
  <2>4. ASSUME NEW m \in 0 .. MaxSegment, UpTo(d, m) PROVE UpTo(d, m)'
    <3>1. \A j \in 1 .. m : j \in Seg
      BY SegIsFinite DEF Seg
    <3> QED BY <2>2, <2>4, <3>1 DEF UpTo
  <2>5. /\ at[d] \in 0 .. MaxSegment /\ cleaned[d] \in 0 .. MaxSegment
        /\ dstck[d] \in 0 .. MaxSegment /\ ckpt[d] \in 0 .. MaxSegment
    BY DEF CoreInv, TypeInv
  <2>6. UpTo(d, at[d])' /\ UpTo(d, cleaned[d])' /\ UpTo(d, dstck[d])' /\ UpTo(d, ckpt[d])'
    <3>1. \A m \in 0 .. MaxSegment : UpTo(d, m) => UpTo(d, m)'
      BY <2>4
    <3>2. UpTo(d, at[d]) /\ UpTo(d, cleaned[d]) /\ UpTo(d, dstck[d]) /\ UpTo(d, ckpt[d])
      BY <1>t DEF Core, InOrder
    <3>3. \A j \in 1 .. at[d] : times'[d][j] > 0
      BY <3>1, <3>2, <2>5 DEF UpTo
    <3>4. \A j \in 1 .. at'[d] : j \in 1 .. at[d] \/ j = at[d] + 1
      BY <1>2, <2>5
    <3>5. UpTo(d, at[d])'
      BY <2>3, <3>3, <3>4 DEF UpTo
    <3>6. UpTo(d, cleaned[d])' /\ UpTo(d, dstck[d])' /\ UpTo(d, ckpt[d])'
      BY <1>2, <3>1, <3>2, <2>5 DEF UpTo
    <3> QED BY <3>5, <3>6
  <2>7. \A n \in marked'[d] : times'[d][n] > 0
    BY <1>2, <1>t, <2>2 DEF Core, InOrder, View
  <2>8. /\ at'[d] \notin marked'[d] /\ at'[d] > cleaned'[d] /\ at'[d] > 0
        /\ (d \in AtDestination)' => dstck'[d] <= at'[d]
    BY <1>2, <1>3, <1>t DEF View
  <2>9. \A n \in Seg : passes'[d][n] > 0 => times'[d][n] > 0
    BY <1>2, <1>t, <2>2 DEF Core, InOrder
  <2> QED BY <2>6, <2>7, <2>8, <2>9 DEF InOrder
<1>6. Sends(d)'
  <2> SUFFICES ASSUME NEW n \in Seg
       PROVE /\ times'[d][n] <= 1 + cut[d][n]
             /\ Sendable(d, n)' => times'[d][n] <= cut[d][n]
      BY <1>2 DEF Sends
  <2>1. /\ times[d][n] <= 1 + cut[d][n] /\ (Sendable(d, n) => times[d][n] <= cut[d][n])
        /\ times[d][n] \in Nat /\ cut[d][n] \in Nat
    BY <1>t DEF Core, Sends, View
  <2>2. CASE n = at[d] + 1
    <3>1. times'[d][n] = times[d][n] + 1
      BY <1>2, <1>t, <2>2 DEF View
    <3>2. Sendable(d, n) /\ ~ Sendable(d, n)'
      BY <1>2, <1>3, <2>2 DEF Sendable, InDoubt, At, Counting
    <3> QED BY <2>1, <3>1, <3>2
  <2>3. CASE n # at[d] + 1
    <3>1. times'[d][n] = times[d][n]
      BY <1>2, <1>t, <2>3 DEF View
    <3>2. Sendable(d, n)' => Sendable(d, n)
      BY <1>2, <1>3, <2>3 DEF Sendable, InDoubt, At, Counting
    <3> QED BY <2>1, <3>1, <3>2
  <2> QED BY <2>2, <2>3
<1>7. Passes(d)'
  BY <1>2, <1>3, <1>t DEF Core, Passes, Countable, Unmarked, At, Counting
<1> QED BY <1>1, <1>2, <1>5, <1>6, <1>7, SameCore DEF CoreInv, Core

\* A worker that goes on in order, with whatever was in doubt, keeps it.
LEMMA WalkCore ==
  ASSUME CoreInv, TypeInv', NEW d \in Device,
         \A e \in Device : e # d => pc'[e] = pc[e] /\ at'[e] = at[e],
         UNCHANGED <<dstck, marked, cleaned, ckpt, times, passes, cut, redo, layout>>,
         pc'[d] \in Busy => at'[d] > 0, UpTo(d, at'[d]),
         Open(d)' => /\ at'[d] \notin marked[d] /\ at'[d] > cleaned[d]
                     /\ d \in AtDestination => dstck[d] <= at'[d],
         InDoubt(d) => InDoubt(d)' /\ at'[d] = at[d],
         Unmarked(d) => Unmarked(d)' /\ at'[d] = at[d]
  PROVE  CoreInv'
<1>1. \A e \in Device : e # d => Core(e)'
  BY SameCore DEF Same, CoreInv
<1>2. AtDestination' = AtDestination /\ Core(d)
  BY DEF AtDestination, CoreInv
<1>3. InOrder(d)'
  BY <1>2 DEF Core, InOrder, UpTo
<1>4. Sends(d)'
  BY <1>2 DEF Core, Sends, Sendable
<1>5. Passes(d)'
  BY <1>2 DEF Core, Passes, Countable
<1> QED BY <1>1, <1>3, <1>4, <1>5 DEF CoreInv, Core

\* A fault of some workers, which are at no segment any more, or past its mark: what was in
\* doubt becomes sendable, and the fault is counted for it.
LEMMA FaultCore ==
  ASSUME CoreInv, TypeInv', NEW ds \in SUBSET Device, Interrupts(ds),
         \A e \in Device \ ds : pc'[e] = pc[e] /\ at'[e] = at[e],
         UNCHANGED <<dstck, marked, cleaned, ckpt, times, passes>>,
         \A d \in ds : /\ pc'[d] \in Busy => at'[d] > 0
                       /\ at'[d] \in {0, at[d]}
                       /\ pc'[d] \notin {"destination", "checkpoint", "mark"} \union Counting
  PROVE  CoreInv'
<1>1. AtDestination' = AtDestination /\ layout' = layout
  BY DEF AtDestination, Interrupts
<1>2. ASSUME NEW e \in Device \ ds PROVE Core(e)'
  <2>1. cut'[e] = cut[e] /\ redo'[e] = redo[e]
    BY <1>2 DEF Interrupts
  <2> QED BY <1>1, <1>2, <2>1, SameCore DEF Same, CoreInv
<1>3. ASSUME NEW d \in ds PROVE Core(d)'
  <2>1. /\ cut'[d] = (IF InDoubt(d) THEN [cut[d] EXCEPT ![at[d]] = @ + 1] ELSE cut[d])
        /\ redo'[d] = (IF Unmarked(d) THEN [redo[d] EXCEPT ![at[d]] = @ + 1] ELSE redo[d])
    BY <1>3 DEF Interrupts
  <2>2. View(d) /\ Core(d) /\ d \in Device
    BY TypesOf DEF CoreInv
  <2>3. ~ InDoubt(d)' /\ ~ Unmarked(d)' /\ ~ Open(d)'
    BY <1>3, <1>1 DEF InDoubt, Unmarked, Open, At, Counting
  <2>4. InOrder(d)'
    BY <1>3, <1>1, <2>2, <2>3 DEF Core, InOrder, UpTo
  <2>5. Sends(d)'
    <3> SUFFICES ASSUME NEW n \in Seg
                 PROVE  times[d][n] <= 1 + cut'[d][n] /\ (Sendable(d, n)'
                          => times[d][n] <= cut'[d][n])
      BY DEF Sends
    <3>1. /\ times[d][n] <= 1 + cut[d][n] /\ (Sendable(d, n) => times[d][n] <= cut[d][n])
          /\ times[d][n] \in Nat /\ cut[d][n] \in Nat
      BY <2>2 DEF Core, Sends, View
    <3>2. CASE InDoubt(d) /\ at[d] = n
      BY <2>1, <2>2, <3>1, <3>2 DEF View
    <3>3. CASE ~ (InDoubt(d) /\ at[d] = n)
      <4>1. cut'[d][n] = cut[d][n]
        BY <2>1, <2>2, <3>3 DEF View
      <4>2. Sendable(d, n)' => Sendable(d, n)
        BY <1>1, <3>3 DEF Sendable
      <4> QED BY <3>1, <4>1, <4>2
    <3> QED BY <3>2, <3>3
  <2>6. Passes(d)'
    <3> SUFFICES ASSUME NEW n \in Seg
                 PROVE  passes[d][n] <= 1 + redo'[d][n] /\ (Countable(d, n)'
                          => passes[d][n] <= redo'[d][n])
      BY DEF Passes
    <3>1. /\ passes[d][n] <= 1 + redo[d][n] /\ (Countable(d, n) => passes[d][n] <= redo[d][n])
          /\ passes[d][n] \in Nat /\ redo[d][n] \in Nat
      BY <2>2 DEF Core, Passes, View
    <3>2. CASE Unmarked(d) /\ at[d] = n
      BY <2>1, <2>2, <3>1, <3>2 DEF View
    <3>3. CASE ~ (Unmarked(d) /\ at[d] = n)
      <4>1. redo'[d][n] = redo[d][n]
        BY <2>1, <2>2, <3>3 DEF View
      <4>2. Countable(d, n)' => Countable(d, n)
        BY <1>1, <3>3 DEF Countable
      <4> QED BY <3>1, <4>1, <4>2
    <3> QED BY <3>2, <3>3
  <2> QED BY <2>4, <2>5, <2>6 DEF Core
<1> QED BY <1>2, <1>3 DEF CoreInv

\* No fault, and nothing that the invariants are about changes but the worker's place.
LEMMA WalksCore ==
  ASSUME CoreInv, TypeInv', NEW d \in Device,
         \/ Spawn(d) \/ Publish(d) \/ Skip(d) \/ Filter(d) \/ EndDrain(d) \/ CountRow(d)
         \/ CountOwn(d) \/ ReadTotals(d) \/ WriteTotal(d) \/ WriteRow(d) \/ CountFails(d)
  PROVE  CoreInv'
<1> USE DEF worker, progress, counts, history, env
<1>t. View(d) /\ Core(d) /\ MaxSegment \in Nat
  BY TypesOf, StatisticsAssumption DEF CoreInv
<1>p. pc \in [Device -> Place] /\ at \in [Device -> 0 .. MaxSegment]
  BY DEF CoreInv, TypeInv
<1>u. UpTo(d, 0) /\ UpTo(d, at[d])
  BY <1>t DEF UpTo, Core, InOrder
<1>1. CASE Spawn(d) \/ Publish(d)
  BY <1>1, <1>t, <1>p, <1>u, WalkCore DEF Spawn, Publish, Goto, At, Busy, Place, Open, InDoubt,
      Unmarked, Counting
<1>2. CASE EndDrain(d)
  BY <1>2, <1>t, <1>p, <1>u, WalkCore DEF EndDrain, Rest, At, Busy, Place, Open, InDoubt,
      Unmarked, Counting
<1>3. CASE Skip(d)
  <2>1. /\ pc[d] = "idle" /\ pc'[d] \in {"idle", "clean"} /\ at'[d] = at[d] + 1
        /\ \A e \in Device : e # d => pc'[e] = pc[e] /\ at'[e] = at[e]
        /\ UNCHANGED <<dstck, marked, cleaned, ckpt, times, passes, cut, redo, layout>>
    BY <1>3, <1>p DEF Skip, Rest, At, Current
  <2>2. times[d][at[d] + 1] > 0
    BY <1>3, <1>t DEF Skip, Passed, CoveredAt, Current, Core, InOrder, UpTo, View
  <2>3. UpTo(d, at[d] + 1)
    BY <1>t, <1>u, <2>2 DEF UpTo, View
  <2> QED BY <1>t, <2>1, <2>3, WalkCore DEF At, Busy, Place, Open, InDoubt, Unmarked, Counting,
          View
<1>4. CASE Filter(d)
  <2>1. /\ pc[d] = "idle" /\ pc'[d] = "checkpoint" /\ at'[d] = at[d] + 1
        /\ \A e \in Device : e # d => pc'[e] = pc[e] /\ at'[e] = at[e]
        /\ UNCHANGED <<dstck, marked, cleaned, ckpt, times, passes, cut, redo, layout>>
    BY <1>4, <1>p DEF Filter, Rest, At, Current
  <2>2. d \in AtDestination /\ dstck[d] = at[d] + 1 /\ at[d] + 1 \notin marked[d]
          /\ ~ (at[d] + 1 <= cleaned[d])
    BY <1>4 DEF Filter, Passed, Current
  <2>3. UpTo(d, at[d] + 1)
    BY <1>t, <2>2 DEF Core, InOrder
  <2>4. AtDestination' = AtDestination
    BY <2>1 DEF AtDestination
  <2> QED BY <1>t, <2>1, <2>2, <2>3, <2>4, WalkCore DEF At, Busy, Place, Open, InDoubt, Unmarked,
          Counting, View
<1>5. CASE CountRow(d) \/ CountOwn(d) \/ ReadTotals(d) \/ WriteTotal(d) \/ WriteRow(d)
             \/ CountFails(d)
  <2>1. /\ pc[d] \in Counting /\ pc'[d] \in Counting \union {"mark"} /\ at'[d] = at[d]
        /\ \A e \in Device : e # d => pc'[e] = pc[e] /\ at'[e] = at[e]
        /\ UNCHANGED <<dstck, marked, cleaned, ckpt, times, passes, cut, redo, layout>>
    BY <1>5, <1>p DEF CountRow, CountOwn, ReadTotals, WriteTotal, WriteRow, CountFails, Rest,
        Goto, At, Counting
  <2>2. pc[d] \in Busy /\ Open(d) /\ Unmarked(d) /\ Unmarked(d)'
    BY <2>1 DEF Busy, Open, Unmarked, Counting, Place
  <2>3. InDoubt(d) => InDoubt(d)'
    BY <2>1 DEF InDoubt, At, AtDestination, Counting
  <2> QED BY <1>t, <1>u, <2>1, <2>2, <2>3, WalkCore DEF Core, InOrder
<1> QED BY <1>1, <1>2, <1>3, <1>4, <1>5

\* The faults are of that kind.
LEMMA FaultsCore ==
  ASSUME CoreInv, TypeInv',
         Die \/ \E d \in Device : PublishFails(d) \/ MarkFails(d) \/ StepFails(d)
  PROVE  CoreInv'
<1> USE DEF worker, progress, counts, history, env
<1>p. pc \in [Device -> Place] /\ at \in [Device -> 0 .. MaxSegment]
  BY DEF CoreInv, TypeInv
<1>1. CASE Die
  BY <1>1, FaultCore DEF Die, Busy, Place, Counting
<1>2. ASSUME NEW d \in Device, PublishFails(d) \/ StepFails(d) PROVE CoreInv'
  <2>1. /\ Interrupts({d}) /\ pc'[d] \in {"off", "idle"} /\ at'[d] = 0
        /\ \A e \in Device \ {d} : pc'[e] = pc[e] /\ at'[e] = at[e]
        /\ UNCHANGED <<dstck, marked, cleaned, ckpt, times, passes>>
    BY <1>2, <1>p DEF PublishFails, StepFails, Rest
  <2> QED BY <2>1, FaultCore DEF Busy, Place, Counting
<1>3. ASSUME NEW d \in Device, MarkFails(d) PROVE CoreInv'
  <2>1. /\ Interrupts({d}) /\ pc[d] = "mark" /\ pc'[d] = "clean" /\ at'[d] = at[d]
        /\ \A e \in Device \ {d} : pc'[e] = pc[e] /\ at'[e] = at[e]
        /\ UNCHANGED <<dstck, marked, cleaned, ckpt, times, passes>>
    BY <1>3, <1>p DEF MarkFails, Goto, At
  <2>2. at[d] > 0
    BY <2>1 DEF CoreInv, Core, InOrder, Busy, Place
  <2> QED BY <2>1, <2>2, FaultCore DEF Busy, Place, Counting
<1> QED BY <1>1, <1>2, <1>3

\* The checkpoint at the destination covers the segments up to this one.
LEMMA StoreAtDestinationCore ==
  ASSUME CoreInv, TypeInv', NEW d \in Device, StoreAtDestination(d)
  PROVE  CoreInv'
<1> USE DEF worker, progress, counts, history, env
<1>1. \A e \in Device : e # d => Same(e)
  BY DEF StoreAtDestination, Goto, Same, CoreInv, TypeInv
<1>2. /\ pc[d] = "destination" /\ pc'[d] = "checkpoint" /\ at' = at
      /\ dstck'[d] = IF dstck[d] < at[d] THEN at[d] ELSE dstck[d]
      /\ UNCHANGED <<marked, cleaned, ckpt, times, passes, cut, redo, layout>>
      /\ AtDestination' = AtDestination
  BY DEF StoreAtDestination, Goto, CoreInv, TypeInv, At, AtDestination
<1>t. View(d) /\ Core(d)
  BY TypesOf DEF CoreInv
<1>3. Open(d) /\ pc[d] \in Busy /\ ~ Unmarked(d) /\ ~ Unmarked(d)'
  BY <1>2 DEF Open, Busy, Place, Unmarked, Counting
<1>4. InOrder(d)'
  BY <1>2, <1>3, <1>t DEF Core, InOrder, UpTo, View
<1>5. Sends(d)'
  <2>1. ASSUME NEW n \in Seg PROVE Sendable(d, n)' => Sendable(d, n)
    <3>1. CASE d \in AtDestination
      BY <1>2, <1>t, <3>1 DEF Sendable, View, Seg
    <3>2. CASE d \notin AtDestination
      BY <1>2, <3>2 DEF Sendable, InDoubt, At, Counting
    <3> QED BY <3>1, <3>2
  <2> QED BY <1>2, <1>t, <2>1 DEF Core, Sends
<1>6. Passes(d)'
  <2>1. ASSUME NEW n \in Seg PROVE Countable(d, n)' => Countable(d, n)
    BY <1>2, <1>3, <1>t DEF Countable, View, Seg
  <2> QED BY <1>2, <1>t, <2>1 DEF Core, Passes
<1> QED BY <1>1, <1>2, <1>4, <1>5, <1>6, SameCore DEF CoreInv, Core

\* With the local checkpoint the segment gets to be counted once more, and is not countable
\* before a fault or its mark.
LEMMA StoreCheckpointCore ==
  ASSUME CoreInv, TypeInv', NEW d \in Device, StoreCheckpoint(d)
  PROVE  CoreInv'
<1> USE DEF worker, progress, counts, history, env
<1>1. \A e \in Device : e # d => Same(e)
  BY DEF StoreCheckpoint, Same, CoreInv, TypeInv
<1>2. /\ pc[d] = "checkpoint" /\ pc'[d] = "tables" /\ at' = at
      /\ ckpt'[d] = at[d] /\ passes'[d] = [passes[d] EXCEPT ![at[d]] = @ + 1]
      /\ UNCHANGED <<marked, cleaned, dstck, times, cut, redo, layout>>
      /\ AtDestination' = AtDestination
  BY DEF StoreCheckpoint, CoreInv, TypeInv, At, AtDestination
<1>t. View(d) /\ Core(d)
  BY TypesOf DEF CoreInv
<1>3. Open(d) /\ pc[d] \in Busy /\ ~ Unmarked(d) /\ Unmarked(d)'
  BY <1>2 DEF Open, Busy, Place, Unmarked, Counting
<1>4. at[d] \in Seg /\ times[d][at[d]] > 0 /\ Countable(d, at[d])
  BY <1>2, <1>3, <1>t DEF Core, InOrder, UpTo, View, Seg, Countable
<1>5. \A n \in Seg : passes'[d][n] = IF n = at[d] THEN passes[d][n] + 1 ELSE passes[d][n]
  BY <1>2, <1>t DEF View
<1>6. InOrder(d)'
  BY <1>2, <1>3, <1>4, <1>5, <1>t DEF Core, InOrder, UpTo
<1>7. Sends(d)'
  <2>1. ASSUME NEW n \in Seg PROVE Sendable(d, n)' => Sendable(d, n)
    BY <1>2, <1>t DEF Sendable, InDoubt, At, Counting
  <2> QED BY <1>2, <1>t, <2>1 DEF Core, Sends
<1>8. Passes(d)'
  <2>1. ASSUME NEW n \in Seg
        PROVE  passes'[d][n] <= 1 + redo[d][n] /\ (Countable(d, n)'
                 => passes'[d][n] <= redo[d][n])
    <3>1. /\ passes[d][n] <= 1 + redo[d][n] /\ (Countable(d, n) => passes[d][n] <= redo[d][n])
          /\ passes[d][n] \in Nat /\ redo[d][n] \in Nat
      BY <1>t DEF Core, Passes, View
    <3>2. CASE n = at[d]
      <4>1. ~ Countable(d, n)'
        BY <1>2, <1>3, <3>2 DEF Countable
      <4> QED BY <1>4, <1>5, <3>1, <3>2, <4>1
    <3>3. CASE n # at[d]
      <4>1. Countable(d, n)' => Countable(d, n)
        BY <1>2, <1>3, <3>3 DEF Countable
      <4> QED BY <1>5, <3>1, <3>3, <4>1
    <3> QED BY <3>2, <3>3
  <2> QED BY <1>2, <2>1 DEF Passes
<1> QED BY <1>1, <1>2, <1>6, <1>7, <1>8, SameCore DEF CoreInv, Core

\* The mark and the watermark only keep more segments from being sent.
LEMMA MarkCore ==
  ASSUME CoreInv, TypeInv', NEW d \in Device, Mark(d) \/ Clean(d)
  PROVE  CoreInv'
<1> USE DEF worker, progress, counts, history, env
<1>1. \A e \in Device : e # d => Same(e)
  BY DEF Mark, Clean, Goto, Same, CoreInv, TypeInv
<1>2. UNCHANGED <<at, dstck, ckpt, times, passes, cut, redo, layout>>
        /\ AtDestination' = AtDestination
  BY DEF Mark, Clean, Goto, AtDestination
<1>t. View(d) /\ Core(d)
  BY TypesOf DEF CoreInv
<1>3. CASE Mark(d)
  <2>1. /\ pc[d] = "mark" /\ pc'[d] = "clean" /\ cleaned' = cleaned
        /\ marked'[d] = marked[d] \union {at[d]}
    BY <1>3 DEF Mark, Goto, CoreInv, TypeInv, At
  <2>2. pc[d] \in Busy /\ ~ Open(d)' /\ ~ Unmarked(d)' /\ ~ InDoubt(d)'
    BY <2>1, <1>2 DEF Busy, Place, Open, Unmarked, InDoubt, At, Counting
  <2>3. at[d] > 0 /\ times[d][at[d]] > 0
    BY <2>2, <1>t DEF Core, InOrder, UpTo, View
  <2>4. InOrder(d)'
    BY <1>2, <2>1, <2>2, <2>3, <1>t DEF Core, InOrder, UpTo
  <2>5. Sends(d)'
    BY <1>2, <2>1, <2>2, <1>t DEF Core, Sends, Sendable
  <2>6. Passes(d)'
    BY <1>2, <2>1, <2>2, <1>t DEF Core, Passes, Countable
  <2> QED BY <1>1, <1>2, <2>4, <2>5, <2>6, SameCore DEF CoreInv, Core
<1>4. CASE Clean(d)
  <2>1. /\ pc[d] = "clean" /\ pc'[d] = "idle" /\ marked' = marked
        /\ cleaned'[d] = IF cleaned[d] < at[d] - 1 THEN at[d] - 1 ELSE cleaned[d]
    BY <1>4 DEF Clean, Goto, CoreInv, TypeInv, At
  <2>2. /\ ~ Open(d)' /\ ~ Unmarked(d)' /\ ~ InDoubt(d)' /\ ~ Unmarked(d) /\ ~ InDoubt(d)
        /\ pc'[d] \notin Busy
    BY <2>1, <1>2 DEF Busy, Open, Unmarked, InDoubt, At, Counting
  <2>3. InOrder(d)'
    BY <1>2, <2>1, <2>2, <1>t DEF Core, InOrder, UpTo, View
  <2>4. ASSUME NEW n \in Seg
        PROVE  (Sendable(d, n)' => Sendable(d, n)) /\ (Countable(d, n)' => Countable(d, n))
    BY <1>2, <2>1, <2>2, <1>t DEF Sendable, Countable, View, Seg
  <2>5. Sends(d)' /\ Passes(d)'
    BY <1>2, <2>4, <1>t DEF Core, Sends, Passes
  <2> QED BY <1>1, <1>2, <2>3, <2>5, SameCore DEF CoreInv, Core
<1> QED BY <1>3, <1>4

\* Nothing is sent at the start.
LEMMA CoreInit == Init => CoreInv
BY InitType, StatisticsAssumption DEF Init, CoreInv, Core, InOrder, Sends, Passes, UpTo, Open,
    Busy, Counting, Place, Seg

\* The core invariant is inductive.
LEMMA CoreStep == CoreInv /\ [Next]_vars => CoreInv'
<1> SUFFICES ASSUME CoreInv, [Next]_vars PROVE CoreInv'
  OBVIOUS
<1>1. \A d \in Device : InSegments(d)
  <2> TAKE d \in Device
  <2>1. View(d) /\ Core(d)
    BY TypesOf DEF CoreInv
  <2> QED BY <2>1 DEF InSegments, Core, InOrder, View, Seg
<1>2. TypeInv'
  BY <1>1, TypeStep DEF CoreInv
<1>3. CASE Die \/ \E d \in Device : PublishFails(d) \/ MarkFails(d) \/ StepFails(d)
  BY <1>2, <1>3, FaultsCore
<1>4. ASSUME NEW d \in Device,
             \/ Spawn(d) \/ Publish(d) \/ Skip(d) \/ Filter(d) \/ EndDrain(d) \/ CountRow(d)
             \/ CountOwn(d) \/ ReadTotals(d) \/ WriteTotal(d) \/ WriteRow(d) \/ CountFails(d)
      PROVE  CoreInv'
  BY <1>2, <1>4, WalksCore
<1>5. ASSUME NEW d \in Device,
             \/ Apply(d) \/ StoreAtDestination(d) \/ StoreCheckpoint(d) \/ Mark(d) \/ Clean(d)
      PROVE  CoreInv'
  BY <1>2, <1>5, ApplyCore, StoreAtDestinationCore, StoreCheckpointCore, MarkCore
<1>6. CASE UNCHANGED vars
  <2>1. \A e \in Device : Same(e) /\ layout' = layout
    BY <1>6 DEF vars, worker, progress, counts, history, env, Same
  <2> QED BY <1>2, <2>1, SameCore DEF CoreInv
<1> QED BY <1>3, <1>4, <1>5, <1>6 DEF Next

\* A segment is sent again only after a fault of its own, between the destination's commit and
\* what keeps it from being sent: the checkpoint at the destination, or, for a device with a
\* local one only, the mark that process_stage_path_ready writes last; never because what is
\* counted in between has failed.
THEOREM NeverReplayedThm == Spec => []NeverReplayed
<1>1. Spec => []CoreInv
  BY CoreInit, CoreStep, PTL DEF Spec
<1>2. CoreInv => NeverReplayed
  BY DEF CoreInv, Core, Sends, NeverReplayed
<1> QED BY <1>1, <1>2, PTL

--------------------------------------------------------------------------------
(* Sums over a set                                                             *)

\* Of the sets that fail, one has no smaller one that fails.
LEMMA SmallestSubset ==
  ASSUME NEW S, IsFiniteSet(S), NEW Bad \in SUBSET (SUBSET S), Bad # {}
  PROVE  \E T \in Bad : \A U \in SUBSET T : U # T => U \notin Bad
<1>1. IsWellFoundedOn(StrictSubsetOrdering(S), SUBSET S)
  BY FS_StrictSubsetOrderingWellFounded, FS_FiniteSubsetsOfFinite
<1>2. PICK T \in Bad : \A U \in Bad : ~ (<<U, T>> \in StrictSubsetOrdering(S))
  BY <1>1, WFMin
<1>3. ASSUME NEW U \in SUBSET T, U # T, U \in Bad PROVE FALSE
  <2>1. <<U, T>> \in StrictSubsetOrdering(S)
    BY <1>3 DEF StrictSubsetOrdering
  <2> QED BY <1>2, <1>3, <2>1
<1> QED BY <1>2, <1>3

\* The element that a fold over a set takes first, and what it computes: g is the sum of f
\* for every subset of S.
First(s) == CHOOSE x \in s : TRUE
Sums(g, f, S) ==
  \A s \in SUBSET S : g[s] = IF s = {} THEN 0 ELSE f[First(s)] + g[s \ {First(s)}]

\* The table a fold is computed from.
SumTable(g, f, S) ==
  g = [s \in SUBSET S |-> IF s = {} THEN 0 ELSE f[First(s)] + g[s \ {First(s)}]]

LEMMA FirstIsIn ==
  ASSUME NEW s, s # {}
  PROVE  First(s) \in s
BY DEF First

\* There is one such sum, and it is a number.
LEMMA SumIsUnique ==
  ASSUME NEW S, IsFiniteSet(S), NEW f, NEW h, NEW g, NEW k, NEW A, NEW B,
         S \subseteq A, S \subseteq B, Sums(g, f, A), Sums(k, h, B),
         \A x \in S : f[x] = h[x] /\ f[x] \in Nat
  PROVE  g[S] = k[S] /\ g[S] \in Nat
<1> DEFINE Bad == { T \in SUBSET S : ~ (g[T] = k[T] /\ g[T] \in Nat) }
<1>1. SUFFICES ASSUME Bad # {} PROVE FALSE
  BY <1>1
<1>2. Bad \in SUBSET (SUBSET S)
  OBVIOUS
<1>3. PICK T \in Bad : \A U \in SUBSET T : U # T => U \notin Bad
  <2> HIDE DEF Bad
  <2> QED BY <1>1, <1>2, SmallestSubset
<1>4. T \in SUBSET A /\ T \in SUBSET B /\ T \in SUBSET S
  OBVIOUS
<1>5. T # {}
  <2>1. T = {} => g[T] = 0 /\ k[T] = 0
    BY <1>4 DEF Sums
  <2>2. ~ (g[T] = k[T] /\ g[T] \in Nat)
    OBVIOUS
  <2> QED BY <2>1, <2>2
<1>6. First(T) \in T
  BY <1>5, FirstIsIn
<1> DEFINE U == T \ {First(T)}
<1>7. U \in SUBSET T /\ U # T /\ U \in SUBSET S
  BY <1>4, <1>6
<1>8. g[U] = k[U] /\ g[U] \in Nat
  BY <1>3, <1>7
<1>9. g[T] = f[First(T)] + g[U] /\ k[T] = h[First(T)] + k[U]
  BY <1>4, <1>5 DEF Sums
<1>10. f[First(T)] = h[First(T)] /\ f[First(T)] \in Nat
  BY <1>4, <1>6
<1> QED BY <1>8, <1>9, <1>10

LEMMA SumExists ==
  ASSUME NEW S, IsFiniteSet(S), NEW f, \A x \in S : f[x] \in Nat
  PROVE  \E g : SumTable(g, f, S)
<1> DEFINE Good(T) == \E g : Sums(g, f, T)
           Bad == { T \in SUBSET S : ~ Good(T) }
<1>1. ASSUME Bad # {} PROVE FALSE
  <2>1. PICK T \in Bad : \A U \in SUBSET T : U # T => U \notin Bad
    <3>1. Bad \in SUBSET (SUBSET S)
      OBVIOUS
    <3> HIDE DEF Bad
    <3> QED BY <1>1, <3>1, SmallestSubset
  <2>2. T \in SUBSET S /\ ~ Good(T) /\ \A U \in SUBSET T : U # T => Good(U)
    BY <2>1
  <2> DEFINE H(U) == CHOOSE g : Sums(g, f, U)
  <2>3. \A U \in SUBSET T : U # T => Sums(H(U), f, U)
    BY <2>2
  <2> HIDE DEF H
  <2> DEFINE Value(U) == IF U = {} THEN 0 ELSE f[First(U)] + H(U \ {First(U)})[U \ {First(U)}]
             k == [U \in SUBSET T |-> Value(U)]
  <2>4. ASSUME NEW U \in SUBSET T, U # T
        PROVE  H(U)[U] = Value(U)
    <3>1. CASE U = {}
      BY <2>3, <2>4, <3>1 DEF Sums
    <3>2. CASE U # {}
      <4> DEFINE V == U \ {First(U)}
      <4>1. V \in SUBSET T /\ V # T /\ V \in SUBSET U /\ V \in SUBSET S
        BY <2>2, <3>2, FirstIsIn
      <4>2. H(U)[U] = f[First(U)] + H(U)[V]
        BY <2>3, <2>4, <3>2 DEF Sums
      <4>3. IsFiniteSet(V) /\ V \subseteq V /\ V \subseteq U
        BY <4>1, FS_Subset
      <4>4. Sums(H(U), f, U) /\ Sums(H(V), f, V)
        BY <2>3, <2>4, <4>1
      <4>5. \A x \in V : f[x] = f[x] /\ f[x] \in Nat
        BY <4>1
      <4> HIDE DEF V
      <4>6. H(U)[V] = H(V)[V]
        BY <4>3, <4>4, <4>5, SumIsUnique
      <4> QED BY <3>2, <4>2, <4>6 DEF V
    <3> QED BY <3>1, <3>2
  <2>5. Sums(k, f, T)
    <3>1. SUFFICES ASSUME NEW U \in SUBSET T
                   PROVE  k[U] = IF U = {} THEN 0 ELSE f[First(U)] + k[U \ {First(U)}]
      BY DEF Sums
    <3>2. CASE U = {}
      BY <3>2
    <3>3. CASE U # {}
      <4>1. U \ {First(U)} \in SUBSET T /\ U \ {First(U)} # T
        BY <3>3, FirstIsIn
      <4>2. k[U \ {First(U)}] = H(U \ {First(U)})[U \ {First(U)}]
        BY <2>4, <4>1
      <4> QED BY <3>3, <4>2
    <3> QED BY <3>2, <3>3
  <2> QED BY <2>2, <2>5
<1>2. PICK g : Sums(g, f, S)
  <2>1. S \notin Bad
    BY <1>1
  <2> QED BY <2>1
<1> DEFINE r == [s \in SUBSET S |-> g[s]]
<1>3. ASSUME NEW s \in SUBSET S
      PROVE  r[s] = IF s = {} THEN 0 ELSE f[First(s)] + r[s \ {First(s)}]
  BY <1>2 DEF Sums
<1>4. r = [s \in SUBSET S |-> IF s = {} THEN 0 ELSE f[First(s)] + r[s \ {First(s)}]]
  <2> HIDE DEF r
  <2>1. r = [s \in SUBSET S |-> r[s]]
    BY DEF r
  <2> QED BY <1>3, <2>1
<1> QED BY <1>4 DEF SumTable

\* What the sum of the community modules is.
SumOf(f, S) == MapThenSumSet(LAMBDA x : f[x], S)

LEMMA SumOfSet ==
  ASSUME NEW S, IsFiniteSet(S), NEW f, \A x \in S : f[x] \in Nat
  PROVE  \E g : Sums(g, f, S) /\ SumOf(f, S) = g[S]
<1> DEFINE g == CHOOSE q : SumTable(q, f, S)
<1>1. SumTable(g, f, S)
  BY SumExists
<1>2. SumOf(f, S) = g[S]
  BY DEF SumOf, MapThenSumSet, MapThenFoldSet, First, SumTable
<1> HIDE DEF g
<1>3. Sums(g, f, S)
  BY <1>1 DEF Sums, SumTable
<1> QED BY <1>2, <1>3

\* The order does not matter.
LEMMA SumTakesAny ==
  ASSUME NEW S, IsFiniteSet(S), NEW f, NEW g, Sums(g, f, S), \A x \in S : f[x] \in Nat,
         NEW y \in S
  PROVE  g[S] = f[y] + g[S \ {y}]
<1> DEFINE Bad == { T \in SUBSET S : \E z \in T : g[T] # f[z] + g[T \ {z}] }
<1>1. SUFFICES ASSUME Bad # {} PROVE FALSE
  BY <1>1
<1>2. PICK T \in Bad : \A U \in SUBSET T : U # T => U \notin Bad
  <2>1. Bad \in SUBSET (SUBSET S)
    OBVIOUS
  <2> HIDE DEF Bad
  <2> QED BY <1>1, <2>1, SmallestSubset
<1>3. PICK z \in T : g[T] # f[z] + g[T \ {z}]
  OBVIOUS
<1>4. T \in SUBSET S
  OBVIOUS
<1> DEFINE x == First(T)
<1>5. x \in T /\ g[T] = f[x] + g[T \ {x}]
  BY <1>3, <1>4, FirstIsIn DEF Sums
<1> HIDE DEF x
<1>6. z # x
  BY <1>3, <1>5
<1> DEFINE V == (T \ {x}) \ {z}
<1>7. g[T \ {x}] = f[z] + g[V]
  <2>1. T \ {x} \notin Bad
    BY <1>2, <1>5
  <2> QED BY <1>3, <1>4, <1>6, <2>1
<1>8. g[T \ {z}] = f[x] + g[V]
  <2>1. T \ {z} \notin Bad
    BY <1>2, <1>3
  <2>2. V = (T \ {z}) \ {x}
    OBVIOUS
  <2> QED BY <1>4, <1>5, <1>6, <2>1, <2>2
<1>9. V \in SUBSET S
  BY <1>4
<1> HIDE DEF V
<1>10. g[V] \in Nat
  <2>1. V \subseteq S /\ V \subseteq V /\ IsFiniteSet(V) /\ \A v \in V : f[v] = f[v]
          /\ f[v] \in Nat
    BY <1>9, FS_Subset
  <2> QED BY <2>1, SumIsUnique
<1>11. f[x] \in Nat /\ f[z] \in Nat
  BY <1>3, <1>4, <1>5
<1>12. g[T] = f[z] + (f[x] + g[V])
  BY <1>5, <1>7, <1>10, <1>11
<1>13. g[T] = f[z] + g[T \ {z}]
  BY <1>8, <1>12
<1> QED BY <1>3, <1>13

LEMMA SumTyped ==
  ASSUME NEW S, IsFiniteSet(S), NEW f, NEW h, \A x \in S : f[x] = h[x] /\ f[x] \in Nat
  PROVE  SumOf(f, S) \in Nat /\ SumOf(f, S) = SumOf(h, S)
<1>1. \A x \in S : f[x] \in Nat
  OBVIOUS
<1>2. \A x \in S : h[x] \in Nat
  OBVIOUS
<1>3. PICK g : Sums(g, f, S) /\ SumOf(f, S) = g[S]
  BY <1>1, SumOfSet
<1>4. PICK k : Sums(k, h, S) /\ SumOf(h, S) = k[S]
  BY <1>2, SumOfSet
<1>5. S \subseteq S
  OBVIOUS
<1>6. g[S] = k[S] /\ g[S] \in Nat
  BY <1>3, <1>4, <1>5, SumIsUnique
<1> QED BY <1>3, <1>4, <1>6

LEMMA SumOfNext ==
  ASSUME NEW S, IsFiniteSet(S), NEW f, \A x \in S : f[x] \in Nat, NEW y \in S
  PROVE  SumOf(f, S) = SumOf(f, S \ {y}) + f[y]
<1> DEFINE T == S \ {y}
<1>1. IsFiniteSet(T) /\ T \subseteq T /\ T \subseteq S /\ \A x \in T : f[x] = f[x] /\ f[x] \in Nat
  BY FS_Subset
<1>2. PICK g : Sums(g, f, S) /\ SumOf(f, S) = g[S]
  BY SumOfSet
<1>3. g[S] = f[y] + g[T]
  BY <1>2, SumTakesAny
<1> HIDE DEF T
<1>4. \A x \in T : f[x] \in Nat
  BY <1>1
<1>5. PICK k : Sums(k, f, T) /\ SumOf(f, T) = k[T]
  BY <1>1, <1>4, SumOfSet
<1>6. g[T] = k[T] /\ g[T] \in Nat
  BY <1>1, <1>2, <1>5, SumIsUnique
<1>7. f[y] \in Nat
  OBVIOUS
<1> QED BY <1>2, <1>3, <1>5, <1>6, <1>7 DEF T

\* One term changes.
LEMMA SumChanges ==
  ASSUME NEW S, IsFiniteSet(S), NEW f, NEW h, NEW y \in S,
         \A x \in S : f[x] \in Nat /\ h[x] \in Nat, \A x \in S : x # y => h[x] = f[x]
  PROVE  SumOf(f, S) \in Nat /\ SumOf(h, S) + f[y] = SumOf(f, S) + h[y]
<1> DEFINE T == S \ {y}
<1>1. IsFiniteSet(T)
  BY FS_Subset
<1>2. SumOf(f, S) = SumOf(f, T) + f[y]
  BY SumOfNext
<1>3. SumOf(h, S) = SumOf(h, T) + h[y]
  BY SumOfNext
<1>4. \A x \in T : f[x] = h[x] /\ f[x] \in Nat
  OBVIOUS
<1> HIDE DEF T
<1>5. SumOf(f, T) \in Nat /\ SumOf(f, T) = SumOf(h, T)
  BY <1>1, <1>4, SumTyped
<1>6. f[y] \in Nat /\ h[y] \in Nat
  OBVIOUS
<1> QED BY <1>2, <1>3, <1>5, <1>6

--------------------------------------------------------------------------------
(* What is told of a device                                                    *)

\* What the worker owes the counters of the segment it is at
Owed(d) == IF pc[d] \in {"destination", "checkpoint", "tables"} THEN sent[d] ELSE 0
OwedPass(d) == IF At(d, "tables") THEN sent[d] ELSE 0
OwedTables(d) == IF pc[d] \in {"destination", "checkpoint"} THEN opers[d][at[d]]
                 ELSE IF At(d, "tables") THEN left[d] ELSE 0

\* The row of the device, when it has one, is behind the counters and the segments sent.
Tells(d) ==
  \A r \in row[d] : /\ row[d] = {r} /\ r.oper \in Nat /\ r.oper <= own[d].oper
                    /\ r.commit \in 0 .. MaxSegment /\ UpTo(d, r.commit)

\* No counter is ahead.
SumsInv(d) ==
  /\ pc[d] \in {"destination", "checkpoint"} => sent[d] <= opers[d][at[d]]
  /\ own[d].oper + Owed(d) <= Operations(d, times[d])
  /\ own[d].oper + OwedPass(d) <= Operations(d, passes[d])
  /\ tables[d] + left[d] <= Operations(d, passes[d])
  /\ Tells(d)

\* The worker is between the commit of a segment and its local checkpoint.
Sending(d) == pc[d] \in {"destination", "checkpoint"}
\* The segment is not sent again unless something fails.
Finished(d, n) == n \in marked[d] \/ n <= cleaned[d] \/ (Open(d) /\ at[d] = n)

\* Nothing has failed: no counter is behind but by what the worker still owes it.
Exact(d) ==
  /\ At(d, "off") => ~ initialized[d]
  /\ \A n \in Seg : times[d][n] > 0 => Finished(d, n)
  /\ own[d].oper + Owed(d) = Operations(d, times[d])
  /\ tables[d] + OwedTables(d) = Operations(d, times[d])
  /\ \A n \in Seg : times[d][n] > 0 => n <= ckpt[d] \/ (Sending(d) /\ n = ckpt[d] + 1)
  /\ Sending(d) => ckpt[d] + 1 = at[d]
  /\ pc[d] \notin {"off", "publish"} \union Counting =>
       \E r \in row[d] : r.oper = own[d].oper /\ r.commit = ckpt[d]

StatusInv == CoreInv /\ \A d \in Device : SumsInv(d) /\ (faults = 0 => Exact(d))

\* The operations of a device are such sums, before a step and after it.
LEMMA OperationsIsSum ==
  ASSUME NEW d \in Device
  PROVE  /\ Operations(d, times[d]) = SumOf(Taken(d, times[d]), Seg)
         /\ Operations(d, passes[d]) = SumOf(Taken(d, passes[d]), Seg)
         /\ Operations(d, times[d])' = SumOf(Taken(d, times[d])', Seg)
         /\ Operations(d, passes[d])' = SumOf(Taken(d, passes[d])', Seg)
<1>1. /\ Operations(d, times[d]) = SumOf(Taken(d, times[d]), Seg)
      /\ Operations(d, passes[d]) = SumOf(Taken(d, passes[d]), Seg)
  BY DEF Operations, SumOf
<1>2. Operations(d, times[d])' = SumOf(Taken(d, times[d])', Seg)
  BY DEF Operations, SumOf, MapThenSumSet, MapThenFoldSet, Seg
<1>3. Operations(d, passes[d])' = SumOf(Taken(d, passes[d])', Seg)
  BY DEF Operations, SumOf, MapThenSumSet, MapThenFoldSet, Seg
<1> QED BY <1>1, <1>2, <1>3

\* They are numbers.
LEMMA OperationsTyped ==
  ASSUME TypeInv, NEW d \in Device
  PROVE  Operations(d, times[d]) \in Nat /\ Operations(d, passes[d]) \in Nat
<1>1. ASSUME NEW n \in Seg PROVE Taken(d, times[d])[n] \in Nat /\ Taken(d, passes[d])[n] \in Nat
  BY DEF TypeInv, Taken
<1> QED BY <1>1, SegIsFinite, SumTyped, OperationsIsSum

\* They stay when the segments and how often they are taken do.
LEMMA OperationsStay ==
  ASSUME TypeInv, NEW d \in Device, times'[d] = times[d], passes'[d] = passes[d],
           opers'[d] = opers[d]
  PROVE  Operations(d, times[d])' = Operations(d, times[d]) /\ Operations(d,
           passes[d])' = Operations(d, passes[d])
<1>1. Taken(d, times[d])' = Taken(d, times[d]) /\ Taken(d, passes[d])' = Taken(d, passes[d])
  BY DEF Taken, Seg
<1> QED BY <1>1, OperationsIsSum

\* The segment that is sent, or that gets to be counted, adds its operations.
LEMMA OperationsGrow ==
  ASSUME TypeInv, TypeInv', NEW d \in Device, NEW y \in Seg,
         \A n \in Seg : n # y => times'[d][n] = times[d][n] /\ passes'[d][n] = passes[d][n]
                                 /\ opers'[d][n] = opers[d][n]
  PROVE  /\ Operations(d, times[d])' + times[d][y] * opers[d][y] = Operations(d,
            times[d]) + times'[d][y] * opers'[d][y]
         /\ Operations(d, passes[d])' + passes[d][y] * opers[d][y] = Operations(d,
            passes[d]) + passes'[d][y] * opers'[d][y]
<1>1. ASSUME NEW n \in Seg
      PROVE  /\ times[d][n] \in Nat /\ passes[d][n] \in Nat /\ opers[d][n] \in Nat
             /\ times'[d][n] \in Nat /\ passes'[d][n] \in Nat /\ opers'[d][n] \in Nat
  BY DEF TypeInv, Seg
<1>2. ASSUME NEW n \in Seg
      PROVE  /\ Taken(d, times[d])[n] = times[d][n] * opers[d][n]
             /\ Taken(d, passes[d])[n] = passes[d][n] * opers[d][n]
             /\ Taken(d, times[d])'[n] = times'[d][n] * opers'[d][n]
             /\ Taken(d, passes[d])'[n] = passes'[d][n] * opers'[d][n]
  BY DEF Taken, Seg
<1> DEFINE f == Taken(d, times[d])
           g == Taken(d, times[d])'
           h == Taken(d, passes[d])
           k == Taken(d, passes[d])'
<1>3. \A n \in Seg : f[n] \in Nat /\ g[n] \in Nat /\ h[n] \in Nat /\ k[n] \in Nat
  BY <1>1, <1>2
<1>4. \A n \in Seg : n # y => g[n] = f[n] /\ k[n] = h[n]
  BY <1>2
<1>5. /\ f[y] = times[d][y] * opers[d][y] /\ g[y] = times'[d][y] * opers'[d][y]
      /\ h[y] = passes[d][y] * opers[d][y] /\ k[y] = passes'[d][y] * opers'[d][y]
  BY <1>2
<1>6. /\ Operations(d, times[d]) = SumOf(f, Seg) /\ Operations(d, times[d])' = SumOf(g, Seg)
      /\ Operations(d, passes[d]) = SumOf(h, Seg) /\ Operations(d, passes[d])' = SumOf(k, Seg)
  BY OperationsIsSum
<1> HIDE DEF f, g, h, k
<1>7. SumOf(g, Seg) + f[y] = SumOf(f, Seg) + g[y]
  BY <1>3, <1>4, SegIsFinite, SumChanges
<1>8. SumOf(k, Seg) + h[y] = SumOf(h, Seg) + k[y]
  BY <1>3, <1>4, SegIsFinite, SumChanges
<1> QED BY <1>5, <1>6, <1>7, <1>8

\* What of a device the invariants are about, besides Same
SameCounts(e) ==
  /\ sent'[e] = sent[e] /\ left'[e] = left[e] /\ opers'[e] = opers[e]
  /\ own'[e] = own[e] /\ tables'[e] = tables[e] /\ row'[e] = row[e]
  /\ initialized'[e] = initialized[e]

\* A device of which nothing changes keeps what is told of it true.
LEMMA SameStatus ==
  ASSUME TypeInv, NEW e \in Device, Same(e), SameCounts(e), SumsInv(e), faults' = 0 => faults = 0,
         faults = 0 => Exact(e)
  PROVE  SumsInv(e)' /\ (faults' = 0 => Exact(e)')
<1>1. /\ Operations(e, times[e])' = Operations(e, times[e])
      /\ Operations(e, passes[e])' = Operations(e, passes[e])
  BY OperationsStay DEF Same, SameCounts
<1>2. SumsInv(e)'
  BY <1>1 DEF Same, SameCounts, SumsInv, Owed, OwedPass, At, Tells, UpTo
<1>3. ASSUME Exact(e) PROVE Exact(e)'
  BY <1>1, <1>3 DEF Same, SameCounts, Exact, Owed, OwedTables, At, Sending, Finished, Open
<1> QED BY <1>2, <1>3

\* Nothing is added to what is counted, or owed.
LEMMA SilentSums ==
  ASSUME TypeInv, TypeInv', NEW d \in Device, SumsInv(d),
         times'[d] = times[d], passes'[d] = passes[d], opers'[d] = opers[d],
         own'[d] = own[d], tables'[d] = tables[d],
         Owed(d)' <= Owed(d), OwedPass(d)' <= OwedPass(d), left'[d] <= left[d],
         Sending(d)' => sent'[d] <= opers[d][at'[d]],
         Tells(d)'
  PROVE  SumsInv(d)'
<1>1. /\ Operations(d, times[d])' = Operations(d, times[d])
      /\ Operations(d, passes[d])' = Operations(d, passes[d])
  BY OperationsStay
<1>2. /\ Operations(d, times[d]) \in Nat /\ Operations(d, passes[d]) \in Nat
      /\ own[d].oper \in Nat /\ tables[d] \in Nat /\ left[d] \in Nat /\ left'[d] \in Nat
      /\ sent[d] \in Nat /\ sent'[d] \in Nat
  BY OperationsTyped DEF TypeInv
<1>3. Owed(d) \in Nat /\ Owed(d)' \in Nat /\ OwedPass(d) \in Nat /\ OwedPass(d)' \in Nat
  BY <1>2 DEF Owed, OwedPass
<1> QED BY <1>1, <1>2, <1>3 DEF SumsInv, Sending

\* The row is what it was, a new one, or what the counters and the checkpoint hold.
LEMMA RowTells ==
  ASSUME TypeInv, NEW d \in Device, Core(d), own'[d] = own[d], times'[d] = times[d],
         \/ row'[d] = row[d] /\ Tells(d)
         \/ row[d] = {} /\ row'[d] = {NewRow}
         \/ row'[d] = StatusRow(d)
  PROVE  Tells(d)'
<1>1. own[d].oper \in Nat /\ ckpt[d] \in 0 .. MaxSegment /\ 0 \in 0 .. MaxSegment
  BY StatisticsAssumption DEF TypeInv
<1>2. CASE row'[d] = row[d] /\ Tells(d)
  BY <1>2 DEF Tells, UpTo
<1>3. CASE row[d] = {} /\ row'[d] = {NewRow}
  BY <1>1, <1>3 DEF Tells, NewRow, UpTo
<1>4. CASE row'[d] = StatusRow(d)
  BY <1>1, <1>4 DEF Tells, StatusRow, UpTo, Core, InOrder
<1> QED BY <1>2, <1>3, <1>4

\* Nothing has failed, and a worker with nothing to send or to count goes from place to place.
LEMMA SilentExact ==
  ASSUME TypeInv, TypeInv', NEW d \in Device, Exact(d),
         times'[d] = times[d], passes'[d] = passes[d], opers'[d] = opers[d], ckpt'[d] = ckpt[d],
         own'[d] = own[d], tables'[d] = tables[d], marked[d] \subseteq marked'[d],
           cleaned[d] <= cleaned'[d],
         Owed(d)' = Owed(d), OwedTables(d)' = OwedTables(d),
         Sending(d) <=> Sending(d)', Sending(d) => at'[d] = at[d],
         At(d, "off")' => ~ initialized'[d],
         \A n \in Seg : Open(d) /\ at[d] = n => Finished(d, n)',
         pc'[d] \notin {"off", "publish"} \union Counting =>
           \E r \in row'[d] : r.oper = own[d].oper /\ r.commit = ckpt[d]
  PROVE  Exact(d)'
<1>1. /\ Operations(d, times[d])' = Operations(d, times[d])
  BY OperationsStay
<1>2. \A n \in Seg : Finished(d, n) => Finished(d, n)'
  <2> TAKE n \in Seg
  <2>1. cleaned[d] \in Nat /\ cleaned'[d] \in Nat /\ n \in Nat
    BY DEF TypeInv, Seg
  <2>2. CASE n <= cleaned[d]
    <3>1. n <= cleaned'[d]
      BY <2>1, <2>2
    <3> QED BY <3>1 DEF Finished
  <2>3. CASE n \in marked[d]
    BY <2>3 DEF Finished
  <2>4. CASE Open(d) /\ at[d] = n
    BY <2>4
  <2> QED BY <2>2, <2>3, <2>4 DEF Finished
<1> QED BY <1>1, <1>2 DEF Exact

\* The workers that rest or go on, and add nothing.
Silent(d) ==
  \/ Spawn(d) \/ Publish(d) \/ PublishFails(d) \/ Skip(d) \/ Filter(d) \/ StoreAtDestination(d)
  \/ Mark(d) \/ MarkFails(d) \/ Clean(d) \/ EndDrain(d) \/ StepFails(d)
  \/ ReadTotals(d) \/ WriteTotal(d) \/ WriteRow(d) \/ CountFails(d)

\* They add nothing, and a worker that rests owes nothing any more.
LEMMA SilentDoes ==
  ASSUME TypeInv, NEW d \in Device, Silent(d)
  PROVE  /\ \A e \in Device : e # d => Same(e) /\ SameCounts(e)
         /\ UNCHANGED <<times, passes, opers, own, tables, ckpt, layout>>
         /\ \/ row'[d] = row[d] \/ row'[d] = StatusRow(d)
            \/ row[d] = {} /\ row'[d] = {NewRow}
         /\ \/ sent'[d] = 0 /\ left'[d] = 0
            \/ /\ sent'[d] = sent[d] /\ left'[d] = left[d] /\ pc'[d] # "tables"
               /\ pc[d] # "tables"
               /\ Sending(d)' <=> Sending(d)
               /\ Sending(d) => at'[d] = at[d]
<1> USE DEF worker, progress, counts, history, env
<1>p. /\ pc \in [Device -> Place] /\ at \in [Device -> 0 .. MaxSegment]
      /\ sent \in [Device -> Nat] /\ left \in [Device -> Nat]
  BY DEF TypeInv
<1>i. ASSUME Interrupts({d})
      PROVE  layout' = layout /\ \A e \in Device : e # d => cut'[e] = cut[e] /\ redo'[e] = redo[e]
  BY <1>i DEF Interrupts
<1>1. CASE Spawn(d)
  BY <1>1, <1>p DEF Spawn, Goto, Same, SameCounts, At, Sending, TypeInv
<1>2. CASE Publish(d)
  BY <1>2, <1>p DEF Publish, Goto, Same, SameCounts, At, Sending, TypeInv
<1>3. CASE PublishFails(d)
  BY <1>3, <1>i, <1>p DEF PublishFails, Rest, Same, SameCounts, TypeInv
<1>4. CASE Skip(d) \/ EndDrain(d) \/ CountFails(d) \/ Filter(d)
  BY <1>4, <1>p DEF Skip, EndDrain, CountFails, Filter, Rest, Same, SameCounts
<1>5. CASE WriteRow(d)
  BY <1>5, <1>p DEF WriteRow, Rest, Same, SameCounts, TypeInv
<1>6. CASE StepFails(d)
  BY <1>6, <1>i, <1>p DEF StepFails, Rest, Same, SameCounts
<1>7. CASE MarkFails(d)
  BY <1>7, <1>i, <1>p DEF MarkFails, Goto, Same, SameCounts, At, Sending
<1>8. CASE Mark(d) \/ Clean(d)
  BY <1>8, <1>p DEF Mark, Clean, Goto, Same, SameCounts, At, Sending, TypeInv
<1>9. CASE StoreAtDestination(d)
  BY <1>9, <1>p DEF StoreAtDestination, Goto, Same, SameCounts, At, Sending, TypeInv
<1>10. CASE ReadTotals(d) \/ WriteTotal(d)
  BY <1>10, <1>p DEF ReadTotals, WriteTotal, Same, SameCounts, At, Sending
<1> QED BY <1>1, <1>2, <1>3, <1>4, <1>5, <1>6, <1>7, <1>8, <1>9, <1>10 DEF Silent

\* While nothing has failed no such step leaves a counter behind.
LEMMA SilentMoves ==
  ASSUME StatusInv, CoreInv', NEW d \in Device, Silent(d), faults' = 0
  PROVE  Exact(d)'
<1> USE DEF worker, progress, counts, history, env
<1>p. /\ pc \in [Device -> Place] /\ at \in [Device -> 0 .. MaxSegment]
      /\ sent \in [Device -> Nat] /\ left \in [Device -> Nat] /\ faults \in Nat
      /\ DOMAIN row = Device /\ initialized \in [Device -> BOOLEAN]
      /\ marked \in [Device -> SUBSET Seg] /\ cleaned \in [Device -> 0 .. MaxSegment]
      /\ MaxSegment \in Nat
  BY SegIsFinite DEF StatusInv, CoreInv, TypeInv
<1>t. TypeInv /\ TypeInv' /\ Core(d) /\ View(d)
  BY TypesOf DEF StatusInv, CoreInv
<1>0. ~ PublishFails(d) /\ ~ MarkFails(d) /\ ~ StepFails(d) /\ ~ CountFails(d)
  BY <1>p DEF PublishFails, MarkFails, StepFails, CountFails, Interrupts
<1>1. faults = 0
  BY <1>0 DEF Silent, Spawn, Publish, Skip, Filter, StoreAtDestination, Mark, Clean, EndDrain,
      ReadTotals, WriteTotal, WriteRow
<1>2. Exact(d)
  BY <1>1 DEF StatusInv
<1>3. ~ Filter(d)
  <2>1. ASSUME Filter(d) PROVE FALSE
    <3>1. Current(d) \in Seg /\ UpTo(d, Current(d)) /\ ~ Passed(d, Current(d)) /\ ~ Open(d)
      BY <2>1, <1>t, CurrentInSeg DEF Filter, Core, InOrder, At, Open, Counting
    <3>2. times[d][Current(d)] > 0
      BY <3>1 DEF UpTo, Seg
    <3> QED BY <1>2, <3>1, <3>2 DEF Exact, Finished, Passed
  <2> QED BY <2>1
<1>4. /\ UNCHANGED <<times, passes, opers, own, tables, ckpt>>
  BY <1>t, SilentDoes
<1>5. CASE Spawn(d)
  <2>1. pc[d] = "off" /\ pc'[d] = "publish" /\ UNCHANGED <<marked, cleaned>> /\ at' = at
          /\ sent' = sent /\ left' = left
    BY <1>2, <1>5, <1>p DEF Spawn, Goto, Exact, At
  <2> QED BY <1>2, <1>4, <1>p, <1>t, <2>1, SilentExact DEF At, Sending, Owed, OwedTables, Open,
          Counting
<1>6. CASE Publish(d)
  <2>1. pc[d] = "publish" /\ pc'[d] = "idle" /\ UNCHANGED <<marked, cleaned>> /\ at' = at
          /\ sent' = sent /\ left' = left
        /\ row'[d] = StatusRow(d)
    BY <1>6, <1>p DEF Publish, Goto, At
  <2>2. \E r \in row'[d] : r.oper = own[d].oper /\ r.commit = ckpt[d]
    BY <2>1 DEF StatusRow
  <2> QED BY <1>2, <1>4, <1>p, <1>t, <2>1, <2>2, SilentExact DEF At, Sending, Owed, OwedTables,
          Open, Counting
<1>7. CASE Skip(d) \/ EndDrain(d) \/ Clean(d)
  <2>1. pc[d] \in {"idle", "clean"} /\ pc'[d] \in {"idle", "clean"} /\ marked' = marked
          /\ cleaned[d] <= cleaned'[d] /\ row' = row
    BY <1>7, <1>p DEF Skip, EndDrain, Clean, Rest, Goto, At
  <2>2. \E r \in row'[d] : r.oper = own[d].oper /\ r.commit = ckpt[d]
    BY <2>1, <1>2 DEF Exact, Counting
  <2> QED BY <1>2, <1>4, <1>p, <1>t, <2>1, <2>2, SilentExact DEF At, Sending, Owed, OwedTables,
          Open, Counting
<1>8. CASE Mark(d)
  <2>1. pc[d] = "mark" /\ pc'[d] = "clean" /\ marked'[d] = marked[d] \union {at[d]}
          /\ cleaned' = cleaned /\ row' = row
        /\ at' = at
    BY <1>8, <1>p DEF Mark, Goto, At
  <2>2. \E r \in row'[d] : r.oper = own[d].oper /\ r.commit = ckpt[d]
    BY <2>1, <1>2 DEF Exact, Counting
  <2> QED BY <1>2, <1>4, <1>p, <1>t, <2>1, <2>2, SilentExact DEF At, Sending, Owed, OwedTables,
          Open, Counting, Finished
<1>9. CASE StoreAtDestination(d)
  <2>1. pc[d] = "destination" /\ pc'[d] = "checkpoint" /\ UNCHANGED <<marked, cleaned, row, at,
          sent, left>>
    BY <1>9, <1>p DEF StoreAtDestination, Goto, At
  <2>2. \E r \in row'[d] : r.oper = own[d].oper /\ r.commit = ckpt[d]
    BY <2>1, <1>2 DEF Exact, Counting
  <2> QED BY <1>2, <1>4, <1>p, <1>t, <2>1, <2>2, SilentExact DEF At, Sending, Owed, OwedTables,
          Open, Counting, Finished
<1>10. CASE ReadTotals(d) \/ WriteTotal(d)
  <2>1. pc[d] \in {"read", "write"} /\ pc'[d] = "write" /\ UNCHANGED <<marked, cleaned, row, at,
          sent, left>>
    BY <1>10, <1>p DEF ReadTotals, WriteTotal, At
  <2> QED BY <1>2, <1>4, <1>p, <1>t, <2>1, SilentExact DEF At, Sending, Owed, OwedTables, Open,
          Counting, Finished
<1>11. CASE WriteRow(d)
  <2>1. pc[d] = "write" /\ pc'[d] = "mark" /\ UNCHANGED <<marked, cleaned>> /\ at'[d] = at[d]
          /\ row'[d] = StatusRow(d)
    BY <1>11, <1>p DEF WriteRow, Rest, At
  <2>2. \E r \in row'[d] : r.oper = own[d].oper /\ r.commit = ckpt[d]
    BY <2>1 DEF StatusRow
  <2> QED BY <1>2, <1>4, <1>p, <1>t, <2>1, <2>2, SilentExact DEF At, Sending, Owed, OwedTables,
          Open, Counting, Finished
<1> QED BY <1>0, <1>3, <1>5, <1>6, <1>7, <1>8, <1>9, <1>10, <1>11 DEF Silent

\* They keep what is told true.
LEMMA SilentStatus == ASSUME StatusInv, CoreInv', NEW d \in Device, Silent(d) PROVE StatusInv'
<1>t. TypeInv /\ TypeInv' /\ Core(d) /\ SumsInv(d)
  BY DEF StatusInv, CoreInv
<1>n. sent[d] \in Nat /\ left[d] \in Nat /\ opers[d] \in [Seg -> Nat] /\ View(d)
  BY <1>t, TypesOf DEF TypeInv
<1>1. SumsInv(d)'
  <2>1. Tells(d)'
    BY <1>t, SilentDoes, RowTells DEF SumsInv
  <2>2. Sending(d)' => sent'[d] <= opers[d][at'[d]]
    <3>1. ASSUME Sending(d)' PROVE opers[d][at'[d]] \in Nat
      <4>1. pc'[d] \in Busy
        BY <3>1 DEF Sending, Busy, Place
      <4>2. at'[d] \in Nat /\ at'[d] <= MaxSegment /\ at'[d] > 0
        BY <1>t, <4>1, SegIsFinite DEF TypeInv, CoreInv, Core, InOrder
      <4>3. at'[d] \in Seg
        BY <4>2, SegIsFinite DEF Seg
      <4> QED BY <1>n, <4>3
    <3> QED BY <3>1, <1>t, <1>n, SilentDoes DEF SumsInv, Sending
  <2>3. Owed(d)' <= Owed(d) /\ OwedPass(d)' <= OwedPass(d) /\ left'[d] <= left[d]
    BY <1>t, <1>n, SilentDoes DEF Owed, OwedPass, Sending, At
  <2> QED BY <1>t, <2>1, <2>2, <2>3, SilentDoes, SilentSums
<1>2. faults' = 0 => Exact(d)'
  BY SilentMoves
<1>3. faults' = 0 => faults = 0
  <2>1. faults \in Nat
    BY <1>t DEF TypeInv
  <2>2. PublishFails(d) \/ MarkFails(d) \/ StepFails(d) \/ CountFails(d) => faults' # 0
    BY <2>1 DEF PublishFails, MarkFails, StepFails, CountFails, Interrupts
  <2> QED BY <2>2 DEF Silent, Spawn, Publish, Skip, Filter, StoreAtDestination, Mark, Clean,
          EndDrain,
        ReadTotals, WriteTotal, WriteRow, env
<1>4. \A e \in Device : e # d => SumsInv(e)' /\ (faults' = 0 => Exact(e)')
  BY <1>t, <1>3, SilentDoes, SameStatus DEF StatusInv
<1> QED BY <1>1, <1>2, <1>4 DEF StatusInv

\* A death only leaves uncounted what the workers owed.
LEMMA DieStatus == ASSUME StatusInv, CoreInv', Die PROVE StatusInv'
<1>1. faults' # 0
  BY DEF Die, Interrupts, StatusInv, CoreInv, TypeInv
<1>2. ASSUME NEW d \in Device PROVE SumsInv(d)'
  <2>1. /\ TypeInv /\ TypeInv' /\ Core(d) /\ SumsInv(d) /\ sent[d] \in Nat /\ left[d] \in Nat
    BY DEF StatusInv, CoreInv, TypeInv
  <2>2. /\ pc'[d] = "off" /\ sent'[d] = 0 /\ left'[d] = 0
        /\ UNCHANGED <<times, passes, opers, own, tables, row>>
    BY DEF Die, progress, counts, history
  <2>3. Tells(d)'
    BY <2>1, <2>2, RowTells DEF SumsInv
  <2>4. Owed(d)' <= Owed(d) /\ OwedPass(d)' <= OwedPass(d) /\ left'[d] <= left[d] /\ ~ Sending(d)'
    BY <2>1, <2>2 DEF Owed, OwedPass, Sending, At
  <2> QED BY <2>1, <2>2, <2>3, <2>4, SilentSums
<1> QED BY <1>1, <1>2 DEF StatusInv

\* A row that is counted is owed no more.
LEMMA CountRowStatus == ASSUME StatusInv, CoreInv', NEW d \in Device, CountRow(d) PROVE StatusInv'
<1> USE DEF worker, progress, counts, history, env
<1>t. TypeInv /\ TypeInv' /\ Core(d) /\ SumsInv(d) /\ (faults = 0 => Exact(d))
  BY DEF StatusInv, CoreInv
<1>1. \A e \in Device : e # d => Same(e) /\ SameCounts(e)
  BY <1>t DEF CountRow, Same, SameCounts, TypeInv
<1>2. /\ pc[d] = "tables" /\ left[d] > 0 /\ left'[d] = left[d] - 1 /\ tables'[d] = tables[d] + 1
      /\ UNCHANGED <<pc, at, sent, ckpt, initialized, dstck, marked, cleaned, own, row, times,
         passes, opers, cut, redo, faults>>
  BY <1>t DEF CountRow, At, TypeInv
<1>3. /\ Operations(d, times[d])' = Operations(d, times[d])
      /\ Operations(d, passes[d])' = Operations(d, passes[d])
      /\ tables[d] \in Nat /\ left[d] \in Nat /\ Operations(d, times[d]) \in Nat /\ Operations(d,
         passes[d]) \in Nat
  BY <1>t, <1>2, OperationsStay, OperationsTyped DEF TypeInv
<1>4. SumsInv(d)'
  BY <1>t, <1>2, <1>3 DEF SumsInv, Owed, OwedPass, At, Tells, UpTo
<1>5. faults' = 0 => Exact(d)'
  BY <1>t, <1>2, <1>3 DEF Exact, Owed, OwedTables, At, Sending, Finished, Open
<1> QED BY <1>t, <1>1, <1>2, <1>4, <1>5, SameStatus DEF StatusInv

\* One UPDATE adds to each counter.
LEMMA PlusAdds ==
  ASSUME NEW a, NEW b, "oper" \in DOMAIN a
  PROVE  Plus(a, b).oper = a.oper + b.oper
BY DEF Plus

\* The operations of the segment get into the device's own counters.
LEMMA CountOwnStatus == ASSUME StatusInv, CoreInv', NEW d \in Device, CountOwn(d) PROVE StatusInv'
<1> USE DEF worker, progress, counts, history, env
<1>t. TypeInv /\ TypeInv' /\ Core(d) /\ SumsInv(d) /\ (faults = 0 => Exact(d))
  BY DEF StatusInv, CoreInv
<1>1. \A e \in Device : e # d => Same(e) /\ SameCounts(e)
  BY <1>t DEF CountOwn, Goto, Same, SameCounts, TypeInv
<1>2. /\ pc[d] = "tables" /\ left[d] = 0 /\ pc'[d] = "read"
      /\ UNCHANGED <<at, sent, left, tables, ckpt, initialized, dstck, marked, cleaned, row,
         times, passes, opers, cut, redo, faults>>
  BY <1>t DEF CountOwn, Goto, At, TypeInv
<1>3. own'[d].oper = own[d].oper + sent[d]
  <2> DEFINE add == [Added(d) EXCEPT !.segs = 0]
  <2>1. add.oper = sent[d]
    BY DEF Added
  <2> HIDE DEF add
  <2>2. Plus(own[d], add).oper = own[d].oper + add.oper
    BY <1>t, PlusAdds DEF TypeInv
  <2>3. own'[d] = Plus(own[d], add)
    BY <1>t DEF CountOwn, TypeInv, add
  <2> QED BY <2>1, <2>2, <2>3
<1>4. /\ Operations(d, times[d])' = Operations(d, times[d])
      /\ Operations(d, passes[d])' = Operations(d, passes[d])
      /\ own[d].oper \in Nat /\ sent[d] \in Nat /\ Operations(d, times[d]) \in Nat
         /\ Operations(d, passes[d]) \in Nat
  BY <1>t, <1>2, OperationsStay, OperationsTyped DEF TypeInv
<1>5. SumsInv(d)'
  <2>1. Tells(d)'
    BY <1>t, <1>2, <1>3, <1>4 DEF SumsInv, Tells, UpTo
  <2> QED BY <1>t, <1>2, <1>3, <1>4, <2>1 DEF SumsInv, Owed, OwedPass, At
<1>6. faults' = 0 => Exact(d)'
  BY <1>t, <1>2, <1>3, <1>4 DEF Exact, Owed, OwedTables, At, Sending, Finished, Open, Counting
<1> QED BY <1>t, <1>1, <1>2, <1>5, <1>6, SameStatus DEF StatusInv

\* Products of numbers
LEMMA Product == \A i, j \in Nat : (i + 1) * j = i * j + j /\ i * j \in Nat /\ 0 * j = 0
  /\ j * 0 = 0
OBVIOUS

\* The operations of a device are numbers after a step, too.
LEMMA OperationsTypedNext ==
  ASSUME TypeInv', NEW d \in Device
  PROVE  Operations(d, times[d])' \in Nat /\ Operations(d, passes[d])' \in Nat
<1>1. ASSUME NEW n \in Seg PROVE Taken(d, times[d])'[n] \in Nat /\ Taken(d, passes[d])'[n] \in Nat
  <2>1. times'[d][n] \in Nat /\ passes'[d][n] \in Nat /\ opers'[d][n] \in Nat
    BY DEF TypeInv, Seg
  <2>2. /\ Taken(d, times[d])'[n] = times'[d][n] * opers'[d][n]
        /\ Taken(d, passes[d])'[n] = passes'[d][n] * opers'[d][n]
    BY DEF Taken, Seg
  <2> QED BY <2>1, <2>2, Product
<1> DEFINE f == Taken(d, times[d])'
           g == Taken(d, passes[d])'
<1>2. \A n \in Seg : f[n] = f[n] /\ f[n] \in Nat
  BY <1>1
<1>3. \A n \in Seg : g[n] = g[n] /\ g[n] \in Nat
  BY <1>1
<1>4. Operations(d, times[d])' = SumOf(f, Seg) /\ Operations(d, passes[d])' = SumOf(g, Seg)
  BY OperationsIsSum
<1> HIDE DEF f, g
<1>5. SumOf(f, Seg) \in Nat
  BY <1>2, SegIsFinite, SumTyped
<1>6. SumOf(g, Seg) \in Nat
  BY <1>3, SegIsFinite, SumTyped
<1> QED BY <1>4, <1>5, <1>6

\* With the local checkpoint, the worker owes the counts of the tables its rows.
LEMMA StoreCheckpointStatus ==
  ASSUME StatusInv, CoreInv', NEW d \in Device, StoreCheckpoint(d)
  PROVE  StatusInv'
<1> USE DEF worker, progress, counts, history, env
<1>t. TypeInv /\ TypeInv' /\ Core(d) /\ SumsInv(d) /\ (faults = 0 => Exact(d)) /\ View(d)
  BY TypesOf DEF StatusInv, CoreInv
<1>1. \A e \in Device : e # d => Same(e) /\ SameCounts(e)
  BY <1>t DEF StoreCheckpoint, Same, SameCounts, TypeInv
<1>2. /\ pc[d] = "checkpoint" /\ pc'[d] = "tables" /\ left'[d] = opers[d][at[d]]
         /\ ckpt'[d] = at[d]
      /\ passes'[d] = [passes[d] EXCEPT ![at[d]] = @ + 1]
      /\ UNCHANGED <<at, sent, tables, own, initialized, dstck, marked, cleaned, row, times,
         opers, cut, redo, faults>>
  BY <1>t DEF StoreCheckpoint, At, TypeInv
<1>3. at[d] \in Seg
  BY <1>t, <1>2 DEF Core, InOrder, View, Seg, Busy, Place
<1>4. /\ Operations(d, times[d])' = Operations(d, times[d])
      /\ Operations(d, passes[d])' = Operations(d, passes[d]) + opers[d][at[d]]
      /\ Operations(d, times[d]) \in Nat /\ Operations(d, passes[d]) \in Nat
  <2>1. /\ times[d][at[d]] \in Nat /\ passes[d][at[d]] \in Nat /\ opers[d][at[d]] \in Nat
        /\ passes'[d][at[d]] = passes[d][at[d]] + 1
        /\ Operations(d, times[d])' \in Nat /\ Operations(d, passes[d])' \in Nat
        /\ Operations(d, times[d]) \in Nat /\ Operations(d, passes[d]) \in Nat
    <3>1. Operations(d, times[d])' \in Nat /\ Operations(d, passes[d])' \in Nat
      BY <1>t, OperationsTypedNext
    <3> QED BY <1>t, <1>2, <1>3, <3>1, OperationsTyped DEF TypeInv
  <2>2. \A n \in Seg : n # at[d] => times'[d][n] = times[d][n] /\ passes'[d][n] = passes[d][n]
                                    /\ opers'[d][n] = opers[d][n]
    BY <1>2, <1>t DEF View
  <2>3. /\ Operations(d, times[d])' + times[d][at[d]] * opers[d][at[d]]
             = Operations(d, times[d]) + times'[d][at[d]] * opers'[d][at[d]]
        /\ Operations(d, passes[d])' + passes[d][at[d]] * opers[d][at[d]]
             = Operations(d, passes[d]) + passes'[d][at[d]] * opers'[d][at[d]]
    BY <1>t, <1>3, <2>2, OperationsGrow
  <2>4. (passes[d][at[d]] + 1) * opers[d][at[d]]
          = passes[d][at[d]] * opers[d][at[d]] + opers[d][at[d]]
        /\ passes[d][at[d]] * opers[d][at[d]] \in Nat /\ times[d][at[d]] * opers[d][at[d]] \in Nat
    BY <2>1, Product
  <2> DEFINE p == passes[d][at[d]] * opers[d][at[d]]
             t == times[d][at[d]] * opers[d][at[d]]
  <2>5. /\ Operations(d, times[d])' + t = Operations(d, times[d]) + t
        /\ Operations(d, passes[d])' + p = Operations(d, passes[d]) + (p + opers[d][at[d]])
        /\ p \in Nat /\ t \in Nat
    BY <1>2, <2>1, <2>3, <2>4
  <2> HIDE DEF p, t
  <2>6. Operations(d, times[d])' = Operations(d, times[d])
    BY <2>1, <2>5
  <2>7. Operations(d, passes[d])' = Operations(d, passes[d]) + opers[d][at[d]]
    BY <2>1, <2>5
  <2> QED BY <2>1, <2>6, <2>7
<1>5. /\ own[d].oper \in Nat /\ sent[d] \in Nat /\ tables[d] \in Nat /\ left[d] \in Nat
         /\ opers[d][at[d]] \in Nat
      /\ ckpt[d] \in Nat /\ at[d] \in Nat
  BY <1>t, <1>3 DEF TypeInv, View
<1>6. SumsInv(d)'
  <2>1. Tells(d)'
    BY <1>t, <1>2 DEF SumsInv, Tells, UpTo
  <2>2. sent[d] <= opers[d][at[d]] /\ own[d].oper + sent[d] <= Operations(d, times[d])
        /\ own[d].oper <= Operations(d, passes[d]) /\ tables[d] <= Operations(d, passes[d])
    BY <1>t, <1>2, <1>4, <1>5 DEF SumsInv, Owed, OwedPass, At
  <2>3. Owed(d)' = sent[d] /\ OwedPass(d)' = sent[d]
    BY <1>2 DEF Owed, OwedPass, At
  <2> QED BY <1>2, <1>4, <1>5, <2>1, <2>2, <2>3 DEF SumsInv
<1>7. faults' = 0 => Exact(d)'
  <2> SUFFICES ASSUME faults = 0, Exact(d) PROVE Exact(d)'
    BY <1>2, <1>t
  <2>1. Owed(d)' = Owed(d) /\ OwedTables(d)' = OwedTables(d)
    BY <1>2 DEF Owed, OwedTables, At
  <2>2. ckpt[d] + 1 = at[d]
    BY <1>2 DEF Exact, Sending
  <2>3. \A n \in Seg : times[d][n] > 0 => n <= at[d]
    BY <1>5, <2>2 DEF Exact, Seg
  <2> QED BY <1>2, <1>4, <2>1, <2>2, <2>3 DEF Exact, At, Sending, Finished, Open, Counting
<1> QED BY <1>t, <1>1, <1>2, <1>6, <1>7, SameStatus DEF StatusInv

\* A segment that is sent adds the operations its worker owes from now on; one sent again
\* has as many as before.
LEMMA ApplyStatus == ASSUME StatusInv, CoreInv', NEW d \in Device, Apply(d) PROVE StatusInv'
<1> USE DEF worker, progress, counts, history, env
<1>t. TypeInv /\ TypeInv' /\ Core(d) /\ SumsInv(d) /\ (faults = 0 => Exact(d)) /\ View(d)
  BY TypesOf DEF StatusInv, CoreInv
<1>1. \A e \in Device : e # d => Same(e) /\ SameCounts(e)
  BY <1>t DEF Apply, Same, SameCounts, TypeInv
<1> DEFINE n == Current(d)
<1>c. n = at[d] + 1 /\ n \in Seg /\ n \in Nat
  BY <1>t, CurrentInSeg, SegIsFinite DEF Apply, Current, Seg
<1>2. PICK k \in Nat :
         /\ sent'[d] = k /\ opers'[d] = [opers[d] EXCEPT ![n] = k]
         /\ times[d][n] # 0 => k = opers[d][n]
  <2>1. PICK k \in IF times[d][n] = 0 THEN 0 .. MaxOpers ELSE {opers[d][n]} :
           sent' = [sent EXCEPT ![d] = k] /\ opers' = [opers EXCEPT ![d][n] = k]
    BY DEF Apply
  <2>2. opers[d][n] \in Nat /\ 0 .. MaxOpers \subseteq Nat
    BY <1>t, <1>c, StatisticsAssumption DEF TypeInv
  <2>3. k \in Nat /\ (times[d][n] # 0 => k = opers[d][n])
    BY <2>1, <2>2
  <2>4. sent'[d] = k /\ opers'[d] = [opers[d] EXCEPT ![n] = k]
    BY <2>1, <1>t DEF TypeInv
  <2> QED BY <2>3, <2>4
<1>3. /\ pc[d] = "idle" /\ Sending(d)' /\ at'[d] = n /\ ~ Passed(d, n)
      /\ times'[d] = [times[d] EXCEPT ![n] = @ + 1]
      /\ UNCHANGED <<left, tables, own, initialized, ckpt, dstck, marked, cleaned, row, passes,
         cut, redo, faults>>
  BY <1>t DEF Apply, At, TypeInv, Sending
<1> HIDE DEF n
<1>4. /\ times[d][n] \in Nat /\ passes[d][n] \in Nat /\ opers[d][n] \in Nat
      /\ times'[d][n] = times[d][n] + 1 /\ passes'[d][n] = passes[d][n] /\ opers'[d][n] = k
      /\ (times[d][n] = 0 => passes[d][n] = 0)
  BY <1>t, <1>c, <1>2, <1>3 DEF TypeInv, View, Core, InOrder
<1>5. /\ Operations(d, times[d])' \in Nat /\ Operations(d, passes[d])' \in Nat
      /\ Operations(d, times[d]) \in Nat /\ Operations(d, passes[d]) \in Nat
  BY <1>t, OperationsTyped, OperationsTypedNext
<1>6. /\ Operations(d, times[d])' + times[d][n] * opers[d][n]
           = Operations(d, times[d]) + times'[d][n] * opers'[d][n]
      /\ Operations(d, passes[d])' + passes[d][n] * opers[d][n]
           = Operations(d, passes[d]) + passes'[d][n] * opers'[d][n]
  <2>1. \A m \in Seg : m # n => times'[d][m] = times[d][m] /\ passes'[d][m] = passes[d][m]
                                  /\ opers'[d][m] = opers[d][m]
    BY <1>2, <1>3, <1>t DEF View, TypeInv
  <2> QED BY <1>t, <1>c, <2>1, OperationsGrow
<1>7. /\ Operations(d, times[d])' = Operations(d, times[d]) + k
      /\ Operations(d, passes[d])' = Operations(d, passes[d])
  <2> DEFINE t == times[d][n] * opers[d][n]
             p == passes[d][n] * opers[d][n]
  <2>1. times'[d][n] * opers'[d][n] = t + k /\ passes'[d][n] * opers'[d][n] = p /\ t \in Nat
          /\ p \in Nat
    <3>1. CASE times[d][n] = 0
      BY <1>2, <1>4, <3>1, Product
    <3>2. CASE times[d][n] # 0
      <4>1. k = opers[d][n]
        BY <1>2, <3>2
      <4> QED BY <1>4, <4>1, Product
    <3> QED BY <3>1, <3>2
  <2>2. /\ Operations(d, times[d])' + t = Operations(d, times[d]) + (t + k)
        /\ Operations(d, passes[d])' + p = Operations(d, passes[d]) + p
    BY <1>6, <2>1
  <2> HIDE DEF t, p
  <2> QED BY <1>2, <1>5, <2>1, <2>2
<1>8. \A m \in Seg : times[d][m] > 0 => times'[d][m] > 0
  BY <1>3, <1>4, <1>t DEF View
<1>9. /\ own[d].oper \in Nat /\ tables[d] \in Nat /\ left[d] \in Nat /\ ckpt[d] \in Nat
         /\ at[d] \in Nat
  BY <1>t DEF TypeInv, View
<1>10. SumsInv(d)'
  <2>1. Tells(d)'
    <3>1. ASSUME NEW m, UpTo(d, m) PROVE UpTo(d, m)'
      <4>1. ASSUME NEW j \in 1 .. m PROVE times'[d][j] > 0
        BY <3>1, <4>1, <1>3, <1>4, <1>t DEF UpTo, View
      <4> QED BY <4>1 DEF UpTo
    <3> QED BY <1>3, <1>t, <3>1 DEF SumsInv, Tells
  <2>2. /\ own[d].oper <= Operations(d, times[d]) /\ own[d].oper <= Operations(d, passes[d])
        /\ tables[d] + left[d] <= Operations(d, passes[d])
    BY <1>t, <1>3, <1>5, <1>9 DEF SumsInv, Owed, OwedPass, At
  <2>3. Owed(d)' = k /\ OwedPass(d)' = 0 /\ sent'[d] <= opers'[d][at'[d]]
    BY <1>2, <1>3, <1>4 DEF Owed, OwedPass, At, Sending
  <2> QED BY <1>2, <1>3, <1>5, <1>7, <1>9, <2>1, <2>2, <2>3 DEF SumsInv
<1>11. faults' = 0 => Exact(d)'
  <2> SUFFICES ASSUME faults = 0, Exact(d) PROVE Exact(d)'
    BY <1>3, <1>t
  <2>1. times[d][n] = 0
    BY <1>3, <1>4, <1>c DEF Exact, Finished, Passed, Open, Counting
  <2>2. ckpt[d] = at[d]
    <3>1. at[d] <= ckpt[d]
      <4>1. CASE at[d] = 0
        BY <4>1, <1>9
      <4>2. CASE at[d] # 0
        <5>0. at[d] \in 1 .. at[d] /\ at[d] \in Seg /\ UpTo(d, at[d])
          BY <4>2, <1>9, <1>t, SegIsFinite DEF Core, InOrder, View, Seg
        <5>1. at[d] \in Seg /\ times[d][at[d]] > 0
          BY <5>0 DEF UpTo
        <5> QED BY <5>1, <1>3 DEF Exact, Sending
      <4> QED BY <4>1, <4>2
    <3>2. ckpt[d] < n
      <4>1. ASSUME n <= ckpt[d] PROVE FALSE
        <5>1. times[d][n] > 0
          BY <4>1, <1>t, <1>c, <1>9 DEF Core, InOrder, UpTo, Seg
        <5> QED BY <5>1, <2>1
      <4> QED BY <4>1, <1>9, <1>c
    <3> QED BY <3>1, <3>2, <1>9, <1>c
  <2>3. Owed(d) = 0 /\ OwedTables(d) = 0 /\ ~ Sending(d)
    BY <1>3 DEF Owed, OwedTables, At, Sending
  <2>4. Owed(d)' = k /\ OwedTables(d)' = k
    BY <1>2, <1>3, <1>4 DEF Owed, OwedTables, Sending
  <2>5. own'[d].oper + Owed(d)' = Operations(d, times[d])'
          /\ tables'[d] + OwedTables(d)' = Operations(d, times[d])'
    BY <1>3, <1>5, <1>7, <1>9, <2>3, <2>4 DEF Exact
  <2>6. Open(d)'
    BY <1>3 DEF Open, Sending
  <2>7. \A m \in Seg : m # n => times'[d][m] = times[d][m]
    BY <1>3, <1>t DEF View
  <2>8. \A m \in Seg : times'[d][m] > 0 => Finished(d, m)'
    BY <1>3, <2>6, <2>7 DEF Exact, Finished, Open, Counting
  <2>9. \A m \in Seg : times'[d][m] > 0 => m <= ckpt'[d] \/ (Sending(d)' /\ m = ckpt'[d] + 1)
    BY <1>3, <1>c, <2>2, <2>3, <2>7 DEF Exact
  <2>10. \E r \in row'[d] : r.oper = own'[d].oper /\ r.commit = ckpt'[d]
    BY <1>3 DEF Exact, Counting
  <2>11. At(d, "off")' => ~ initialized'[d]
    BY <1>3 DEF At, Sending
  <2> QED BY <1>3, <1>c, <2>2, <2>5, <2>8, <2>9, <2>10, <2>11 DEF Exact
<1> QED BY <1>t, <1>1, <1>3, <1>10, <1>11, SameStatus DEF StatusInv

\* A sum of zeros is 0.
LEMMA SumOfZeros ==
  ASSUME NEW S, IsFiniteSet(S), NEW f, \A x \in S : f[x] = 0
  PROVE  SumOf(f, S) = 0
<1> DEFINE h == [x \in S |-> 0]
           k == [T \in SUBSET S |-> 0]
<1>1. \A x \in S : f[x] = h[x] /\ f[x] \in Nat
  OBVIOUS
<1>2. \A x \in S : f[x] \in Nat
  OBVIOUS
<1>3. Sums(k, h, S)
  BY FirstIsIn DEF Sums
<1>4. PICK g : Sums(g, f, S) /\ SumOf(f, S) = g[S]
  BY <1>2, SumOfSet
<1>5. g[S] = k[S]
  <2> HIDE DEF h, k
  <2>1. S \subseteq S
    OBVIOUS
  <2> QED BY <1>1, <1>3, <1>4, <2>1, SumIsUnique
<1> QED BY <1>4, <1>5

\* Nothing is counted at the start.
LEMMA StatusInit == Init => StatusInv
<1> SUFFICES ASSUME Init PROVE StatusInv
  OBVIOUS
<1>1. CoreInv /\ TypeInv
  BY CoreInit DEF CoreInv
<1>2. ASSUME NEW d \in Device PROVE SumsInv(d) /\ Exact(d)
  <2>1. /\ pc[d] = "off" /\ sent[d] = 0 /\ left[d] = 0 /\ own[d].oper = 0 /\ tables[d] = 0
        /\ row[d] = {} /\ ~ initialized[d] /\ \A n \in Seg : times[d][n] = 0
           /\ passes[d][n] = 0 /\ opers[d][n] = 0
    BY DEF Init, Zero
  <2>2. Operations(d, times[d]) = 0 /\ Operations(d, passes[d]) = 0
    <3>1. \A n \in Seg : Taken(d, times[d])[n] = 0 /\ Taken(d, passes[d])[n] = 0
      BY <2>1 DEF Taken
    <3>2. SumOf(Taken(d, times[d]), Seg) = 0 /\ SumOf(Taken(d, passes[d]), Seg) = 0
      BY <3>1, SegIsFinite, SumOfZeros
    <3> QED BY <3>2, OperationsIsSum
  <2> QED BY <2>1, <2>2 DEF SumsInv, Exact, Owed, OwedPass, OwedTables, At, Tells, Sending
<1> QED BY <1>1, <1>2 DEF StatusInv

\* What is told stays true in each step.
LEMMA StatusStep == StatusInv /\ [Next]_vars => StatusInv'
<1> SUFFICES ASSUME StatusInv, [Next]_vars PROVE StatusInv'
  OBVIOUS
<1>1. CoreInv'
  BY CoreStep DEF StatusInv
<1>2. ASSUME NEW d \in Device, Silent(d) PROVE StatusInv'
  BY <1>1, <1>2, SilentStatus
<1>3. ASSUME NEW d \in Device, Apply(d) \/ StoreCheckpoint(d) \/ CountRow(d) \/ CountOwn(d)
               PROVE StatusInv'
  BY <1>1, <1>3, ApplyStatus, StoreCheckpointStatus, CountRowStatus, CountOwnStatus
<1>4. CASE Die
  BY <1>1, <1>4, DieStatus
<1>5. CASE UNCHANGED vars
  <2>1. \A d \in Device : Same(d) /\ SameCounts(d)
    BY <1>5 DEF vars, worker, progress, counts, history, env, Same, SameCounts
  <2>2. faults' = faults
    BY <1>5 DEF vars, env
  <2> QED BY <1>1, <2>1, <2>2, SameStatus DEF StatusInv, CoreInv
<1> QED BY <1>2, <1>3, <1>4, <1>5 DEF Next, Silent

\* It is what the property asks for each device.
LEMMA StatusTells ==
  ASSUME StatusInv, NEW d \in Device
  PROVE  LET told == SyncStatistics(d) IN
           /\ told.oper <= Operations(d, times[d]) /\ 1 .. told.commit \subseteq AppliedTo(d)
           /\ told.oper <= Operations(d, passes[d]) /\ tables[d] <= Operations(d, passes[d])
           /\ \A n \in Seg : passes[d][n] <= 1 + redo[d][n]
           /\ At(d, "idle") /\ faults = 0 =>
                /\ told.oper = Operations(d, times[d]) /\ tables[d] = Operations(d, times[d])
                /\ AppliedTo(d) = 1 .. told.commit
<1> DEFINE told == SyncStatistics(d)
<1>1. TypeInv /\ Core(d) /\ SumsInv(d) /\ (faults = 0 => Exact(d)) /\ View(d)
  BY TypesOf DEF StatusInv, CoreInv
<1>2. /\ own[d].oper \in Nat /\ sent[d] \in Nat /\ tables[d] \in Nat /\ left[d] \in Nat
         /\ ckpt[d] \in Nat
      /\ Operations(d, times[d]) \in Nat /\ Operations(d, passes[d]) \in Nat
  BY <1>1, OperationsTyped DEF TypeInv, View
<1>3. own[d].oper <= Operations(d, times[d]) /\ own[d].oper <= Operations(d, passes[d])
      /\ tables[d] <= Operations(d, passes[d])
  BY <1>1, <1>2 DEF SumsInv, Owed, OwedPass
<1>4. told.oper \in Nat /\ told.oper <= own[d].oper /\ UpTo(d, told.commit)
        /\ told.commit \in 0 .. MaxSegment
  BY <1>1, <1>2, StatisticsAssumption DEF SyncStatistics, SumsInv, Tells, NewRow, UpTo
<1>5. \A r \in row[d] : told = r
  BY <1>1 DEF SyncStatistics, SumsInv, Tells
<1> HIDE DEF told
<1>6. 1 .. told.commit \subseteq AppliedTo(d)
  <2>1. 1 .. told.commit \subseteq Seg
    BY <1>4, SegIsFinite DEF Seg
  <2> QED BY <1>4, <2>1 DEF UpTo, AppliedTo
<1>7. \A n \in Seg : passes[d][n] <= 1 + redo[d][n]
  BY <1>1 DEF Core, Passes
<1>8. ASSUME At(d, "idle"), faults = 0
      PROVE  /\ told.oper = Operations(d, times[d]) /\ tables[d] = Operations(d, times[d])
             /\ AppliedTo(d) = 1 .. told.commit
  <2>1. Exact(d) /\ ~ Sending(d) /\ Owed(d) = 0 /\ OwedTables(d) = 0
    BY <1>1, <1>8 DEF At, Sending, Owed, OwedTables
  <2>2. told.oper = own[d].oper /\ told.commit = ckpt[d]
    BY <1>5, <1>8, <2>1 DEF Exact, At, Counting
  <2>3. AppliedTo(d) \subseteq 1 .. ckpt[d]
    BY <1>2, <2>1 DEF Exact, AppliedTo, Seg
  <2>4. own[d].oper + 0 = Operations(d, times[d]) /\ tables[d] + 0 = Operations(d, times[d])
    BY <2>1 DEF Exact
  <2>5. told.oper = Operations(d, times[d]) /\ tables[d] = Operations(d, times[d])
    BY <1>2, <2>2, <2>4
  <2>6. AppliedTo(d) = 1 .. told.commit
    BY <1>6, <2>2, <2>3
  <2> QED BY <2>5, <2>6
<1>9. /\ told.oper <= Operations(d, times[d]) /\ told.oper <= Operations(d, passes[d])
  BY <1>2, <1>3, <1>4
<1> QED BY <1>3, <1>6, <1>7, <1>8, <1>9 DEF told

\* sync_statistics and the counts of the tables tell of no operation that was not sent, and of
\* none twice but for a fault between the local checkpoint of its segment and the mark, of no
\* commit before which one is missing, and of all that was applied when nothing has failed,
\* whatever the workers of other devices write to the database of the work directory.
THEOREM StatisticsAreTrue == Spec => []StatusIsTrue
<1>1. Spec => []StatusInv
  BY StatusInit, StatusStep, PTL DEF Spec
<1>2. StatusInv => StatusIsTrue
  BY StatusTells DEF StatusIsTrue
<1> QED BY <1>1, <1>2, PTL
================================================================================
