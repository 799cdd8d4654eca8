--------------------------- MODULE LogSegmentsProofs ---------------------------
(***************************************************************************)
(* What both devices rest on: the helpers of CommandLog and LogSegments,    *)
(* for every segment and every device home.  A finite set of rows has a     *)
(* highest commit id and a highest change number; a device home in which    *)
(* at most one file is being written, with nothing above it, is taken up    *)
(* again by open without losing a row; the writer only adds rows, and only  *)
(* to the file it has open.                                                *)
(***************************************************************************)
EXTENDS LogSegments, FiniteSetTheorems, WellFoundedInduction, TLAPS

(***************************************************************************)
(* A function on a finite set that is not empty takes a largest value.  The *)
(* argument is on a smallest subset that would have none.                  *)
(***************************************************************************)
LEMMA FiniteArgMax ==
  ASSUME NEW S, IsFiniteSet(S), S # {}, NEW f \in [S -> Int]
  PROVE  \E x \in S : \A y \in S : f[y] <= f[x]
<1> DEFINE HasMax(T) == \E x \in T : \A y \in T : f[y] <= f[x]
           Bad == { T \in SUBSET S : T # {} /\ ~ HasMax(T) }
<1>1. SUFFICES ASSUME Bad # {} PROVE FALSE
  OBVIOUS
<1>2. IsWellFoundedOn(StrictSubsetOrdering(S), SUBSET S)
  BY FS_StrictSubsetOrderingWellFounded, FS_FiniteSubsetsOfFinite
<1>3. PICK T \in Bad : \A U \in Bad : <<U, T>> \notin StrictSubsetOrdering(S)
  <2>1. Bad \subseteq SUBSET S
    OBVIOUS
  <2> HIDE DEF Bad
  <2>2. \E T \in Bad : \A U \in Bad : ~ (<<U, T>> \in StrictSubsetOrdering(S))
    BY <1>1, <1>2, <2>1, WFMin
  <2> QED BY <2>2
<1>4. PICK x \in T : TRUE
  OBVIOUS
<1> DEFINE U == T \ {x}
<1>5. U \notin Bad
  <2>1. U \subseteq T /\ U # T /\ U \in SUBSET S /\ T \in SUBSET S
    BY <1>4
  <2>2. <<U, T>> \in StrictSubsetOrdering(S)
    BY <2>1 DEF StrictSubsetOrdering
  <2> QED BY <1>3, <2>2
<1>6. CASE U = {}
  <2>1. T = {x}
    BY <1>4, <1>6
  <2>2. f[x] \in Int
    BY <1>4
  <2>3. HasMax(T)
    BY <2>1, <2>2
  <2> QED BY <2>3
<1>7. CASE U # {}
  <2>1. HasMax(U)
    BY <1>5, <1>7
  <2>2. PICK m \in U : \A y \in U : f[y] <= f[m]
    BY <2>1
  <2>3. \A y \in T : f[y] \in Int
    OBVIOUS
  <2>4. T = U \union {x}
    BY <1>4
  <2>5. CASE f[x] <= f[m]
    <3>1. \A y \in T : f[y] <= f[m]
      BY <2>2, <2>4, <2>5
    <3>2. m \in T
      BY <2>2
    <3>3. HasMax(T)
      BY <3>1, <3>2
    <3> QED BY <3>3
  <2>6. CASE f[m] < f[x]
    <3>1. \A y \in T : f[y] <= f[x]
      BY <2>2, <2>3, <2>4, <2>6
    <3>2. HasMax(T)
      BY <3>1, <1>4
    <3> QED BY <3>2
  <2> QED BY <2>3, <2>4, <2>2, <2>5, <2>6
<1> QED BY <1>6, <1>7

\* A segment with rows has a row under LastCommitId, and none above.
LEMMA LastCommitIdIsMax ==
  ASSUME NEW rows \in SUBSET Row, IsFiniteSet(rows), rows # {}
  PROVE  /\ \E r \in rows : r.cid = LastCommitId(rows)
         /\ \A r \in rows : r.cid <= LastCommitId(rows)
<1> DEFINE f == [r \in rows |-> r.cid]
<1>1. f \in [rows -> Int]
  BY DEF Row
<1>2. PICK x \in rows : \A y \in rows : f[y] <= f[x]
  BY <1>1, FiniteArgMax
<1>3. x.cid \in CommitIds(rows) /\ \A d \in CommitIds(rows) : d <= x.cid
  BY <1>2 DEF CommitIds
<1>4. /\ LastCommitId(rows) \in CommitIds(rows)
      /\ \A d \in CommitIds(rows) : d <= LastCommitId(rows)
  BY <1>3 DEF LastCommitId
<1> QED BY <1>4 DEF CommitIds

\* LastCommitId is a natural number, 0 when there is no row.
LEMMA LastCommitIdType ==
  ASSUME NEW rows \in SUBSET Row, IsFiniteSet(rows)
  PROVE  LastCommitId(rows) \in Nat
<1>1. CASE rows = {}
  BY <1>1 DEF LastCommitId
<1>2. CASE rows # {}
  <2>1. PICK r \in rows : r.cid = LastCommitId(rows)
    BY <1>2, LastCommitIdIsMax
  <2> QED BY <2>1 DEF Row
<1> QED BY <1>1, <1>2

\* A writer that opens a segment continues with a change number no row has.
LEMMA NextChangeNumberFresh ==
  ASSUME NEW rows \in SUBSET Row, IsFiniteSet(rows)
  PROVE  /\ NextChangeNumber(rows) \in Nat
         /\ \A r \in rows : r.num < NextChangeNumber(rows)
<1>1. CASE rows = {}
  BY <1>1 DEF NextChangeNumber
<1>2. CASE rows # {}
  <2> DEFINE f == [r \in rows |-> r.num]
             nums == { r.num : r \in rows }
             max == CHOOSE n \in nums : \A r \in rows : r.num <= n
  <2>1. f \in [rows -> Int]
    BY DEF Row
  <2>2. PICK x \in rows : \A y \in rows : f[y] <= f[x]
    BY <1>2, <2>1, FiniteArgMax
  <2>3. x.num \in nums /\ \A r \in rows : r.num <= x.num
    BY <2>2
  <2>4. max \in nums /\ \A r \in rows : r.num <= max
    BY <2>3
  <2>5. max \in Nat
    BY <2>4 DEF Row
  <2>6. \A r \in rows : r.num \in Nat
    BY DEF Row
  <2>7. NextChangeNumber(rows) = 1 + max
    BY <1>2 DEF NextChangeNumber
  <2> HIDE DEF max
  <2> QED BY <2>4, <2>5, <2>6, <2>7
<1> QED BY <1>1, <1>2

--------------------------------------------------------------------------------
(* The device home                                                             *)

\* A file that is new or half created is the highest one; files without a status
\* row hold nothing.
HomeShape ==
  \A n \in Seg :
    /\ home[n].status \in {"absent", "half"} => home[n].rows = {}
    /\ home[n].status \in {"half", "NEW"} =>
         \A m \in Seg : m > n => home[m].status = "absent"

LogShape ==
  /\ home \in [Seg -> Segment] /\ buf \in SUBSET Row
  /\ cur \in Seg /\ persisted \in -1 .. MaxSegment
  /\ \A n \in Seg : IsFiniteSet(home[n].rows)
  /\ IsFiniteSet(buf)
  /\ HomeShape

--------------------------------------------------------------------------------
(* The writer                                                                  *)

\* The effect of one append or flush: rows move from buf to home[cur], none is
\* lost and no file changes its status.
WriterStep ==
  /\ home' \in [Seg -> Segment] /\ buf' \in SUBSET Row
  /\ \A n \in Seg : home'[n].status = home[n].status
  /\ \A n \in Seg : n # cur => home'[n] = home[n]
  /\ home[cur].rows \subseteq home'[cur].rows
  /\ \A n \in Seg : IsFiniteSet(home'[n].rows)
  /\ IsFiniteSet(buf')

\* The step added the rows new to the log, and no others.
Logged(new) == home'[cur].rows \union buf' = home[cur].rows \union buf \union new

LEMMA WithRowsEffect ==
  ASSUME LogShape, NEW STATE rows, rows \in SUBSET Row, IsFiniteSet(rows),
         home' = WithRows(home, cur, rows)
  PROVE  /\ home' \in [Seg -> Segment]
         /\ \A n \in Seg : home'[n].status = home[n].status
         /\ \A n \in Seg : n # cur => home'[n] = home[n]
         /\ home'[cur].rows = home[cur].rows \union rows
         /\ \A n \in Seg : IsFiniteSet(home'[n].rows)
<1>1. cur \in Seg /\ home \in [Seg -> Segment]
  BY DEF LogShape
<1>2. home' = [home EXCEPT ![cur].rows = home[cur].rows \union rows]
  BY DEF WithRows
<1>3. \A n \in Seg : home'[n].status = home[n].status
  BY <1>1, <1>2 DEF Segment
<1>4. \A n \in Seg : n # cur => home'[n] = home[n]
  BY <1>1, <1>2
<1>5. home'[cur].rows = home[cur].rows \union rows
  BY <1>1, <1>2 DEF Segment
<1>6. home' \in [Seg -> Segment]
  BY <1>1, <1>2 DEF Segment
<1>7. \A n \in Seg : IsFiniteSet(home'[n].rows)
  <2>1. IsFiniteSet(home[cur].rows \union rows)
    BY <1>1, FS_Union DEF LogShape
  <2> QED BY <1>4, <1>5, <2>1 DEF LogShape
<1> QED BY <1>3, <1>4, <1>5, <1>6, <1>7

LEMMA FlushLogs ==
  ASSUME LogShape, Flush
  PROVE  WriterStep /\ Logged({}) /\ buf' = {}
<1>1. home' = WithRows(home, cur, buf) /\ buf' = {}
  BY DEF Flush
<1>2. buf \in SUBSET Row /\ IsFiniteSet(buf)
  BY DEF LogShape
<1> HIDE DEF LogShape
<1> QED BY <1>1, <1>2, WithRowsEffect, FS_EmptySet DEF WriterStep, Logged

LEMMA AppendLogs ==
  ASSUME LogShape, NEW STATE r, r \in Row, AppendRow(r)
  PROVE  WriterStep /\ Logged({r})
<1> DEFINE pending == buf \union {r}
<1>1. pending \in SUBSET Row /\ IsFiniteSet(pending)
  BY FS_AddElement DEF LogShape
<1>2. CASE Cardinality(pending) >= FlushBatch
  <2>1. home' = WithRows(home, cur, pending) /\ buf' = {}
    BY <1>2 DEF AppendRow
  <2> HIDE DEF pending
  <2>2. /\ home' \in [Seg -> Segment]
        /\ \A n \in Seg : home'[n].status = home[n].status
        /\ \A n \in Seg : n # cur => home'[n] = home[n]
        /\ home'[cur].rows = home[cur].rows \union pending
        /\ \A n \in Seg : IsFiniteSet(home'[n].rows)
    BY <1>1, <2>1, WithRowsEffect
  <2> QED BY <2>1, <2>2, FS_EmptySet DEF WriterStep, Logged, pending
<1>3. CASE ~ (Cardinality(pending) >= FlushBatch)
  <2>1. buf' = pending /\ home' = home
    BY <1>3 DEF AppendRow
  <2> QED BY <1>1, <2>1 DEF WriterStep, Logged, LogShape
<1> QED BY <1>2, <1>3

--------------------------------------------------------------------------------
(* The segments on disk                                                        *)

\* Highest returns the largest member of a set of segment numbers.
LEMMA HighestIsMax ==
  ASSUME NEW S \in SUBSET Seg, S # {}
  PROVE  Highest(S) \in S /\ \A m \in S : m <= Highest(S)
<1> DEFINE f == [n \in S |-> n]
<1>1. IsFiniteSet(S)
  <2>1. IsFiniteSet(0 .. MaxSegment)
    BY FS_Interval, MaxSegmentAssumption
  <2>2. S \in SUBSET (0 .. MaxSegment)
    BY DEF Seg
  <2> QED BY <2>1, <2>2, FS_Subset
<1>2. f \in [S -> Int]
  BY MaxSegmentAssumption DEF Seg
<1>3. PICK x \in S : \A y \in S : f[y] <= f[x]
  BY <1>1, <1>2, FiniteArgMax
<1>4. x \in S /\ \A y \in S : y <= x
  BY <1>3
<1> QED BY <1>4 DEF Highest

\* Sweeping removes half-created files and nothing that holds rows.
LEMMA ResolvedShape ==
  ASSUME LogShape
  PROVE  /\ Resolved \in [Seg -> Segment]
         /\ \A n \in Seg : /\ Resolved[n].rows = home[n].rows
                           /\ Resolved[n] \in {home[n], NoFile}
                           /\ Resolved[n].status # "half"
                           /\ home[n].status = "half" => Resolved[n] = NoFile
                           /\ home[n].status # "half" => Resolved[n] = home[n]
<1>1. home \in [Seg -> Segment]
  BY DEF LogShape
<1>2. NoFile \in Segment
  BY DEF NoFile, Segment, Status
<1>3. CASE PersistedIsWritable
  <2>1. Resolved = home
    BY <1>3 DEF Resolved
  <2>2. \A n \in Seg : home[n].status # "half"
    <3>1. persisted \in Seg /\ home[persisted].status = "NEW"
      BY <1>3 DEF PersistedIsWritable, Writable
    <3>2. SUFFICES ASSUME NEW n \in Seg, home[n].status = "half" PROVE FALSE
      OBVIOUS
    <3>3. n < persisted \/ persisted < n \/ n = persisted
      BY <3>1, MaxSegmentAssumption DEF Seg
    <3> QED BY <3>1, <3>2, <3>3 DEF LogShape, HomeShape
  <2> QED BY <1>1, <2>1, <2>2
<1>4. CASE ~ PersistedIsWritable
  <2>1. Resolved = [n \in Seg |-> IF home[n].status = "half" THEN NoFile ELSE home[n]]
    BY <1>4 DEF Resolved, Sweep
  <2>2. \A n \in Seg : home[n].status = "half" => home[n].rows = {}
    BY DEF LogShape, HomeShape
  <2> QED BY <1>1, <1>2, <2>1, <2>2 DEF NoFile
<1> QED BY <1>3, <1>4

\* A slot with nothing on disk from it upwards is claimed as it is.
LEMMA ClaimOfFreeSlot ==
  ASSUME NEW h \in [Seg -> Segment], NEW s \in Seg,
         \A n \in Seg : n >= s => h[n].status = "absent",
         \A n \in Seg : h[n].status = "absent" => h[n].rows = {}
  PROVE  FreeSlot(h, s) = s /\ Claimed(h, s) = h
<1>1. s \in Nat /\ MaxSegment \in Nat /\ s <= MaxSegment
  BY MaxSegmentAssumption DEF Seg
<1>2. FreeSlot(h, s) = s
  <2>1. s \in s .. MaxSegment /\ h[s].rows = {} /\ \A j \in s .. (s - 1) : h[j].rows # {}
    BY <1>1 DEF Seg
  <2>2. ASSUME NEW k \in s .. MaxSegment,
               \A j \in s .. (k - 1) : h[j].rows # {}
        PROVE  k = s
    <3>1. CASE k # s
      <4>1. s \in s .. (k - 1)
        BY <1>1, <3>1
      <4> QED BY <2>1, <2>2, <4>1
    <3> QED BY <3>1
  <2> QED BY <2>1, <2>2 DEF FreeSlot
<1>3. Claimed(h, s) = [n \in Seg |-> IF n = s THEN NoFile
          ELSE IF n \in s .. (s - 1) THEN [h[n] EXCEPT !.status = "READY"] ELSE h[n]]
  BY <1>2 DEF Claimed
<1>4. h[s] = NoFile
  <2>1. h[s] \in Segment /\ h[s].status = "absent" /\ h[s].rows = {}
    BY <1>1
  <2> QED BY <2>1 DEF Segment, NoFile
<1>5. \A n \in Seg : n \notin s .. (s - 1)
  BY <1>1 DEF Seg
<1>6. Claimed(h, s) = [n \in Seg |-> h[n]]
  BY <1>3, <1>4, <1>5
<1> QED BY <1>2, <1>6

\* Nothing on disk lies at or above the next segment number.
LEMMA NextSegmentIsFree ==
  ASSUME LogShape, NEW n \in Seg, n >= NextSegment(Resolved)
  PROVE  Resolved[n].status = "absent"
<1>1. SUFFICES ASSUME Resolved[n].status # "absent" PROVE FALSE
  OBVIOUS
<1> DEFINE S == OnDisk(Resolved)
<1>2. n \in S /\ S \in SUBSET Seg
  BY <1>1 DEF OnDisk
<1>3. Highest(S) \in S /\ n <= Highest(S)
  BY <1>2, HighestIsMax
<1>4. NextSegment(Resolved) >= Highest(S) + 1
  <2>1. persisted \in Int /\ Highest(S) \in Int
    BY <1>2, <1>3, MaxSegmentAssumption DEF LogShape, Seg
  <2> QED BY <2>1 DEF NextSegment
<1>5. NextSegment(Resolved) \in Int
  <2>1. persisted \in Int /\ Highest(S) \in Int
    BY <1>2, <1>3, MaxSegmentAssumption DEF LogShape, Seg
  <2> QED BY <2>1 DEF NextSegment
<1> QED BY <1>2, <1>3, <1>4, <1>5, MaxSegmentAssumption DEF Seg

\* The scan of the device home yields a commit id, 0 for none.
LEMMA ScanTyped ==
  ASSUME LogShape
  PROVE  ScanMaxCommitId \in Nat
<1> DEFINE top == Highest(OnDisk(Resolved))
<1>1. CASE OnDisk(Resolved) = {}
  BY <1>1 DEF ScanMaxCommitId, Highest
<1>2. CASE OnDisk(Resolved) # {}
  <2>1. OnDisk(Resolved) \in SUBSET Seg
    BY DEF OnDisk
  <2>2. top \in Seg
    BY <1>2, <2>1, HighestIsMax
  <2>3. Resolved[top].rows \in SUBSET Row /\ IsFiniteSet(Resolved[top].rows)
    BY <2>2, ResolvedShape DEF LogShape, Segment
  <2>4. LastCommitId(Resolved[top].rows) \in Nat
    BY <2>3, LastCommitIdType
  <2> QED BY <2>4 DEF ScanMaxCommitId
<1> QED BY <1>1, <1>2


\* A step of the writer keeps every file what it was.
LEMMA WriterKeepsShape ==
  ASSUME LogShape, WriterStep,
         home[cur].status = "NEW"
  PROVE  HomeShape'
BY DEF LogShape, HomeShape, WriterStep, Seg

================================================================================
