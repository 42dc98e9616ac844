---------------------------- MODULE RegionsProofs ----------------------------
(***************************************************************************)
(* The split of a table into regions is exact for every table size and     *)
(* every number of tasks, and no decision to run in the pool asks for too  *)
(* many.  The queries that compute and use the regions are model checked   *)
(* in QueryExecution.                                                      *)
(***************************************************************************)
EXTENDS Regions, TLAPS

\* The division of the code is the one of the integers here.
LEMMA DivisionBounds ==
  ASSUME NEW rows \in Nat, NEW n \in Nat \ {0}
  PROVE  /\ RegionSize(rows, n) \in Nat
         /\ n * RegionSize(rows, n) <= rows
         /\ rows < n * RegionSize(rows, n) + n
BY DEF RegionSize

\* Regions before the last begin where the one before them ends.
LEMMA HeadsIncrease ==
  ASSUME NEW r \in Nat, NEW i \in Nat, NEW j \in Nat, i < j
  PROVE  i * r + r <= j * r
<1>1. PICK d \in Nat : j = i + 1 + d
  BY j - i - 1 \in Nat
<1>2. j * r = i * r + r + d * r
  BY <1>1
<1>3. d * r \in Nat
  OBVIOUS
<1> QED BY <1>2, <1>3

(***************************************************************************)
(* No row is given to two tasks.                                           *)
(***************************************************************************)
THEOREM RegionsDisjoint ==
  ASSUME NEW rows \in Nat, NEW n \in Nat \ {0}
  PROVE  Disjoint(rows, n)
<1> DEFINE r == RegionSize(rows, n)
<1>1. r \in Nat /\ n * r <= rows
  BY DivisionBounds
<1> HIDE DEF r
<1>2. ASSUME NEW i \in 0..n-1, NEW j \in 0..n-1, i < j
      PROVE  Region(rows, n, i) \cap Region(rows, n, j) = {}
  <2>1. i * r \in Nat /\ j * r \in Nat /\ i * r + r <= j * r
    BY <1>1, <1>2, HeadsIncrease
  <2>2. Region(rows, n, i) = i * r + 1 .. i * r + r
    BY <1>1, <1>2 DEF Region, RegionHead, RegionTail, r
  <2>3. \A row \in Region(rows, n, j) : row > j * r
    BY <1>1, <2>1 DEF Region, RegionHead, RegionTail, r
  <2> QED BY <1>1, <2>1, <2>2, <2>3
<1> QED
  <2> SUFFICES ASSUME NEW i \in 0..n-1, NEW j \in 0..n-1, i # j
               PROVE  Region(rows, n, i) \cap Region(rows, n, j) = {}
    BY DEF Disjoint
  <2>1. CASE i < j
    BY <2>1, <1>2
  <2>2. CASE j < i
    BY <2>2, <1>2
  <2> QED BY <2>1, <2>2

(***************************************************************************)
(* No task leaves the table.                                               *)
(***************************************************************************)
THEOREM RegionsInside ==
  ASSUME NEW rows \in Nat, NEW n \in Nat \ {0}
  PROVE  Inside(rows, n)
<1> DEFINE r == RegionSize(rows, n)
<1>1. r \in Nat /\ n * r <= rows
  BY DivisionBounds
<1> HIDE DEF r
<1> SUFFICES ASSUME NEW i \in 0..n-1
             PROVE  Region(rows, n, i) \subseteq 1..rows
  BY DEF Inside
<1>2. i * r \in Nat /\ i * r + r <= n * r
  BY <1>1, HeadsIncrease
<1>3. n * r \in Nat
  BY <1>1
<1> QED BY <1>1, <1>2, <1>3 DEF Region, RegionHead, RegionTail, r

(***************************************************************************)
(* Every row is given to a task: the division sends a row to the region of *)
(* its quotient, and what the division leaves over to the last region.     *)
(***************************************************************************)
THEOREM RegionsCover ==
  ASSUME NEW rows \in Nat, NEW n \in Nat \ {0}, RegionSize(rows, n) # 0
  PROVE  Covers(rows, n)
<1> DEFINE r == RegionSize(rows, n)
<1>1. r \in Nat \ {0} /\ n * r <= rows
  BY DivisionBounds
<1> HIDE DEF r
<1> SUFFICES ASSUME NEW row \in 1..rows
             PROVE  \E i \in 0..n-1 : row \in Region(rows, n, i)
  BY DEF Covers
<1>2. CASE row > (n - 1) * r
  <2>1. (n - 1) * r \in Nat
    BY <1>1
  <2>2. row \in Region(rows, n, n - 1)
    BY <1>1, <1>2, <2>1 DEF Region, RegionHead, RegionTail, r
  <2> QED BY <2>2
<1>3. CASE row <= (n - 1) * r
  <2> DEFINE i == (row - 1) \div r
  <2>1. i \in Nat /\ i * r <= row - 1 /\ row - 1 < i * r + r
    BY <1>1
  <2>2. i < n - 1
    <3> SUFFICES ASSUME n - 1 <= i
                 PROVE  FALSE
      BY <2>1
    <3>1. (n - 1) * r <= i * r
      BY <1>1, <2>1, HeadsIncrease, n - 1 = i \/ n - 1 < i
    <3>2. (n - 1) * r \in Nat /\ i * r \in Nat
      BY <1>1, <2>1
    <3> QED BY <1>3, <2>1, <3>1, <3>2
  <2> HIDE DEF i
  <2>3. row \in Region(rows, n, i)
    BY <1>1, <2>1, <2>2 DEF Region, RegionHead, RegionTail, r
  <2> QED BY <2>1, <2>2, <2>3
<1> QED
  <2> (n - 1) * r \in Nat
    BY <1>1
  <2> QED BY <1>2, <1>3

(***************************************************************************)
(* No task is submitted for nothing when every region has a row.           *)
(***************************************************************************)
THEOREM RegionsNonEmpty ==
  ASSUME NEW rows \in Nat, NEW n \in Nat \ {0}, RegionSize(rows, n) # 0
  PROVE  NoneEmpty(rows, n)
<1> DEFINE r == RegionSize(rows, n)
<1>1. r \in Nat \ {0} /\ n * r <= rows
  BY DivisionBounds
<1> HIDE DEF r
<1> SUFFICES ASSUME NEW i \in 0..n-1
             PROVE  Region(rows, n, i) # {}
  BY DEF NoneEmpty
<1>2. i * r \in Nat /\ i * r + r <= n * r
  BY <1>1, HeadsIncrease
<1>3. n * r \in Nat
  BY <1>1
<1>4. i * r + 1 \in Region(rows, n, i)
  BY <1>1, <1>2, <1>3 DEF Region, RegionHead, RegionTail, r
<1> QED BY <1>4

-----------------------------------------------------------------------------
\* A query that runs in the pool never submits more tasks than there are rows.
LEMMA CountBelowSize ==
  ASSUME NEW o, NEW d \in Int, NEW s \in Nat, ~RunsInline(o, d, s)
  PROVE  /\ Unsigned(d) \in Nat
         /\ ThreadCount(d, s) \in Nat
         /\ ThreadCount(d, s) <= Unsigned(d)
         /\ ThreadCount(d, s) <= s
<1>1. Unsigned(d) \in Nat
  BY UIntModulusAssumption DEF Unsigned
<1>2. s >= MinRegion /\ s \in Nat /\ MinRegion \in Nat /\ MinRegion >= 2
  BY MinRegionAssumption DEF RunsInline
<1> DEFINE parts == s \div MinRegion
<1>3. parts \in Nat /\ parts * MinRegion <= s /\ parts * 2 <= parts * MinRegion
  <2>1. parts \in Nat /\ parts * MinRegion <= s
    BY <1>2
  <2> HIDE DEF parts
  <2>2. parts * 2 <= parts * MinRegion
    BY <1>2, <2>1
  <2> QED BY <2>1, <2>2
<1> HIDE DEF parts
<1>4. parts * MinRegion \in Nat
  BY <1>2, <1>3
<1>5. parts + 1 \in Nat /\ parts + 1 <= s
  BY <1>2, <1>3, <1>4
<1> QED BY <1>1, <1>2, <1>5 DEF ThreadCount, parts

\* Dividing the rows among no more tasks than rows leaves none without.
LEMMA SomeRowsEach ==
  ASSUME NEW rows \in Nat, NEW n \in Nat \ {0}, n <= rows
  PROVE  RegionSize(rows, n) # 0
<1>1. CASE RegionSize(rows, n) = 0
  <2>1. n * RegionSize(rows, n) = 0
    BY <1>1
  <2> QED BY <2>1, DivisionBounds
<1> QED BY <1>1

(***************************************************************************)
(* Whatever idle count a query reads and however many rows the table has,  *)
(* a decision for the pool splits the rows exactly, if its count is not 0: *)
(* every row goes to one task, no task leaves the table, and none is       *)
(* submitted for nothing.                                                  *)
(***************************************************************************)
THEOREM SplitsAreExact ==
  ASSUME NEW alone, NEW idle \in Int, NEW size \in Nat,
         ~RunsInline(alone, idle, size), ThreadCount(idle, size) # 0
  PROVE  LET n == ThreadCount(idle, size)
         IN Covers(size, n) /\ Disjoint(size, n) /\ Inside(size, n) /\ NoneEmpty(size, n)
<1> DEFINE n == ThreadCount(idle, size)
<1>1. n \in Nat \ {0} /\ n <= size
  BY CountBelowSize
<1> HIDE DEF n
<1>2. RegionSize(size, n) # 0
  BY <1>1, SomeRowsEach
<1>3. Covers(size, n) /\ NoneEmpty(size, n)
  BY <1>1, <1>2, RegionsCover, RegionsNonEmpty
<1>4. Disjoint(size, n) /\ Inside(size, n)
  BY <1>1, RegionsDisjoint, RegionsInside
<1> QED BY <1>3, <1>4 DEF n

(***************************************************************************)
(* The queries that also run inline when no thread is idle never divide by *)
(* zero, and submit no more tasks than they counted idle threads.          *)
(***************************************************************************)
THEOREM BatchesFit ==
  ASSUME NEW idle \in Int, NEW size \in Nat, ~RunsInline({0, 1}, idle, size)
  PROVE  /\ ThreadCount(idle, size) > 1
         /\ idle >= 0 => ThreadCount(idle, size) <= idle
<1>1. Unsigned(idle) \in Nat \ {0, 1}
  BY CountBelowSize DEF RunsInline
<1>2. size \div MinRegion >= 1
  BY MinRegionAssumption DEF RunsInline
<1>3. size \div MinRegion \in Nat
  BY MinRegionAssumption
<1>4. ThreadCount(idle, size) > 1
  BY <1>1, <1>2, <1>3 DEF ThreadCount
<1>5. idle >= 0 => Unsigned(idle) <= idle
  BY UIntModulusAssumption DEF Unsigned
<1>6. ThreadCount(idle, size) \in Nat /\ ThreadCount(idle, size) <= Unsigned(idle)
  BY CountBelowSize
<1> QED BY <1>1, <1>4, <1>5, <1>6
=============================================================================
