------------------------------- MODULE Regions -------------------------------
(***************************************************************************)
(* How a query splits the rows of a table between pool threads.  Every     *)
(* data query of src/src/query/data computes the same three numbers before *)
(* it submits its tasks, and every ThreadTask function the same two        *)
(* iterators; only the test for running inline differs between them.       *)
(*                                                                         *)
(* Rows are counted from 1, so the offsets head and tail of the code,      *)
(* which delimit [head, tail), delimit head + 1 .. tail here.              *)
(***************************************************************************)
EXTENDS Integers

CONSTANTS
  MinRegion,     \* MIN_THREAD_REGION_SIZE, 2000 in the code
  UIntModulus    \* 2^32: thread counts are unsigned int

ASSUME MinRegionAssumption == MinRegion \in Nat \ {0, 1}
ASSUME UIntModulusAssumption == UIntModulus \in Nat \ {0}

\* static_cast<unsigned int>(pool.get_idle_thread_num())
Unsigned(idle) == idle % UIntModulus

\* Mutant: every query tests for exactly one idle thread.
RunsInlineForOne(alone, idle, size) == size < MinRegion \/ Unsigned(idle) = 1

\* Mutant: only the size of the table decides.
RunsInlineBySize(alone, idle, size) == size < MinRegion

\* alone holds the idle counts with which the query uses no pool thread:
\* {0, 1}, or {1} in SELECT, DELETE and DUPLICATE.
RunsInline(alone, idle, size) == size < MinRegion \/ Unsigned(idle) \in alone

\* Mutant: as many tasks as regions of the least size, idle threads or not.
ThreadCountBySize(idle, size) == size \div MinRegion + 1

ThreadCount(idle, size) ==
  LET most == size \div MinRegion + 1
  IN IF Unsigned(idle) < most THEN Unsigned(idle) ELSE most

\* Undefined, a trap on the machines the code runs on, when n is 0.
RegionSize(size, n) == size \div n

RegionHead(size, n, i) == i * RegionSize(size, n)

\* Mutant: the rows that the division leaves over belong to no region.
RegionTailPlain(size, n, i) == RegionHead(size, n, i) + RegionSize(size, n)

\* Mutant: a region ends with the first row of the next.
RegionTailPast(size, n, i) ==
  IF i = n - 1 THEN size ELSE RegionHead(size, n, i) + RegionSize(size, n) + 1

\* The last region also takes the rows that the division leaves over.
RegionTail(size, n, i) ==
  IF i = n - 1 THEN size ELSE RegionHead(size, n, i) + RegionSize(size, n)

Region(size, n, i) == RegionHead(size, n, i) + 1 .. RegionTail(size, n, i)

-----------------------------------------------------------------------------
(* What a split into n regions has to satisfy.                             *)

Covers(size, n) ==
  \A row \in 1..size : \E i \in 0..n-1 : row \in Region(size, n, i)

Disjoint(size, n) ==
  \A i, j \in 0..n-1 :
    i # j => Region(size, n, i) \cap Region(size, n, j) = {}

Inside(size, n) ==
  \A i \in 0..n-1 : Region(size, n, i) \subseteq 1..size

NoneEmpty(size, n) ==
  \A i \in 0..n-1 : Region(size, n, i) # {}
=============================================================================
