------------------------------- MODULE Queries -------------------------------
(***************************************************************************)
(* What a data query does to one row, and what one of its conditions says  *)
(* of a row: src/src/query/Query.cpp and the bodies of the row loops of    *)
(* src/src/query/data.  Each loop occurs twice in the code, in execute for *)
(* one thread and in the ThreadTask function for the pool; both visit rows *)
(* as defined here.                                                        *)
(*                                                                         *)
(* A query is a record                                                     *)
(*   op      the operation; "UPDATE_KEY" is UPDATE with the operand KEY    *)
(*   where   the sequence of its conditions [field, cmp, value]            *)
(*   fields  the fields its operands name; <<KEY>> for INSERT of a row     *)
(*   arg     the last operand of UPDATE, the key and values of INSERT      *)
(* Fields are numbered from 1; a number above FieldCount stands for a name *)
(* the table does not have, and 0 for KEY, a field of conditions only.     *)
(***************************************************************************)
EXTENDS TableOps, SequencesExt

CONSTANTS
  FieldCount,   \* the table's fields besides KEY
  IntLimit      \* 2^31: values are int

ASSUME FieldCountAssumption == FieldCount \in Nat
ASSUME IntLimitAssumption == IntLimit \in Nat \ {0}

IntMin == -IntLimit
IntMax == IntLimit - 1

\* Additions of int wrap around on the machines the code runs on.
Wrap(x) == ((x + IntLimit) % (2 * IntLimit)) - IntLimit

Add(x, y) == Wrap(x + y)
Total(s) == FoldLeft(Add, 0, s)

Fields == 1..FieldCount

-----------------------------------------------------------------------------
(* Conditions.                                                             *)

KEY == 0
OnKey(cond) == cond.field = KEY

Compare(x, cmp, y) ==
  CASE cmp = ">"  -> x > y
    [] cmp = "<"  -> x < y
    [] cmp = "="  -> x = y
    [] cmp = ">=" -> x >= y
    [] cmp = "<=" -> x <= y

\* What initCondition throws at.
IllFormed(cond) ==
  IF OnKey(cond) THEN cond.cmp # "="
  ELSE \/ cond.field \notin Fields
       \/ cond.cmp \notin {">", "<", "=", ">=", "<="}

\* Condition i asks for another key than the first condition on KEY.
Conflicts(q, i) ==
  /\ OnKey(q.where[i])
  /\ \E j \in 1..i-1 :
       /\ OnKey(q.where[j]) /\ \A k \in 1..j-1 : ~OnKey(q.where[k])
       /\ q.where[j].value # q.where[i].value

\* initCondition stops at the first conflict, so it does not look at what
\* follows; its flag is then false.
InitConditionRaises(q) ==
  \E i \in DOMAIN q.where :
    IllFormed(q.where[i]) /\ \A j \in 1..i-1 : ~Conflicts(q, j)

AlwaysFalse(q) == \E i \in DOMAIN q.where : Conflicts(q, i)

Holds(cond, row) ==
  IF OnKey(cond) THEN row.key = cond.value
  ELSE Compare(row.vals[cond.field], cond.cmp, cond.value)

\* INSERT stores as many values as it is given, so a row may be too short
\* for a field; && does not evaluate what follows a false condition.
EvalConditionRaises(q, row) ==
  \E i \in DOMAIN q.where :
    /\ ~OnKey(q.where[i]) /\ q.where[i].field > Len(row.vals)
    /\ \A j \in 1..i-1 : Holds(q.where[j], row)

EvalCondition(q, row) == \A i \in DOMAIN q.where : Holds(q.where[i], row)

-----------------------------------------------------------------------------
(* The queries: one record for every execute.                              *)
(*   accepts  how many operand fields it takes                             *)
(*   lookup   whether it looks them up before the first row, in every row  *)
(*            that matches, or never                                       *)
(*   alone    with how many idle threads it visits the rows itself         *)
(*   rest     what it does with the collected keys after visiting the rows *)
(*            itself ("inline") and after its tasks ("await")              *)

Nothing == [inline |-> "none", await |-> "none"]

Looping(accepts, lookup) ==
  [accepts |-> accepts, lookup |-> lookup, alone |-> {0, 1}, rest |-> Nothing]

\* SELECT, DELETE and DUPLICATE take any operands, and test for one thread.
Collecting(lookup, rest) ==
  [accepts |-> Nat, lookup |-> lookup, alone |-> {1}, rest |-> rest]

AddExecute == Looping(Nat \ {0, 1}, "first")
SubExecute == Looping(Nat \ {0, 1}, "first")
SwapExecute == Looping({2}, "first")
UpdateExecute == Looping({1}, "first")
UpdateKeyExecute == Looping({0}, "never")
InsertExecute == Looping(Nat \ {0}, "never")
CountExecute == Looping(Nat, "never")
SumExecute == Looping(Nat \ {0}, "rows")
MaxExecute == Looping(Nat \ {0}, "rows")
MinExecute == Looping(Nat \ {0}, "rows")
SelectExecute == Collecting("first", Nothing)
DeleteExecute == Collecting("never", [inline |-> "none", await |-> "delete"])
DuplicateExecute == Collecting("never", [inline |-> "copy", await |-> "copy"])

Operations == {"ADD", "SUB", "SWAP", "UPDATE", "UPDATE_KEY", "INSERT", "COUNT",
               "SUM", "MAX", "MIN", "SELECT", "DELETE", "DUPLICATE"}

Execution(op) ==
  CASE op = "ADD" -> AddExecute
    [] op = "SUB" -> SubExecute
    [] op = "SWAP" -> SwapExecute
    [] op = "UPDATE" -> UpdateExecute
    [] op = "UPDATE_KEY" -> UpdateKeyExecute
    [] op = "INSERT" -> InsertExecute
    [] op = "COUNT" -> CountExecute
    [] op = "SUM" -> SumExecute
    [] op = "MAX" -> MaxExecute
    [] op = "MIN" -> MinExecute
    [] op = "SELECT" -> SelectExecute
    [] op = "DELETE" -> DeleteExecute
    [] op = "DUPLICATE" -> DuplicateExecute

\* The query returns an error without visiting a row.  INSERT has no use for
\* conditions and never looks at those it is given.
Refused(q) ==
  \/ Len(q.fields) \notin Execution(q.op).accepts
  \/ Execution(q.op).lookup = "first" /\ ~(ToSet(q.fields) \subseteq Fields)
  \/ q.op # "INSERT" /\ InitConditionRaises(q)

VisitRaises(q, row) ==
  \/ EvalConditionRaises(q, row)
  \/ /\ ~EvalConditionRaises(q, row) /\ EvalCondition(q, row)
     /\ Execution(q.op).lookup # "never"
     /\ ~(ToSet(q.fields) \subseteq Fields \cap DOMAIN row.vals)

-----------------------------------------------------------------------------
(* What a query does to a matching row.                                    *)

\* The values of the operand fields.
At(q, vals) == [i \in DOMAIN q.fields |-> vals[q.fields[i]]]

AddRow(q, vals) == [vals EXCEPT ![Last(q.fields)] = Total(Front(At(q, vals)))]

SubRow(q, vals) ==
  [vals EXCEPT ![Last(q.fields)] =
     Wrap(At(q, vals)[1] - Total(Tail(Front(At(q, vals)))))]

SwapRow(q, vals) ==
  [vals EXCEPT ![q.fields[1]] = vals[q.fields[2]],
               ![q.fields[2]] = vals[q.fields[1]]]

UpdateRow(q, vals) == [vals EXCEPT ![q.fields[1]] = q.arg]

FieldOps == {"ADD", "SUB", "SWAP", "UPDATE"}

NewVals(q, vals) ==
  CASE q.op = "ADD" -> AddRow(q, vals)
    [] q.op = "SUB" -> SubRow(q, vals)
    [] q.op = "SWAP" -> SwapRow(q, vals)
    [] q.op = "UPDATE" -> UpdateRow(q, vals)

-----------------------------------------------------------------------------
(* What a matching row adds to the local variables of the loop, and what   *)
(* the local variables of a task add to those of execute: a count, sums,   *)
(* extremes or a sequence of rows.                                         *)

CollectOps == {"SELECT", "DELETE", "DUPLICATE"}

\* ADD, SUB, SWAP and UPDATE count the rows too.
CountRow == 1

AddSums(acc, more) == [i \in DOMAIN acc |-> Add(acc[i], more[i])]

MaxOf(acc, more) ==
  [found |-> acc.found \/ more.found,
   best  |-> [i \in DOMAIN acc.best |-> Max({acc.best[i], more.best[i]})]]

MinOf(acc, more) ==
  [found |-> acc.found \/ more.found,
   best  |-> [i \in DOMAIN acc.best |-> Min({acc.best[i], more.best[i]})]]

SelectRow(q, row) == <<Row(row.key, At(q, row.vals))>>
DeleteRow(row) == <<row.key>>

\* DUPLICATE skips a row whose copy is in the table.
DuplicateRow(t, row) ==
  IF CheckNotDuplicate(t, row.key) THEN <<row.key>> ELSE <<>>

NoneFound(q, worst) == [found |-> FALSE, best |-> [i \in DOMAIN q.fields |-> worst]]

Neutral(q) ==
  CASE q.op = "SUM" -> [i \in DOMAIN q.fields |-> 0]
    [] q.op = "MAX" -> NoneFound(q, IntMin)
    [] q.op = "MIN" -> NoneFound(q, IntMax)
    [] q.op \in CollectOps -> <<>>
    [] OTHER -> 0

\* Mutant: a task overwrites what the tasks before it merged.
MergeOverwrite(q, acc, more) == more

Merge(q, acc, more) ==
  CASE q.op = "SUM" -> AddSums(acc, more)
    [] q.op = "MAX" -> MaxOf(acc, more)
    [] q.op = "MIN" -> MinOf(acc, more)
    [] q.op \in CollectOps -> acc \o more
    [] OTHER -> acc + more

Found(t, q, row) ==
  CASE q.op = "SUM" -> At(q, row.vals)
    [] q.op \in {"MAX", "MIN"} -> [found |-> TRUE, best |-> At(q, row.vals)]
    [] q.op = "SELECT" -> SelectRow(q, row)
    [] q.op = "DELETE" -> DeleteRow(row)
    [] q.op = "DUPLICATE" -> DuplicateRow(t, row)
    [] OTHER -> CountRow

\* The local variables after a matching row.
Visit(t, q, acc, row) == Merge(q, acc, Found(t, q, row))

RowLess(r, s) == KeyLess(r.key, s.key)

\* What execute returns when nothing was thrown: the kind of the result and
\* its value.  MAX and MIN of no row have none.
Answer(q, acc) ==
  CASE q.op \in {"MAX", "MIN"} ->
         IF acc.found THEN <<"success", acc.best>> ELSE <<"null", 0>>
    [] q.op = "SELECT" -> <<"success", SortSeq(acc, RowLess)>>
    [] q.op \in CollectOps -> <<"success", Len(acc)>>
    [] OTHER -> <<"success", acc>>

Error == <<"error", 0>>
=============================================================================
