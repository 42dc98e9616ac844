------------------------------ MODULE Statements ------------------------------
(***************************************************************************)
(* The language of lemondb: which sequences of words are a query, as the   *)
(* comment in ComplexQueryBuilder::parseToken and the tests of the other   *)
(* builders in src/src/query/QueryBuilders.cpp give it.  This is the       *)
(* language as a definition; Repl has the code that reads it.              *)
(***************************************************************************)
EXTENDS Integers, Sequences

CONSTANT Operations    \* the names of the data queries

\* The words behind the name of a management query.
Arity ==
  [LIST |-> 0, QUIT |-> 0, SHOWTABLE |-> 1, LOAD |-> 1, DROP |-> 1,
   TRUNCATE |-> 1, DUMP |-> 2, COPYTABLE |-> 2]

ManagementQuery(op, operands) ==
  [op |-> op, operands |-> operands, table |-> "", where |-> <<>>]

Condition(field, op, value) == [field |-> field, op |-> op, value |-> value]

\* ( field op value ) ( field op value ) ...
Clause(where) ==
  [i \in 1..5*Len(where) |->
     LET c == where[((i-1) \div 5) + 1]
     IN <<"(", c.field, c.op, c.value, ")">>[((i-1) % 5) + 1]]

(***************************************************************************)
(* "$OPER$ ( arg1 arg2 ... ) FROM table WHERE ( KEY = $STR$ )              *)
(* ( $field$ $OP$ $int$ ) ...", where both parentheses or the WHERE may be *)
(* left out when there is nothing to put into them.                        *)
(***************************************************************************)
Spells(q, words) ==
  \E args \in {<<>>, <<"(">> \o q.operands \o <<")">>},
     clause \in {<<>>, <<"WHERE">> \o Clause(q.where)} :
    /\ args = <<>> => q.operands = <<>>
    /\ clause = <<>> => q.where = <<>>
    /\ words = <<q.op>> \o args \o <<"FROM", q.table>> \o clause

\* The queries made of parts of the words: the operands from the third word
\* to the last, the table at t, and behind it as many conditions as fit.
Candidates(words) ==
  {[op       |-> words[1],
    operands |-> SubSeq(words, 3, last),
    table    |-> words[t],
    where    |-> [i \in 1..(Len(words) - t) \div 5 |->
                    Condition(words[t+5*i-2], words[t+5*i-1], words[t+5*i])]] :
     last \in 2..Len(words), t \in 3..Len(words)}

DataQueries(words) ==
  {q \in Candidates(words) :
     /\ q.op \in Operations
     /\ \A i \in DOMAIN q.operands : q.operands[i] # ")"
     /\ Spells(q, words)}

ManagementQueries(words) ==
  {ManagementQuery(op, Tail(words)) :
     op \in {o \in DOMAIN Arity : Len(words) = Arity[o] + 1 /\ words[1] = o}}

\* The queries that the words spell: one or none.
Meanings(words) == ManagementQueries(words) \cup DataQueries(words)

\* Where the words end behind an opening parenthesis, the code looks for an
\* operand past the last one.
Undefined(words) ==
  Len(words) = 2 /\ words[2] = "(" /\ ManagementQueries(words) = {}

-----------------------------------------------------------------------------
\* The reply to a statement that is no query.
Refusal == [number |-> 0, query |-> ManagementQuery("", <<>>), kind |-> "refused"]
=============================================================================
