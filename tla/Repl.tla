--------------------------------- MODULE Repl ---------------------------------
(***************************************************************************)
(* From the input to the query and its numbered result: the loop of        *)
(* src/src/main.cpp, QueryParser, and the chain of builders that it asks   *)
(* one after the other (Debug, ManageTable, Complex, and the one that      *)
(* fails).  ComplexQueryBuilder goes through the words with an iterator    *)
(* and keeps what it has read in members, which outlive the query.         *)
(*                                                                         *)
(* The input is a sequence of words and semicolons.  What queries do is in *)
(* Database and QueryExecution; here they give a result of some kind.      *)
(***************************************************************************)
EXTENDS Statements, FiniteSets

CONSTANTS
  Inputs,        \* sequences of words and ";"
  Kinds          \* of a result: how it is shown

ASSUME InputsAssumption == Inputs \subseteq Seq(STRING)

VARIABLES
  input,      \* what the stream has yet to give
  main,       \* what the main thread does: see Phases
  words,      \* the tokens of the statement
  it,         \* the iterator of parseToken; the first word is at 1
  builder,    \* the members of ComplexQueryBuilder
  query,      \* the one that is executed
  counter,
  replies     \* what was written: numbered results and refusals

vars == <<input, main, words, it, builder, query, counter, replies>>

Scanning == {"operation", "operands", "table", "conditions", "build"}

Phases == {"read", "dispatch", "execute", "over", "crashed"} \cup Scanning

NoQuery == ManagementQuery("", <<>>)

Cleared == [operandToken |-> <<>>, targetTable |-> "", conditionToken |-> <<>>]

Init ==
  /\ input \in Inputs
  /\ main = "read" /\ words = <<>> /\ it = 1
  /\ builder = Cleared
  /\ query = NoQuery
  /\ counter = 0 /\ replies = <<>>

-----------------------------------------------------------------------------
(* Reading a statement.                                                    *)

Semicolons(text) == {i \in DOMAIN text : text[i] = ";"}

\* The end of the first statement.
End(text) == CHOOSE i \in Semicolons(text) : \A j \in Semicolons(text) : i <= j

\* QueryBuilderMatchFailed, whatever it was that did not match.
Refuse ==
  /\ main' = "read"
  /\ replies' = Append(replies, Refusal)
  /\ UNCHANGED <<query, counter>>

\* Mutant: the call of clear does not get as far as the conditions.
ReadKeepingConditions ==
  /\ main = "read"
  /\ IF Semicolons(input) = {}
     THEN /\ main' = "over"
          /\ UNCHANGED <<input, words, it, builder, query, counter, replies>>
     ELSE /\ input' = SubSeq(input, End(input) + 1, Len(input))
          /\ words' = SubSeq(input, 1, End(input) - 1)
          /\ it' = 1
          /\ IF words' = <<>> THEN Refuse /\ UNCHANGED builder
             ELSE /\ builder' = [Cleared EXCEPT !.conditionToken = builder.conditionToken]
                  /\ main' = "dispatch"
                  /\ UNCHANGED <<query, counter, replies>>

\* Mutant: a statement without a word is given to the builders.
ReadNothing ==
  /\ main = "read"
  /\ IF Semicolons(input) = {}
     THEN /\ main' = "over"
          /\ UNCHANGED <<input, words, it, builder, query, counter, replies>>
     ELSE /\ input' = SubSeq(input, End(input) + 1, Len(input))
          /\ words' = SubSeq(input, 1, End(input) - 1)
          /\ it' = 1
          /\ builder' = Cleared /\ main' = "dispatch"
          /\ UNCHANGED <<query, counter, replies>>

\* extractQueryString, which throws at the end of the input whatever it has
\* read by then, and parseQuery up to the first builder.
Read ==
  /\ main = "read"
  /\ IF Semicolons(input) = {}
     THEN /\ main' = "over"
          /\ UNCHANGED <<input, words, it, builder, query, counter, replies>>
     ELSE /\ input' = SubSeq(input, End(input) + 1, Len(input))
          /\ words' = SubSeq(input, 1, End(input) - 1)
          /\ it' = 1
          /\ IF words' = <<>> THEN Refuse /\ UNCHANGED builder
             ELSE /\ builder' = Cleared /\ main' = "dispatch"
                  /\ UNCHANGED <<query, counter, replies>>

-----------------------------------------------------------------------------
(* The builders.                                                           *)

Execute(q) ==
  main' = "execute" /\ query' = q /\ UNCHANGED <<it, builder, counter, replies>>

\* What DebugQueryBuilder and ManageTableQueryBuilder extract, each for the
\* number of words it has.
Debugged(count) ==
  CASE count = 1 -> {"LIST", "QUIT"}
    [] count = 2 -> {"SHOWTABLE"}
    [] OTHER -> {}

Managed(count) ==
  CASE count = 2 -> {"LOAD", "DROP", "TRUNCATE"}
    [] count = 3 -> {"DUMP", "COPYTABLE"}
    [] OTHER -> {}

\* Down the chain of builders.
Dispatch ==
  /\ main = "dispatch"
  /\ IF words[1] \in Debugged(Len(words)) \cup Managed(Len(words))
     THEN Execute(ManagementQuery(words[1], Tail(words)))
     ELSE main' = "operation" /\ UNCHANGED <<it, builder, query, counter, replies>>
  /\ UNCHANGED <<input, words>>

\* ++it, and the scan goes on at phase, with members.
GoOn(phase, steps, members) ==
  /\ main' = phase /\ it' = it + steps /\ builder' = members
  /\ UNCHANGED <<input, words, query, counter, replies>>

\* IllFormedQuery leaves the members as they are.
IllFormed == Refuse /\ UNCHANGED <<input, words, it, builder>>

\* The word n steps on, where there is one.
Ahead(n, word) == it + n <= Len(words) /\ words[it + n] = word

ScanOperation ==
  /\ main = "operation"
  /\ \/ Ahead(1, "FROM") /\ GoOn("table", 1, builder)
     \/ Ahead(1, "(") /\ GoOn("operands", 2, builder)
     \/ ~Ahead(1, "FROM") /\ ~Ahead(1, "(") /\ IllFormed

\* Mutant: any word that FROM follows closes the operands.
ScanOperandEarly ==
  /\ main = "operands" /\ it <= Len(words)
  /\ IF Ahead(1, "FROM") THEN GoOn("table", 1, builder)
     ELSE LET members == [builder EXCEPT !.operandToken = Append(@, words[it])]
          IN IF it < Len(words) THEN GoOn("operands", 1, members) ELSE IllFormed

\* One turn of the loop over the operands.
ScanOperand ==
  /\ main = "operands" /\ it <= Len(words)
  /\ IF words[it] = ")"
     THEN IF Ahead(1, "FROM") THEN GoOn("table", 1, builder) ELSE IllFormed
     ELSE LET members == [builder EXCEPT !.operandToken = Append(@, words[it])]
          IN IF it < Len(words) THEN GoOn("operands", 1, members)
             ELSE /\ Refuse /\ it' = it + 1 /\ builder' = members
                  /\ UNCHANGED <<input, words>>

\* The first turn looks at the word behind "(" before anything asks whether
\* there is one.  What it finds there kills the process, or is copied with
\* an exception or taken for an operand of an ill-formed query.
Overrun ==
  /\ main = "operands" /\ it > Len(words)
  /\ \/ IllFormed
     \/ main' = "crashed" /\ UNCHANGED <<input, words, it, builder, query, counter, replies>>

ScanTable ==
  /\ main = "table"
  /\ IF it = Len(words) THEN IllFormed
     ELSE LET members == [builder EXCEPT !.targetTable = words[it + 1]]
          IN \/ it + 1 = Len(words) /\ GoOn("build", 1, members)
             \/ Ahead(2, "WHERE") /\ GoOn("conditions", 2, members)
             \/ /\ it + 1 < Len(words) /\ ~Ahead(2, "WHERE")
                /\ Refuse /\ it' = it + 2 /\ builder' = members
                /\ UNCHANGED <<input, words>>

\* Mutant: what is no condition is passed over, but not the word.
ScanConditionSkipping ==
  /\ main = "conditions"
  /\ IF it = Len(words) THEN GoOn("build", 0, builder)
     ELSE IF Ahead(1, "(") /\ Ahead(5, ")")
     THEN GoOn("conditions", 5,
               [builder EXCEPT !.conditionToken =
                  Append(@, Condition(words[it+2], words[it+3], words[it+4]))])
     ELSE GoOn("conditions", 0, builder)

\* One turn of the loop over the conditions.
ScanCondition ==
  /\ main = "conditions"
  /\ IF it = Len(words) THEN GoOn("build", 0, builder)
     ELSE IF Ahead(1, "(") /\ Ahead(5, ")")
     THEN GoOn("conditions", 5,
               [builder EXCEPT !.conditionToken =
                  Append(@, Condition(words[it+2], words[it+3], words[it+4]))])
     ELSE IllFormed

\* What ComplexQueryBuilder does with the members.
Build ==
  /\ main = "build"
  /\ IF words[1] \in Operations
     THEN /\ Execute([op |-> words[1], operands |-> builder.operandToken,
                      table |-> builder.targetTable, where |-> builder.conditionToken])
          /\ UNCHANGED <<input, words>>
     ELSE IllFormed

-----------------------------------------------------------------------------
(* Executing the query and printing its number and its result.             *)

\* Mutant: the number counts statements.
AnswerCountingAll(kind) ==
  /\ main = "execute" /\ query.op # "QUIT"
  /\ main' = "read"
  /\ counter' = Len(replies) + 1
  /\ replies' = Append(replies, [number |-> Len(replies) + 1, query |-> query, kind |-> kind])
  /\ UNCHANGED <<input, words, it, builder, query>>

Answer(kind) ==
  /\ main = "execute" /\ query.op # "QUIT"
  /\ main' = "read"
  /\ counter' = counter + 1
  /\ replies' = Append(replies, [number |-> counter + 1, query |-> query, kind |-> kind])
  /\ UNCHANGED <<input, words, it, builder, query>>

Quit ==
  /\ main = "execute" /\ query.op = "QUIT"
  /\ main' = "over"
  /\ UNCHANGED <<input, words, it, builder, query, counter, replies>>

Next ==
  \/ Read \/ Dispatch
  \/ ScanOperation \/ ScanOperand \/ Overrun \/ ScanTable \/ ScanCondition \/ Build
  \/ \E kind \in Kinds : Answer(kind)
  \/ Quit

Spec == Init /\ [][Next]_vars

\* The main thread runs on; a query returns (QueryReturns of QueryExecution).
FairSpec == Spec /\ WF_vars(Next)

-----------------------------------------------------------------------------
(* Properties.                                                             *)

TypeOK ==
  /\ main \in Phases
  /\ main \in Scanning => it \in 1..Len(words) + 1
  /\ main \in Scanning \ {"operands"} => it <= Len(words)
  /\ main \in Scanning \cup {"dispatch"} => words # <<>>
  /\ counter \in 0..Len(replies)

\* The statements of a text, each up to its semicolon.
Statements(text) ==
  LET Ordinal(i) == Cardinality({j \in Semicolons(text) : j <= i})
      Place(n) == IF n = 0 THEN 0 ELSE CHOOSE i \in Semicolons(text) : Ordinal(i) = n
  IN [n \in 1..Cardinality(Semicolons(text)) |-> SubSeq(text, Place(n-1) + 1, Place(n) - 1)]

\* The statement that is being read, or was last, comes first.
Pending ==
  IF main \in {"read", "over"} THEN Statements(input) ELSE <<words>> \o Statements(input)

Discussed == INSTANCE Dialogue WITH
  pending <- Pending,
  over    <- main \in {"over", "crashed"}

(***************************************************************************)
(* The statements of the input are answered in turn, each from its own     *)
(* words: whatever the builders kept of a statement that ended in an       *)
(* exception half-way, no query has an operand or a condition of another,  *)
(* and the words that are executed are those that spell a query.           *)
(***************************************************************************)
ImplementsDialogue == Discussed!DialogueSpec

\* The words up to the one before from are the operation and its operands.
OperandsRead(from) ==
  \/ from = 2 /\ builder.operandToken = <<>>
  \/ /\ from > 3 /\ words[2] = "(" /\ words[from - 1] = ")"
     /\ builder.operandToken = SubSeq(words, 3, from - 2)
     /\ \A i \in 3..from-2 : words[i] # ")"

TableRead(t) ==
  /\ words[t - 1] = "FROM" /\ OperandsRead(t - 1)
  /\ builder.targetTable = words[t]

\* The conditions are behind WHERE at w, up to the word at last.
ConditionsRead(w, last) ==
  LET conds == builder.conditionToken
  IN /\ words[w] = "WHERE" /\ last = w + 5 * Len(conds)
     /\ \A i \in DOMAIN conds :
          /\ words[w + 5*i - 4] = "(" /\ words[w + 5*i] = ")"
          /\ conds[i] = Condition(words[w+5*i-3], words[w+5*i-2], words[w+5*i-1])

(***************************************************************************)
(* At every turn of parseToken the members hold what it has read of this   *)
(* statement and nothing of the one before, as far as the iterator is.     *)
(***************************************************************************)
MembersOfThisStatement ==
  /\ main \in {"dispatch", "operation"} => builder = Cleared
  /\ main \in {"operands", "table"} => builder.conditionToken = <<>>
  /\ main = "operands" =>
       /\ words[2] = "(" /\ builder.operandToken = SubSeq(words, 3, it - 1)
       /\ \A i \in 3..it-1 : words[i] # ")"
  /\ main = "table" => words[it] = "FROM" /\ OperandsRead(it)
  /\ main \in {"conditions", "build"} =>
       \E t \in 3..Len(words) :
         /\ TableRead(t)
         /\ \/ t < Len(words) /\ ConditionsRead(t + 1, it)
            \/ main = "build" /\ it = t /\ builder.conditionToken = <<>>
  /\ main = "build" => it = Len(words)

(***************************************************************************)
(* What is executed is what the words of the statement spell: no word is   *)
(* left out, taken twice or taken from elsewhere.                          *)
(***************************************************************************)
ExecutesWhatIsSpelled ==
  main = "execute" => query \in ManagementQueries(words) \/ Spells(query, words)

(***************************************************************************)
(* Every input comes to its end, through every loop of the parser.         *)
(***************************************************************************)
InputEnds == <>(main \in {"over", "crashed"})
=============================================================================
