------------------------------ MODULE ReplProofs ------------------------------
(***************************************************************************)
(* Proofs about Repl for any inputs, operations and kinds of result.  The  *)
(* inductive invariant is IInv: the types of the members and the place of  *)
(* the iterator (Basic), what the members hold of the words read so far    *)
(* (MembersOfThisStatement), and from it, when a query is built, that the  *)
(* query is spelled by all of the words (ExecutesWhatIsSpelled).           *)
(*                                                                         *)
(* That Repl implements Dialogue takes the converse as well: the words of  *)
(* a query have a shape (QueryShape), which the scan follows step by step, *)
(* so that what it refuses has none (NoMeaning).  The statements to come   *)
(* are those of the input (FirstAndRest), and the number of a result is    *)
(* that of the numbered replies (Understood).                              *)
(***************************************************************************)
EXTENDS Repl, TLAPS, SequenceTheorems, FiniteSetTheorems, WellFoundedInduction

\* Every set of numbers has a least one.
LEMMA LeastNumber ==
  ASSUME NEW S, S \subseteq Nat, S # {}
  PROVE  \E i \in S : \A j \in S : i <= j
<1> DEFINE R == OpToRel(<, Nat)
<1>1. PICK i \in S : \A j \in S : ~ (<<j, i>> \in R)
  <2>1. IsWellFoundedOn(R, Nat)
    BY NatLessThanWellFounded
  <2> HIDE DEF R
  <2> QED BY <2>1, WFMin
<1>2. \A j, k \in Nat : j < k => <<j, k>> \in R
  BY Zenon DEF OpToRel
<1> HIDE DEF R
<1>3. ASSUME NEW j \in S PROVE i <= j
  <2>1. i \in Nat /\ j \in Nat
    OBVIOUS
  <2>2. ~ (j < i)
    BY <1>1, <1>2, <2>1, Zenon
  <2> QED BY <2>1, <2>2
<1> QED BY <1>3, Zenon

\* End is where it should be.
LEMMA LeastSemicolon ==
  ASSUME NEW text \in Seq(STRING), Semicolons(text) # {}
  PROVE  End(text) \in 1..Len(text) /\ text[End(text)] = ";"
<1>1. Semicolons(text) \subseteq 1..Len(text)
  BY LenProperties DEF Semicolons
<1>2. Len(text) \in Nat
  BY LenProperties
<1>3. Semicolons(text) \subseteq Nat
  BY <1>1, <1>2
<1>4. \E i \in Semicolons(text) : \A j \in Semicolons(text) : i <= j
  BY <1>3, LeastNumber
<1>5. End(text) \in Semicolons(text)
  BY <1>4 DEF End
<1> QED BY <1>1, <1>5 DEF Semicolons

-----------------------------------------------------------------------------
(* Types, and the place of the iterator.                                   *)

Conditions == [field : STRING, op : STRING, value : STRING]

\* STRING, with the literals that the provers have to be told are in it.
Strings == STRING \cup {"", "(", ")", "FROM", "WHERE"}

Builders ==
  [operandToken : Seq(STRING), targetTable : Strings, conditionToken : Seq(Conditions)]

QueriesRead ==
  [op : Strings, operands : Seq(STRING), table : Strings, where : Seq(Conditions)]

Written == [number : Nat, query : QueriesRead, kind : Kinds \cup {"refused"}]

Types ==
  /\ input \in Seq(STRING) /\ words \in Seq(STRING)
  /\ it \in Nat
  /\ builder \in Builders
  /\ query \in QueriesRead
  /\ counter \in Nat
  /\ replies \in Seq(Written)

\* Where the iterator is, as far as TypeOK does not say it.
Places ==
  /\ main \in {"dispatch", "operation"} => it = 1
  /\ main = "operands" => it >= 3

Basic == Types /\ Places /\ TypeOK

\* What the members and the answers are at first.
LEMMA EmptyTyped ==
  /\ <<>> \in Seq(STRING) /\ <<>> \in Seq(Conditions) /\ <<>> \in Seq(Written)
  /\ NoQuery \in QueriesRead
  /\ Cleared \in Builders
  /\ Refusal \in Written
<1>1. <<>> \in Seq(STRING) /\ <<>> \in Seq(Conditions) /\ <<>> \in Seq(Written)
  OBVIOUS
<1>2. "" \in Strings
  BY DEF Strings
<1>3. ManagementQuery("", <<>>) \in QueriesRead
  BY <1>1, <1>2, Zenon DEF ManagementQuery, QueriesRead
<1>4. Cleared \in Builders
  BY <1>1, <1>2, Zenon DEF Cleared, Builders
<1>5. Refusal \in Written
  <2>1. 0 \in Nat /\ "refused" \in Kinds \cup {"refused"}
    OBVIOUS
  <2> QED BY <1>3, <2>1, Zenon DEF Refusal, Written
<1> QED BY <1>1, <1>3, <1>4, <1>5 DEF NoQuery

\* Basic holds at first.
LEMMA BasicInit == Init => Basic
<1> SUFFICES ASSUME Init PROVE Basic
  OBVIOUS
<1>1. Types
  BY EmptyTyped, InputsAssumption DEF Init, Types
<1>2. Len(replies) = 0
  BY DEF Init
<1> QED BY <1>1, <1>2 DEF Init, Basic, Places, TypeOK, Phases, Scanning

\* A refusal keeps the answers well-formed.
LEMMA RefusedTyped ==
  ASSUME Basic, Refuse
  PROVE  /\ main' = "read" /\ query' = query /\ counter' = counter
         /\ replies' \in Seq(Written) /\ counter' \in 0..Len(replies')
<1>1. replies \in Seq(Written) /\ Refusal \in Written /\ counter \in 0..Len(replies)
  BY EmptyTyped DEF Basic, Types, TypeOK
<1>2. replies' = Append(replies, Refusal)
  BY DEF Refuse
<1>3. replies' \in Seq(Written) /\ Len(replies') = Len(replies) + 1 /\ Len(replies) \in Nat
  BY <1>1, <1>2, AppendProperties, LenProperties
<1> QED BY <1>1, <1>3 DEF Refuse

\* One lemma for every action: it keeps Basic.
LEMMA BasicRead == ASSUME Basic, Read PROVE Basic'
<1>1. CASE Semicolons(input) = {}
  BY <1>1 DEF Basic, Types, TypeOK, Places, Read, Phases, Scanning
<1>2. CASE Semicolons(input) # {}
  <2>1. /\ input' = SubSeq(input, End(input) + 1, Len(input))
        /\ words' = SubSeq(input, 1, End(input) - 1)
        /\ it' = 1
    BY <1>2 DEF Read
  <2>2. /\ input \in Seq(STRING) /\ Len(input) \in Nat
        /\ End(input) \in 1..Len(input)
        /\ \A i \in 1..Len(input) : input[i] \in STRING
    BY <1>2, LeastSemicolon, LenProperties, ElementOfSeq DEF Basic, Types
  <2>3. input' \in Seq(STRING) /\ words' \in Seq(STRING)
    <3> DEFINE e == End(input)
               n == Len(input)
    <3>1. e \in Int /\ n \in Int /\ e + 1 \in Int /\ e - 1 \in Int /\ 1 \in Int
      BY <2>2
    <3>2. \A i \in (e + 1)..n : input[i] \in STRING
      BY <2>2
    <3>3. \A i \in 1..(e - 1) : input[i] \in STRING
      BY <2>2
    <3> HIDE DEF e, n
    <3>4. SubSeq(input, e + 1, n) \in Seq(STRING)
      BY <3>1, <3>2, SubSeqProperties
    <3>5. SubSeq(input, 1, e - 1) \in Seq(STRING)
      BY <3>1, <3>3, SubSeqProperties
    <3> QED BY <2>1, <3>4, <3>5 DEF e, n
  <2>4. CASE words' = <<>>
    <3>1. Refuse /\ UNCHANGED builder
      BY <1>2, <2>4 DEF Read
    <3> QED BY <2>1, <2>3, <3>1, RefusedTyped DEF Basic, Types, TypeOK, Places, Phases, Scanning
  <2>5. CASE words' # <<>>
    <3>1. builder' = Cleared /\ main' = "dispatch" /\ UNCHANGED <<query, counter, replies>>
      BY <1>2, <2>5 DEF Read
    <3> QED BY <2>1, <2>3, <2>5, <3>1, EmptyTyped
            DEF Basic, Types, TypeOK, Places, Phases, Scanning
  <2> QED BY <2>4, <2>5
<1> QED BY <1>1, <1>2

\* A query is handed over by a builder.
LEMMA BasicExecute ==
  ASSUME Basic, NEW q \in QueriesRead, Execute(q), UNCHANGED <<input, words>>
  PROVE  Basic'
BY DEF Execute, Basic, Types, TypeOK, Places, Phases, Scanning

\* A statement is refused half-way.
LEMMA BasicIllFormed == ASSUME Basic, IllFormed PROVE Basic'
BY RefusedTyped DEF IllFormed, Basic, Types, TypeOK, Places, Phases, Scanning

\* Down the chain of builders.
LEMMA BasicDispatch == ASSUME Basic, Dispatch PROVE Basic'
<1>1. /\ main = "dispatch" /\ words \in Seq(STRING) /\ words # <<>> /\ it = 1
  BY DEF Dispatch, Basic, Types, TypeOK, Places
<1>2. Len(words) \in Nat /\ Len(words) >= 1 /\ words[1] \in STRING /\ Tail(words) \in Seq(STRING)
  BY <1>1
<1>3. CASE Execute(ManagementQuery(words[1], Tail(words)))
  <2>1. ManagementQuery(words[1], Tail(words)) \in QueriesRead
    <3>1. "" \in Strings
      BY DEF Strings
    <3>2. words[1] \in Strings
      BY <1>2 DEF Strings
    <3> QED BY <1>2, <3>1, <3>2, EmptyTyped, Zenon DEF ManagementQuery, QueriesRead
  <2> QED BY <1>3, <2>1, BasicExecute DEF Dispatch
<1>4. CASE main' = "operation" /\ UNCHANGED <<it, builder, query, counter, replies>>
  BY <1>1, <1>2, <1>4 DEF Dispatch, Basic, Types, TypeOK, Places, Phases, Scanning
<1> QED BY <1>3, <1>4 DEF Dispatch

\* The scan goes on with a word that there is.
LEMMA BasicGoOn ==
  ASSUME Basic,
         NEW phase \in {"operands", "table", "conditions", "build"},
         NEW steps \in Nat, NEW members \in Builders,
         GoOn(phase, steps, members),
         words # <<>>,
         it + steps \in 1..Len(words) \/ (phase = "operands" /\ it + steps = Len(words) + 1),
         phase = "operands" => it + steps >= 3
  PROVE  Basic'
BY DEF GoOn, Basic, Types, TypeOK, Places, Phases, Scanning

\* What holds at every turn of the scan.
LEMMA ScanFacts ==
  ASSUME Basic, main \in Scanning
  PROVE  /\ words \in Seq(STRING) /\ words # <<>> /\ Len(words) \in Nat
         /\ \A i \in 1..Len(words) : words[i] \in STRING
         /\ it \in Nat /\ it \in 1..Len(words) + 1
         /\ builder \in Builders
         /\ builder.operandToken \in Seq(STRING)
         /\ builder.conditionToken \in Seq(Conditions)
BY ElementOfSeq, LenProperties DEF Basic, Types, TypeOK, Builders

\* The steps of the scan keep Basic.
LEMMA BasicScanOperation == ASSUME Basic, ScanOperation PROVE Basic'
<1>1. main = "operation" /\ main \in Scanning /\ it = 1 /\ it <= Len(words)
  BY DEF ScanOperation, Scanning, Basic, Places, TypeOK
<1>2. CASE Ahead(1, "FROM")
  BY <1>1, <1>2, ScanFacts, BasicGoOn DEF ScanOperation, Ahead
<1>3. CASE ~Ahead(1, "FROM") /\ Ahead(1, "(")
  BY <1>1, <1>3, ScanFacts, BasicGoOn DEF ScanOperation, Ahead
<1>4. CASE ~Ahead(1, "FROM") /\ ~Ahead(1, "(")
  BY <1>4, BasicIllFormed DEF ScanOperation
<1> QED BY <1>2, <1>3, <1>4

\* A word is a good operand.
LEMMA OperandTyped ==
  ASSUME NEW members \in Builders, NEW word \in STRING
  PROVE  [members EXCEPT !.operandToken = Append(@, word)] \in Builders
<1>1. Append(members.operandToken, word) \in Seq(STRING)
  BY DEF Builders
<1> QED BY <1>1 DEF Builders

\* A turn of the loop over the operands keeps Basic.
LEMMA BasicScanOperand == ASSUME Basic, ScanOperand PROVE Basic'
<1>1. /\ main = "operands" /\ main \in Scanning /\ it >= 3 /\ it <= Len(words)
      /\ words[it] \in STRING
  BY ScanFacts DEF ScanOperand, Scanning, Basic, Places
<1>2. CASE words[it] = ")"
  <2>1. CASE Ahead(1, "FROM")
    BY <1>1, <1>2, <2>1, ScanFacts, BasicGoOn DEF ScanOperand, Ahead
  <2>2. CASE ~Ahead(1, "FROM")
    BY <1>2, <2>2, BasicIllFormed DEF ScanOperand
  <2> QED BY <2>1, <2>2
<1>3. CASE words[it] # ")"
  <2> DEFINE members == [builder EXCEPT !.operandToken = Append(@, words[it])]
  <2>1. members \in Builders
    BY <1>1, ScanFacts, OperandTyped
  <2>2. CASE it < Len(words)
    <3>1. GoOn("operands", 1, members)
      BY <1>3, <2>2 DEF ScanOperand
    <3> HIDE DEF members
    <3> QED BY <1>1, <2>1, <2>2, <3>1, ScanFacts, BasicGoOn
  <2>3. CASE ~(it < Len(words))
    <3>1. Refuse /\ it' = it + 1 /\ builder' = members /\ UNCHANGED <<input, words>>
      BY <1>3, <2>3 DEF ScanOperand
    <3> HIDE DEF members
    <3> QED BY <1>1, <2>1, <3>1, RefusedTyped
            DEF Basic, Types, TypeOK, Places, Phases, Scanning
  <2> QED BY <2>2, <2>3
<1> QED BY <1>2, <1>3

\* So does the turn past the last word.
LEMMA BasicOverrun == ASSUME Basic, Overrun PROVE Basic'
<1>1. CASE IllFormed
  BY <1>1, BasicIllFormed
<1>2. CASE main' = "crashed" /\ UNCHANGED <<input, words, it, builder, query, counter, replies>>
  BY <1>2 DEF Basic, Types, TypeOK, Places, Phases, Scanning
<1> QED BY <1>1, <1>2 DEF Overrun

\* So does reading the name of the table.
LEMMA BasicScanTable == ASSUME Basic, ScanTable PROVE Basic'
<1>1. main = "table" /\ main \in Scanning /\ it <= Len(words)
  BY DEF ScanTable, Scanning, Basic, TypeOK
<1>2. CASE it = Len(words)
  BY <1>2, BasicIllFormed DEF ScanTable
<1>3. CASE it # Len(words)
  <2> DEFINE members == [builder EXCEPT !.targetTable = words[it + 1]]
  <2>1. it + 1 \in 1..Len(words) /\ members \in Builders
    <3>1. it + 1 \in 1..Len(words)
      BY <1>1, <1>3, ScanFacts
    <3>2. words[it + 1] \in STRING
      BY <1>1, <3>1, ScanFacts
    <3> QED BY <1>1, <3>1, <3>2, ScanFacts DEF Builders, Strings
  <2>2. CASE it + 1 = Len(words)
    <3>1. GoOn("build", 1, members)
      <4>1. ~Ahead(2, "WHERE") /\ ~(it + 1 < Len(words))
        BY <1>1, <2>2, ScanFacts DEF Ahead
      <4> QED BY <1>3, <4>1 DEF ScanTable
    <3> HIDE DEF members
    <3> QED BY <1>1, <2>1, <2>2, <3>1, ScanFacts, BasicGoOn
  <2>3. CASE it + 1 # Len(words) /\ Ahead(2, "WHERE")
    <3>1. GoOn("conditions", 2, members)
      BY <1>3, <2>3, Zenon DEF ScanTable
    <3> HIDE DEF members
    <3> QED BY <1>1, <2>1, <2>3, <3>1, ScanFacts, BasicGoOn DEF Ahead
  <2>4. CASE it + 1 # Len(words) /\ ~Ahead(2, "WHERE")
    <3>1. Refuse /\ it' = it + 2 /\ builder' = members /\ UNCHANGED <<input, words>>
      BY <1>3, <2>4 DEF ScanTable
    <3> HIDE DEF members
    <3> QED BY <1>1, <2>1, <3>1, RefusedTyped
            DEF Basic, Types, TypeOK, Places, Phases, Scanning
  <2> QED BY <2>2, <2>3, <2>4
<1> QED BY <1>2, <1>3

\* So does a turn of the loop over the conditions.
LEMMA BasicScanCondition == ASSUME Basic, ScanCondition PROVE Basic'
<1>1. main = "conditions" /\ main \in Scanning /\ it <= Len(words)
  BY DEF ScanCondition, Scanning, Basic, TypeOK
<1>2. CASE it = Len(words)
  <2>1. GoOn("build", 0, builder)
    BY <1>2 DEF ScanCondition
  <2>2. builder \in Builders /\ words # <<>> /\ it + 0 \in 1..Len(words)
    BY <1>1, <1>2, ScanFacts
  <2> QED BY <2>1, <2>2, BasicGoOn
<1>3. CASE it # Len(words) /\ Ahead(1, "(") /\ Ahead(5, ")")
  <2> DEFINE cond == Condition(words[it+2], words[it+3], words[it+4])
             members == [builder EXCEPT !.conditionToken = Append(@, cond)]
  <2>1. it + 5 \in 1..Len(words) /\ it + 2 \in 1..Len(words)
        /\ it + 3 \in 1..Len(words) /\ it + 4 \in 1..Len(words)
    BY <1>1, <1>3, ScanFacts DEF Ahead
  <2>2. cond \in Conditions
    BY <1>1, <2>1, ScanFacts DEF Condition, Conditions
  <2>3. GoOn("conditions", 5, members)
    BY <1>3 DEF ScanCondition
  <2> HIDE DEF cond
  <2>4. Append(builder.conditionToken, cond) \in Seq(Conditions)
    BY <1>1, <2>2, ScanFacts
  <2>5. members \in Builders
    BY <1>1, <2>4, ScanFacts DEF Builders
  <2> HIDE DEF members
  <2> QED BY <1>1, <2>1, <2>3, <2>5, ScanFacts, BasicGoOn
<1>4. CASE it # Len(words) /\ ~(Ahead(1, "(") /\ Ahead(5, ")"))
  BY <1>4, BasicIllFormed DEF ScanCondition
<1> QED BY <1>2, <1>3, <1>4

\* So does building the query.
LEMMA BasicBuild == ASSUME Basic, Build PROVE Basic'
<1> DEFINE q == [op |-> words[1], operands |-> builder.operandToken,
                 table |-> builder.targetTable, where |-> builder.conditionToken]
<1>1. main = "build" /\ main \in Scanning
  BY DEF Build, Scanning
<1>2. CASE words[1] \in Operations
  <2>1. q \in QueriesRead
    <3>1. Len(words) \in Nat /\ Len(words) >= 1
      BY <1>1, ScanFacts
    <3>2. words[1] \in Strings
      <4>1. 1 \in 1..Len(words)
        BY <3>1
      <4>2. words[1] \in STRING
        BY <1>1, <4>1, ScanFacts
      <4> QED BY <4>2 DEF Strings
    <3>3. builder.targetTable \in Strings
      BY <1>1, ScanFacts DEF Builders
    <3> QED BY <1>1, <3>2, <3>3, ScanFacts, Zenon DEF QueriesRead
  <2>2. Execute(q) /\ UNCHANGED <<input, words>>
    BY <1>2 DEF Build
  <2> HIDE DEF q
  <2> QED BY <2>1, <2>2, BasicExecute
<1>3. CASE words[1] \notin Operations
  BY <1>3, BasicIllFormed DEF Build
<1> QED BY <1>2, <1>3

\* So does the answer.
LEMMA BasicAnswer == ASSUME Basic, NEW kind \in Kinds, Answer(kind) PROVE Basic'
<1> DEFINE r == [number |-> counter + 1, query |-> query, kind |-> kind]
<1>1. r \in Written
  BY DEF Basic, Types, Written
<1>2. replies' = Append(replies, r) /\ replies \in Seq(Written)
  BY DEF Answer, Basic, Types
<1> HIDE DEF r
<1>3. replies' \in Seq(Written) /\ Len(replies') = Len(replies) + 1 /\ Len(replies) \in Nat
  BY <1>1, <1>2, AppendProperties, LenProperties
<1>4. counter' \in 0..Len(replies')
  BY <1>3 DEF Answer, Basic, TypeOK
<1> QED BY <1>3, <1>4 DEF Answer, Basic, Types, TypeOK, Places, Phases, Scanning

\* Every step keeps Basic.
LEMMA BasicStep == ASSUME Basic, [Next]_vars PROVE Basic'
<1>1. CASE Quit
  BY <1>1 DEF Quit, Basic, Types, TypeOK, Places, Phases, Scanning
<1>2. CASE UNCHANGED vars
  BY <1>2 DEF vars, Basic, Types, TypeOK, Places
<1>3. CASE \E kind \in Kinds : Answer(kind)
  BY <1>3, BasicAnswer
<1> QED BY <1>1, <1>2, <1>3, BasicRead, BasicDispatch, BasicScanOperation, BasicScanOperand,
        BasicOverrun, BasicScanTable, BasicScanCondition, BasicBuild DEF Next

-----------------------------------------------------------------------------
(* What the members hold.                                                  *)

\* The members are nobody's concern outside the scan.
LEMMA MembersElsewhere ==
  ASSUME main' \notin Scanning \cup {"dispatch"}
  PROVE  MembersOfThisStatement'
BY DEF MembersOfThisStatement, Scanning

\* Nor after a refusal.
LEMMA MembersRefused == ASSUME Refuse PROVE MembersOfThisStatement'
BY MembersElsewhere DEF Refuse, Scanning

\* The scan starts with empty members.
LEMMA MembersScanOperation ==
  ASSUME Basic, MembersOfThisStatement, ScanOperation
  PROVE  MembersOfThisStatement'
<1>1. /\ main = "operation" /\ main \in Scanning /\ it = 1 /\ builder = Cleared
      /\ Len(words) \in Nat
  <2>1. main = "operation" /\ main \in Scanning
    BY DEF ScanOperation, Scanning
  <2> QED BY <2>1, ScanFacts DEF Basic, Places, MembersOfThisStatement
<1>2. CASE Ahead(1, "FROM") /\ GoOn("table", 1, builder)
  <2>1. /\ main' = "table" /\ it' = 2 /\ builder' = Cleared /\ words' = words
        /\ words[2] = "FROM"
    BY <1>1, <1>2 DEF GoOn, Ahead
  <2> QED BY <2>1 DEF MembersOfThisStatement, OperandsRead, Cleared
<1>3. CASE Ahead(1, "(") /\ GoOn("operands", 2, builder)
  <2>1. /\ main' = "operands" /\ it' = 3 /\ builder' = Cleared /\ words' = words
        /\ words[2] = "("
    BY <1>1, <1>3 DEF GoOn, Ahead
  <2>2. SubSeq(words, 3, 2) = <<>>
    BY SubSeqEmpty
  <2>3. builder'.operandToken = SubSeq(words', 3, it' - 1) /\ builder'.conditionToken = <<>>
    <3>1. it' - 1 = 2
      BY <2>1
    <3>2. builder'.operandToken = <<>> /\ builder'.conditionToken = <<>>
      BY <2>1 DEF Cleared
    <3> QED BY <2>1, <2>2, <3>1, <3>2
  <2> QED BY <2>1, <2>3 DEF MembersOfThisStatement
<1>4. CASE IllFormed
  BY <1>4, MembersRefused DEF IllFormed
<1> QED BY <1>2, <1>3, <1>4 DEF ScanOperation

\* An operand more is held, or the scan goes on at FROM.
LEMMA MembersScanOperand ==
  ASSUME Basic, MembersOfThisStatement, ScanOperand
  PROVE  MembersOfThisStatement'
<1>1. /\ main = "operands" /\ main \in Scanning /\ it >= 3 /\ it <= Len(words)
      /\ it \in Nat /\ Len(words) \in Nat /\ words \in Seq(STRING) /\ builder \in Builders
      /\ words[2] = "(" /\ builder.operandToken = SubSeq(words, 3, it - 1)
      /\ \A i \in 3..it-1 : words[i] # ")"
      /\ builder.conditionToken = <<>>
  <2>1. main = "operands" /\ main \in Scanning
    BY DEF ScanOperand, Scanning
  <2> QED BY <2>1, ScanFacts DEF ScanOperand, Basic, Places, MembersOfThisStatement
<1>2. CASE words[it] = ")" /\ GoOn("table", 1, builder) /\ Ahead(1, "FROM")
  <2>1. /\ main' = "table" /\ it' = it + 1 /\ builder' = builder /\ words' = words
        /\ words[it + 1] = "FROM"
    BY <1>2 DEF GoOn, Ahead
  <2>2. it' > 3 /\ it' - 1 = it /\ it' - 2 = it - 1
    BY <1>1, <2>1
  <2> QED BY <1>1, <1>2, <2>1, <2>2 DEF MembersOfThisStatement, OperandsRead
<1>3. CASE IllFormed
  BY <1>3, MembersRefused DEF IllFormed
<1>4. CASE /\ words[it] # ")"
           /\ GoOn("operands", 1, [builder EXCEPT !.operandToken = Append(@, words[it])])
  <2>1. /\ main' = "operands" /\ it' = it + 1 /\ words' = words
        /\ builder'.operandToken = Append(builder.operandToken, words[it])
        /\ builder'.conditionToken = <<>>
    BY <1>1, <1>4 DEF GoOn, Builders
  <2>2. SubSeq(words, 3, it) = SubSeq(words, 3, it - 1) \o <<words[it]>>
    BY <1>1, SubSeqRecursiveSecond
  <2>3. builder'.operandToken = SubSeq(words', 3, it' - 1)
    <3>1. it' - 1 = it
      BY <1>1, <2>1
    <3>2. words[it] \in STRING /\ SubSeq(words, 3, it - 1) \in Seq(STRING)
      BY <1>1, ScanFacts DEF Builders
    <3>3. Append(SubSeq(words, 3, it - 1), words[it]) = SubSeq(words, 3, it - 1) \o <<words[it]>>
      BY <3>2, AppendIsConcat
    <3> QED BY <1>1, <2>1, <2>2, <3>1, <3>3
  <2>4. \A i \in 3..it'-1 : words'[i] # ")"
    BY <1>1, <1>4, <2>1
  <2> QED BY <1>1, <2>1, <2>3, <2>4 DEF MembersOfThisStatement
<1>5. CASE Refuse
  BY <1>5, MembersRefused
<1> QED BY <1>2, <1>3, <1>4, <1>5, Zenon DEF ScanOperand

\* The table is held, and no condition yet.
LEMMA MembersScanTable ==
  ASSUME Basic, MembersOfThisStatement, ScanTable
  PROVE  MembersOfThisStatement'
<1>1. /\ main = "table" /\ main \in Scanning /\ it <= Len(words)
      /\ it \in Nat /\ Len(words) \in Nat /\ builder \in Builders
      /\ words[it] = "FROM" /\ OperandsRead(it) /\ builder.conditionToken = <<>>
  <2>1. main = "table" /\ main \in Scanning
    BY DEF ScanTable, Scanning
  <2> QED BY <2>1, ScanFacts DEF Basic, TypeOK, MembersOfThisStatement
<1>0. PICK t \in Nat : t = it + 1
  BY <1>1
<1> DEFINE members == [builder EXCEPT !.targetTable = words[t]]
<1>2. CASE IllFormed
  BY <1>2, MembersRefused DEF IllFormed
<1>3. CASE Refuse
  BY <1>3, MembersRefused
<1>4. it >= 2 /\ t - 1 = it /\ t >= 3
  BY <1>0, <1>1 DEF OperandsRead
<1>5. ASSUME builder' = members, words' = words
      PROVE  /\ TableRead(t)' /\ builder'.conditionToken = <<>>
  <2>1. /\ members.operandToken = builder.operandToken
        /\ members.conditionToken = builder.conditionToken
        /\ members.targetTable = words[t]
    BY <1>1 DEF Builders
  <2> HIDE DEF members
  <2>2. /\ builder'.operandToken = builder.operandToken
        /\ builder'.conditionToken = <<>>
        /\ builder'.targetTable = words[t]
    BY <1>1, <1>5, <2>1
  <2> QED BY <1>1, <1>4, <1>5, <2>2 DEF TableRead, OperandsRead
<1>6. CASE t = Len(words) /\ GoOn("build", 1, members)
  <2>1. main' = "build" /\ it' = t /\ words' = words /\ builder' = members
    BY <1>0, <1>1, <1>6 DEF GoOn
  <2>2. TableRead(t)' /\ builder'.conditionToken = <<>>
    BY <1>5, <2>1
  <2>3. t \in 3..Len(words') /\ it' = Len(words')
    BY <1>1, <1>4, <1>6, <2>1
  <2> HIDE DEF members
  <2> QED BY <2>1, <2>2, <2>3 DEF MembersOfThisStatement
<1>7. CASE Ahead(2, "WHERE") /\ GoOn("conditions", 2, members)
  <2>1. /\ main' = "conditions" /\ it' = t + 1 /\ words' = words /\ builder' = members
        /\ words[t + 1] = "WHERE" /\ t + 1 <= Len(words)
    <3>1. it + 2 = t + 1
      BY <1>0, <1>1
    <3> QED BY <1>7, <3>1, Zenon DEF GoOn, Ahead
  <2>2. TableRead(t)' /\ builder'.conditionToken = <<>>
    BY <1>5, <2>1
  <2>3. t \in 3..Len(words') /\ t < Len(words')
    BY <1>1, <1>4, <2>1
  <2>4. ConditionsRead(t + 1, it)'
    <3>1. it' = (t + 1) + 5 * 0
      BY <1>0, <2>1
    <3> QED BY <2>1, <2>2, <3>1 DEF ConditionsRead
  <2> HIDE DEF members
  <2> QED BY <2>1, <2>2, <2>3, <2>4 DEF MembersOfThisStatement
<1> QED BY <1>0, <1>2, <1>3, <1>6, <1>7, Zenon DEF ScanTable

\* A condition more is held, or the words are read.
LEMMA MembersScanCondition ==
  ASSUME Basic, MembersOfThisStatement, ScanCondition
  PROVE  MembersOfThisStatement'
<1> DEFINE conds == builder.conditionToken
           cond == Condition(words[it+2], words[it+3], words[it+4])
           members == [builder EXCEPT !.conditionToken = Append(@, cond)]
<1>1. /\ main = "conditions" /\ main \in Scanning /\ it <= Len(words)
      /\ it \in Nat /\ Len(words) \in Nat /\ builder \in Builders
      /\ conds \in Seq(Conditions)
      /\ \A i \in 1..Len(words) : words[i] \in STRING
  <2>1. main = "conditions" /\ main \in Scanning
    BY DEF ScanCondition, Scanning
  <2> QED BY <2>1, ScanFacts DEF Basic, TypeOK
<1>2. PICK t \in 3..Len(words) :
        TableRead(t) /\ t < Len(words) /\ ConditionsRead(t + 1, it)
  BY <1>1 DEF MembersOfThisStatement
<1>3. CASE it = Len(words) /\ GoOn("build", 0, builder)
  <2>1. main' = "build" /\ it' = it /\ words' = words /\ builder' = builder
    BY <1>1, <1>3 DEF GoOn
  <2>2. TableRead(t)' /\ ConditionsRead(t + 1, it)' /\ t < Len(words')
    BY <1>2, <2>1 DEF TableRead, OperandsRead, ConditionsRead
  <2> QED BY <1>2, <1>3, <2>1, <2>2 DEF MembersOfThisStatement
<1>4. CASE Ahead(1, "(") /\ Ahead(5, ")") /\ GoOn("conditions", 5, members)
  <2>1. /\ main' = "conditions" /\ it' = it + 5 /\ words' = words /\ builder' = members
        /\ words[it + 1] = "(" /\ words[it + 5] = ")" /\ it + 5 <= Len(words)
    BY <1>4, Zenon DEF GoOn, Ahead
  <2>2. cond \in Conditions
    <3>1. it + 2 \in 1..Len(words) /\ it + 3 \in 1..Len(words) /\ it + 4 \in 1..Len(words)
      BY <1>1, <2>1
    <3> QED BY <1>1, <3>1 DEF Condition, Conditions
  <2> HIDE DEF cond
  <2>3. /\ members.operandToken = builder.operandToken
        /\ members.targetTable = builder.targetTable
        /\ members.conditionToken = Append(conds, cond)
    BY <1>1 DEF Builders
  <2> HIDE DEF members
  <2>4. /\ builder'.operandToken = builder.operandToken
        /\ builder'.targetTable = builder.targetTable
        /\ builder'.conditionToken = Append(conds, cond)
    BY <2>1, <2>3
  <2>5. TableRead(t)'
    BY <1>2, <2>1, <2>4 DEF TableRead, OperandsRead
  <2>6. ConditionsRead(t + 1, it)'
    <3> DEFINE n == Len(conds)
               w == t + 1
               after == builder'.conditionToken
    <3>1. /\ n \in Nat /\ Len(after) = n + 1 /\ DOMAIN after = 1..n+1
          /\ \A i \in 1..n : after[i] = conds[i]
          /\ after[n + 1] = cond
      BY <1>1, <2>2, <2>4
    <3>2. /\ words[w] = "WHERE" /\ it = w + 5 * n
          /\ \A i \in 1..n :
               /\ words[w + 5*i - 4] = "(" /\ words[w + 5*i] = ")"
               /\ conds[i] = Condition(words[w+5*i-3], words[w+5*i-2], words[w+5*i-1])
      <4>1. DOMAIN conds = 1..n
        BY <1>1
      <4> QED BY <1>2, <4>1, Zenon DEF ConditionsRead
    <3> HIDE DEF n, after
    <3>3. /\ w + 5*(n+1) - 4 = it + 1 /\ w + 5*(n+1) - 3 = it + 2
          /\ w + 5*(n+1) - 2 = it + 3 /\ w + 5*(n+1) - 1 = it + 4
          /\ w + 5*(n+1) = it + 5
      BY <1>1, <1>2, <3>1, <3>2
    <3>4. /\ words[w + 5*(n+1) - 4] = "(" /\ words[w + 5*(n+1)] = ")"
          /\ after[n+1] =
               Condition(words[w+5*(n+1)-3], words[w+5*(n+1)-2], words[w+5*(n+1)-1])
      BY <2>1, <3>1, <3>3, Zenon DEF cond
    <3>5. ASSUME NEW i \in 1..n+1
          PROVE  /\ words[w + 5*i - 4] = "(" /\ words[w + 5*i] = ")"
                 /\ after[i] = Condition(words[w+5*i-3], words[w+5*i-2], words[w+5*i-1])
      <4>1. CASE i = n + 1
        BY <3>4, <4>1, Zenon
      <4>2. CASE i \in 1..n
        BY <3>1, <3>2, <4>2, Zenon
      <4> QED BY <3>1, <4>1, <4>2
    <3>6. it' = w + 5 * Len(after)
      BY <2>1, <3>1, <3>3
    <3> HIDE DEF w
    <3>7. words'[w] = "WHERE"
      BY <2>1, <3>2
    <3>8. \A i \in DOMAIN after :
            /\ words'[w + 5*i - 4] = "(" /\ words'[w + 5*i] = ")"
            /\ after[i] = Condition(words'[w+5*i-3], words'[w+5*i-2], words'[w+5*i-1])
      BY <2>1, <3>1, <3>5, Zenon
    <3> QED BY <3>6, <3>7, <3>8, Zenon DEF ConditionsRead, after, w
  <2>7. t < Len(words') /\ t \in 3..Len(words')
    BY <1>1, <1>2, <2>1
  <2> QED BY <2>1, <2>5, <2>6, <2>7 DEF MembersOfThisStatement
<1>5. CASE IllFormed
  BY <1>5, MembersRefused DEF IllFormed
<1> QED BY <1>3, <1>4, <1>5, Zenon DEF ScanCondition

\* Every step keeps what MembersOfThisStatement says.
LEMMA MembersStep == ASSUME Basic, MembersOfThisStatement, [Next]_vars PROVE MembersOfThisStatement'
<1>1. CASE Read
  <2>1. CASE main' = "over"
    BY <2>1, MembersElsewhere DEF Scanning
  <2>2. CASE Refuse
    BY <2>2, MembersRefused
  <2>3. CASE builder' = Cleared /\ main' = "dispatch"
    BY <2>3 DEF MembersOfThisStatement
  <2> QED BY <1>1, <2>1, <2>2, <2>3 DEF Read
<1>2. CASE Dispatch
  <2>1. CASE main' = "execute"
    BY <2>1, MembersElsewhere DEF Scanning
  <2>2. CASE main' = "operation" /\ builder' = builder
    BY <1>2, <2>2 DEF Dispatch, MembersOfThisStatement
  <2> QED BY <1>2, <2>1, <2>2 DEF Dispatch, Execute
<1>3. CASE Overrun
  BY <1>3, MembersElsewhere, MembersRefused DEF Overrun, IllFormed, Scanning
<1>4. CASE Build
  <2>1. CASE main' = "execute"
    BY <2>1, MembersElsewhere DEF Scanning
  <2>2. CASE IllFormed
    BY <2>2, MembersRefused DEF IllFormed
  <2> QED BY <1>4, <2>1, <2>2 DEF Build, Execute
<1>5. CASE \E kind \in Kinds : Answer(kind)
  BY <1>5, MembersElsewhere DEF Answer, Scanning
<1>6. CASE Quit
  BY <1>6, MembersElsewhere DEF Quit, Scanning
<1>7. CASE UNCHANGED vars
  BY <1>7 DEF vars, MembersOfThisStatement, TableRead, OperandsRead, ConditionsRead
<1> QED BY <1>1, <1>2, <1>3, <1>4, <1>5, <1>6, <1>7, MembersScanOperation, MembersScanOperand,
        MembersScanTable, MembersScanCondition DEF Next

-----------------------------------------------------------------------------
(* What is executed.                                                       *)

\* The first builders take the words that there have to be.
LEMMA ArityManaged ==
  ASSUME NEW text, text[1] \in Debugged(Len(text)) \cup Managed(Len(text))
  PROVE  text[1] \in DOMAIN Arity /\ Len(text) = Arity[text[1]] + 1
<1>1. \/ Len(text) = 1 /\ text[1] \in {"LIST", "QUIT"}
      \/ Len(text) = 2 /\ text[1] \in {"SHOWTABLE", "LOAD", "DROP", "TRUNCATE"}
      \/ Len(text) = 3 /\ text[1] \in {"DUMP", "COPYTABLE"}
  BY DEF Debugged, Managed
<1>2. DOMAIN Arity = {"LIST", "QUIT", "SHOWTABLE", "LOAD", "DROP", "TRUNCATE",
                      "DUMP", "COPYTABLE"}
  BY DEF Arity
<1>3. /\ Arity["LIST"] = 0 /\ Arity["QUIT"] = 0
      /\ Arity["SHOWTABLE"] = 1 /\ Arity["LOAD"] = 1
      /\ Arity["DROP"] = 1 /\ Arity["TRUNCATE"] = 1
      /\ Arity["DUMP"] = 2 /\ Arity["COPYTABLE"] = 2
  BY DEF Arity
<1>4. 0 + 1 = 1 /\ 1 + 1 = 2 /\ 2 + 1 = 3
  OBVIOUS
<1>5. CASE Len(text) = 1 /\ text[1] \in {"LIST", "QUIT"}
  BY <1>2, <1>3, <1>4, <1>5, Zenon
<1>6. CASE Len(text) = 2 /\ text[1] \in {"SHOWTABLE", "LOAD", "DROP", "TRUNCATE"}
  BY <1>2, <1>3, <1>4, <1>6, Zenon
<1>7. CASE Len(text) = 3 /\ text[1] \in {"DUMP", "COPYTABLE"}
  BY <1>2, <1>3, <1>4, <1>7, Zenon
<1> QED BY <1>1, <1>5, <1>6, <1>7

\* The first builders take what is spelled like a query of theirs.
LEMMA ExecuteManagement ==
  ASSUME Basic, Dispatch, main' = "execute"
  PROVE  ExecutesWhatIsSpelled'
<1>1. main = "dispatch" /\ words' = words
  BY DEF Dispatch
<1>2. /\ words[1] \in Debugged(Len(words)) \cup Managed(Len(words))
      /\ query' = ManagementQuery(words[1], Tail(words))
  BY DEF Dispatch, Execute
<1>3. words[1] \in DOMAIN Arity /\ Len(words) = Arity[words[1]] + 1
  BY <1>2, ArityManaged
<1>4. query' \in ManagementQueries(words)
  BY <1>2, <1>3 DEF ManagementQueries
<1> QED BY <1>1, <1>4 DEF ExecutesWhatIsSpelled, ManagementQueries

\* The words of a WHERE clause, one after the other.
LEMMA ClauseWords ==
  ASSUME NEW where \in Seq(Conditions)
  PROVE  /\ Clause(where) \in Seq(Strings) /\ Len(Clause(where)) = 5 * Len(where)
         /\ \A i \in 1..Len(where) :
              /\ Clause(where)[5*i - 4] = "(" /\ Clause(where)[5*i - 3] = where[i].field
              /\ Clause(where)[5*i - 2] = where[i].op /\ Clause(where)[5*i - 1] = where[i].value
              /\ Clause(where)[5*i] = ")"
<1> DEFINE n == Len(where)
           word(c, r) == <<"(", c.field, c.op, c.value, ")">>[r + 1]
           clause == [i \in 1..5*n |-> word(where[((i-1) \div 5) + 1], (i-1) % 5)]
<1>1. n \in Nat /\ 5 * n \in Nat
  OBVIOUS
<1>2. Clause(where) = clause
  BY DEF Clause
<1>3. ASSUME NEW c \in Conditions
      PROVE  /\ word(c, 0) = "(" /\ word(c, 1) = c.field /\ word(c, 2) = c.op
             /\ word(c, 3) = c.value /\ word(c, 4) = ")"
             /\ \A r \in 0..4 : word(c, r) \in Strings
  <2> DEFINE tuple == <<"(", c.field, c.op, c.value, ")">>
  <2>1. /\ tuple[1] = "(" /\ tuple[2] = c.field /\ tuple[3] = c.op
        /\ tuple[4] = c.value /\ tuple[5] = ")"
    OBVIOUS
  <2>2. "(" \in Strings /\ ")" \in Strings
        /\ c.field \in Strings /\ c.op \in Strings /\ c.value \in Strings
    BY DEF Conditions, Strings
  <2> HIDE DEF tuple
  <2>3. 0 + 1 = 1 /\ 1 + 1 = 2 /\ 2 + 1 = 3 /\ 3 + 1 = 4 /\ 4 + 1 = 5
    OBVIOUS
  <2>4. \A r \in 0..4 : r \in {0, 1, 2, 3, 4}
    OBVIOUS
  <2>5. /\ word(c, 0) = "(" /\ word(c, 1) = c.field /\ word(c, 2) = c.op
        /\ word(c, 3) = c.value /\ word(c, 4) = ")"
    BY <2>1, <2>3, Zenon DEF tuple
  <2> HIDE DEF word
  <2> QED BY <2>2, <2>4, <2>5
<1> HIDE DEF word
<1>4. ASSUME NEW i \in 1..n, NEW r \in 0..4
      PROVE  /\ 5*i - 4 + r \in 1..5*n
             /\ clause[5*i - 4 + r] = word(where[i], r)
  <2>1. 5*i - 4 + r \in 1..5*n
    BY <1>1
  <2>2. ((5*i - 4 + r - 1) \div 5) + 1 = i /\ (5*i - 4 + r - 1) % 5 = r
    BY <1>1
  <2> QED BY <2>1, <2>2
<1>5. ASSUME NEW j \in 1..5*n PROVE clause[j] \in Strings
  <2>1. /\ ((j-1) \div 5) + 1 \in 1..n /\ (j-1) % 5 \in 0..4
    BY <1>1
  <2>2. where[((j-1) \div 5) + 1] \in Conditions
    BY <2>1, ElementOfSeq
  <2> QED BY <1>3, <2>1, <2>2
<1>6. clause \in Seq(Strings) /\ Len(clause) = 5 * n
  <2> HIDE DEF n
  <2>1. \A j \in 1..5*n : clause[j] \in Strings
    BY <1>5
  <2>2. clause = [j \in 1..5*n |-> clause[j]]
    OBVIOUS
  <2> HIDE DEF clause
  <2> QED BY <1>1, <2>1, <2>2
<1>7. ASSUME NEW i \in 1..n
      PROVE  /\ clause[5*i - 4] = "(" /\ clause[5*i - 3] = where[i].field
             /\ clause[5*i - 2] = where[i].op /\ clause[5*i - 1] = where[i].value
             /\ clause[5*i] = ")"
  <2>1. where[i] \in Conditions
    BY ElementOfSeq
  <2>2. /\ 5*i - 4 = 5*i - 4 + 0 /\ 5*i - 3 = 5*i - 4 + 1 /\ 5*i - 2 = 5*i - 4 + 2
        /\ 5*i - 1 = 5*i - 4 + 3 /\ 5*i = 5*i - 4 + 4
    BY <1>1
  <2> HIDE DEF clause
  <2>3. \A r \in 0..4 : clause[5*i - 4 + r] = word(where[i], r)
    BY <1>4
  <2>4. 0 \in 0..4 /\ 1 \in 0..4 /\ 2 \in 0..4 /\ 3 \in 0..4 /\ 4 \in 0..4
    OBVIOUS
  <2> QED BY <1>3, <2>1, <2>2, <2>3, <2>4, Zenon
<1> HIDE DEF clause
<1> QED BY <1>2, <1>6, <1>7

\* The words of part are those of text from behind the n-th to the m-th.
Part(part, n, m, text) ==
  /\ part \in Seq(Strings) /\ n + Len(part) = m
  /\ \A j \in 1..Len(part) : part[j] = text[n + j]

\* No words.
LEMMA EmptyPart ==
  ASSUME NEW n \in Nat, NEW text
  PROVE  Part(<<>>, n, n, text)
BY DEF Part

\* One word.
LEMMA WordPart ==
  ASSUME NEW word \in Strings, NEW n \in Nat, NEW m \in Nat, m = n + 1,
         NEW text, text[m] = word
  PROVE  Part(<<word>>, n, m, text)
<1>1. <<word>> \in Seq(Strings) /\ Len(<<word>>) = 1 /\ <<word>>[1] = word
  OBVIOUS
<1>2. \A j \in 1..1 : j = 1
  OBVIOUS
<1> QED BY <1>1, <1>2, Zenon DEF Part

\* Two parts, one behind the other.
LEMMA ConcatPart ==
  ASSUME NEW a, NEW b, NEW n \in Nat, NEW k \in Nat, NEW m \in Nat, NEW text,
         Part(a, n, k, text), Part(b, k, m, text)
  PROVE  Part(a \o b, n, m, text)
<1>1. a \in Seq(Strings) /\ b \in Seq(Strings) /\ Len(a) \in Nat /\ Len(b) \in Nat
  BY DEF Part
<1>0. n + Len(a) = k /\ k + Len(b) = m
  BY Zenon DEF Part
<1>2. /\ a \o b \in Seq(Strings) /\ Len(a \o b) = Len(a) + Len(b)
      /\ \A j \in 1..Len(a) + Len(b) :
           (a \o b)[j] = IF j <= Len(a) THEN a[j] ELSE b[j - Len(a)]
  BY <1>1, ConcatProperties
<1>3. ASSUME NEW j \in 1..Len(a) + Len(b) PROVE (a \o b)[j] = text[n + j]
  <2>1. CASE j <= Len(a)
    BY <1>1, <1>2, <2>1 DEF Part
  <2>2. CASE ~(j <= Len(a))
    <3>1. j - Len(a) \in 1..Len(b) /\ k + (j - Len(a)) = n + j
      BY <1>0, <1>1, <2>2
    <3>2. b[j - Len(a)] = text[k + (j - Len(a))]
      BY <3>1 DEF Part
    <3> QED BY <1>2, <2>2, <3>1, <3>2
  <2> QED BY <2>1, <2>2
<1>4. n + (Len(a) + Len(b)) = m
  BY <1>0, <1>1
<1> QED BY <1>2, <1>3, <1>4 DEF Part

\* The conditions, as ConditionsRead has them.
LEMMA ClausePart ==
  ASSUME NEW where \in Seq(Conditions), NEW w \in Nat, NEW last \in Nat, NEW text,
         last = w + 5 * Len(where),
         \A i \in 1..Len(where) :
           /\ text[w + 5*i - 4] = "(" /\ text[w + 5*i] = ")"
           /\ where[i] = Condition(text[w+5*i-3], text[w+5*i-2], text[w+5*i-1])
  PROVE  Part(Clause(where), w, last, text)
<1> DEFINE n == Len(where)
<1>1. n \in Nat /\ Clause(where) \in Seq(Strings) /\ Len(Clause(where)) = 5 * n
  BY ClauseWords
<1>2. ASSUME NEW j \in 1..5*n PROVE Clause(where)[j] = text[w + j]
  <2>1. PICK i \in 1..n : j \in {5*i - 4, 5*i - 3, 5*i - 2, 5*i - 1, 5*i}
    <3>1. /\ ((j-1) \div 5) + 1 \in 1..n
          /\ j \in {5*(((j-1) \div 5) + 1) - 4, 5*(((j-1) \div 5) + 1) - 3,
                    5*(((j-1) \div 5) + 1) - 2, 5*(((j-1) \div 5) + 1) - 1,
                    5*(((j-1) \div 5) + 1)}
      BY <1>1
    <3> QED BY <3>1
  <2>2. /\ w + (5*i - 4) = w + 5*i - 4 /\ w + (5*i - 3) = w + 5*i - 3
        /\ w + (5*i - 2) = w + 5*i - 2 /\ w + (5*i - 1) = w + 5*i - 1
    BY <1>1
  <2> DEFINE f == text[w + 5*i - 3]
             o == text[w + 5*i - 2]
             v == text[w + 5*i - 1]
  <2>3. where[i] = Condition(f, o, v)
    OBVIOUS
  <2>4. Condition(f, o, v).field = f /\ Condition(f, o, v).op = o /\ Condition(f, o, v).value = v
    <3> HIDE DEF f, o, v
    <3> QED BY DEF Condition
  <2>5. /\ where[i].field = text[w + 5*i - 3] /\ where[i].op = text[w + 5*i - 2]
        /\ where[i].value = text[w + 5*i - 1]
    BY <2>3, <2>4, Zenon
  <2>6. /\ Clause(where)[5*i - 4] = "(" /\ Clause(where)[5*i - 3] = where[i].field
        /\ Clause(where)[5*i - 2] = where[i].op /\ Clause(where)[5*i - 1] = where[i].value
        /\ Clause(where)[5*i] = ")"
    BY ClauseWords
  <2>7. text[w + 5*i - 4] = "(" /\ text[w + 5*i] = ")"
    OBVIOUS
  <2> QED BY <2>1, <2>2, <2>5, <2>6, <2>7, Zenon
<1> QED BY <1>1, <1>2 DEF Part

\* What the scan has read when it is at the table is spelled by the words.
LEMMA TablePart ==
  ASSUME Basic, main \in Scanning, NEW t \in 3..Len(words), TableRead(t)
  PROVE  \E args \in {<<>>, <<"(">> \o builder.operandToken \o <<")">>} :
           /\ args = <<>> => builder.operandToken = <<>>
           /\ Part(<<words[1]>> \o args \o <<"FROM", builder.targetTable>>, 0, t, words)
<1> DEFINE operands == builder.operandToken
<1>1. /\ Len(words) \in Nat /\ t \in Nat /\ operands \in Seq(STRING)
      /\ \A i \in 1..Len(words) : words[i] \in Strings
  <2>1. Len(words) \in Nat /\ operands \in Seq(STRING)
    BY ScanFacts
  <2>2. \A i \in 1..Len(words) : words[i] \in Strings
    BY ScanFacts DEF Strings
  <2> QED BY <2>1, <2>2
<1>2. /\ words[t - 1] = "FROM" /\ OperandsRead(t - 1) /\ builder.targetTable = words[t]
  BY DEF TableRead
<1>3. /\ "(" \in Strings /\ ")" \in Strings /\ "FROM" \in Strings
  BY DEF Strings
<1>4. PICK args \in {<<>>, <<"(">> \o operands \o <<")">>} :
        /\ args = <<>> => operands = <<>>
        /\ Part(args, 1, t - 2, words)
  <2>1. CASE t = 3 /\ operands = <<>>
    <3>1. Part(<<>>, 1, t - 2, words)
      <4>1. t - 2 = 1 /\ 1 \in Nat
        BY <2>1
      <4> QED BY <4>1, EmptyPart, Zenon
    <3> QED BY <2>1, <3>1
  <2>2. CASE t > 4 /\ words[2] = "(" /\ words[t - 2] = ")" /\ operands = SubSeq(words, 3, t - 3)
    <3>1. Part(operands, 2, t - 3, words)
      <4> DEFINE m == t - 3
      <4>1. /\ m \in Nat /\ 3 \in Int /\ (\A i \in 3..m : words[i] \in Strings)
            /\ m - 3 + 1 = m - 2 /\ m >= 2
        BY <1>1, <2>2
      <4> HIDE DEF m
      <4>2. /\ SubSeq(words, 3, m) \in Seq(Strings)
            /\ Len(SubSeq(words, 3, m)) = m - 2
            /\ \A i \in 1..m-2 : SubSeq(words, 3, m)[i] = words[3 + i - 1]
        BY <4>1, SubSeqProperties
      <4>3. \A i \in 1..m-2 : 3 + i - 1 = 2 + i
        BY <4>1
      <4>4. 2 + (m - 2) = m
        BY <4>1
      <4> QED BY <2>2, <4>2, <4>3, <4>4, Zenon DEF m, Part
    <3>2. Part(<<"(">>, 1, 2, words)
      BY <1>3, <2>2, WordPart
    <3>3. t - 2 = (t - 3) + 1 /\ t - 3 \in Nat /\ t - 2 \in Nat /\ 1 \in Nat /\ 2 \in Nat
      BY <1>1, <2>2
    <3>4. Part(<<")">>, t - 3, t - 2, words)
      BY <1>3, <2>2, <3>3, WordPart
    <3>5. Part(<<"(">> \o operands, 1, t - 3, words)
      BY <3>1, <3>2, <3>3, ConcatPart, Zenon
    <3>6. Part(<<"(">> \o operands \o <<")">>, 1, t - 2, words)
      BY <3>3, <3>4, <3>5, ConcatPart, Zenon
    <3>7. <<"(">> \o operands \o <<")">> # <<>>
      <4>1. 1 + 0 # t - 2 /\ Len(<<>>) = 0
        BY <1>1, <2>2
      <4> QED BY <3>6, <4>1, Zenon DEF Part
    <3> QED BY <3>6, <3>7, Zenon
  <2>3. t - 1 - 1 = t - 2 /\ t - 1 - 2 = t - 3
    BY <1>1
  <2> QED BY <1>1, <1>2, <2>1, <2>2, <2>3 DEF OperandsRead
<1>5. 0 \in Nat /\ 1 \in Nat /\ t - 2 \in Nat /\ t \in Nat /\ 1 = 0 + 1 /\ words[1] \in Strings
  BY <1>1
<1>6. Part(<<words[1]>>, 0, 1, words)
  BY <1>5, WordPart, Zenon
<1>7. Part(<<words[1]>> \o args, 0, t - 2, words)
  BY <1>4, <1>5, <1>6, ConcatPart, Zenon
<1>8. Part(<<"FROM", words[t]>>, t - 2, t, words)
  <2>1. words[t] \in Strings /\ t - 2 + 1 = t - 1 /\ t - 2 + 2 = t
    BY <1>1
  <2>2. /\ <<"FROM", words[t]>> \in Seq(Strings) /\ Len(<<"FROM", words[t]>>) = 2
        /\ <<"FROM", words[t]>>[1] = "FROM" /\ <<"FROM", words[t]>>[2] = words[t]
    BY <1>3, <2>1
  <2>3. \A j \in 1..2 : j = 1 \/ j = 2
    OBVIOUS
  <2> QED BY <1>2, <2>1, <2>2, <2>3, Zenon DEF Part
<1>9. Part(<<words[1]>> \o args \o <<"FROM", words[t]>>, 0, t, words)
  BY <1>5, <1>7, <1>8, ConcatPart, Zenon
<1> QED BY <1>2, <1>4, <1>9, Zenon

\* When the query is built, the words spell it from the first to the last.
LEMMA ExecuteData ==
  ASSUME Basic, MembersOfThisStatement, Build, main' = "execute"
  PROVE  ExecutesWhatIsSpelled'
<1> DEFINE q == [op |-> words[1], operands |-> builder.operandToken,
                 table |-> builder.targetTable, where |-> builder.conditionToken]
<1>1. main = "build" /\ main \in Scanning /\ words' = words /\ query' = q
  BY DEF Build, Execute, IllFormed, Refuse, Scanning
<1>2. /\ q.op = words[1] /\ q.operands = builder.operandToken
      /\ q.table = builder.targetTable /\ q.where = builder.conditionToken
  OBVIOUS
<1> HIDE DEF q
<1>3. /\ it = Len(words) /\ Len(words) \in Nat
      /\ words \in Seq(Strings) /\ builder.conditionToken \in Seq(Conditions)
  <2>1. words \in Seq(STRING) /\ STRING \subseteq Strings
    BY <1>1, ScanFacts DEF Strings
  <2> QED BY <1>1, <2>1, ScanFacts, SeqMonotonic DEF MembersOfThisStatement
<1>4. PICK t \in 3..Len(words) :
        /\ TableRead(t)
        /\ \/ t < Len(words) /\ ConditionsRead(t + 1, it)
           \/ it = t /\ builder.conditionToken = <<>>
  BY <1>1 DEF MembersOfThisStatement
<1>5. PICK args \in {<<>>, <<"(">> \o q.operands \o <<")">>} :
        /\ args = <<>> => q.operands = <<>>
        /\ Part(<<q.op>> \o args \o <<"FROM", q.table>>, 0, t, words)
  BY <1>1, <1>2, <1>4, TablePart, Zenon
<1> DEFINE where == q.where
           n == Len(where)
<1>6. where \in Seq(Conditions) /\ n \in Nat /\ t \in Nat /\ t + 1 \in Nat /\ 0 \in Nat
  BY <1>2, <1>3
<1>7. PICK clause \in {<<>>, <<"WHERE">> \o Clause(where)} :
        /\ clause = <<>> => where = <<>>
        /\ Part(clause, t, Len(words), words)
  <2>1. CASE it = t /\ where = <<>>
    <3>1. Part(<<>>, t, t, words)
      BY <1>6, EmptyPart
    <3> QED BY <1>3, <2>1, <3>1, Zenon
  <2>2. CASE t < Len(words) /\ ConditionsRead(t + 1, it)
    <3>1. DOMAIN where = 1..n
      BY <1>6
    <3>2. /\ words[t + 1] = "WHERE" /\ it = t + 1 + 5 * n
          /\ \A i \in 1..n :
               /\ words[t + 1 + 5*i - 4] = "(" /\ words[t + 1 + 5*i] = ")"
               /\ where[i] = Condition(words[t+1+5*i-3], words[t+1+5*i-2], words[t+1+5*i-1])
      BY <1>2, <2>2, <3>1, Zenon DEF ConditionsRead
    <3> HIDE DEF where
    <3>3. Part(Clause(where), t + 1, Len(words), words)
      BY <1>3, <1>6, <3>2, ClausePart, Zenon
    <3>4. "WHERE" \in Strings
      BY DEF Strings
    <3>5. Part(<<"WHERE">>, t, t + 1, words)
      BY <1>6, <3>2, <3>4, WordPart, Zenon
    <3>6. Part(<<"WHERE">> \o Clause(where), t, Len(words), words)
      BY <1>3, <1>6, <3>3, <3>5, ConcatPart, Zenon
    <3>7. <<"WHERE">> \o Clause(where) # <<>>
      <4>1. t + 0 # Len(words) /\ Len(<<>>) = 0
        BY <1>3, <2>2
      <4> QED BY <3>6, <4>1, Zenon DEF Part
    <3> QED BY <3>6, <3>7, Zenon
  <2> QED BY <1>2, <1>4, <2>1, <2>2, Zenon
<1>8. words = <<q.op>> \o args \o <<"FROM", q.table>> \o clause
  <2> DEFINE text == <<q.op>> \o args \o <<"FROM", q.table>> \o clause
  <2>1. Part(text, 0, Len(words), words)
    BY <1>3, <1>5, <1>6, <1>7, ConcatPart, Zenon
  <2> HIDE DEF text
  <2>2. text \in Seq(Strings) /\ Len(text) = Len(words)
    BY <1>3, <2>1 DEF Part
  <2>3. \A j \in 1..Len(text) : text[j] = words[j]
    <3>1. \A j \in 1..Len(text) : 0 + j = j
      BY <1>3, <2>2
    <3> QED BY <2>1, <3>1, Zenon DEF Part
  <2>4. text = words
    BY <1>3, <2>2, <2>3, SeqEqual
  <2> QED BY <2>4 DEF text
<1>9. Spells(q, words)
  BY <1>5, <1>7, <1>8, Zenon DEF Spells
<1> QED BY <1>1, <1>9, Zenon DEF ExecutesWhatIsSpelled, Spells

\* Every step keeps what ExecutesWhatIsSpelled says.
LEMMA ExecuteStep ==
  ASSUME Basic, MembersOfThisStatement, ExecutesWhatIsSpelled, [Next]_vars
  PROVE  ExecutesWhatIsSpelled'
<1>1. CASE main' # "execute"
  BY <1>1 DEF ExecutesWhatIsSpelled
<1>2. CASE main' = "execute"
  <2>1. CASE UNCHANGED vars
    BY <2>1 DEF vars, ExecutesWhatIsSpelled, ManagementQueries, Spells
  <2>2. CASE Dispatch
    BY <1>2, <2>2, ExecuteManagement
  <2>3. CASE Build
    BY <1>2, <2>3, ExecuteData
  <2>4. ~Read /\ ~ScanOperation /\ ~ScanOperand /\ ~Overrun /\ ~ScanTable /\ ~ScanCondition
    BY <1>2 DEF Read, ScanOperation, ScanOperand, Overrun, ScanTable, ScanCondition,
                GoOn, IllFormed, Refuse
  <2>5. ~Quit /\ \A kind \in Kinds : ~Answer(kind)
    BY <1>2 DEF Quit, Answer
  <2> QED BY <2>1, <2>2, <2>3, <2>4, <2>5 DEF Next
<1> QED BY <1>1, <1>2

-----------------------------------------------------------------------------
(* The theorems.                                                           *)

\* The inductive invariant.
IInv == Basic /\ MembersOfThisStatement /\ ExecutesWhatIsSpelled

\* It is one.
LEMMA InvariantHolds == Spec => []IInv
<1>1. Init => IInv
  <2>1. Init => MembersOfThisStatement /\ ExecutesWhatIsSpelled
    BY DEF Init, MembersOfThisStatement, ExecutesWhatIsSpelled
  <2> QED BY <2>1, BasicInit DEF IInv
<1>2. IInv /\ [Next]_vars => IInv'
  BY BasicStep, MembersStep, ExecuteStep DEF IInv
<1> QED BY <1>1, <1>2, PTL DEF Spec

(***************************************************************************)
(* The iterator of parseToken stays within the words or just behind them,  *)
(* and there are never more numbered results than replies.                 *)
(***************************************************************************)
THEOREM TypeCorrect == Spec => []TypeOK
<1>1. IInv => TypeOK
  BY DEF IInv, Basic
<1> QED BY <1>1, InvariantHolds, PTL

(***************************************************************************)
(* At every turn the members of ComplexQueryBuilder hold what was read of  *)
(* this statement, whatever an exception left in them before.              *)
(***************************************************************************)
THEOREM MembersCorrect == Spec => []MembersOfThisStatement
<1>1. IInv => MembersOfThisStatement
  BY DEF IInv
<1> QED BY <1>1, InvariantHolds, PTL

(***************************************************************************)
(* Whatever is executed is the query that the words of its statement       *)
(* spell, for any input.                                                   *)
(***************************************************************************)
THEOREM SpellingCorrect == Spec => []ExecutesWhatIsSpelled
<1>1. IInv => ExecutesWhatIsSpelled
  BY DEF IInv
<1> QED BY <1>1, InvariantHolds, PTL

-----------------------------------------------------------------------------
(* The statements of the input, one after the other.                       *)

\* How many semicolons there are up to i.
Ordinal(text, i) == Cardinality({j \in Semicolons(text) : j <= i})

LEMMA SemicolonsFinite ==
  ASSUME NEW text \in Seq(STRING)
  PROVE  /\ Semicolons(text) \subseteq 1..Len(text) /\ Len(text) \in Nat
         /\ IsFiniteSet(Semicolons(text))
         /\ Cardinality(Semicolons(text)) \in Nat
         /\ \A i : /\ IsFiniteSet({j \in Semicolons(text) : j <= i})
                   /\ Ordinal(text, i) \in Nat
                   /\ Ordinal(text, i) <= Cardinality(Semicolons(text))
<1>1. Semicolons(text) \subseteq 1..Len(text) /\ Len(text) \in Nat
  BY LenProperties DEF Semicolons
<1>2. IsFiniteSet(1..Len(text))
  BY <1>1, FS_Interval
<1>3. IsFiniteSet(Semicolons(text)) /\ Cardinality(Semicolons(text)) \in Nat
  BY <1>1, <1>2, FS_Subset, FS_CardinalityType
<1>4. ASSUME NEW i
      PROVE  /\ IsFiniteSet({j \in Semicolons(text) : j <= i})
             /\ Ordinal(text, i) \in Nat
             /\ Ordinal(text, i) <= Cardinality(Semicolons(text))
  <2> DEFINE T == {j \in Semicolons(text) : j <= i}
  <2>1. T \in SUBSET Semicolons(text)
    OBVIOUS
  <2> HIDE DEF T
  <2>2. IsFiniteSet(T) /\ Cardinality(T) <= Cardinality(Semicolons(text))
    BY <1>3, <2>1, FS_Subset
  <2>3. Cardinality(T) \in Nat
    BY <2>2, FS_CardinalityType
  <2> QED BY <2>2, <2>3 DEF T, Ordinal
<1> QED BY <1>1, <1>3, <1>4

\* Semicolons are counted one after the other.
LEMMA OrdinalsGrow ==
  ASSUME NEW text \in Seq(STRING), NEW i \in Semicolons(text), NEW k \in Semicolons(text), i < k
  PROVE  Ordinal(text, i) < Ordinal(text, k)
<1> DEFINE S == {j \in Semicolons(text) : j <= i}
           T == {j \in Semicolons(text) : j <= k}
<1>1. i \in Nat /\ k \in Nat /\ Semicolons(text) \subseteq Nat
  BY SemicolonsFinite
<1>2. IsFiniteSet(S) /\ IsFiniteSet(T) /\ Cardinality(S) \in Nat /\ Cardinality(T) \in Nat
  BY SemicolonsFinite DEF Ordinal
<1>3. k \notin S /\ S \cup {k} \in SUBSET T
  BY <1>1
<1> HIDE DEF S, T
<1>4. Cardinality(S \cup {k}) = Cardinality(S) + 1
  BY <1>2, <1>3, FS_AddElement
<1>5. Cardinality(S \cup {k}) <= Cardinality(T)
  BY <1>2, <1>3, FS_Subset
<1> QED BY <1>2, <1>4, <1>5 DEF S, T, Ordinal

\* Every number up to the last is that of a semicolon.
LEMMA OrdinalsReached ==
  ASSUME NEW text \in Seq(STRING), NEW n \in 1..Cardinality(Semicolons(text))
  PROVE  \E i \in Semicolons(text) : Ordinal(text, i) = n
<1> DEFINE S == Semicolons(text)
           c == Cardinality(S)
           f == [i \in S |-> Ordinal(text, i)]
<1>1. S \subseteq Nat /\ IsFiniteSet(S) /\ c \in Nat
  BY SemicolonsFinite
<1>2. ASSUME NEW i \in S PROVE Ordinal(text, i) \in 1..c
  <2>1. Ordinal(text, i) \in Nat /\ Ordinal(text, i) <= c
    BY SemicolonsFinite
  <2>2. Ordinal(text, i) # 0
    <3> DEFINE T == {j \in S : j <= i}
    <3>1. i \in T /\ IsFiniteSet(T)
      <4>1. i \in Nat
        BY <1>1
      <4>2. IsFiniteSet({j \in Semicolons(text) : j <= i})
        BY SemicolonsFinite, Zenon
      <4> QED BY <4>1, <4>2
    <3> HIDE DEF T
    <3>2. Cardinality(T) # 0
      BY <3>1, FS_EmptySet
    <3> QED BY <3>2 DEF T, Ordinal
  <2> HIDE DEF c
  <2> QED BY <1>1, <2>1, <2>2
<1>3. ASSUME NEW i \in S, NEW k \in S, i # k PROVE Ordinal(text, i) # Ordinal(text, k)
  <2>1. i < k \/ k < i
    BY <1>1, <1>3
  <2>2. Ordinal(text, i) \in Nat /\ Ordinal(text, k) \in Nat
    BY SemicolonsFinite
  <2>3. CASE i < k
    BY <2>2, <2>3, OrdinalsGrow
  <2>4. CASE k < i
    BY <2>2, <2>4, OrdinalsGrow
  <2> QED BY <2>1, <2>3, <2>4
<1>4. f \in Injection(S, 1..c)
  <2> HIDE DEF S, c
  <2> QED BY <1>2, <1>3 DEF Injection, IsInjective
<1>5. IsFiniteSet(1..c) /\ Cardinality(1..c) = c
  <2> HIDE DEF c
  <2> QED BY <1>1, FS_Interval
<1> HIDE DEF f
<1>6. f \in Surjection(S, 1..c)
  BY <1>1, <1>4, <1>5, FS_Injection
<1> QED BY <1>6 DEF Surjection, f

\* Counting numbers, and the same numbers from e on.
LEMMA Shifted ==
  ASSUME NEW e \in Nat, NEW A, A \subseteq Nat \ {0}, IsFiniteSet(A)
  PROVE  Cardinality({e} \cup {e + a : a \in A}) = Cardinality(A) + 1
<1> DEFINE B == {e + a : a \in A}
           f == [a \in A |-> e + a]
<1>1. f \in Bijection(A, B)
  <2>1. ASSUME NEW a \in A, NEW b \in A, e + a = e + b PROVE a = b
    BY <2>1
  <2>2. f \in Injection(A, B)
    BY <2>1 DEF Injection, IsInjective
  <2>3. f \in Surjection(A, B)
    BY DEF Surjection
  <2> QED BY <2>2, <2>3 DEF Bijection
<1>2. e \notin B
  OBVIOUS
<1> HIDE DEF f, B
<1>3. IsFiniteSet(B) /\ Cardinality(B) = Cardinality(A)
  BY <1>1, FS_Bijection DEF ExistsBijection
<1>4. Cardinality(B \cup {e}) = Cardinality(B) + 1
  BY <1>2, <1>3, FS_AddElement
<1>5. B \cup {e} = {e} \cup B
  OBVIOUS
<1> QED BY <1>3, <1>4, <1>5 DEF B

\* The first statement of text, and what is behind its semicolon.
First(text) == SubSeq(text, 1, End(text) - 1)
Rest(text) == SubSeq(text, End(text) + 1, Len(text))

LEMMA RestOf ==
  ASSUME NEW text \in Seq(STRING), Semicolons(text) # {}
  PROVE  /\ End(text) \in 1..Len(text) /\ End(text) \in Semicolons(text)
         /\ \A j \in Semicolons(text) : End(text) <= j
         /\ First(text) \in Seq(STRING)
         /\ Rest(text) \in Seq(STRING) /\ Len(Rest(text)) = Len(text) - End(text)
         /\ \A i \in 1..Len(text) - End(text) : Rest(text)[i] = text[End(text) + i]
<1> DEFINE e == End(text)
           n == Len(text)
<1>1. /\ Semicolons(text) \subseteq 1..n /\ n \in Nat /\ Semicolons(text) \subseteq Nat
      /\ \A i \in 1..n : text[i] \in STRING
  BY SemicolonsFinite, ElementOfSeq
<1>2. e \in Semicolons(text) /\ \A j \in Semicolons(text) : e <= j
  <2>1. \E i \in Semicolons(text) : \A j \in Semicolons(text) : i <= j
    BY <1>1, LeastNumber
  <2> QED BY <2>1 DEF End
<1>3. e \in 1..n
  BY <1>1, <1>2
<1> HIDE DEF e, n
<1>4. /\ e \in Int /\ n \in Int /\ e + 1 \in Int /\ e - 1 \in Int /\ 1 \in Int
      /\ \A i \in (e + 1)..n : text[i] \in STRING
      /\ \A i \in 1..(e - 1) : text[i] \in STRING
  BY <1>1, <1>3
<1>5. SubSeq(text, 1, e - 1) \in Seq(STRING)
  BY <1>4, SubSeqProperties
<1>6. /\ SubSeq(text, e + 1, n) \in Seq(STRING)
      /\ Len(SubSeq(text, e + 1, n)) = IF e + 1 <= n THEN n - (e + 1) + 1 ELSE 0
      /\ \A i \in 1..n - (e + 1) + 1 : SubSeq(text, e + 1, n)[i] = text[e + 1 + i - 1]
  BY <1>4, SubSeqProperties
<1>7. (IF e + 1 <= n THEN n - (e + 1) + 1 ELSE 0) = n - e /\ n - (e + 1) + 1 = n - e
  BY <1>1, <1>3
<1>8. \A i \in 1..n - e : e + 1 + i - 1 = e + i
  BY <1>4
<1> QED BY <1>2, <1>3, <1>5, <1>6, <1>7, <1>8, Zenon DEF e, n, First, Rest

\* The semicolons of the rest are those of the text but the first.
LEMMA RestSemicolons ==
  ASSUME NEW text \in Seq(STRING), Semicolons(text) # {}
  PROVE  /\ Semicolons(text) = {End(text)} \cup {End(text) + j : j \in Semicolons(Rest(text))}
         /\ Cardinality(Semicolons(text)) = Cardinality(Semicolons(Rest(text))) + 1
         /\ Ordinal(text, End(text)) = 1
         /\ \A i \in Semicolons(Rest(text)) :
              Ordinal(text, End(text) + i) = Ordinal(Rest(text), i) + 1
<1> DEFINE e == End(text)
           n == Len(text)
           rest == Rest(text)
           S == Semicolons(text)
           T == Semicolons(rest)
<1>1. /\ e \in 1..n /\ e \in S /\ n \in Nat /\ \A j \in S : e <= j
      /\ rest \in Seq(STRING) /\ Len(rest) = n - e
      /\ \A i \in 1..n - e : rest[i] = text[e + i]
  BY RestOf, SemicolonsFinite
<1>2. /\ S \subseteq 1..n /\ T \subseteq 1..n-e /\ IsFiniteSet(T)
      /\ \A i : IsFiniteSet({j \in T : j <= i})
  <2>1. T \subseteq 1..Len(rest) /\ IsFiniteSet(T) /\ \A i : IsFiniteSet({j \in T : j <= i})
    BY <1>1, SemicolonsFinite
  <2> QED BY <1>1, <2>1, SemicolonsFinite
<1>3. S = {e} \cup {e + j : j \in T}
  <2>1. /\ \A i \in 1..n : i \in S <=> text[i] = ";"
        /\ \A i \in 1..n-e : i \in T <=> rest[i] = ";"
    <3>1. DOMAIN text = 1..n /\ DOMAIN rest = 1..n-e
      BY <1>1
    <3> QED BY <3>1 DEF Semicolons
  <2> HIDE DEF S, T, e, n, rest
  <2>2. ASSUME NEW i \in S, i # e PROVE \E j \in T : i = e + j
    <3>1. i \in 1..n /\ i - e \in 1..n-e /\ e + (i - e) = i
      BY <1>1, <1>2, <2>2
    <3>2. i - e \in T
      BY <1>1, <2>1, <2>2, <3>1
    <3> QED BY <3>1, <3>2
  <2>3. ASSUME NEW j \in T PROVE e + j \in S
    <3>1. j \in 1..n-e /\ e + j \in 1..n
      BY <1>1, <1>2
    <3> QED BY <1>1, <2>1, <3>1
  <2> QED BY <1>1, <2>2, <2>3
<1> HIDE DEF S, T, e, n, rest
<1>4. e \in Nat /\ T \subseteq Nat \ {0}
  BY <1>1, <1>2
<1>5. Cardinality(S) = Cardinality(T) + 1
  BY <1>2, <1>3, <1>4, Shifted
<1>6. Ordinal(text, e) = 1
  <2>1. ASSUME NEW j \in S, j <= e PROVE j = e
    BY <1>1, <1>2, <2>1
  <2>2. e \in S /\ e <= e
    BY <1>1, <1>4
  <2>3. {j \in S : j <= e} = {e}
    BY <2>1, <2>2, Zenon
  <2> QED BY <2>3, FS_Singleton DEF Ordinal, S
<1>7. ASSUME NEW i \in T PROVE Ordinal(text, e + i) = Ordinal(rest, i) + 1
  <2> DEFINE A == {j \in T : j <= i}
  <2>1. {j \in S : j <= e + i} = {e} \cup {e + j : j \in A}
    BY <1>3, <1>4
  <2>2. IsFiniteSet(A) /\ A \subseteq Nat \ {0}
    BY <1>2, <1>4
  <2> HIDE DEF A
  <2>3. Cardinality({e} \cup {e + j : j \in A}) = Cardinality(A) + 1
    BY <1>4, <2>2, Shifted
  <2> QED BY <2>1, <2>3 DEF A, Ordinal, S, T
<1> QED BY <1>3, <1>5, <1>6, <1>7 DEF S, T, e, n, rest

\* The place of the n-th semicolon, as Statements has it.
Place(text, n) == IF n = 0 THEN 0 ELSE CHOOSE i \in Semicolons(text) : Ordinal(text, i) = n

LEMMA PlaceOf ==
  ASSUME NEW text \in Seq(STRING)
  PROVE  /\ \A n \in 1..Cardinality(Semicolons(text)) :
              Place(text, n) \in Semicolons(text) /\ Ordinal(text, Place(text, n)) = n
         /\ \A i \in Semicolons(text) : Ordinal(text, i) # 0 => Place(text, Ordinal(text, i)) = i
<1>1. ASSUME NEW n \in 1..Cardinality(Semicolons(text))
      PROVE  Place(text, n) \in Semicolons(text) /\ Ordinal(text, Place(text, n)) = n
  <2>1. n # 0
    BY SemicolonsFinite
  <2>2. \E i \in Semicolons(text) : Ordinal(text, i) = n
    BY OrdinalsReached
  <2> QED BY <2>1, <2>2 DEF Place
<1>2. ASSUME NEW i \in Semicolons(text), Ordinal(text, i) # 0
      PROVE  Place(text, Ordinal(text, i)) = i
  <2> DEFINE k == Place(text, Ordinal(text, i))
  <2>1. k \in Semicolons(text) /\ Ordinal(text, k) = Ordinal(text, i)
    BY <1>2 DEF Place
  <2> HIDE DEF k
  <2>2. i \in Nat /\ k \in Nat
    BY <2>1, SemicolonsFinite
  <2>0. Ordinal(text, i) \in Nat /\ Ordinal(text, k) \in Nat
    BY SemicolonsFinite, Zenon
  <2>3. ~(i < k) /\ ~(k < i)
    BY <2>0, <2>1, <2>2, OrdinalsGrow
  <2> QED BY <2>2, <2>3 DEF k
<1> QED BY <1>1, <1>2

LEMMA RestPlaces ==
  ASSUME NEW text \in Seq(STRING), Semicolons(text) # {},
         NEW n \in 0..Cardinality(Semicolons(Rest(text)))
  PROVE  /\ Place(text, n + 1) = End(text) + Place(Rest(text), n)
         /\ Place(Rest(text), n) \in 0..Len(Rest(text))
         /\ n # 0 => Place(Rest(text), n) # 0
<1> DEFINE rest == Rest(text)
           c == Cardinality(Semicolons(rest))
<1>1. /\ rest \in Seq(STRING) /\ c \in Nat /\ Len(rest) \in Nat
      /\ Semicolons(rest) \subseteq 1..Len(rest)
      /\ End(text) \in Nat /\ End(text) \in Semicolons(text)
  BY RestOf, SemicolonsFinite
<1>2. CASE n = 0
  <2>1. Place(rest, n) = 0
    BY <1>2 DEF Place
  <2>2. Place(text, 1) = End(text)
    <3>1. Ordinal(text, End(text)) = 1
      BY RestSemicolons
    <3> QED BY <1>1, <3>1, PlaceOf
  <2> HIDE DEF rest
  <2> QED BY <1>1, <1>2, <2>1, <2>2 DEF rest
<1>3. CASE n # 0
  <2> DEFINE i == Place(rest, n)
  <2>1. n \in 1..c
    <3> HIDE DEF c
    <3>1. n \in 0..c
      BY DEF c
    <3> QED BY <1>1, <1>3, <3>1
  <2>2. i \in Semicolons(rest) /\ Ordinal(rest, i) = n
    BY <1>1, <2>1, PlaceOf
  <2> HIDE DEF i
  <2>3. End(text) + i \in Semicolons(text) /\ Ordinal(text, End(text) + i) = n + 1
    BY <2>2, RestSemicolons
  <2>4. n + 1 # 0
    OBVIOUS
  <2>5. Place(text, n + 1) = End(text) + i
    BY <2>3, <2>4, PlaceOf, Zenon
  <2>6. i \in 0..Len(rest) /\ i # 0
    <3> HIDE DEF rest
    <3> QED BY <1>1, <2>2
  <2> QED BY <2>5, <2>6 DEF i
<1> QED BY <1>2, <1>3

\* Parts with the same words.
LEMMA SameParts ==
  ASSUME NEW s \in Seq(STRING), NEW t \in Seq(STRING),
         NEW k \in Int, NEW l \in Int, NEW m \in Int, NEW n \in Int, l - k = n - m,
         \A i \in k..l : s[i] \in STRING,
         \A i \in m..n : t[i] \in STRING,
         \A i \in 0..l-k : s[k + i] = t[m + i]
  PROVE  SubSeq(s, k, l) = SubSeq(t, m, n) /\ SubSeq(t, m, n) \in Seq(STRING)
<1> DEFINE a == SubSeq(s, k, l)
           b == SubSeq(t, m, n)
<1>1. /\ a \in Seq(STRING) /\ Len(a) = (IF k <= l THEN l - k + 1 ELSE 0)
      /\ \A i \in 1..l-k+1 : a[i] = s[k + i - 1]
  BY SubSeqProperties
<1>2. /\ b \in Seq(STRING) /\ Len(b) = (IF m <= n THEN n - m + 1 ELSE 0)
      /\ \A i \in 1..n-m+1 : b[i] = t[m + i - 1]
  BY SubSeqProperties
<1> HIDE DEF a, b
<1>3. Len(a) = Len(b) /\ (Len(a) = l - k + 1 \/ Len(a) = 0)
  BY <1>1, <1>2
<1>4. ASSUME NEW i \in 1..l-k+1 PROVE a[i] = b[i]
  <2>1. i - 1 \in 0..l-k /\ k + i - 1 = k + (i - 1) /\ m + i - 1 = m + (i - 1) /\ i \in 1..n-m+1
    OBVIOUS
  <2>2. s[k + (i - 1)] = t[m + (i - 1)]
    BY <2>1
  <2> QED BY <1>1, <1>2, <2>1, <2>2
<1>5. \A i \in 1..Len(a) : a[i] = b[i]
  BY <1>3, <1>4
<1>6. a = b
  BY <1>1, <1>2, <1>3, <1>5, SeqEqual
<1> QED BY <1>2, <1>6 DEF a, b

\* The words of a part of the rest.
LEMMA RestPart ==
  ASSUME NEW text \in Seq(STRING), Semicolons(text) # {},
         NEW a \in Nat, NEW b \in 0..Len(Rest(text))
  PROVE  /\ SubSeq(text, End(text) + a + 1, End(text) + b - 1)
              = SubSeq(Rest(text), a + 1, b - 1)
         /\ SubSeq(Rest(text), a + 1, b - 1) \in Seq(STRING)
<1> DEFINE e == End(text)
           n == Len(text)
           rest == Rest(text)
<1>1. /\ e \in 1..n /\ n \in Nat
      /\ rest \in Seq(STRING) /\ Len(rest) = n - e
      /\ \A i \in 1..n - e : rest[i] = text[e + i]
      /\ \A i \in 1..n : text[i] \in STRING
      /\ \A i \in 1..n - e : rest[i] \in STRING
  BY RestOf, SemicolonsFinite, ElementOfSeq
<1>2. b \in 0..n-e
  BY <1>1
<1> HIDE DEF e, n, rest
<1>3. /\ a + 1 \in Int /\ b - 1 \in Int /\ \A i \in (a+1)..(b-1) : rest[i] \in STRING
      /\ e + a + 1 \in Int /\ e + b - 1 \in Int
      /\ \A i \in (e+a+1)..(e+b-1) : text[i] \in STRING
      /\ (e + b - 1) - (e + a + 1) = (b - 1) - (a + 1)
  BY <1>1, <1>2
<1>4. ASSUME NEW i \in 0..(e + b - 1) - (e + a + 1)
      PROVE  text[e + a + 1 + i] = rest[a + 1 + i]
  <2>1. a + 1 + i \in 1..n - e /\ e + a + 1 + i = e + (a + 1 + i)
    BY <1>1, <1>2
  <2> QED BY <1>1, <2>1
<1>5. /\ SubSeq(text, e + a + 1, e + b - 1) = SubSeq(rest, a + 1, b - 1)
      /\ SubSeq(rest, a + 1, b - 1) \in Seq(STRING)
  <2> DEFINE k == e + a + 1
             l == e + b - 1
             m == a + 1
             o == b - 1
  <2>1. /\ k \in Int /\ l \in Int /\ m \in Int /\ o \in Int /\ l - k = o - m
        /\ \A i \in k..l : text[i] \in STRING
        /\ \A i \in m..o : rest[i] \in STRING
        /\ \A i \in 0..l-k : text[k + i] = rest[m + i]
    BY <1>3, <1>4
  <2> HIDE DEF k, l, m, o
  <2> QED BY <1>1, <2>1, SameParts DEF k, l, m, o
<1> QED BY <1>5 DEF e, rest

\* Statements without its local definitions.
LEMMA StatementsAre ==
  ASSUME NEW text \in Seq(STRING)
  PROVE  /\ Statements(text) = [n \in 1..Cardinality(Semicolons(text)) |->
                                  SubSeq(text, Place(text, n-1) + 1, Place(text, n) - 1)]
         /\ Statements(text) \in Seq(Seq(STRING))
         /\ Len(Statements(text)) = Cardinality(Semicolons(text))
<1> DEFINE c == Cardinality(Semicolons(text))
           part(n) == SubSeq(text, Place(text, n-1) + 1, Place(text, n) - 1)
<1>1. Statements(text) = [n \in 1..c |-> part(n)]
  BY Zenon DEF Statements, Place, Ordinal
<1>2. /\ c \in Nat /\ Len(text) \in Nat /\ Semicolons(text) \subseteq 1..Len(text)
      /\ \A i \in 1..Len(text) : text[i] \in STRING
  BY SemicolonsFinite, ElementOfSeq
<1>3. ASSUME NEW n \in 1..c PROVE part(n) \in Seq(STRING)
  <2> DEFINE a == Place(text, n-1)
             b == Place(text, n)
  <2>1. b \in 1..Len(text)
    BY <1>2, PlaceOf
  <2>2. a \in Nat
    <3> HIDE DEF c
    <3>1. CASE n - 1 = 0
      BY <3>1 DEF Place
    <3>2. CASE n - 1 # 0
      <4>1. n - 1 \in 1..c
        BY <1>2, <3>2
      <4>2. a \in Semicolons(text)
        BY <4>1, PlaceOf DEF c
      <4> QED BY <1>2, <4>2
    <3> QED BY <3>1, <3>2
  <2> HIDE DEF a, b
  <2>3. /\ a + 1 \in Int /\ b - 1 \in Int
        /\ \A i \in (a + 1)..(b - 1) : text[i] \in STRING
    BY <1>2, <2>1, <2>2
  <2>4. SubSeq(text, a + 1, b - 1) \in Seq(STRING)
    BY <2>3, SubSeqProperties
  <2> QED BY <2>4 DEF a, b
<1> HIDE DEF c, part
<1>4. /\ [n \in 1..c |-> part(n)] \in Seq(Seq(STRING))
      /\ Len([n \in 1..c |-> part(n)]) = c
  BY <1>2, <1>3
<1> QED BY <1>1, <1>4, Zenon DEF c, part

\* No semicolon, no statement.
LEMMA NoStatements ==
  ASSUME NEW text \in Seq(STRING), Semicolons(text) = {}
  PROVE  Statements(text) = <<>>
<1>1. Cardinality(Semicolons(text)) = 0
  BY FS_EmptySet
<1> DEFINE s == Statements(text)
<1>2. s \in Seq(Seq(STRING)) /\ Len(s) = 0
  BY <1>1, StatementsAre
<1> HIDE DEF s
<1>3. s = <<>>
  BY <1>2, EmptySeq
<1> QED BY <1>3 DEF s

\* A statement before others.
LEMMA Prepended ==
  ASSUME NEW S, NEW x \in S, NEW t \in Seq(S)
  PROVE  /\ <<x>> \o t \in Seq(S) /\ Len(<<x>> \o t) = Len(t) + 1
         /\ (<<x>> \o t)[1] = x /\ \A n \in 1..Len(t) : (<<x>> \o t)[n + 1] = t[n]
         /\ <<x>> \o t # <<>> /\ Head(<<x>> \o t) = x /\ Tail(<<x>> \o t) = t
<1> DEFINE u == <<x>>
           v == u \o t
<1>1. u \in Seq(S) /\ Len(u) = 1 /\ u[1] = x /\ Len(t) \in Nat
  OBVIOUS
<1> HIDE DEF u
<1>2. /\ v \in Seq(S) /\ Len(v) = 1 + Len(t)
      /\ \A n \in 1..1 + Len(t) : v[n] = IF n <= 1 THEN u[n] ELSE t[n - 1]
  <2>1. /\ u \o t \in Seq(S) /\ Len(u \o t) = Len(u) + Len(t)
        /\ \A n \in 1..Len(u) + Len(t) :
             (u \o t)[n] = IF n <= Len(u) THEN u[n] ELSE t[n - Len(u)]
    BY <1>1, ConcatProperties
  <2> QED BY <1>1, <2>1
<1> HIDE DEF v
<1>3. v[1] = x /\ \A n \in 1..Len(t) : v[n + 1] = t[n]
  BY <1>1, <1>2
<1>4. v # <<>> /\ Len(v) = Len(t) + 1
  BY <1>1, <1>2
<1>5. /\ Head(v) = v[1] /\ Tail(v) \in Seq(S) /\ Len(Tail(v)) = Len(v) - 1
      /\ \A i \in 1..Len(Tail(v)) : Tail(v)[i] = v[i + 1]
  BY <1>2, <1>4, HeadTailProperties
<1>6. Tail(v) = t
  <2> DEFINE w == Tail(v)
  <2>1. w \in Seq(S) /\ Len(w) = Len(t) /\ \A i \in 1..Len(w) : w[i] = t[i]
    BY <1>1, <1>2, <1>3, <1>5
  <2> HIDE DEF w
  <2>2. w = t
    BY <2>1, SeqEqual
  <2> QED BY <2>2 DEF w
<1> QED BY <1>2, <1>3, <1>4, <1>5, <1>6 DEF u, v

\* The statements of a text are its first one and those of the rest.
LEMMA FirstAndRest ==
  ASSUME NEW text \in Seq(STRING), Semicolons(text) # {}
  PROVE  Statements(text) = <<First(text)>> \o Statements(Rest(text))
<1> DEFINE e == End(text)
           rest == Rest(text)
           c == Cardinality(Semicolons(rest))
           s == Statements(text)
           t == Statements(rest)
<1>1. /\ rest \in Seq(STRING) /\ First(text) \in Seq(STRING) /\ e \in Nat
      /\ Cardinality(Semicolons(text)) = c + 1
  BY RestOf, RestSemicolons, SemicolonsFinite
<1>2. /\ c \in Nat
      /\ s \in Seq(Seq(STRING)) /\ Len(s) = c + 1
      /\ t \in Seq(Seq(STRING)) /\ Len(t) = c
  BY <1>1, StatementsAre, SemicolonsFinite
<1>3. /\ \A n \in 1..c + 1 : s[n] = SubSeq(text, Place(text, n-1) + 1, Place(text, n) - 1)
      /\ \A n \in 1..c : t[n] = SubSeq(rest, Place(rest, n-1) + 1, Place(rest, n) - 1)
  BY <1>1, StatementsAre
<1>4. s[1] = First(text)
  <2>1. Place(text, 0) = 0 /\ Place(rest, 0) = 0
    BY DEF Place
  <2>2. Place(text, 0 + 1) = e + Place(rest, 0)
    <3>1. 0 \in 0..c
      BY <1>2
    <3> QED BY <3>1, RestPlaces
  <2>3. Place(text, 1) = e
    <3> HIDE DEF e, rest
    <3> QED BY <1>1, <2>1, <2>2
  <2>4. s[1] = SubSeq(text, Place(text, 1 - 1) + 1, Place(text, 1) - 1)
    <3>1. 1 \in 1..c+1
      BY <1>2
    <3> QED BY <1>3, <3>1
  <2>5. 1 - 1 = 0 /\ 0 + 1 = 1
    OBVIOUS
  <2>6. s[1] = SubSeq(text, 1, e - 1)
    BY <2>1, <2>3, <2>4, <2>5, Zenon
  <2> QED BY <2>6 DEF First
<1>5. ASSUME NEW n \in 1..c PROVE s[n + 1] = t[n]
  <2> DEFINE a == Place(rest, n - 1)
             b == Place(rest, n)
  <2>1. n - 1 \in 0..c /\ n \in 0..c /\ (n - 1) + 1 = n /\ n + 1 \in 1..c+1 /\ (n + 1) - 1 = n
    <3> HIDE DEF c
    <3> QED BY <1>2
  <2>2. Place(text, (n - 1) + 1) = e + a /\ a \in 0..Len(rest)
    BY <2>1, RestPlaces
  <2>3. Place(text, n + 1) = e + b /\ b \in 0..Len(rest)
    BY <2>1, RestPlaces
  <2>4. s[n + 1] = SubSeq(text, Place(text, (n + 1) - 1) + 1, Place(text, n + 1) - 1)
    BY <1>3, <2>1
  <2>5. s[n + 1] = SubSeq(text, e + a + 1, e + b - 1)
    <3>1. Place(text, (n + 1) - 1) = e + a
      BY <2>1, <2>2, Zenon
    <3> DEFINE p == Place(text, (n + 1) - 1)
               r == Place(text, n + 1)
               u == s[n + 1]
    <3>2. p = e + a /\ r = e + b /\ u = SubSeq(text, p + 1, r - 1)
      BY <2>3, <2>4, <3>1
    <3>4. e \in Int /\ a \in Int /\ b \in Int
      BY <1>1, <2>2, <2>3
    <3> HIDE DEF a, b, e, p, r, u
    <3>3. u = SubSeq(text, e + a + 1, e + b - 1)
      BY <3>2, <3>4
    <3> QED BY <3>3 DEF u
  <2>6. t[n] = SubSeq(rest, a + 1, b - 1)
    BY <1>3
  <2>7. a \in Nat
    BY <1>1, <2>2
  <2>8. SubSeq(text, e + a + 1, e + b - 1) = SubSeq(rest, a + 1, b - 1)
    <3> HIDE DEF a, b
    <3> QED BY <2>3, <2>7, RestPart
  <2> QED BY <2>5, <2>6, <2>8, Zenon
<1> HIDE DEF e, rest, c, s, t
<1> DEFINE v == <<First(text)>> \o t
<1>6. /\ v \in Seq(Seq(STRING)) /\ Len(v) = c + 1 /\ v[1] = First(text)
      /\ \A n \in 1..c : v[n + 1] = t[n]
  BY <1>1, <1>2, Prepended
<1> HIDE DEF v
<1>7. ASSUME NEW n \in 1..Len(s) PROVE s[n] = v[n]
  <2>1. CASE n = 1
    BY <1>4, <1>6, <2>1
  <2>2. CASE n # 1
    <3>1. n - 1 \in 1..c /\ (n - 1) + 1 = n
      BY <1>2, <2>2
    <3>2. s[(n - 1) + 1] = t[n - 1]
      BY <1>5, <3>1, Zenon
    <3> QED BY <1>6, <3>1, <3>2
  <2> QED BY <2>1, <2>2
<1>8. s = v
  BY <1>2, <1>6, <1>7, SeqEqual
<1> QED BY <1>8 DEF s, t, v, rest

-----------------------------------------------------------------------------
(* What is spelled like a data query.                                      *)

\* Where the words have what a query that names its table at t has.
OperandsAt(text, t) ==
  \/ t = 3
  \/ /\ t > 4 /\ text[2] = "(" /\ text[t - 2] = ")"
     /\ \A i \in 3..t-3 : text[i] # ")"

ConditionsAt(text, t) ==
  \/ t = Len(text)
  \/ /\ text[t + 1] = "WHERE"
     /\ \E n \in Nat :
          /\ Len(text) = t + 1 + 5*n
          /\ \A i \in 1..n : text[t + 1 + (5*i - 4)] = "(" /\ text[t + 1 + 5*i] = ")"

Shaped(text, t) == text[t - 1] = "FROM" /\ OperandsAt(text, t) /\ ConditionsAt(text, t)

\* The words of two parts.
LEMMA ConcatWords ==
  ASSUME NEW a \in Seq(Strings), NEW b \in Seq(Strings)
  PROVE  /\ a \o b \in Seq(Strings) /\ Len(a \o b) = Len(a) + Len(b)
         /\ Len(a) \in Nat /\ Len(b) \in Nat
         /\ \A j \in 1..Len(a) : (a \o b)[j] = a[j]
         /\ \A j \in 1..Len(b) : (a \o b)[Len(a) + j] = b[j]
<1>1. Len(a) \in Nat /\ Len(b) \in Nat
  OBVIOUS
<1>2. /\ a \o b \in Seq(Strings) /\ Len(a \o b) = Len(a) + Len(b)
      /\ \A i \in 1..Len(a) + Len(b) :
           (a \o b)[i] = IF i <= Len(a) THEN a[i] ELSE b[i - Len(a)]
  BY ConcatProperties
<1> DEFINE c == a \o b
<1> HIDE DEF c
<1>3. ASSUME NEW j \in 1..Len(a) PROVE c[j] = a[j]
  BY <1>1, <1>2 DEF c
<1>4. ASSUME NEW j \in 1..Len(b) PROVE c[Len(a) + j] = b[j]
  <2>1. Len(a) + j \in 1..Len(a) + Len(b) /\ ~(Len(a) + j <= Len(a)) /\ Len(a) + j - Len(a) = j
    BY <1>1
  <2> QED BY <1>2, <2>1 DEF c
<1> QED BY <1>1, <1>2, <1>3, <1>4 DEF c

\* The parts that queries are made of.
LEMMA CandidateTyped ==
  ASSUME NEW text \in Seq(STRING), NEW q \in Candidates(text)
  PROVE  /\ q.op = text[1] /\ q.op \in Strings /\ q.table \in Strings
         /\ q.operands \in Seq(STRING) /\ q.operands \in Seq(Strings)
         /\ q.where \in Seq(Conditions)
<1>1. PICK last \in 2..Len(text), t \in 3..Len(text) :
        q = [op |-> text[1], operands |-> SubSeq(text, 3, last), table |-> text[t],
             where |-> [i \in 1..(Len(text) - t) \div 5 |->
                          Condition(text[t+5*i-2], text[t+5*i-1], text[t+5*i])]]
  BY DEF Candidates
<1>2. Len(text) \in Nat /\ \A i \in 1..Len(text) : text[i] \in STRING
  BY LenProperties, ElementOfSeq
<1>3. text[1] \in Strings /\ text[t] \in Strings
  <2>1. 1 \in 1..Len(text) /\ t \in 1..Len(text)
    BY <1>2
  <2>2. text[1] \in STRING /\ text[t] \in STRING
    BY <1>2, <2>1
  <2> QED BY <2>2 DEF Strings
<1>4. SubSeq(text, 3, last) \in Seq(STRING) /\ SubSeq(text, 3, last) \in Seq(Strings)
  <2>1. 3 \in Int /\ last \in Int /\ \A i \in 3..last : text[i] \in STRING
    BY <1>2
  <2>2. SubSeq(text, 3, last) \in Seq(STRING)
    BY <2>1, SubSeqProperties
  <2>3. STRING \subseteq Strings
    BY DEF Strings
  <2> QED BY <2>2, <2>3, SeqMonotonic
<1> DEFINE m == (Len(text) - t) \div 5
           c(i) == Condition(text[t+5*i-2], text[t+5*i-1], text[t+5*i])
<1>5. m \in Nat /\ 5 * m <= Len(text) - t
  BY <1>2
<1>6. ASSUME NEW i \in 1..m PROVE c(i) \in Conditions
  <2> HIDE DEF m
  <2>1. t+5*i-2 \in 1..Len(text) /\ t+5*i-1 \in 1..Len(text) /\ t+5*i \in 1..Len(text)
    BY <1>2, <1>5
  <2> QED BY <1>2, <2>1 DEF Condition, Conditions
<1>7. [i \in 1..m |-> c(i)] \in Seq(Conditions)
  <2> HIDE DEF m, c
  <2> QED BY <1>5, <1>6
<1>8. /\ q.op = text[1] /\ q.operands = SubSeq(text, 3, last) /\ q.table = text[t]
      /\ q.where = [i \in 1..m |-> c(i)]
  BY <1>1, Zenon
<1> QED BY <1>3, <1>4, <1>7, <1>8, Zenon

\* The words that spell a query have its shape.
LEMMA QueryShape ==
  ASSUME NEW text \in Seq(STRING), NEW q \in DataQueries(text)
  PROVE  q.op \in Operations /\ q.op = text[1] /\ \E t \in 3..Len(text) : Shaped(text, t)
<1>1. /\ q \in Candidates(text) /\ q.op \in Operations
      /\ \A i \in DOMAIN q.operands : q.operands[i] # ")"
      /\ Spells(q, text)
  BY Zenon DEF DataQueries
<1> DEFINE o == q.operands
           w == q.where
           k == Len(o)
           n == Len(w)
<1>2. /\ q.op = text[1] /\ q.op \in Strings /\ q.table \in Strings
      /\ o \in Seq(Strings) /\ w \in Seq(Conditions) /\ k \in Nat /\ n \in Nat
      /\ "(" \in Strings /\ ")" \in Strings /\ "FROM" \in Strings /\ "WHERE" \in Strings
  BY <1>1, CandidateTyped, LenProperties DEF Strings
<1>3. PICK args \in {<<>>, <<"(">> \o o \o <<")">>}, clause \in {<<>>, <<"WHERE">> \o Clause(w)} :
        text = <<q.op>> \o args \o <<"FROM", q.table>> \o clause
  BY <1>1, Zenon DEF Spells
<1>4. \A j \in 1..k : o[j] # ")"
  BY <1>1, <1>2
<1> HIDE DEF o, w, k, n
<1> DEFINE l == Len(args)
<1>5. /\ args \in Seq(Strings) /\ l \in Nat
      /\ \/ l = 0
         \/ /\ l = k + 2 /\ args[1] = "(" /\ args[k + 2] = ")"
            /\ \A j \in 1..k : args[1 + j] = o[j]
  <2>1. CASE args = <<>>
    BY <2>1
  <2>2. CASE args = <<"(">> \o o \o <<")">>
    <3> DEFINE x == <<"(">>
               y == <<")">>
               z == x \o o
    <3>1. /\ x \in Seq(Strings) /\ Len(x) = 1 /\ x[1] = "("
          /\ y \in Seq(Strings) /\ Len(y) = 1 /\ y[1] = ")"
      BY <1>2
    <3> HIDE DEF x, y
    <3>2. /\ z \in Seq(Strings) /\ Len(z) = 1 + k
          /\ z[1] = "(" /\ \A j \in 1..k : z[1 + j] = o[j]
      <4>1. /\ x \o o \in Seq(Strings) /\ Len(x \o o) = Len(x) + Len(o)
            /\ \A j \in 1..Len(x) : (x \o o)[j] = x[j]
            /\ \A j \in 1..Len(o) : (x \o o)[Len(x) + j] = o[j]
        BY <1>2, <3>1, ConcatWords
      <4> QED BY <3>1, <4>1 DEF k
    <3> HIDE DEF z
    <3>3. /\ z \o y \in Seq(Strings) /\ Len(z \o y) = Len(z) + Len(y)
          /\ \A j \in 1..Len(z) : (z \o y)[j] = z[j]
          /\ \A j \in 1..Len(y) : (z \o y)[Len(z) + j] = y[j]
      BY <3>1, <3>2, ConcatWords
    <3>4. args = z \o y
      BY <2>2 DEF x, y, z
    <3>5. l = k + 2 /\ l \in Nat /\ args \in Seq(Strings)
      BY <1>2, <3>1, <3>2, <3>3, <3>4
    <3>6. args[1] = "("
      BY <1>2, <3>2, <3>3, <3>4
    <3>7. args[k + 2] = ")"
      <4>1. k + 2 = 1 + k + 1 /\ 1 \in 1..1
        BY <1>2
      <4> QED BY <3>1, <3>2, <3>3, <3>4, <4>1
    <3>8. ASSUME NEW j \in 1..k PROVE args[1 + j] = o[j]
      <4>1. 1 + j \in 1..1 + k
        BY <1>2
      <4> QED BY <3>2, <3>3, <3>4, <4>1
    <3> QED BY <3>5, <3>6, <3>7, <3>8
  <2> QED BY <2>1, <2>2
<1>6. /\ clause \in Seq(Strings)
      /\ \/ clause = <<>>
         \/ /\ Len(clause) = 1 + 5*n /\ clause[1] = "WHERE"
            /\ \A i \in 1..n : clause[1 + (5*i - 4)] = "(" /\ clause[1 + 5*i] = ")"
  <2>1. CASE clause = <<>>
    BY <2>1
  <2>2. CASE clause = <<"WHERE">> \o Clause(w)
    <3> DEFINE x == <<"WHERE">>
               y == Clause(w)
    <3>1. /\ x \in Seq(Strings) /\ Len(x) = 1 /\ x[1] = "WHERE"
          /\ y \in Seq(Strings) /\ Len(y) = 5*n
          /\ \A i \in 1..n : y[5*i - 4] = "(" /\ y[5*i] = ")"
      BY <1>2, ClauseWords DEF n
    <3> HIDE DEF x, y
    <3>2. /\ x \o y \in Seq(Strings) /\ Len(x \o y) = Len(x) + Len(y)
          /\ \A j \in 1..Len(x) : (x \o y)[j] = x[j]
          /\ \A j \in 1..Len(y) : (x \o y)[Len(x) + j] = y[j]
      BY <3>1, ConcatWords
    <3>3. clause = x \o y
      BY <2>2 DEF x, y
    <3>4. ASSUME NEW i \in 1..n PROVE clause[1 + (5*i - 4)] = "(" /\ clause[1 + 5*i] = ")"
      <4>1. 5*i - 4 \in 1..5*n /\ 5*i \in 1..5*n
        BY <1>2
      <4> QED BY <3>1, <3>2, <3>3, <4>1
    <3>5. clause \in Seq(Strings) /\ Len(clause) = 1 + 5*n
      BY <3>1, <3>2, <3>3
    <3>6. clause[1] = "WHERE"
      <4>1. 1 \in 1..1
        OBVIOUS
      <4> QED BY <3>1, <3>2, <3>3, <4>1
    <3> QED BY <3>4, <3>5, <3>6
  <2> QED BY <2>1, <2>2
<1> HIDE DEF l
<1> DEFINE t == 3 + l
<1>7. /\ Len(text) = t + Len(clause) /\ Len(clause) \in Nat
      /\ \A j \in 1..l : text[1 + j] = args[j]
      /\ text[2 + l] = "FROM"
      /\ \A j \in 1..Len(clause) : text[t + j] = clause[j]
  <2> DEFINE x == <<q.op>>
             y == <<"FROM", q.table>>
             a == x \o args
             b == a \o y
  <2>1. /\ x \in Seq(Strings) /\ Len(x) = 1
        /\ y \in Seq(Strings) /\ Len(y) = 2 /\ y[1] = "FROM"
    BY <1>2
  <2> HIDE DEF x, y
  <2>2. /\ a \in Seq(Strings) /\ Len(a) = 1 + l /\ \A j \in 1..l : a[1 + j] = args[j]
    <3>1. /\ x \o args \in Seq(Strings) /\ Len(x \o args) = Len(x) + Len(args)
          /\ \A j \in 1..Len(args) : (x \o args)[Len(x) + j] = args[j]
      BY <1>5, <2>1, ConcatWords
    <3> QED BY <2>1, <3>1 DEF l
  <2> HIDE DEF a
  <2>3. /\ b \in Seq(Strings) /\ Len(b) = 3 + l
        /\ \A j \in 1..1 + l : b[j] = a[j]
        /\ b[2 + l] = "FROM"
    <3>1. /\ a \o y \in Seq(Strings) /\ Len(a \o y) = Len(a) + Len(y)
          /\ \A j \in 1..Len(a) : (a \o y)[j] = a[j]
          /\ \A j \in 1..Len(y) : (a \o y)[Len(a) + j] = y[j]
      BY <2>1, <2>2, ConcatWords
    <3>2. (a \o y)[Len(a) + 1] = "FROM"
      BY <2>1, <3>1
    <3>3. 1 + l + 2 = 3 + l /\ 1 + l + 1 = 2 + l
      BY <1>5
    <3> QED BY <2>1, <2>2, <3>1, <3>2, <3>3
  <2> HIDE DEF b
  <2>4. /\ Len(b \o clause) = Len(b) + Len(clause) /\ Len(clause) \in Nat
        /\ \A j \in 1..Len(b) : (b \o clause)[j] = b[j]
        /\ \A j \in 1..Len(clause) : (b \o clause)[Len(b) + j] = clause[j]
    BY <1>6, <2>3, ConcatWords
  <2>5. text = b \o clause
    BY <1>3 DEF a, b, x, y
  <2>6. ASSUME NEW j \in 1..l PROVE text[1 + j] = args[j]
    <3>1. 1 + j \in 1..1 + l /\ 1 + j \in 1..3 + l
      BY <1>5
    <3> QED BY <2>2, <2>3, <2>4, <2>5, <3>1
  <2>7. text[2 + l] = "FROM"
    <3>1. 2 + l \in 1..3 + l
      BY <1>5
    <3> QED BY <2>3, <2>4, <2>5, <3>1
  <2> QED BY <2>3, <2>4, <2>5, <2>6, <2>7
<1>8. t \in 3..Len(text) /\ text[t - 1] = "FROM"
  <2>1. t - 1 = 2 + l
    BY <1>5
  <2> QED BY <1>5, <1>7, <2>1
<1>9. OperandsAt(text, t)
  <2>1. CASE l = 0
    BY <2>1 DEF OperandsAt
  <2>2. CASE l = k + 2 /\ args[1] = "(" /\ args[k + 2] = ")" /\ \A j \in 1..k : args[1 + j] = o[j]
    <3>1. t > 4 /\ t - 2 = 1 + (k + 2) /\ t - 3 = k + 2 /\ 1 \in 1..l /\ k + 2 \in 1..l
      BY <1>2, <2>2
    <3>2. text[1 + 1] = "(" /\ text[1 + (k + 2)] = ")"
      BY <1>7, <2>2, <3>1
    <3>3. ASSUME NEW i \in 3..t-3 PROVE text[i] # ")"
      <4>1. i - 2 \in 1..k /\ 1 + (i - 2) \in 1..l /\ 1 + (1 + (i - 2)) = i
        BY <1>2, <2>2, <3>1
      <4>2. text[1 + (1 + (i - 2))] = o[i - 2]
        BY <1>7, <2>2, <4>1
      <4> QED BY <1>4, <4>1, <4>2
    <3>4. 1 + 1 = 2
      OBVIOUS
    <3> HIDE DEF t
    <3> QED BY <3>1, <3>2, <3>3, <3>4 DEF OperandsAt
  <2> QED BY <1>5, <2>1, <2>2
<1>10. ConditionsAt(text, t)
  <2>1. CASE clause = <<>>
    <3>1. Len(text) = t
      BY <1>5, <1>7, <2>1
    <3> QED BY <3>1 DEF ConditionsAt
  <2>2. CASE /\ Len(clause) = 1 + 5*n /\ clause[1] = "WHERE"
             /\ \A i \in 1..n : clause[1 + (5*i - 4)] = "(" /\ clause[1 + 5*i] = ")"
    <3> t \in Nat
      BY <1>5
    <3> HIDE DEF t
    <3>1. text[t + 1] = "WHERE" /\ Len(text) = t + 1 + 5*n
      BY <1>2, <1>7, <2>2
    <3>2. ASSUME NEW i \in 1..n
          PROVE  text[t + 1 + (5*i - 4)] = "(" /\ text[t + 1 + 5*i] = ")"
      <4>1. /\ 1 + (5*i - 4) \in 1..1 + 5*n /\ 1 + 5*i \in 1..1 + 5*n
            /\ t + (1 + (5*i - 4)) = t + 1 + (5*i - 4) /\ t + (1 + 5*i) = t + 1 + 5*i
        BY <1>2
      <4>2. text[t + (1 + (5*i - 4))] = "(" /\ text[t + (1 + 5*i)] = ")"
        BY <1>7, <2>2, <4>1
      <4> QED BY <4>1, <4>2
    <3> QED BY <1>2, <3>1, <3>2 DEF ConditionsAt
  <2> QED BY <1>6, <2>1, <2>2
<1> HIDE DEF t
<1> QED BY <1>1, <1>2, <1>8, <1>9, <1>10 DEF Shaped

-----------------------------------------------------------------------------
(* What the refinement needs to know of a state besides IInv.              *)

\* The numbered ones of the answers.
Numbered(answers) == {i \in DOMAIN answers : answers[i] # Refusal}

Understood ==
  /\ main \in Scanning => ManagementQueries(words) = {}
  /\ main = "operands" => it = 3 \/ it <= Len(words)
  /\ main = "execute" => query \in Meanings(words)
  /\ counter = Cardinality(Numbered(replies))

\* One answer more.
LEMMA NumberedAppend ==
  ASSUME NEW answers \in Seq(Written), NEW r \in Written
  PROVE  /\ Cardinality(Numbered(answers)) \in Nat
         /\ Cardinality(Numbered(Append(answers, r)))
              = Cardinality(Numbered(answers)) + (IF r = Refusal THEN 0 ELSE 1)
<1> DEFINE n == Len(answers)
           more == Append(answers, r)
           S == Numbered(answers)
<1>1. /\ n \in Nat /\ DOMAIN answers = 1..n /\ DOMAIN more = 1..n+1
      /\ more[n + 1] = r /\ \A i \in 1..n : more[i] = answers[i]
  BY AppendProperties, LenProperties
<1>2. S \subseteq 1..n /\ IsFiniteSet(1..n)
  <2>1. IsFiniteSet(1..n)
    BY <1>1, FS_Interval
  <2> QED BY <1>1, <2>1 DEF Numbered
<1> HIDE DEF n, more, S
<1>3. IsFiniteSet(S) /\ Cardinality(S) \in Nat
  BY <1>2, FS_Subset, FS_CardinalityType
<1>4. CASE r = Refusal
  <2>1. Numbered(more) = S
    BY <1>1, <1>4 DEF Numbered, S
  <2> QED BY <1>3, <1>4, <2>1 DEF S, more
<1>5. CASE r # Refusal
  <2>1. Numbered(more) = S \cup {n + 1} /\ n + 1 \notin S
    BY <1>1, <1>2, <1>5 DEF Numbered, S
  <2>2. Cardinality(S \cup {n + 1}) = Cardinality(S) + 1
    BY <1>3, <2>1, FS_AddElement
  <2> QED BY <1>3, <1>5, <2>1, <2>2 DEF S, more
<1> QED BY <1>4, <1>5

\* A refusal is not numbered.
LEMMA UnderstoodRefused == ASSUME Basic, Understood, Refuse PROVE Understood'
<1>1. replies \in Seq(Written) /\ Refusal \in Written
  BY EmptyTyped DEF Basic, Types
<1>2. replies' = Append(replies, Refusal) /\ counter' = counter /\ main' = "read"
  BY DEF Refuse
<1>3. Cardinality(Numbered(replies')) = Cardinality(Numbered(replies))
  <2>1. /\ Cardinality(Numbered(replies)) \in Nat
        /\ Cardinality(Numbered(Append(replies, Refusal))) = Cardinality(Numbered(replies)) + 0
    BY <1>1, NumberedAppend
  <2> QED BY <1>2, <2>1
<1>4. counter' = Cardinality(Numbered(replies))'
  BY <1>2, <1>3 DEF Understood
<1> QED BY <1>2, <1>4 DEF Understood, Scanning

\* What the first builders leave is no management query.
LEMMA NotManaged ==
  ASSUME NEW text, text[1] \notin Debugged(Len(text)) \cup Managed(Len(text))
  PROVE  ManagementQueries(text) = {}
<1> SUFFICES ASSUME NEW op \in DOMAIN Arity, Len(text) = Arity[op] + 1, text[1] = op
             PROVE  FALSE
  BY Zenon DEF ManagementQueries
<1>1. op \in {"LIST", "QUIT", "SHOWTABLE", "LOAD", "DROP", "TRUNCATE", "DUMP", "COPYTABLE"}
  BY DEF Arity
<1>2. /\ Arity["LIST"] = 0 /\ Arity["QUIT"] = 0
      /\ Arity["SHOWTABLE"] = 1 /\ Arity["LOAD"] = 1
      /\ Arity["DROP"] = 1 /\ Arity["TRUNCATE"] = 1
      /\ Arity["DUMP"] = 2 /\ Arity["COPYTABLE"] = 2
  BY DEF Arity
<1>3. \/ Len(text) = 1 /\ op \in {"LIST", "QUIT"}
      \/ Len(text) = 2 /\ op \in {"SHOWTABLE", "LOAD", "DROP", "TRUNCATE"}
      \/ Len(text) = 3 /\ op \in {"DUMP", "COPYTABLE"}
  <2>1. 0 + 1 = 1 /\ 1 + 1 = 2 /\ 2 + 1 = 3
    OBVIOUS
  <2> QED BY <1>1, <1>2, <2>1, Zenon
<1> QED BY <1>3 DEF Debugged, Managed

\* What is built is among the queries that the words may spell.
LEMMA BuiltCandidate ==
  ASSUME Basic, MembersOfThisStatement, main = "build"
  PROVE  /\ [op |-> words[1], operands |-> builder.operandToken,
             table |-> builder.targetTable, where |-> builder.conditionToken]
              \in Candidates(words)
         /\ \A i \in DOMAIN builder.operandToken : builder.operandToken[i] # ")"
<1>1. main \in Scanning
  BY DEF Scanning
<1>2. /\ Len(words) \in Nat /\ words \in Seq(STRING) /\ it = Len(words)
      /\ builder.conditionToken \in Seq(Conditions)
      /\ \A i \in 1..Len(words) : words[i] \in STRING
  BY <1>1, ScanFacts DEF MembersOfThisStatement
<1>3. PICK t \in 3..Len(words) :
        /\ TableRead(t)
        /\ \/ t < Len(words) /\ ConditionsRead(t + 1, it)
           \/ it = t /\ builder.conditionToken = <<>>
  BY DEF MembersOfThisStatement
<1> DEFINE o == builder.operandToken
           w == builder.conditionToken
           m == (Len(words) - t) \div 5
           c(i) == Condition(words[t+5*i-2], words[t+5*i-1], words[t+5*i])
<1>4. t \in Nat /\ builder.targetTable = words[t] /\ OperandsRead(t - 1)
  BY <1>3 DEF TableRead
<1>5. PICK last \in 2..Len(words) :
        /\ o = SubSeq(words, 3, last) /\ \A i \in 3..last : words[i] # ")"
  <2>1. CASE t - 1 = 2 /\ o = <<>>
    <3>1. SubSeq(words, 3, 2) = <<>> /\ 2 \in 2..Len(words)
      BY <1>2, <1>3, SubSeqEmpty
    <3>2. \A i \in 3..2 : words[i] # ")"
      OBVIOUS
    <3> QED BY <2>1, <3>1, <3>2
  <2>2. CASE /\ t - 1 > 3 /\ o = SubSeq(words, 3, (t - 1) - 2)
             /\ \A i \in 3..(t - 1)-2 : words[i] # ")"
    <3>1. (t - 1) - 2 \in 2..Len(words)
      BY <1>2, <1>3, <2>2
    <3> QED BY <2>2, <3>1
  <2> QED BY <1>4, <2>1, <2>2 DEF OperandsRead
<1>6. ASSUME NEW i \in DOMAIN o PROVE o[i] # ")"
  <2>1. 3 \in Int /\ last \in Int /\ \A j \in 3..last : words[j] \in STRING
    BY <1>2
  <2>2. /\ SubSeq(words, 3, last) \in Seq(STRING)
        /\ Len(SubSeq(words, 3, last)) = (IF 3 <= last THEN last - 3 + 1 ELSE 0)
        /\ \A j \in 1..last-3+1 : SubSeq(words, 3, last)[j] = words[3 + j - 1]
    BY <2>1, SubSeqProperties
  <2>3. i \in 1..last-3+1
    BY <1>5, <2>2
  <2>4. o[i] = words[3 + i - 1] /\ 3 + i - 1 \in 3..last
    BY <1>5, <2>2, <2>3
  <2> QED BY <1>5, <2>4
<1>7. w = [i \in 1..m |-> c(i)]
  <2>1. CASE it = t /\ w = <<>>
    <3>1. m = 0
      BY <1>2, <2>1
    <3> HIDE DEF m, c
    <3>2. [i \in 1..m |-> c(i)] = <<>>
      BY <3>1
    <3> QED BY <2>1, <3>2
  <2>2. CASE t < Len(words) /\ ConditionsRead(t + 1, it)
    <3>1. /\ it = t + 1 + 5 * Len(w)
          /\ \A i \in DOMAIN w :
               w[i] = Condition(words[t+1+5*i-3], words[t+1+5*i-2], words[t+1+5*i-1])
      BY <2>2, Zenon DEF ConditionsRead
    <3>2. DOMAIN w = 1..Len(w) /\ Len(w) \in Nat
      BY <1>2
    <3>3. m = Len(w)
      <4> DEFINE n == Len(w)
      <4>1. n \in Nat /\ Len(words) - t = 5 * n + 1
        BY <1>2, <1>4, <3>1, <3>2
      <4> HIDE DEF n
      <4>2. (5 * n + 1) \div 5 = n
        BY <4>1
      <4> QED BY <4>1, <4>2 DEF n
    <3>4. ASSUME NEW i \in 1..Len(w) PROVE w[i] = c(i)
      <4>1. t+1+5*i-3 = t+5*i-2 /\ t+1+5*i-2 = t+5*i-1 /\ t+1+5*i-1 = t+5*i
        BY <1>4, <3>2
      <4>2. w[i] = Condition(words[t+1+5*i-3], words[t+1+5*i-2], words[t+1+5*i-1])
        BY <3>1, <3>2
      <4> QED BY <4>1, <4>2
    <3>5. w = [i \in 1..Len(w) |-> w[i]]
      BY <1>2
    <3> HIDE DEF m, c
    <3>6. w = [i \in 1..m |-> c(i)]
      BY <3>3, <3>4, <3>5
    <3> QED BY <3>6
  <2> QED BY <1>3, <2>1, <2>2
<1>8. /\ [op |-> words[1], operands |-> o, table |-> builder.targetTable, where |-> w]
           = [op |-> words[1], operands |-> SubSeq(words, 3, last), table |-> words[t],
              where |-> [i \in 1..m |-> c(i)]]
  BY <1>4, <1>5, <1>7, Zenon
<1>9. [op |-> words[1], operands |-> SubSeq(words, 3, last), table |-> words[t],
       where |-> [i \in 1..m |-> c(i)]] \in Candidates(words)
  <2> DEFINE made(l, u) ==
               [op |-> words[1], operands |-> SubSeq(words, 3, l), table |-> words[u],
                where |-> [i \in 1..(Len(words) - u) \div 5 |->
                             Condition(words[u+5*i-2], words[u+5*i-1], words[u+5*i])]]
  <2>1. Candidates(words) = {made(l, u) : l \in 2..Len(words), u \in 3..Len(words)}
    BY DEF Candidates
  <2> HIDE DEF made
  <2>2. made(last, t) \in Candidates(words)
    BY <2>1
  <2> QED BY <2>2, Zenon DEF made
<1> QED BY <1>6, <1>8, <1>9, Zenon

\* Only answers change the numbers.
LEMMA UnderstoodKept ==
  ASSUME Understood, UNCHANGED <<counter, replies>>, main' \in Phases \ Scanning,
         main' = "execute" => query' \in Meanings(words')
  PROVE  Understood'
<1>1. Cardinality(Numbered(replies))' = Cardinality(Numbered(replies))
  BY DEF Numbered
<1>2. counter' = Cardinality(Numbered(replies))'
  BY <1>1 DEF Understood
<1> QED BY <1>2 DEF Understood, Scanning

\* The scan goes on in the same words.
LEMMA UnderstoodGoOn ==
  ASSUME Understood, main \in Scanning,
         NEW phase \in Scanning, NEW steps, NEW members, GoOn(phase, steps, members),
         phase = "operands" => it' = 3 \/ it' <= Len(words)
  PROVE  Understood'
<1>1. words' = words /\ counter' = counter /\ replies' = replies /\ main' = phase
  BY DEF GoOn
<1>2. Cardinality(Numbered(replies))' = Cardinality(Numbered(replies))
  BY <1>1 DEF Numbered
<1>3. ManagementQueries(words)' = {}
  BY <1>1 DEF Understood, ManagementQueries
<1>4. counter' = Cardinality(Numbered(replies))'
  BY <1>1, <1>2 DEF Understood
<1> QED BY <1>1, <1>3, <1>4 DEF Understood, Scanning

LEMMA UnderstoodDispatch == ASSUME Basic, Understood, Dispatch PROVE Understood'
<1>1. main = "dispatch" /\ words' = words
  BY DEF Dispatch
<1>2. CASE Execute(ManagementQuery(words[1], Tail(words)))
            /\ words[1] \in Debugged(Len(words)) \cup Managed(Len(words))
  <2>1. /\ main' = "execute" /\ query' = ManagementQuery(words[1], Tail(words))
        /\ UNCHANGED <<counter, replies>>
    BY <1>2 DEF Execute
  <2>2. ExecutesWhatIsSpelled'
    BY <2>1, ExecuteManagement
  <2>3. words[1] \in DOMAIN Arity /\ Len(words) = Arity[words[1]] + 1
    BY <1>2, ArityManaged
  <2>4. query' \in Meanings(words')
    BY <1>1, <2>1, <2>3 DEF Meanings, ManagementQueries
  <2> QED BY <2>1, <2>4, UnderstoodKept DEF Phases, Scanning
<1>3. CASE /\ main' = "operation" /\ UNCHANGED <<it, builder, query, counter, replies>>
           /\ words[1] \notin Debugged(Len(words)) \cup Managed(Len(words))
  <2>1. Cardinality(Numbered(replies))' = Cardinality(Numbered(replies))
    BY <1>3 DEF Numbered
  <2>2. ManagementQueries(words)' = {}
    BY <1>1, <1>3, NotManaged DEF ManagementQueries
  <2>3. counter' = Cardinality(Numbered(replies))'
    BY <1>3, <2>1 DEF Understood
  <2> QED BY <1>3, <2>2, <2>3 DEF Understood
<1> QED BY <1>2, <1>3 DEF Dispatch

LEMMA UnderstoodBuild ==
  ASSUME Basic, MembersOfThisStatement, Understood, Build
  PROVE  Understood'
<1> DEFINE q == [op |-> words[1], operands |-> builder.operandToken,
                 table |-> builder.targetTable, where |-> builder.conditionToken]
<1>1. main = "build" /\ main \in Scanning
  BY DEF Build, Scanning
<1>2. CASE IllFormed
  BY <1>2, UnderstoodRefused DEF IllFormed
<1>3. CASE words[1] \in Operations /\ Execute(q) /\ UNCHANGED <<input, words>>
  <2>1. main' = "execute" /\ query' = q /\ words' = words /\ UNCHANGED <<counter, replies>>
    BY <1>3 DEF Execute
  <2>2. q \in Candidates(words) /\ \A i \in DOMAIN builder.operandToken : builder.operandToken[i] # ")"
    BY <1>1, BuiltCandidate
  <2>3. q.op = words[1] /\ q.operands = builder.operandToken
    OBVIOUS
  <2> HIDE DEF q
  <2>4. Spells(q, words) \/ q \in ManagementQueries(words)
    <3>1. query' \in ManagementQueries(words') \/ Spells(query', words')
      BY <2>1, ExecuteData DEF ExecutesWhatIsSpelled, ManagementQueries, Spells
    <3> QED BY <2>1, <3>1 DEF ManagementQueries, Spells
  <2>5. ManagementQueries(words) = {}
    BY <1>1 DEF Understood
  <2>6. q \in DataQueries(words)
    BY <1>3, <2>2, <2>3, <2>4, <2>5, Zenon DEF DataQueries
  <2>7. query' \in Meanings(words')
    BY <2>1, <2>6, Zenon DEF Meanings
  <2> QED BY <2>1, <2>7, UnderstoodKept DEF Phases, Scanning
<1> QED BY <1>2, <1>3 DEF Build

LEMMA UnderstoodAnswer ==
  ASSUME Basic, Understood, NEW kind \in Kinds, Answer(kind)
  PROVE  Understood'
<1> DEFINE r == [number |-> counter + 1, query |-> query, kind |-> kind]
<1>1. r \in Written /\ replies \in Seq(Written) /\ counter \in Nat
  BY DEF Basic, Types, Written
<1>2. r # Refusal
  <2>1. r.number = counter + 1 /\ Refusal.number = 0 /\ counter + 1 # 0
    BY <1>1 DEF Refusal
  <2> QED BY <2>1
<1>3. replies' = Append(replies, r) /\ counter' = counter + 1 /\ main' = "read"
  BY DEF Answer
<1> HIDE DEF r
<1>4. Cardinality(Numbered(replies')) = Cardinality(Numbered(replies)) + 1
  <2>1. Cardinality(Numbered(Append(replies, r)))
          = Cardinality(Numbered(replies)) + (IF r = Refusal THEN 0 ELSE 1)
    BY <1>1, NumberedAppend
  <2> QED BY <1>2, <1>3, <2>1
<1>5. counter' = Cardinality(Numbered(replies))'
  BY <1>3, <1>4 DEF Understood
<1> QED BY <1>3, <1>5 DEF Understood, Scanning

\* Every step keeps it.
LEMMA UnderstoodStep ==
  ASSUME Basic, MembersOfThisStatement, Understood, [Next]_vars
  PROVE  Understood'
<1>1. CASE Read
  <2>1. CASE main' = "over" /\ UNCHANGED <<counter, replies>>
    BY <2>1, UnderstoodKept DEF Phases, Scanning
  <2>2. CASE Refuse
    BY <2>2, UnderstoodRefused
  <2>3. CASE main' = "dispatch" /\ UNCHANGED <<counter, replies>>
    BY <2>3, UnderstoodKept DEF Phases, Scanning
  <2> QED BY <1>1, <2>1, <2>2, <2>3 DEF Read
<1>2. CASE ScanOperation
  <2>1. main = "operation" /\ main \in Scanning /\ it = 1
    BY <1>2 DEF ScanOperation, Scanning, Basic, Places
  <2>2. CASE Ahead(1, "FROM") /\ GoOn("table", 1, builder)
    BY <2>1, <2>2, UnderstoodGoOn DEF Scanning
  <2>3. CASE GoOn("operands", 2, builder)
    BY <2>1, <2>3, UnderstoodGoOn DEF Scanning, GoOn
  <2>4. CASE IllFormed
    BY <2>4, UnderstoodRefused DEF IllFormed
  <2> QED BY <1>2, <2>2, <2>3, <2>4 DEF ScanOperation
<1>3. CASE ScanOperand
  <2>1. main = "operands" /\ main \in Scanning
    BY <1>3 DEF ScanOperand, Scanning
  <2>2. it \in Nat /\ Len(words) \in Nat
    BY <2>1, ScanFacts
  <2> DEFINE members == [builder EXCEPT !.operandToken = Append(@, words[it])]
  <2>3. CASE GoOn("table", 1, builder)
    BY <2>1, <2>3, UnderstoodGoOn DEF Scanning
  <2>4. CASE it < Len(words) /\ GoOn("operands", 1, members)
    <3>1. it' <= Len(words)
      BY <2>2, <2>4 DEF GoOn
    <3> HIDE DEF members
    <3> QED BY <2>1, <2>4, <3>1, UnderstoodGoOn DEF Scanning
  <2>5. CASE Refuse
    BY <2>5, UnderstoodRefused
  <2> HIDE DEF members
  <2>6. GoOn("table", 1, builder) \/ (it < Len(words) /\ GoOn("operands", 1, members)) \/ Refuse
    BY <1>3 DEF ScanOperand, IllFormed, members
  <2> QED BY <2>3, <2>4, <2>5, <2>6
<1>4. CASE Overrun
  <2>1. CASE Refuse
    BY <2>1, UnderstoodRefused
  <2>2. CASE main' = "crashed" /\ UNCHANGED <<counter, replies>>
    BY <2>2, UnderstoodKept DEF Phases, Scanning
  <2> QED BY <1>4, <2>1, <2>2 DEF Overrun, IllFormed
<1>5. CASE ScanTable
  <2>1. main = "table" /\ main \in Scanning
    BY <1>5 DEF ScanTable, Scanning
  <2> DEFINE members == [builder EXCEPT !.targetTable = words[it + 1]]
  <2> HIDE DEF members
  <2>2. CASE GoOn("build", 1, members)
    BY <2>1, <2>2, UnderstoodGoOn DEF Scanning
  <2>3. CASE GoOn("conditions", 2, members)
    BY <2>1, <2>3, UnderstoodGoOn DEF Scanning
  <2>4. CASE Refuse
    BY <2>4, UnderstoodRefused
  <2> QED BY <1>5, <2>2, <2>3, <2>4, Zenon DEF ScanTable, IllFormed, members
<1>6. CASE ScanCondition
  <2>1. main = "conditions" /\ main \in Scanning
    BY <1>6 DEF ScanCondition, Scanning
  <2> DEFINE members ==
        [builder EXCEPT !.conditionToken =
           Append(@, Condition(words[it+2], words[it+3], words[it+4]))]
  <2> HIDE DEF members
  <2>2. CASE GoOn("build", 0, builder)
    BY <2>1, <2>2, UnderstoodGoOn DEF Scanning
  <2>3. CASE GoOn("conditions", 5, members)
    BY <2>1, <2>3, UnderstoodGoOn DEF Scanning
  <2>4. CASE Refuse
    BY <2>4, UnderstoodRefused
  <2> QED BY <1>6, <2>2, <2>3, <2>4, Zenon DEF ScanCondition, IllFormed, members
<1>7. CASE Quit
  BY <1>7, UnderstoodKept DEF Quit, Phases, Scanning
<1>8. CASE UNCHANGED vars
  <2>1. UNCHANGED <<main, words, it, query, counter, replies>>
    BY <1>8 DEF vars
  <2>2. Cardinality(Numbered(replies))' = Cardinality(Numbered(replies))
    BY <2>1 DEF Numbered
  <2>3. ManagementQueries(words)' = ManagementQueries(words)
    BY <2>1 DEF ManagementQueries
  <2>4. Meanings(words') = Meanings(words)
    BY <2>1
  <2>5. /\ main' = "execute" => query' \in Meanings(words')
        /\ counter' = Cardinality(Numbered(replies))'
    BY <2>1, <2>2, <2>4 DEF Understood
  <2> QED BY <2>1, <2>3, <2>5 DEF Understood
<1> QED BY <1>1, <1>2, <1>3, <1>4, <1>5, <1>6, <1>7, <1>8, UnderstoodDispatch, UnderstoodBuild,
        UnderstoodAnswer DEF Next

-----------------------------------------------------------------------------
(* What is refused is no query.                                            *)

\* The place of the table is the one that the scan finds.
LEMMA OneTable ==
  ASSUME NEW text, NEW from \in Nat, NEW t \in Nat,
         text[from] = "FROM", Shaped(text, t), t >= 3,
         \/ from = 2
         \/ /\ from > 3 /\ text[2] = "(" /\ text[from - 1] = ")"
            /\ \A i \in 3..from-2 : text[i] # ")"
  PROVE  t = from + 1
<1>1. OperandsAt(text, t) /\ text[t - 1] = "FROM"
  BY DEF Shaped
<1>2. CASE from = 2
  <2>1. text[2] # "("
    BY <1>2
  <2> QED BY <1>1, <1>2, <2>1 DEF OperandsAt
<1>3. CASE /\ from > 3 /\ text[2] = "(" /\ text[from - 1] = ")"
           /\ \A i \in 3..from-2 : text[i] # ")"
  <2>1. t # 3
    BY <1>1, <1>3
  <2>2. t > 4 /\ text[t - 2] = ")" /\ \A i \in 3..t-3 : text[i] # ")"
    BY <1>1, <2>1 DEF OperandsAt
  <2>3. ~(from - 1 \in 3..t-3) /\ ~(t - 2 \in 3..from-2)
    BY <1>3, <2>2
  <2> QED BY <1>3, <2>2, <2>3
<1> QED BY <1>2, <1>3

\* No shape, no query.
LEMMA NoMeaning ==
  ASSUME Basic, Understood, main \in Scanning, \A t \in 3..Len(words) : ~Shaped(words, t)
  PROVE  Meanings(words) = {}
<1>1. words \in Seq(STRING)
  BY ScanFacts
<1>2. DataQueries(words) = {}
  BY <1>1, QueryShape
<1> QED BY <1>2 DEF Meanings, Understood

LEMMA RefusedOperation ==
  ASSUME Basic, Understood, main = "operation", ~Ahead(1, "FROM"), ~Ahead(1, "(")
  PROVE  Meanings(words) = {}
<1>1. main \in Scanning /\ it = 1
  BY DEF Scanning, Basic, Places
<1>2. Len(words) \in Nat
  BY <1>1, ScanFacts
<1>3. ASSUME NEW t \in 3..Len(words), Shaped(words, t) PROVE FALSE
  <2>1. words[2] = "FROM" \/ words[2] = "("
    BY <1>2, <1>3 DEF Shaped, OperandsAt
  <2> QED BY <1>1, <1>2, <2>1 DEF Ahead
<1> QED BY <1>1, <1>3, NoMeaning

\* Behind "(", a shape has its ")" where the scan is, or further on.
LEMMA OperandsFurther ==
  ASSUME Basic, MembersOfThisStatement, main = "operands",
         NEW t \in 3..Len(words), Shaped(words, t)
  PROVE  t - 2 >= it /\ t - 2 <= Len(words) /\ words[t - 2] = ")" /\ words[t - 1] = "FROM"
         /\ (t - 2 = it \/ (it \in 3..t-3 /\ words[it] # ")"))
<1>1. /\ main \in Scanning /\ it \in Nat /\ it >= 3 /\ Len(words) \in Nat
      /\ words[2] = "(" /\ \A i \in 3..it-1 : words[i] # ")"
  <2>1. main \in Scanning
    BY DEF Scanning
  <2> QED BY <2>1, ScanFacts DEF Basic, Places, MembersOfThisStatement
<1>2. words[t - 1] = "FROM" /\ OperandsAt(words, t)
  BY DEF Shaped
<1>3. t # 3
  BY <1>1, <1>2
<1>4. t > 4 /\ words[t - 2] = ")" /\ \A i \in 3..t-3 : words[i] # ")"
  BY <1>2, <1>3 DEF OperandsAt
<1>5. ~(t - 2 \in 3..it-1)
  BY <1>1, <1>4
<1> QED BY <1>1, <1>2, <1>4, <1>5

LEMMA RefusedOperands ==
  ASSUME Basic, MembersOfThisStatement, Understood, main = "operands",
         \/ it > Len(words)
         \/ words[it] = ")" /\ ~Ahead(1, "FROM")
         \/ words[it] # ")" /\ ~(it < Len(words))
  PROVE  Meanings(words) = {}
<1>1. main \in Scanning
  BY DEF Scanning
<1>2. Len(words) \in Nat /\ it \in Nat
  BY <1>1, ScanFacts
<1>3. ASSUME NEW t \in 3..Len(words), Shaped(words, t) PROVE FALSE
  <2>1. /\ t - 2 >= it /\ words[t - 2] = ")" /\ words[t - 1] = "FROM"
        /\ (t - 2 = it \/ (it \in 3..t-3 /\ words[it] # ")"))
    BY <1>3, OperandsFurther
  <2>2. CASE it > Len(words)
    BY <1>2, <2>1, <2>2
  <2>3. CASE words[it] = ")" /\ ~Ahead(1, "FROM")
    <3>1. t - 2 = it /\ it + 1 = t - 1 /\ it + 1 <= Len(words)
      BY <1>2, <2>1, <2>3
    <3> QED BY <2>1, <2>3, <3>1 DEF Ahead
  <2>4. CASE words[it] # ")" /\ ~(it < Len(words))
    BY <1>2, <2>1, <2>4
  <2> QED BY <2>2, <2>3, <2>4
<1> QED BY <1>1, <1>3, NoMeaning

LEMMA RefusedTable ==
  ASSUME Basic, MembersOfThisStatement, Understood, main = "table",
         it = Len(words) \/ (it + 1 < Len(words) /\ ~Ahead(2, "WHERE"))
  PROVE  Meanings(words) = {}
<1>1. main \in Scanning
  BY DEF Scanning
<1>2. Len(words) \in Nat /\ it \in Nat /\ words[it] = "FROM" /\ OperandsRead(it)
  BY <1>1, ScanFacts DEF MembersOfThisStatement
<1>3. ASSUME NEW t \in 3..Len(words), Shaped(words, t) PROVE FALSE
  <2>1. t = it + 1
    BY <1>2, <1>3, OneTable DEF OperandsRead
  <2>2. ConditionsAt(words, t)
    BY <1>3 DEF Shaped
  <2>3. CASE it = Len(words)
    BY <1>2, <2>1, <2>3
  <2>4. CASE it + 1 < Len(words) /\ ~Ahead(2, "WHERE")
    <3>1. t # Len(words) /\ it + 2 <= Len(words) /\ it + 2 = t + 1
      BY <1>2, <2>1, <2>4
    <3> QED BY <2>2, <2>4, <3>1 DEF ConditionsAt, Ahead
  <2> QED BY <2>3, <2>4
<1> QED BY <1>1, <1>3, NoMeaning

LEMMA RefusedConditions ==
  ASSUME Basic, MembersOfThisStatement, Understood, main = "conditions",
         it # Len(words), ~(Ahead(1, "(") /\ Ahead(5, ")"))
  PROVE  Meanings(words) = {}
<1>1. main \in Scanning
  BY DEF Scanning
<1>2. /\ Len(words) \in Nat /\ it \in Nat /\ it <= Len(words)
      /\ builder.conditionToken \in Seq(Conditions)
  BY <1>1, ScanFacts DEF Basic, TypeOK
<1>3. PICK s \in 3..Len(words) : TableRead(s) /\ s < Len(words) /\ ConditionsRead(s + 1, it)
  BY DEF MembersOfThisStatement
<1>4. PICK m \in Nat : it = s + 1 + 5 * m
  BY <1>2, <1>3, LenProperties DEF ConditionsRead
<1>5. ASSUME NEW t \in 3..Len(words), Shaped(words, t) PROVE FALSE
  <2>1. t = s
    <3>1. /\ s - 1 \in Nat /\ words[s - 1] = "FROM" /\ t \in Nat /\ t >= 3 /\ OperandsRead(s - 1)
      BY <1>2, <1>3 DEF TableRead
    <3>2. t = (s - 1) + 1
      BY <1>5, <3>1, OneTable DEF OperandsRead
    <3> QED BY <3>2
  <2>2. PICK n \in Nat :
          /\ Len(words) = t + 1 + 5*n
          /\ \A i \in 1..n : words[t + 1 + (5*i - 4)] = "(" /\ words[t + 1 + 5*i] = ")"
    BY <1>3, <1>5, <2>1 DEF Shaped, ConditionsAt
  <2>3. m + 1 \in 1..n
    BY <1>2, <1>4, <2>1, <2>2
  <2>4. words[t + 1 + (5*(m+1) - 4)] = "(" /\ words[t + 1 + 5*(m+1)] = ")"
    BY <2>2, <2>3
  <2>5. /\ t + 1 + (5*(m+1) - 4) = it + 1 /\ t + 1 + 5*(m+1) = it + 5
        /\ it + 1 <= Len(words) /\ it + 5 <= Len(words)
    BY <1>2, <1>4, <2>1, <2>2, <2>3
  <2> QED BY <2>4, <2>5 DEF Ahead
<1> QED BY <1>1, <1>5, NoMeaning

LEMMA RefusedBuild ==
  ASSUME Basic, Understood, main = "build", words[1] \notin Operations
  PROVE  Meanings(words) = {}
<1>1. main \in Scanning
  BY DEF Scanning
<1>2. words \in Seq(STRING)
  BY <1>1, ScanFacts
<1>3. DataQueries(words) = {}
  BY <1>2, QueryShape
<1> QED BY <1>1, <1>3 DEF Meanings, Understood

-----------------------------------------------------------------------------
(* The refinement.                                                         *)

\* Dialogue speaks of the same language.
LEMMA SameLanguage ==
  /\ \A text : Discussed!Meanings(text) = Meanings(text)
  /\ \A text : Discussed!Undefined(text) = Undefined(text)
  /\ Discussed!Refusal = Refusal
<1>1. \A c : Discussed!Clause(c) = Clause(c)
  BY Zenon DEF Discussed!Clause, Clause
<1>2. \A q, text : Discussed!Spells(q, text) = Spells(q, text)
  BY <1>1, Zenon DEF Discussed!Spells, Spells
<1>3. \A text : Discussed!Candidates(text) = Candidates(text)
  BY DEF Discussed!Candidates, Candidates, Discussed!Condition, Condition
<1>4. \A text : Discussed!DataQueries(text) = DataQueries(text)
  BY <1>2, <1>3 DEF Discussed!DataQueries, DataQueries
<1>5. \A text : Discussed!ManagementQueries(text) = ManagementQueries(text)
  BY DEF Discussed!ManagementQueries, ManagementQueries, Discussed!ManagementQuery,
         ManagementQuery, Discussed!Arity, Arity
<1>6. Discussed!Refusal = Refusal
  BY DEF Discussed!Refusal, Refusal, Discussed!ManagementQuery, ManagementQuery
<1> QED BY <1>4, <1>5, <1>6 DEF Discussed!Meanings, Meanings, Discussed!Undefined, Undefined

\* What is to come while a statement is read.
LEMMA PendingInHand ==
  ASSUME Types, main \notin {"read", "over"}
  PROVE  /\ Pending # <<>> /\ Head(Pending) = words /\ Tail(Pending) = Statements(input)
<1>1. words \in Seq(STRING) /\ Statements(input) \in Seq(Seq(STRING))
  BY StatementsAre DEF Types
<1>2. Pending = <<words>> \o Statements(input)
  BY DEF Pending
<1> QED BY <1>1, <1>2, Prepended

\* A refusal, of what is no query.
LEMMA Refusals ==
  ASSUME Types, Refuse, UNCHANGED <<input, words>>, main \notin {"read", "over", "crashed"},
         Meanings(words) = {}
  PROVE  Discussed!Refuse
<1>1. Pending # <<>> /\ Head(Pending) = words /\ Tail(Pending) = Statements(input)
  BY PendingInHand
<1>2. main' = "read" /\ replies' = Append(replies, Refusal)
  BY DEF Refuse
<1>3. Statements(input)' = Statements(input)
  BY DEF Statements, Semicolons
<1>4. Pending' = Tail(Pending)
  BY <1>1, <1>2, <1>3 DEF Pending
<1> QED BY <1>1, <1>2, <1>4, SameLanguage DEF Discussed!Refuse

\* A statement is read, or the end of the input.
LEMMA Reads ==
  ASSUME Types, Read
  PROVE  Discussed!Refuse \/ Discussed!End \/ UNCHANGED Discussed!dialogueVars
<1>1. main = "read" /\ input \in Seq(STRING) /\ Pending = Statements(input)
  BY DEF Read, Types, Pending
<1>2. CASE Semicolons(input) = {}
  <2>1. main' = "over" /\ replies' = replies
    BY <1>2 DEF Read
  <2>2. Pending = <<>>
    BY <1>1, <1>2, NoStatements
  <2> QED BY <1>1, <2>1, <2>2 DEF Discussed!End
<1>3. CASE Semicolons(input) # {}
  <2>1. input' = Rest(input) /\ words' = First(input)
    BY <1>3 DEF Read, Rest, First
  <2>2. Pending = <<words'>> \o Statements(input')
    BY <1>1, <1>3, <2>1, FirstAndRest
  <2>3. words' \in Seq(STRING) /\ Statements(input') \in Seq(Seq(STRING))
    BY <1>1, <1>3, <2>1, RestOf, StatementsAre
  <2>4. CASE words' = <<>>
    <3>1. main' = "read" /\ replies' = Append(replies, Refusal)
      BY <1>3, <2>4 DEF Read, Refuse
    <3>2. Pending # <<>> /\ Head(Pending) = <<>> /\ Tail(Pending) = Statements(input')
      BY <2>2, <2>3, <2>4, Prepended
    <3>3. Pending' = Statements(input')
      BY <3>1 DEF Pending
    <3>4. Meanings(<<>>) = {}
      <4>1. DataQueries(<<>>) = {}
        <5>1. <<>> \in Seq(STRING) /\ 3..Len(<<>>) = {}
          OBVIOUS
        <5> QED BY <5>1, QueryShape
      <4>2. ManagementQueries(<<>>) = {}
        <5>1. <<>>[1] \in Debugged(0) \cup Managed(0) => FALSE
          BY DEF Debugged, Managed
        <5>2. Len(<<>>) = 0
          OBVIOUS
        <5> QED BY <5>1, <5>2, NotManaged
      <4> QED BY <4>1, <4>2 DEF Meanings
    <3> QED BY <1>1, <3>1, <3>2, <3>3, <3>4, SameLanguage DEF Discussed!Refuse
  <2>5. CASE words' # <<>>
    <3>1. main' = "dispatch" /\ replies' = replies
      BY <1>3, <2>5 DEF Read
    <3>2. Pending' = <<words'>> \o Statements(input')
      BY <3>1 DEF Pending
    <3> QED BY <1>1, <2>2, <3>1, <3>2 DEF Discussed!dialogueVars
  <2> QED BY <2>4, <2>5
<1> QED BY <1>2, <1>3

\* As long as a statement is read, nobody outside notices.
LEMMA Unnoticed ==
  ASSUME UNCHANGED <<input, words, replies>>,
         main \notin {"read", "over", "crashed"}, main' \notin {"read", "over", "crashed"}
  PROVE  UNCHANGED Discussed!dialogueVars
<1>1. Statements(input)' = Statements(input)
  BY DEF Statements, Semicolons
<1>2. Pending' = Pending
  BY <1>1 DEF Pending
<1> QED BY <1>2 DEF Discussed!dialogueVars

\* What the scan refuses is no query, and where it overruns the words, they
\* have no defined effect.
LEMMA Scans ==
  ASSUME Basic, MembersOfThisStatement, Understood,
         ScanOperation \/ ScanOperand \/ Overrun \/ ScanTable \/ ScanCondition \/ Build
  PROVE  Discussed!Refuse \/ Discussed!End \/ UNCHANGED Discussed!dialogueVars
<1> DEFINE Step == Discussed!Refuse \/ Discussed!End \/ UNCHANGED Discussed!dialogueVars
<1>1. main \in Scanning /\ main \notin {"read", "over", "crashed"} /\ Types
  BY DEF ScanOperation, ScanOperand, Overrun, ScanTable, ScanCondition, Build, Scanning, Basic
<1>2. ASSUME NEW phase \in Scanning, NEW steps, NEW members, GoOn(phase, steps, members)
      PROVE  Step
  BY <1>1, <1>2, Unnoticed DEF GoOn, Scanning
<1>3. ASSUME Refuse, UNCHANGED <<input, words>>, Meanings(words) = {} PROVE Step
  BY <1>1, <1>3, Refusals
<1> SUFFICES Step
  OBVIOUS
<1> HIDE DEF Step
<1>4. CASE ScanOperation
  <2>1. CASE GoOn("table", 1, builder) \/ GoOn("operands", 2, builder)
    BY <1>2, <2>1 DEF Scanning
  <2>2. CASE ~Ahead(1, "FROM") /\ ~Ahead(1, "(") /\ IllFormed
    BY <1>3, <1>4, <2>2, RefusedOperation DEF IllFormed, ScanOperation
  <2> QED BY <1>4, <2>1, <2>2 DEF ScanOperation
<1>5. CASE ScanOperand
  <2> DEFINE members == [builder EXCEPT !.operandToken = Append(@, words[it])]
  <2> HIDE DEF members
  <2>1. CASE GoOn("table", 1, builder) \/ GoOn("operands", 1, members)
    BY <1>2, <2>1 DEF Scanning
  <2>2. CASE /\ \/ words[it] = ")" /\ ~Ahead(1, "FROM")
                \/ words[it] # ")" /\ ~(it < Len(words))
             /\ Refuse /\ UNCHANGED <<input, words>>
    BY <1>3, <1>5, <2>2, RefusedOperands DEF ScanOperand
  <2> QED BY <1>5, <2>1, <2>2 DEF ScanOperand, IllFormed, members
<1>6. CASE Overrun
  <2>1. main = "operands" /\ it > Len(words)
    BY <1>6 DEF Overrun
  <2>2. CASE IllFormed
    BY <1>3, <2>1, <2>2, RefusedOperands DEF IllFormed
  <2>3. CASE main' = "crashed" /\ UNCHANGED replies
    <3>1. /\ it = 3 /\ it \in 1..Len(words) + 1 /\ words[2] = "(" /\ Len(words) \in Nat
      <4>1. it = 3 \/ it <= Len(words)
        BY <2>1 DEF Understood
      <4>2. it \in Nat /\ Len(words) \in Nat /\ it \in 1..Len(words) + 1
        BY <1>1, ScanFacts
      <4> QED BY <2>1, <4>1, <4>2 DEF MembersOfThisStatement
    <3>2. Undefined(words)
      <4>1. Len(words) = 2 /\ ManagementQueries(words) = {}
        BY <1>1, <2>1, <3>1 DEF Understood
      <4> QED BY <3>1, <4>1 DEF Undefined
    <3>3. Head(Pending) = words
      BY <1>1, PendingInHand
    <3>4. Discussed!End
      BY <1>1, <2>3, <3>2, <3>3, SameLanguage DEF Discussed!End
    <3> QED BY <3>4 DEF Step
  <2> QED BY <1>6, <2>2, <2>3 DEF Overrun
<1>7. CASE ScanTable
  <2> DEFINE members == [builder EXCEPT !.targetTable = words[it + 1]]
  <2> HIDE DEF members
  <2>1. CASE GoOn("build", 1, members) \/ GoOn("conditions", 2, members)
    BY <1>2, <2>1 DEF Scanning
  <2>2. CASE /\ it = Len(words) \/ (it + 1 < Len(words) /\ ~Ahead(2, "WHERE"))
             /\ Refuse /\ UNCHANGED <<input, words>>
    BY <1>3, <1>7, <2>2, RefusedTable DEF ScanTable
  <2> QED BY <1>7, <2>1, <2>2, Zenon DEF ScanTable, IllFormed, members
<1>8. CASE ScanCondition
  <2> DEFINE members ==
        [builder EXCEPT !.conditionToken =
           Append(@, Condition(words[it+2], words[it+3], words[it+4]))]
  <2> HIDE DEF members
  <2>1. CASE GoOn("build", 0, builder) \/ GoOn("conditions", 5, members)
    BY <1>2, <2>1 DEF Scanning
  <2>2. CASE /\ it # Len(words) /\ ~(Ahead(1, "(") /\ Ahead(5, ")"))
             /\ Refuse /\ UNCHANGED <<input, words>>
    BY <1>3, <1>8, <2>2, RefusedConditions DEF ScanCondition
  <2> QED BY <1>8, <2>1, <2>2, Zenon DEF ScanCondition, IllFormed, members
<1>9. CASE Build
  <2>1. CASE words[1] \in Operations
    <3>1. main' = "execute" /\ UNCHANGED <<input, words, replies>>
      BY <1>9, <2>1 DEF Build, Execute
    <3>2. UNCHANGED Discussed!dialogueVars
      BY <1>1, <3>1, Unnoticed
    <3> QED BY <3>2 DEF Step
  <2>2. CASE words[1] \notin Operations
    BY <1>3, <1>9, <2>2, RefusedBuild DEF Build, IllFormed
  <2> QED BY <2>1, <2>2
<1> QED BY <1>4, <1>5, <1>6, <1>7, <1>8, <1>9

\* The result is numbered in turn, and the number is that of the query.
LEMMA Answers ==
  ASSUME Types, Understood, NEW kind \in Kinds, Answer(kind)
  PROVE  Discussed!Answer
<1>1. /\ main = "execute" /\ query.op # "QUIT" /\ main' = "read"
      /\ replies' = Append(replies, [number |-> counter + 1, query |-> query, kind |-> kind])
      /\ UNCHANGED <<input, words>>
  BY DEF Answer
<1>2. Pending # <<>> /\ Head(Pending) = words /\ Tail(Pending) = Statements(input)
  BY <1>1, PendingInHand
<1>3. query \in Meanings(words) /\ counter = Cardinality(Numbered(replies)) /\ counter \in Nat
  BY <1>1 DEF Understood, Types
<1>4. Discussed!NextNumber = counter + 1
  <2>0. \A S : Discussed!Cardinality(S) = Cardinality(S)
    BY Zenon DEF Discussed!Cardinality, Cardinality
  <2>1. Discussed!NextNumber = 1 + counter
    BY <1>3, <2>0, SameLanguage DEF Discussed!NextNumber, Numbered
  <2> QED BY <1>3, <2>1
<1>5. Statements(input)' = Statements(input)
  BY <1>1 DEF Statements, Semicolons
<1>6. Pending' = Tail(Pending)
  BY <1>1, <1>2, <1>5 DEF Pending
<1> QED BY <1>1, <1>2, <1>3, <1>4, <1>6, SameLanguage DEF Discussed!Answer

LEMMA Quits == ASSUME Types, Understood, Quit PROVE Discussed!End
<1>1. main = "execute" /\ query.op = "QUIT" /\ main' = "over" /\ replies' = replies
  BY DEF Quit
<1>2. Head(Pending) = words
  BY <1>1, PendingInHand
<1>3. query \in Meanings(words)
  BY <1>1 DEF Understood
<1> QED BY <1>1, <1>2, <1>3, SameLanguage DEF Discussed!End

LEMMA DialogueSteps ==
  ASSUME IInv, Understood, [Next]_vars
  PROVE  [Discussed!DialogueNext]_(Discussed!dialogueVars)
<1>0. Types /\ Basic /\ MembersOfThisStatement
  BY DEF IInv, Basic
<1>1. CASE UNCHANGED vars
  <2>1. Statements(input)' = Statements(input)
    BY <1>1 DEF vars, Statements, Semicolons
  <2>2. Pending' = Pending
    BY <1>1, <2>1 DEF vars, Pending
  <2> QED BY <1>1, <2>2 DEF vars, Discussed!dialogueVars
<1>2. CASE Read
  BY <1>0, <1>2, Reads DEF Discussed!DialogueNext
<1>3. CASE Dispatch
  <2>1. /\ main = "dispatch" /\ main' \in {"execute", "operation"}
        /\ UNCHANGED <<input, words, replies>>
    BY <1>3 DEF Dispatch, Execute
  <2> QED BY <2>1, Unnoticed
<1>4. CASE ScanOperation \/ ScanOperand \/ Overrun \/ ScanTable \/ ScanCondition \/ Build
  BY <1>0, <1>4, Scans DEF Discussed!DialogueNext
<1>5. CASE \E kind \in Kinds : Answer(kind)
  BY <1>0, <1>5, Answers DEF Discussed!DialogueNext
<1>6. CASE Quit
  BY <1>0, <1>6, Quits DEF Discussed!DialogueNext
<1> QED BY <1>1, <1>2, <1>3, <1>4, <1>5, <1>6 DEF Next

\* Besides IInv, Understood holds.
LEMMA UnderstoodHolds == Spec => []Understood
<1>1. Init => Understood
  <2> SUFFICES ASSUME Init PROVE Understood
    OBVIOUS
  <2>1. Numbered(replies) = {}
    BY DEF Init, Numbered
  <2>2. counter = Cardinality(Numbered(replies))
    BY <2>1, FS_EmptySet DEF Init
  <2> QED BY <2>2 DEF Init, Understood, Scanning
<1>2. IInv /\ Understood /\ [Next]_vars => Understood'
  BY UnderstoodStep DEF IInv
<1> QED BY <1>1, <1>2, InvariantHolds, PTL DEF Spec

(***************************************************************************)
(* Repl implements Dialogue, for all inputs, operations and kinds of       *)
(* result: whatever was read before it, a statement is answered by the     *)
(* one query that its words spell, with the next number, and refused when  *)
(* they spell none; no statement is passed over or answered twice.         *)
(***************************************************************************)
THEOREM ReplImplementsDialogue == Spec => ImplementsDialogue
<1>1. Init => Discussed!DialogueInit
  BY DEF Init, Discussed!DialogueInit
<1>2. IInv /\ Understood /\ [Next]_vars => [Discussed!DialogueNext]_(Discussed!dialogueVars)
  BY DialogueSteps
<1> QED BY <1>1, <1>2, InvariantHolds, UnderstoodHolds, PTL
        DEF Spec, ImplementsDialogue, Discussed!DialogueSpec
=============================================================================
