------------------------------- MODULE Dialogue -------------------------------
(***************************************************************************)
(* What the query loop promises whoever writes queries: every statement    *)
(* that ends with a semicolon is answered in turn, from its own words      *)
(* alone.  One that is spelled like a query is executed as that query, and *)
(* the results are numbered from 1 without gaps; any other is refused.     *)
(* Repl implements this module.                                            *)
(***************************************************************************)
EXTENDS Statements, FiniteSets

CONSTANT Kinds    \* of a result: how it is shown

VARIABLES
  pending,    \* the statements to come, each a sequence of words
  replies,    \* what was answered so far
  over        \* whether the loop has ended

dialogueVars == <<pending, replies, over>>

-----------------------------------------------------------------------------
\* One more than have been answered.
NextNumber == 1 + Cardinality({i \in DOMAIN replies : replies[i] # Refusal})

Answer ==
  /\ ~over /\ pending # <<>>
  /\ \E q \in Meanings(Head(pending)), kind \in Kinds :
       /\ q.op # "QUIT"
       /\ replies' = Append(replies, [number |-> NextNumber, query |-> q, kind |-> kind])
  /\ pending' = Tail(pending) /\ UNCHANGED over

Refuse ==
  /\ ~over /\ pending # <<>> /\ Meanings(Head(pending)) = {}
  /\ replies' = Append(replies, Refusal)
  /\ pending' = Tail(pending) /\ UNCHANGED over

\* QUIT, the end of the input, or a statement without a defined effect.
End ==
  /\ ~over /\ over'
  /\ \/ pending = <<>>
     \/ \E q \in Meanings(Head(pending)) : q.op = "QUIT"
     \/ Undefined(Head(pending))
  /\ UNCHANGED replies

DialogueInit == replies = <<>> /\ over = FALSE

DialogueNext == Answer \/ Refuse \/ End

DialogueSpec == DialogueInit /\ [][DialogueNext]_dialogueVars
=============================================================================
