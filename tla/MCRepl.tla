-------------------------------- MODULE MCRepl --------------------------------
(* Statements for model checking Repl: queries of every form, and what is  *)
(* left of them when a word is missing, superfluous or another one.        *)
EXTENDS Repl

Data == {"INSERT", "SELECT", "DELETE"}

InsertText == <<"INSERT", "(", "k", "1", ")", "FROM", "t">>
SelectText ==
  <<"SELECT", "(", "x", ")", "FROM", "t",
    "WHERE", "(", "KEY", "=", "k", ")", "(", "x", ">", "1", ")">>
DeleteText == <<"DELETE", "FROM", "t", "WHERE", "(", "x", "<", "1", ")">>

DataTexts == {InsertText, SelectText, DeleteText}

\* Among them words that are out of place, and operations that are none.
OtherTexts ==
  {<<"LIST">>, <<"QUIT">>, <<"SHOWTABLE", "t">>, <<"LOAD", "(">>, <<"DROP", "t">>,
   <<"TRUNCATE", "t">>, <<"DUMP", "FROM", "f">>, <<"COPYTABLE", "t", "u">>,
   <<"LIST", "t">>, <<"LOAD">>, <<"DUMP", "t">>, <<"LOAD", "FROM", "t">>,
   <<>>, <<"k">>, <<"SELECT", "(">>, <<"SELECT", "(", ")", "FROM", "t">>,
   <<"SELECT", "FROM", "FROM">>, <<"SELECT", "FROM", "t", "WHERE">>}

Prefixes(s) == {SubSeq(s, 1, n) : n \in 0..Len(s)}

Substitutes == {"(", ")", "FROM", "WHERE", "k"}

Substituted(s) == {[s EXCEPT ![i] = w] : i \in DOMAIN s, w \in Substitutes}
Shortened(s) == {SubSeq(s, 1, i-1) \o SubSeq(s, i+1, Len(s)) : i \in DOMAIN s}
Lengthened(s) == {SubSeq(s, 1, i) \o <<w>> \o SubSeq(s, i+1, Len(s)) :
                    i \in DOMAIN s, w \in Substitutes}

Texts ==
  OtherTexts \cup
  UNION {Prefixes(s) \cup Substituted(s) \cup Shortened(s) \cup Lengthened(s) : s \in DataTexts}

\* What may have been read before: a query, and what ends in an exception
\* behind an operand, or behind a condition.
Before ==
  {SelectText, SubSeq(SelectText, 1, 3), SubSeq(SelectText, 1, 13), <<"k">>, <<>>}

\* Each text after another one, and behind the last semicolon some words of
\* a third.
MCInputs ==
  {s \o <<";">> \o t \o <<";">> \o rest : s \in Before, t \in Texts, rest \in {<<>>, <<"LIST">>}}
=============================================================================
