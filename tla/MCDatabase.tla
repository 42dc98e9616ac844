------------------------------ MODULE MCDatabase ------------------------------
(* Files and rows for model checking Database: two tables with two fields  *)
(* besides KEY.  Of the numbers -9 and 9 have ten characters or more.      *)
EXTENDS Database

A == "A"
B == "B"

WideNumbers == {-9, 9}
Least == -9

InsertedKeys == {A}
\* The second one has no value for the last field.
InsertedTuples == {<<1, 9>>, <<0>>}

Text(name, rows) == <<<<name, 3>>, <<"KEY", "x", "y">>>> \o rows

TwoRows == Text("a", <<<<A, 1, -9>>, <<B, 0, 1, 9>>>>)

\* The second row, with the key of the first, is behind an empty line; the
\* first can be read, but not printed so that it can be read again.
Interrupted == Text("b", <<<<A, 1, 9>>, <<>>, <<A, 1, 1>>>>)

\* A name of ten characters or more: loaded once and never again.
LongName == <<<<"b", 3>>, <<"KEY", "x", "long">>, <<A, 1, 1>>>>

\* What LOAD refuses, for one reason each.
Refused == {
  <<>>,
  <<<<"b">>>>,
  <<<<"b", 3>>>>,
  <<<<"b", 0>>, <<>>>>,
  <<<<"b", 3>>, <<"KEY", "x">>>>,
  <<<<"b", 3>>, <<"x", "KEY", "y">>>>,
  <<<<"b", 3>>, <<"KEY", "KEY", "y">>>>,
  Text("b", <<<<A, 1, 1>>, <<A, 0, 0>>>>),
  Text("b", <<<<A, 1, 1>>, <<B, 1>>>>),
  Text("b", <<<<A, 1, 1>>, <<B, 10, 1>>>>),
  Text("b", <<<<A, 1, 1>>, Blanks, <<>>>>)}

\* The file f, which can be written, and g, which cannot.
Disks ==
  {[x \in Files |-> IF x = "f" THEN TwoRows ELSE Interrupted]} \cup
  {[x \in {"g"} |-> t] : t \in Refused \cup {LongName}} \cup
  {NoNames}
=============================================================================
