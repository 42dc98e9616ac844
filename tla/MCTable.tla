------------------------------- MODULE MCTable -------------------------------
(* Model checking of Table on few stems, copies and values.                *)
EXTENDS Table
=============================================================================
