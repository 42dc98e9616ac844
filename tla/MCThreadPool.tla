----------------------------- MODULE MCThreadPool -----------------------------
(* Model checking of ThreadPool on few threads and tasks.                  *)
EXTENDS ThreadPool, TLC
=============================================================================
