--------------------------- MODULE MCTaskScheduler ---------------------------
(* TaskScheduler as it is.                                                  *)
EXTENDS TaskScheduler
=============================================================================
