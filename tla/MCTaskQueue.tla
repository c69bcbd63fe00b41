----------------------------- MODULE MCTaskQueue -----------------------------
(* Small instances of the scheduler for TLC.                                 *)
EXTENDS TaskQueue
==============================================================================
