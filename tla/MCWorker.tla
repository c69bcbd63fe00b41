------------------------------- MODULE MCWorker -------------------------------
(* Small instances of the worker for TLC.                                    *)
EXTENDS Worker
==============================================================================
