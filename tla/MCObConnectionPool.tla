------------------------- MODULE MCObConnectionPool -------------------------
(* Small instances of the OceanBase pool for TLC.                            *)
EXTENDS ObConnectionPool
==============================================================================
