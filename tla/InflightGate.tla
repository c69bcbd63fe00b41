----------------------------- MODULE InflightGate -----------------------------
(***************************************************************************)
(* What the task queue promises a terminal about admission: between        *)
(* TTaskHasInflight (IncInflight) and DecInflight at most Slots terminals  *)
(* run, each acquires and releases for itself, one at a time.  TaskQueue   *)
(* implements this counting semaphore; Worker is built on it.              *)
(***************************************************************************)
EXTENDS Naturals, FiniteSets

CONSTANTS Client,  \* terminals
          Slots    \* max_inflight; 0 means no limit

VARIABLE holding   \* the terminals that hold a slot

Open == Slots = 0 \/ Cardinality(holding) < Slots

Acquire(c) ==
  /\ c \notin holding
  /\ Open
  /\ holding' = holding \cup {c}

Release(c) ==
  /\ c \in holding
  /\ holding' = holding \ {c}

Init == holding = {}
Next == \E c \in Client : Acquire(c) \/ Release(c)
Spec == Init /\ [][Next]_holding
==============================================================================
