------------------------------ MODULE RunState ------------------------------
(***************************************************************************)
(* The life of a run as the control host records it in run-state.json:    *)
(* the pipeline states, their order, and the rules by which a command may  *)
(* move a run from one to the next.                                        *)
(*                                                                         *)
(* Source: src/mind/internal/state/state.go and the phase guards of        *)
(* src/mind/internal/orchestrator/orchestrator.go.                         *)
(*                                                                         *)
(* In this and in the modules that use it an operator FaultX placed just   *)
(* before X is X with one plausible slip in it; the slips are what the     *)
(* checked properties are measured against and no specification uses them. *)
(***************************************************************************)
EXTENDS Naturals

PipelineOrder ==
    [planned |-> 0, deploying |-> 1, schema |-> 2, loading |-> 3,
     indexing |-> 4, checking_import |-> 5, preparing |-> 6, arming |-> 7,
     ramping |-> 8, measuring |-> 9, draining |-> 10, checking_result |-> 11,
     collecting |-> 12, consolidating |-> 13, completed |-> 14]

States == DOMAIN PipelineOrder \cup {"stopping", "failed"}

IsTerminal(st) == st \in {"completed", "failed"}

\* Re-entry into idempotent stages that the run has already passed.
AllowedRecovery(old, new) ==
    \/ /\ new = "indexing"
       /\ old \in {"checking_import", "checking_result", "draining",
                   "collecting", "consolidating"}
    \/ new = "collecting" /\ old = "consolidating"

ValidTransition(old, new) ==
    \/ old = new
    \/ /\ ~IsTerminal(old)
       /\ \/ new \in {"failed", "stopping"}
          \/ /\ old # "stopping"
             /\ \/ AllowedRecovery(old, new)
                \/ /\ {old, new} \subseteq DOMAIN PipelineOrder
                   /\ PipelineOrder[new] >= PipelineOrder[old]

\* Whether a state is at least as far along the pipeline as min.
Reached(st, min) ==
    st \in DOMAIN PipelineOrder /\ PipelineOrder[st] >= PipelineOrder[min]

ConsolidateReady(st) ==
    st \in {"draining", "checking_result", "collecting", "consolidating"}

\* refuseConsolidateWithoutTest lets terminal and stopping runs through: the
\* transition that follows rejects them without rewriting the state.
ConsolidateAllowed(st) ==
    ConsolidateReady(st) \/ IsTerminal(st) \/ st = "stopping"

\* A check needs a load that completed, or indexes that were skipped.
CheckAllowed(st, skipped) ==
    /\ st \notin {"stopping", "failed"}
    /\ "indexes" \in skipped \/ Reached(st, "indexing")

DebugAllowed(st) == st \notin {"stopping", "failed"}
=============================================================================
