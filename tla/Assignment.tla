------------------------------ MODULE Assignment ------------------------------
(***************************************************************************)
(* How the warehouses are divided among the instances of a role: the loop  *)
(* of balanced-contiguous, which gives every instance, in the order of     *)
(* their names, the next contiguous half-open range of warehouses.         *)
(*                                                                         *)
(* Source: src/mind/internal/assignment/assignment.go, and the check the   *)
(* consolidation makes of its outcome in src/mind/internal/config/plan.go. *)
(***************************************************************************)
EXTENDS Integers

CONSTANTS
    Warehouses,     \* scale.warehouses
    InstanceCount   \* instances of the role, here by their place in name order

ASSUME AssignmentAssumption == Warehouses \in Int /\ InstanceCount \in Nat

VARIABLES
    i,       \* instances served so far
    start,   \* first warehouse not yet given out
    ranges   \* instance -> WarehouseRange

assignmentVars == <<i, start, ranges>>

Instances == 1..InstanceCount

\* Zero or too few warehouses, or no instance, is an error and assigns nothing.
Accepted == Warehouses > 0 /\ InstanceCount # 0 /\ InstanceCount <= Warehouses

AssignmentInit ==
    /\ i = 0
    /\ start = 1
    /\ ranges = [k \in Instances |-> [Start |-> 0, End |-> 0]]

base == Warehouses \div InstanceCount
extra == Warehouses % InstanceCount

FaultCountChunk(k) ==
    LET chunk == (Warehouses + InstanceCount - 1) \div InstanceCount IN
    IF start + chunk <= Warehouses + 1 THEN chunk ELSE Warehouses + 1 - start

FaultCount(k) == IF k <= extra THEN base + 1 ELSE base

\* The first extra instances take one warehouse more (k counts from 0).
Count(k) == IF k < extra THEN base + 1 ELSE base

BalancedContiguous ==
    /\ Accepted
    /\ i < InstanceCount
    /\ ranges' = [ranges EXCEPT ![i + 1] = [Start |-> start, End |-> start + Count(i)]]
    /\ start' = start + Count(i)
    /\ i' = i + 1

AssignmentSpec == AssignmentInit /\ [][BalancedContiguous]_assignmentVars

Assigned == Accepted /\ i = InstanceCount

Owns(k, w) == ranges[k].Start <= w /\ w < ranges[k].End

\* assignment_valid in the status of aggregate.json.
ValidateRunConfigAssignment ==
    /\ \A k \in Instances :
          /\ 0 < ranges[k].Start /\ ranges[k].Start < ranges[k].End
          /\ ranges[k].End <= Warehouses + 1
          /\ \A l \in Instances \ {k} :
                ~\E w \in ranges[k].Start..(ranges[k].End - 1) : Owns(l, w)
    /\ \A w \in 1..Warehouses : \E k \in Instances : Owns(k, w)

-----------------------------------------------------------------------------

\* Once every instance is served, each warehouse of the scale has an owner,
\* no range leaves the scale, and no two overlap: no warehouse is loaded or
\* driven twice, none is left out.
Partitioned ==
    Assigned =>
       /\ \A w \in 1..Warehouses : \E k \in Instances : Owns(k, w)
       /\ \A k \in Instances : ranges[k].Start >= 1 /\ ranges[k].End <= Warehouses + 1
       /\ \A k, l \in Instances :
             k < l => ranges[k].End <= ranges[l].Start

\* Nobody is idle, and no instance has more than one warehouse more than another.
Balanced ==
    Assigned =>
       \A k, l \in Instances :
          LET size(m) == ranges[m].End - ranges[m].Start IN
          size(k) >= 1 /\ size(k) <= size(l) + 1
=============================================================================
