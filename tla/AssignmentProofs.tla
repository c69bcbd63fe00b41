--------------------------- MODULE AssignmentProofs ---------------------------
(***************************************************************************)
(* For every number of warehouses and of instances, the loop of            *)
(* balanced-contiguous divides the warehouses among the instances.         *)
(***************************************************************************)
EXTENDS Assignment, TLAPS

\* The warehouses given out after n instances.
Given(n) == n * base + (IF n <= extra THEN n ELSE extra)

\* The ranges of the instances served so far fill 1..(start - 1) from left to
\* right, and start is where the arithmetic of the loop puts it.
Served ==
    /\ start = 1 + Given(i)
    /\ \A k \in 1..i : /\ 1 <= ranges[k].Start
                       /\ ranges[k].End = ranges[k].Start + Count(k - 1)
                       /\ ranges[k].End <= start
    /\ \A w \in 1..(start - 1) : \E k \in 1..i : Owns(k, w)
    /\ \A k, l \in 1..i : k < l => ranges[k].End <= ranges[l].Start

AssignmentTypeOK ==
    /\ i \in 0..InstanceCount
    /\ start \in Int
    /\ ranges \in [Instances -> [Start : Int, End : Int]]

AssignmentInv == AssignmentTypeOK /\ (Accepted => Served)

\* Quotient and remainder, as the loop uses them.
LEMMA Division ==
    ASSUME Accepted
    PROVE  /\ base \in Nat /\ base >= 1
           /\ extra \in Nat /\ extra < InstanceCount
           /\ Warehouses = InstanceCount * base + extra
  BY AssignmentAssumption, Z3 DEF Accepted, base, extra

\* The share of an instance is positive, and what has been given out grows by it.
LEMMA Shares ==
    ASSUME Accepted, NEW n \in Nat
    PROVE  /\ Count(n) \in Nat /\ Count(n) >= 1
           /\ Given(n) \in Nat
           /\ Given(n + 1) = Given(n) + Count(n)
  <1>1. base \in Nat /\ base >= 1 /\ extra \in Nat
    BY Division
  <1>2. (n + 1) * base = n * base + base /\ n * base \in Nat
    BY <1>1, Z3
  <1> QED
    BY <1>1, <1>2 DEF Count, Given

\* Before the first instance nothing has been given out.
LEMMA InitServes == AssignmentInit => AssignmentInv
  <1> SUFFICES ASSUME AssignmentInit PROVE AssignmentInv
    OBVIOUS
  <1>1. AssignmentTypeOK
    BY AssignmentAssumption DEF AssignmentInit, AssignmentTypeOK
  <1>2. ASSUME Accepted PROVE Served
    <2>1. base \in Nat /\ extra \in Nat
      BY <1>2, Division
    <2>2. 0 * base = 0
      BY <2>1
    <2>3. Given(0) = 0
      BY <2>1, <2>2 DEF Given
    <2> QED
      BY <2>3 DEF AssignmentInit, Served
  <1> QED
    BY <1>1, <1>2 DEF AssignmentInv

\* Each instance takes the range that follows the previous one.
LEMMA StepServes == AssignmentInv /\ [BalancedContiguous]_assignmentVars => AssignmentInv'
  <1> SUFFICES ASSUME AssignmentInv, [BalancedContiguous]_assignmentVars
               PROVE  AssignmentInv'
    OBVIOUS
  <1>1. CASE UNCHANGED assignmentVars
    BY <1>1 DEF AssignmentInv, AssignmentTypeOK, Served, Owns, assignmentVars
  <1>2. CASE BalancedContiguous
    <2> USE AssignmentAssumption
    <2>1. /\ Accepted /\ Served /\ AssignmentTypeOK
          /\ i \in Nat /\ i < InstanceCount /\ i + 1 \in Instances
      BY <1>2 DEF BalancedContiguous, AssignmentInv, AssignmentTypeOK, Instances
    <2>2. /\ Count(i) \in Nat /\ Count(i) >= 1
          /\ Given(i) \in Nat /\ Given(i + 1) = Given(i) + Count(i)
      BY <2>1, Shares
    <2>3. /\ i' = i + 1
          /\ start' = start + Count(i)
          /\ ranges'[i + 1] = [Start |-> start, End |-> start + Count(i)]
          /\ \A k \in 1..i : ranges'[k] = ranges[k]
      BY <1>2, <2>1 DEF BalancedContiguous, AssignmentTypeOK, Instances
    <2>4. AssignmentTypeOK'
      BY <1>2, <2>1, <2>2 DEF BalancedContiguous, AssignmentTypeOK, Instances
    <2>5. start = 1 + Given(i) /\ start \in Int
      BY <2>1, <2>2 DEF Served
    <2>6. start' = 1 + Given(i')
      BY <2>2, <2>3, <2>5
    <2>7. \A k \in 1..i' : /\ 1 <= ranges'[k].Start
                           /\ ranges'[k].End = ranges'[k].Start + Count(k - 1)
                           /\ ranges'[k].End <= start'
      <3> TAKE k \in 1..i'
      <3>1. CASE k = i + 1
        <4>1. k - 1 = i
          BY <3>1, <2>1
        <4> QED
          BY <3>1, <4>1, <2>2, <2>3, <2>5
      <3>2. CASE k \in 1..i
        <4>1. /\ 1 <= ranges[k].Start
              /\ ranges[k].End = ranges[k].Start + Count(k - 1)
              /\ ranges[k].End <= start
              /\ ranges[k].End \in Int
          BY <3>2, <2>1 DEF Served, AssignmentTypeOK, Instances
        <4> QED
          BY <3>2, <4>1, <2>2, <2>3, <2>5
      <3> QED
        BY <3>1, <3>2, <2>1, <2>3
    <2>8. \A w \in 1..(start' - 1) : \E k \in 1..i' : Owns(k, w)'
      <3> TAKE w \in 1..(start' - 1)
      <3>1. CASE w < start
        <4>1. PICK k \in 1..i : Owns(k, w)
          BY <3>1, <2>1, <2>5 DEF Served
        <4> QED
          BY <4>1, <2>1, <2>3 DEF Owns
      <3>2. CASE w >= start
        <4>1. i + 1 \in 1..i'
          BY <2>1, <2>3
        <4>2. ranges'[i + 1].Start <= w /\ w < ranges'[i + 1].End
          BY <3>2, <2>2, <2>3, <2>5
        <4> QED
          BY <4>1, <4>2 DEF Owns
      <3> QED
        BY <3>1, <3>2, <2>5
    <2>9. \A k, l \in 1..i' : k < l => ranges'[k].End <= ranges'[l].Start
      <3> SUFFICES ASSUME NEW k \in 1..i', NEW l \in 1..i', k < l
                   PROVE  ranges'[k].End <= ranges'[l].Start
        OBVIOUS
      <3>1. k \in 1..i
        BY <2>1, <2>3
      <3>2. CASE l = i + 1
        BY <3>1, <3>2, <2>1, <2>3 DEF Served
      <3>3. CASE l \in 1..i
        BY <3>1, <3>3, <2>1, <2>3 DEF Served
      <3> QED
        BY <3>2, <3>3, <2>1, <2>3
    <2>10. Served'
      BY <2>6, <2>7, <2>8, <2>9 DEF Served, Given, Count, base, extra
    <2> QED
      BY <2>4, <2>10 DEF AssignmentInv
  <1> QED
    BY <1>1, <1>2

\* At every iteration the ranges given out fill the warehouses from 1 up to
\* where the loop stands.
THEOREM Invariance == AssignmentSpec => []AssignmentInv
  BY InitServes, StepServes, PTL DEF AssignmentSpec

\* When the loop is done it has given out exactly the warehouses of the scale.
LEMMA AllGiven ==
    ASSUME AssignmentInv, Assigned
    PROVE  /\ Served /\ Accepted /\ i = InstanceCount
           /\ start = Warehouses + 1
  <1>1. Served /\ Accepted /\ i = InstanceCount
    BY DEF AssignmentInv, Assigned
  <1>2. Given(InstanceCount) = InstanceCount * base + extra
    BY <1>1, Division, AssignmentAssumption DEF Given
  <1> QED
    BY <1>1, <1>2, Division, AssignmentAssumption DEF Served

\* BalancedContiguousV1: whatever the scale and the number of instances, every
\* warehouse has an owner, and no two ranges overlap or leave the scale.
THEOREM Partition == AssignmentSpec => []Partitioned
  <1>1. AssignmentInv => Partitioned
    <2> SUFFICES ASSUME AssignmentInv, Assigned
                 PROVE  /\ \A w \in 1..Warehouses : \E k \in Instances : Owns(k, w)
                        /\ \A k \in Instances : ranges[k].Start >= 1
                                                /\ ranges[k].End <= Warehouses + 1
                        /\ \A k, l \in Instances :
                              k < l => ranges[k].End <= ranges[l].Start
      BY DEF Partitioned
    <2>1. Served /\ i = InstanceCount /\ start = Warehouses + 1
      BY AllGiven
    <2>2. start - 1 = Warehouses /\ 1..i = Instances
      BY <2>1, AssignmentAssumption DEF Instances
    <2>3. ranges \in [Instances -> [Start : Int, End : Int]]
      BY DEF AssignmentInv, AssignmentTypeOK
    <2> QED
      BY <2>1, <2>2, <2>3 DEF Served
  <1> QED
    BY <1>1, Invariance, PTL

\* BalancedContiguousV1: no instance is without a warehouse, and none has more
\* than one warehouse more than another.
THEOREM Balance == AssignmentSpec => []Balanced
  <1>1. AssignmentInv => Balanced
    <2> SUFFICES ASSUME AssignmentInv, Assigned, NEW k \in Instances, NEW l \in Instances
                 PROVE  /\ ranges[k].End - ranges[k].Start >= 1
                        /\ ranges[k].End - ranges[k].Start
                              <= ranges[l].End - ranges[l].Start + 1
      BY DEF Balanced
    <2>1. Served /\ Accepted /\ 1..i = Instances
      BY AllGiven DEF Instances
    <2>2. /\ ranges[k].Start \in Int /\ ranges[l].Start \in Int
          /\ ranges[k].End = ranges[k].Start + Count(k - 1)
          /\ ranges[l].End = ranges[l].Start + Count(l - 1)
      BY <2>1 DEF Served, AssignmentInv, AssignmentTypeOK
    <2>3. /\ Count(k - 1) \in {base, base + 1} /\ Count(l - 1) \in {base, base + 1}
          /\ base \in Nat /\ base >= 1
      BY <2>1, Division DEF Count
    <2> QED
      BY <2>2, <2>3
  <1> QED
    BY <1>1, Invariance, PTL
=============================================================================
