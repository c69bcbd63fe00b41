---------------------------- MODULE ResultsProofs ----------------------------
(***************************************************************************)
(* For every division of the work, every number of threads and of          *)
(* transactions and every interleaving: what the workers write passes the  *)
(* checks of the consolidation, and the published figures are those of the *)
(* finished transactions.                                                  *)
(***************************************************************************)
EXTENDS Results, HistogramProofs, AssignmentProofs

Complete == {"OK", "UserAborted"}
Outcomes == {"OK", "UserAborted", "Failed"}
Latencies == 0..(Uint64Max - 1)
Transactions ==
    [worker : Instances, thread : Threads, outcome : Outcomes, full : Latencies, txn : Latencies]
Statistics ==
    [OK : Nat, UserAborted : Nat, Failed : Nat, full : RawType, txn : RawType]

\* The transactions of some workers, threads and outcomes.
Part(K, H, O) == {e \in Transactions : e.worker \in K /\ e.thread \in H /\ e.outcome \in O}
Full == [e \in Transactions |-> e.full]
Txn == [e \in Transactions |-> e.txn]

-----------------------------------------------------------------------------
(* The inductive invariant.                                                *)

\* B is a bag of transactions.
BagOfTransactions(B) ==
    /\ DOMAIN B \subseteq Transactions /\ IsFiniteSet(DOMAIN B)
    /\ \A e \in DOMAIN B : B[e] \in Nat /\ B[e] > 0

\* A transaction that is counted and not yet recorded is one of the terminal's
\* own, of a worker that has not been joined, and the only one of its thread.
RecordingOK ==
    /\ recording \in [Terminals -> Transactions \cup {None}]
    /\ \A t \in Terminals : recording[t] # None =>
          /\ Assigned
          /\ recording[t].worker = WorkerOf(t) /\ recording[t].thread = ThreadOf(t)
          /\ recording[t].outcome \in Complete
          /\ [full |-> recording[t].full, txn |-> recording[t].txn] \in Samples
          /\ recording[t].worker \notin joined
    /\ \A t, u \in Terminals :
          /\ recording[t] # None /\ recording[u] # None
          /\ recording[t].worker = recording[u].worker
          /\ recording[t].thread = recording[u].thread
          => t = u

\* Whether a thread has counted a transaction and not yet recorded it.
Pending(rec, k, h, o) ==
    IF \E t \in Terminals : rec[t] \in Part({k}, {h}, {o}) THEN 1 ELSE 0

\* The pair of histograms r holds the latencies of the completed transactions
\* of some workers and threads.
Latency(r, B, K, H, none) ==
    /\ Represents(r.full, B, Part(K, H, Complete), Full, none)
    /\ Represents(r.txn, B, Part(K, H, Complete), Txn, none)

\* r counts the transactions of some workers and threads.
Tally(r, B, K, H) == \A o \in Outcomes : r[o] = Total(B, Part(K, H, {o}))

\* The statistics of a thread count its transactions, also those that are still
\* to be recorded, and hold the latencies of the recorded ones.
ThreadStats(s, B, rec, k, h) ==
    /\ s \in Statistics
    /\ \A o \in Outcomes : s[o] = Total(B, Part({k}, {h}, {o})) + Pending(rec, k, h, o)
    /\ Latency(s, B, {k}, {h}, Uint64Max)

StatsOK ==
    /\ stats \in [Instances -> [Threads -> Statistics]]
    /\ \A k \in Instances, h \in Threads : ThreadStats(stats[k][h], log, recording, k, h)

JoinedOK == joined \subseteq Instances /\ (joined # {} => Assigned)

\* What a worker has written is what it has finished.
WorkerResult(r, B, k) ==
    /\ Tally(r, B, {k}, Threads) /\ Latency(r, B, {k}, Threads, 0)
    /\ r.present \in BOOLEAN /\ (~r.present => \A o \in Outcomes : r[o] = 0)

ResultOK ==
    /\ DOMAIN result = Instances
    /\ \A k \in Instances :
          /\ result[k].written \in BOOLEAN
          /\ result[k].written => k \in joined /\ WorkerResult(result[k], log, k)

\* The consolidation has added up the workers before at, and refused none.
MergeOK ==
    /\ at \in 1..(InstanceCount + 1)
    /\ at # 1 => \A k \in Instances : result[k].written
    /\ Tally(counters, log, 1..(at - 1), Threads)
    /\ counters.warehouses = Given(at - 1)
    /\ \/ merged = <<>> /\ DOMAIN log \cap Part(1..(at - 1), Threads, Complete) = {}
       \/ merged # <<>> /\ Latency(merged, log, 1..(at - 1), Threads, 0)
    /\ verdict = IF at = InstanceCount + 1 THEN "published" ELSE "none"

BoundOK ==
    SumFunction(log) + Cardinality({u \in Terminals : recording[u] # None}) <= MaxSamples

ResultsInv ==
    /\ AssignmentInv /\ BagOfTransactions(log) /\ RecordingOK /\ StatsOK
    /\ JoinedOK /\ ResultOK /\ MergeOK /\ BoundOK

-----------------------------------------------------------------------------
(* Bags of transactions.                                                   *)

\* The latencies of a bag of transactions can be recorded.
LEMMA BagValued ==
  ASSUME NEW B, BagOfTransactions(B)
  PROVE  Table(B) /\ Valued(B, Full) /\ Valued(B, Txn)
  <1>1. Table(B)
    BY DEF BagOfTransactions, Table
  <1>2. \A e \in Transactions : Full[e] \in Latencies /\ Txn[e] \in Latencies
    BY DEF Full, Txn, Transactions
  <1>3. \A v \in Latencies : v \in Nat /\ v < Uint64Max
    BY HistogramAssumption DEF Latencies
  <1> QED BY <1>1, <1>2, <1>3 DEF BagOfTransactions, Valued

\* One more transaction in the bag.
LEMMA BagAdd ==
  ASSUME NEW B, BagOfTransactions(B), NEW x \in Transactions
  PROVE  BagOfTransactions(B (+) SetToBag({x})) /\ Raises(B (+) SetToBag({x}), B, x, 1)
  <1> DEFINE C == B (+) SetToBag({x})
  <1>1. /\ DOMAIN C = DOMAIN B \cup {x}
        /\ \A y \in DOMAIN B : y # x => C[y] = B[y] + 0
        /\ C[x] = (IF x \in DOMAIN B THEN B[x] ELSE 0) + 1
    BY DEF (+), SetToBag
  <1>2. \A y \in DOMAIN B : B[y] \in Nat /\ B[y] > 0
    BY DEF BagOfTransactions
  <1> HIDE DEF C
  <1>3. Raises(C, B, x, 1)
    BY <1>1, <1>2 DEF Raises
  <1>4. IsFiniteSet(DOMAIN C) /\ DOMAIN C \subseteq Transactions
    <2>1. IsFiniteSet(DOMAIN B \cup {x})
      BY FS_AddElement DEF BagOfTransactions
    <2> QED BY <1>1, <2>1 DEF BagOfTransactions
  <1>5. \A e \in DOMAIN C : C[e] \in Nat /\ C[e] > 0
    BY <1>1, <1>2
  <1>6. BagOfTransactions(C)
    BY <1>4, <1>5 DEF BagOfTransactions
  <1> QED BY <1>3, <1>6 DEF C

\* The total of a part, with one more transaction.
LEMMA PartAdd ==
  ASSUME NEW B, BagOfTransactions(B), NEW x \in Transactions, NEW U
  PROVE  /\ Total(B, U) \in Nat
         /\ Total(B (+) SetToBag({x}), U) = Total(B, U) + (IF x \in U THEN 1 ELSE 0)
  <1> DEFINE C == B (+) SetToBag({x})
  <1>1. Table(B) /\ Raises(C, B, x, 1) /\ 1 \in Nat
    BY BagValued, BagAdd
  <1> HIDE DEF C
  <1>2. Total(C, U) = Total(B, U) + (IF x \in U THEN 1 ELSE 0)
    BY <1>1, TotalRaise
  <1> QED BY <1>1, <1>2, TotalType DEF C

\* A pair of histograms does not change with the transactions of others.
LEMMA LatencyOther ==
  ASSUME NEW B, BagOfTransactions(B), NEW x \in Transactions, NEW K, NEW H,
         x \notin Part(K, H, Complete), NEW r, NEW none, Latency(r, B, K, H, none)
  PROVE  Latency(r, B (+) SetToBag({x}), K, H, none)
  <1> DEFINE C == B (+) SetToBag({x})
  <1>1. /\ Valued(B, Full) /\ Valued(B, Txn) /\ Raises(C, B, x, 1)
        /\ Valued(C, Full) /\ Valued(C, Txn)
    BY BagValued, BagAdd
  <1> HIDE DEF C
  <1>2. Represents(r.full, C, Part(K, H, Complete), Full, none)
    BY <1>1, RepresentsOther DEF Latency
  <1>3. Represents(r.txn, C, Part(K, H, Complete), Txn, none)
    BY <1>1, RepresentsOther DEF Latency
  <1> QED BY <1>2, <1>3 DEF Latency, C

\* Nor do counts.
LEMMA TallyOther ==
  ASSUME NEW B, BagOfTransactions(B), NEW x \in Transactions, NEW K, NEW H,
         x \notin Part(K, H, Outcomes), NEW r, Tally(r, B, K, H)
  PROVE  Tally(r, B (+) SetToBag({x}), K, H)
  <1> SUFFICES ASSUME NEW o \in Outcomes
               PROVE  r[o] = Total(B (+) SetToBag({x}), Part(K, H, {o}))
    BY DEF Tally
  <1>1. x \notin Part(K, H, {o})
    BY DEF Part
  <1>2. /\ Total(B, Part(K, H, {o})) \in Nat
        /\ Total(B (+) SetToBag({x}), Part(K, H, {o}))
              = Total(B, Part(K, H, {o})) + (IF x \in Part(K, H, {o}) THEN 1 ELSE 0)
    BY PartAdd
  <1>3. Total(B (+) SetToBag({x}), Part(K, H, {o})) = Total(B, Part(K, H, {o}))
    BY <1>1, <1>2
  <1> QED BY <1>3 DEF Tally

\* Recording a transaction of the set.
LEMMA LatencyRecord ==
  ASSUME NEW B, BagOfTransactions(B), NEW x \in Transactions, NEW K, NEW H,
         x \in Part(K, H, Complete), NEW r, Latency(r, B, K, H, Uint64Max)
  PROVE  /\ Represents(RecordValue(r.full, x.full), B (+) SetToBag({x}),
                       Part(K, H, Complete), Full, Uint64Max)
         /\ Represents(RecordValue(r.txn, x.txn), B (+) SetToBag({x}),
                       Part(K, H, Complete), Txn, Uint64Max)
  <1> DEFINE C == B (+) SetToBag({x})
  <1>1. /\ Valued(B, Full) /\ Valued(B, Txn) /\ Raises(C, B, x, 1)
        /\ Valued(C, Full) /\ Valued(C, Txn)
    BY BagValued, BagAdd
  <1> HIDE DEF C
  <1>2. Full[x] = x.full /\ Txn[x] = x.txn
    BY DEF Full, Txn
  <1>3. Represents(RecordValue(r.full, Full[x]), C, Part(K, H, Complete), Full, Uint64Max)
    BY <1>1, RepresentsRecord DEF Latency
  <1>4. Represents(RecordValue(r.txn, Txn[x]), C, Part(K, H, Complete), Txn, Uint64Max)
    BY <1>1, RepresentsRecord DEF Latency
  <1> QED BY <1>2, <1>3, <1>4 DEF C

\* Parts with workers or threads apart, and their union.
LEMMA PartUnion ==
  ASSUME NEW K, NEW H, NEW K2, NEW H2, NEW O,
         \/ H = H2 /\ K \cap K2 = {}
         \/ K = K2 /\ H \cap H2 = {}
  PROVE  /\ Part(K \cup K2, H \cup H2, O) = Part(K, H, O) \cup Part(K2, H2, O)
         /\ \A e : ~(e \in Part(K, H, O) /\ e \in Part(K2, H2, O))
  BY DEF Part

-----------------------------------------------------------------------------
(* Terminals, threads and transactions under way.                          *)

\* The constants are those of a run that was accepted.
LEMMA ConstantFacts ==
  /\ Accepted /\ InstanceCount \in Nat \ {0} /\ Warehouses \in Nat \ {0}
  /\ ThreadCount \in Nat \ {0} /\ MaxSamples \in Nat
  /\ Samples \subseteq [full : Latencies, txn : Latencies]
  BY ResultsAssumption, AssignmentAssumption DEF Accepted, Latencies

\* Every terminal has a worker and a thread once the warehouses are assigned.
LEMMA TerminalPlace ==
  ASSUME AssignmentInv, Assigned, NEW t \in Terminals
  PROVE  WorkerOf(t) \in Instances /\ Owns(WorkerOf(t), t) /\ ThreadOf(t) \in Threads
  <1>1. Served /\ i = InstanceCount /\ start = Warehouses + 1
    BY AllGiven
  <1>2. t \in 1..(start - 1) /\ 1..i = Instances
    BY <1>1, ConstantFacts DEF Terminals, Instances
  <1>3. \E k \in Instances : Owns(k, t)
    BY <1>1, <1>2 DEF Served
  <1>4. WorkerOf(t) \in Instances /\ Owns(WorkerOf(t), t)
    BY <1>3 DEF WorkerOf
  <1>5. ranges[WorkerOf(t)].Start \in Int
    BY <1>4 DEF AssignmentInv, AssignmentTypeOK
  <1>6. t - ranges[WorkerOf(t)].Start \in Int
    BY <1>5, ConstantFacts DEF Terminals
  <1> DEFINE d == t - ranges[WorkerOf(t)].Start
  <1> HIDE DEF d
  <1>7. d \in Int
    BY <1>6 DEF d
  <1>8. d % ThreadCount \in 0..(ThreadCount - 1)
    BY <1>7, ConstantFacts
  <1>9. ThreadOf(t) \in Threads
    BY <1>8 DEF ThreadOf, Threads, d
  <1> QED BY <1>4, <1>9

\* None is no transaction.
LEMMA NoneApart ==
  None \notin Transactions
  BY DEF None, Transaction, Transactions, Outcomes

\* What is finished is a transaction.
LEMMA TransactionIn ==
  ASSUME NEW k \in Instances, NEW h \in Threads, NEW o \in Outcomes, NEW s \in Samples \cup {NoSample}
  PROVE  LET x == Transaction(k, h, o, s) IN
         /\ x \in Transactions /\ x.worker = k /\ x.thread = h /\ x.outcome = o
         /\ x.full = s.full /\ x.txn = s.txn
  <1>1. s.full \in Latencies /\ s.txn \in Latencies
    <2>1. 0 \in Latencies
      BY HistogramAssumption DEF Latencies
    <2>2. CASE s \in Samples
      BY <2>2, ConstantFacts
    <2>3. CASE s = NoSample
      BY <2>1, <2>3 DEF NoSample
    <2> QED BY <2>2, <2>3
  <1> QED BY <1>1 DEF Transaction, Transactions

\* A terminal counts a transaction.
LEMMA PendingMore ==
  ASSUME NEW rec \in [Terminals -> Transactions \cup {None}], NEW t \in Terminals, rec[t] = None,
         NEW x \in Transactions, NEW rec2, rec2[t] = x,
         \A u \in Terminals : u # t => rec2[u] = rec[u], NEW k, NEW h, NEW o
  PROVE  /\ x \in Part({k}, {h}, {o}) => Pending(rec2, k, h, o) = 1
         /\ x \notin Part({k}, {h}, {o}) => Pending(rec2, k, h, o) = Pending(rec, k, h, o)
  <1> DEFINE P == Part({k}, {h}, {o})
  <1>1. rec2[t] = x /\ \A u \in Terminals : u # t => rec2[u] = rec[u]
    OBVIOUS
  <1>2. None \notin P
    BY NoneApart DEF Part
  <1> HIDE DEF P
  <1>3. (\E u \in Terminals : rec2[u] \in P) <=> (x \in P \/ \E u \in Terminals : rec[u] \in P)
    BY <1>1, <1>2
  <1>4. Pending(rec2, k, h, o) = IF \E u \in Terminals : rec2[u] \in P THEN 1 ELSE 0
    BY DEF Pending, P
  <1>5. Pending(rec, k, h, o) = IF \E u \in Terminals : rec[u] \in P THEN 1 ELSE 0
    BY DEF Pending, P
  <1>6. /\ x \in P => Pending(rec2, k, h, o) = 1
        /\ x \notin P => Pending(rec2, k, h, o) = Pending(rec, k, h, o)
    BY <1>3, <1>4, <1>5
  <1> QED BY <1>6 DEF P

\* A terminal has recorded the transaction it had counted.
LEMMA PendingLess ==
  ASSUME NEW rec \in [Terminals -> Transactions \cup {None}], NEW t \in Terminals, rec[t] # None,
         \A u \in Terminals : rec[u] # None /\ rec[u].worker = rec[t].worker
                                 /\ rec[u].thread = rec[t].thread => u = t,
         NEW rec2, rec2[t] = None, \A u \in Terminals : u # t => rec2[u] = rec[u],
         NEW k, NEW h, NEW o
  PROVE  /\ rec[t] \in Part({k}, {h}, {o}) => Pending(rec, k, h, o) = Pending(rec2, k, h, o) + 1
         /\ rec[t] \notin Part({k}, {h}, {o}) => Pending(rec, k, h, o) = Pending(rec2, k, h, o)
  <1> DEFINE P == Part({k}, {h}, {o})
             x == rec[t]
  <1>1. rec2[t] = None /\ \A u \in Terminals : u # t => rec2[u] = rec[u]
    OBVIOUS
  <1>2. None \notin P
    BY NoneApart DEF Part
  <1>3. x \in P => \A u \in Terminals : rec[u] \in P => u = t
    BY <1>2 DEF Part
  <1>4. Pending(rec2, k, h, o) = IF \E u \in Terminals : rec2[u] \in P THEN 1 ELSE 0
    BY DEF Pending
  <1>5. Pending(rec, k, h, o) = IF \E u \in Terminals : rec[u] \in P THEN 1 ELSE 0
    BY DEF Pending
  <1> HIDE DEF P
  <1>6. CASE x \in P
    <2>1. \E u \in Terminals : rec[u] \in P
      BY <1>6
    <2>2. ~ \E u \in Terminals : rec2[u] \in P
      BY <1>1, <1>2, <1>3, <1>6
    <2>3. Pending(rec, k, h, o) = 1 /\ Pending(rec2, k, h, o) = 0
      BY <1>4, <1>5, <2>1, <2>2
    <2> QED BY <1>6, <2>3 DEF P
  <1>7. CASE x \notin P
    <2>1. (\E u \in Terminals : rec[u] \in P) <=> (\E u \in Terminals : rec2[u] \in P)
      BY <1>1, <1>2, <1>7
    <2>2. Pending(rec, k, h, o) = Pending(rec2, k, h, o)
      BY <1>4, <1>5, <2>1
    <2> QED BY <1>7, <2>2 DEF P
  <1> QED BY <1>6, <1>7

\* Pending is one or none.
LEMMA PendingType ==
  ASSUME NEW rec, NEW k, NEW h, NEW o
  PROVE  Pending(rec, k, h, o) \in {0, 1}
  BY DEF Pending

\* The size of the bag is its total.
LEMMA LogSize ==
  ASSUME NEW B, BagOfTransactions(B)
  PROVE  SumFunction(B) = Total(B, Transactions) /\ SumFunction(B) \in Nat
  <1>1. DOMAIN B \cap Transactions = DOMAIN B
    BY DEF BagOfTransactions
  <1>2. Total(B, Transactions) \in Nat
    BY BagValued, TotalType
  <1> QED BY <1>1, <1>2 DEF SumFunction, Total

\* And grows with it.
LEMMA LogGrows ==
  ASSUME NEW B, BagOfTransactions(B), NEW x \in Transactions
  PROVE  SumFunction(B (+) SetToBag({x})) = SumFunction(B) + 1
  <1> DEFINE C == B (+) SetToBag({x})
  <1>1. BagOfTransactions(C)
    BY BagAdd
  <1>2. Total(C, Transactions) = Total(B, Transactions) + (IF x \in Transactions THEN 1 ELSE 0)
    BY PartAdd
  <1> HIDE DEF C
  <1>3. SumFunction(C) = Total(C, Transactions) /\ SumFunction(B) = Total(B, Transactions)
    BY <1>1, LogSize
  <1>4. Total(C, Transactions) = Total(B, Transactions) + 1
    BY <1>2
  <1> QED BY <1>3, <1>4 DEF C

\* A new thread has nothing to count.
LEMMA NoThreadStats ==
  ASSUME NEW B, BagOfTransactions(B), NEW rec, NEW k, NEW H,
         DOMAIN B \cap Part({k}, H, Outcomes) = {}
  PROVE  NoStats \in Statistics /\ Tally(NoStats, B, {k}, H) /\ Latency(NoStats, B, {k}, H, Uint64Max)
  <1>1. Table(B) /\ Valued(B, Full) /\ Valued(B, Txn)
    BY BagValued
  <1>2. DOMAIN B \cap Part({k}, H, Complete) = {}
    BY DEF Part, Complete, Outcomes
  <1>3. /\ NoStats.OK = 0 /\ NoStats.UserAborted = 0 /\ NoStats.Failed = 0
        /\ NoStats.full = NewHistogram /\ NoStats.txn = NewHistogram
    BY DEF NoStats
  <1>4. Tally(NoStats, B, {k}, H)
    <2> SUFFICES ASSUME NEW o \in Outcomes PROVE NoStats[o] = Total(B, Part({k}, H, {o}))
      BY DEF Tally
    <2>1. DOMAIN B \cap Part({k}, H, {o}) = {}
      BY DEF Part
    <2>2. Total(B, Part({k}, H, {o})) = 0
      BY <1>1, <2>1, TotalType
    <2> QED BY <2>2, <1>3 DEF Outcomes, NoStats
  <1>5. /\ Represents(NewHistogram, B, Part({k}, H, Complete), Full, Uint64Max)
        /\ Represents(NewHistogram, B, Part({k}, H, Complete), Txn, Uint64Max)
    BY <1>1, <1>2, RepresentsNew
  <1>6. Latency(NoStats, B, {k}, H, Uint64Max)
    BY <1>3, <1>5 DEF Latency
  <1>7. NewHistogram \in RawType
    BY <1>5 DEF Represents
  <1>8. NoStats \in Statistics
    BY <1>7 DEF NoStats, Statistics
  <1> QED BY <1>4, <1>6, <1>8

\* Statistics are counted by outcome.
LEMMA OutcomeField ==
  ASSUME NEW s \in Statistics, NEW o \in Outcomes
  PROVE  s[o] \in Nat
  BY DEF Statistics, Outcomes

-----------------------------------------------------------------------------
(* The invariant holds at first.                                           *)

\* At first nothing is assigned, measured, written or merged.
LEMMA InitInv == Init => ResultsInv
  <1> SUFFICES ASSUME Init PROVE ResultsInv
    OBVIOUS
  <1>1. AssignmentInv
    BY InitServes DEF Init
  <1>2. BagOfTransactions(log) /\ DOMAIN log = {}
    <2>1. DOMAIN log = {}
      BY DEF Init, EmptyBag, SetToBag
    <2> QED BY <2>1, FS_EmptySet DEF BagOfTransactions
  <1>3. recording = [t \in Terminals |-> None]
    BY DEF Init
  <1>4. RecordingOK
    BY <1>3 DEF RecordingOK
  <1>5. StatsOK
    <2>1. stats = [k \in Instances |-> [h \in Threads |-> NoStats]]
      BY DEF Init
    <2>2. ASSUME NEW k, NEW H
          PROVE  /\ NoStats \in Statistics /\ Tally(NoStats, log, {k}, H)
                 /\ Latency(NoStats, log, {k}, H, Uint64Max)
      BY <1>2, NoThreadStats
    <2>3. ASSUME NEW k \in Instances, NEW h \in Threads
          PROVE  ThreadStats(stats[k][h], log, recording, k, h)
      <3>1. stats[k][h] = NoStats
        BY <2>1
      <3>2. NoStats \in Statistics /\ Tally(NoStats, log, {k}, {h}) /\ Latency(NoStats, log, {k}, {h}, Uint64Max)
        BY <2>2
      <3>3. ASSUME NEW o \in Outcomes
            PROVE  NoStats[o] = Total(log, Part({k}, {h}, {o})) + Pending(recording, k, h, o)
        <4>1. \A t \in Terminals : recording[t] \notin Part({k}, {h}, {o})
          BY <1>3, NoneApart DEF Part
        <4>2. Pending(recording, k, h, o) = 0
          BY <4>1 DEF Pending
        <4>3. NoStats[o] = Total(log, Part({k}, {h}, {o})) /\ NoStats[o] \in Nat
          BY <3>2, OutcomeField DEF Tally
        <4> QED BY <4>2, <4>3
      <3> QED BY <3>1, <3>2, <3>3 DEF ThreadStats
    <2>4. NoStats \in Statistics
      BY <2>2
    <2> QED BY <2>1, <2>3, <2>4 DEF StatsOK
  <1>6. JoinedOK
    BY DEF Init, JoinedOK
  <1>7. ResultOK
    BY DEF Init, ResultOK, NoResult
  <1>8. MergeOK
    <2>1. /\ at = 1 /\ merged = <<>> /\ verdict = "none"
          /\ counters = [OK |-> 0, UserAborted |-> 0, Failed |-> 0, warehouses |-> 0]
      BY DEF Init
    <2>2. at \in 1..(InstanceCount + 1) /\ at # InstanceCount + 1 /\ at - 1 = 0
      BY <2>1, ConstantFacts
    <2>3. Tally(counters, log, 1..(at - 1), Threads)
      <3> SUFFICES ASSUME NEW o \in Outcomes
                   PROVE  counters[o] = Total(log, Part(1..(at - 1), Threads, {o}))
        BY DEF Tally
      <3>1. Total(log, Part(1..(at - 1), Threads, {o})) = 0
        BY <1>2, BagValued, TotalType
      <3> QED BY <2>1, <3>1 DEF Outcomes
    <2>4. Given(0) = 0
      <3>1. base \in Nat /\ extra \in Nat
        BY ConstantFacts, Division
      <3>2. 0 * base = 0
        BY <3>1
      <3> QED BY <3>1, <3>2 DEF Given
    <2>5. DOMAIN log \cap Part(1..(at - 1), Threads, Complete) = {}
      BY <1>2
    <2> QED BY <2>1, <2>2, <2>3, <2>4, <2>5 DEF MergeOK
  <1>9. BoundOK
    <2>1. {u \in Terminals : recording[u] # None} = {}
      BY <1>3
    <2>2. Cardinality({u \in Terminals : recording[u] # None}) = 0
      BY <2>1, FS_EmptySet, Zenon
    <2>3. SumFunction(log) = 0
      <3>1. SumFunction(log) = Total(log, Transactions)
        BY <1>2, LogSize
      <3>2. Total(log, Transactions) = 0
        BY <1>2, BagValued, TotalType
      <3> QED BY <3>1, <3>2
    <2> QED BY <2>2, <2>3, ConstantFacts DEF BoundOK
  <1> QED BY <1>1, <1>2, <1>4, <1>5, <1>6, <1>7, <1>8, <1>9 DEF ResultsInv

-----------------------------------------------------------------------------
(* The invariant is preserved.                                             *)

\* Assign: nothing has been counted yet.
LEMMA AssignInv == ResultsInv /\ Assign => ResultsInv'
  <1> SUFFICES ASSUME ResultsInv, Assign PROVE ResultsInv'
    OBVIOUS
  <1>1. BalancedContiguous /\ UNCHANGED <<measureVars, result, mergeVars>> /\ ~Assigned
    BY DEF Assign, BalancedContiguous, Assigned, ResultsInv, AssignmentInv, AssignmentTypeOK
  <1>2. UNCHANGED <<recording, stats, joined, log, result, at, merged, counters, verdict>>
    BY <1>1 DEF measureVars, mergeVars
  <1>3. AssignmentInv'
    BY <1>1, StepServes DEF ResultsInv
  <1>4. RecordingOK'
    <2>1. \A t \in Terminals : recording[t] = None
      BY <1>1 DEF ResultsInv, RecordingOK
    <2>2. recording' \in [Terminals -> Transactions \cup {None}]
      BY <1>2 DEF ResultsInv, RecordingOK
    <2>3. \A t \in Terminals : recording'[t] = None
      BY <1>2, <2>1
    <2> QED BY <2>2, <2>3 DEF RecordingOK
  <1>5. JoinedOK'
    BY <1>1, <1>2 DEF ResultsInv, JoinedOK
  <1>6. BagOfTransactions(log)' /\ StatsOK' /\ ResultOK' /\ MergeOK' /\ BoundOK'
    BY <1>2 DEF ResultsInv, StatsOK, ResultOK, MergeOK, BoundOK
  <1> QED BY <1>3, <1>4, <1>5, <1>6 DEF ResultsInv

\* Join: a worker is joined when none of its terminals is in the middle of
\* recording.
LEMMA JoinInv == ASSUME NEW k \in Instances PROVE ResultsInv /\ Join(k) => ResultsInv'
  <1> SUFFICES ASSUME ResultsInv, Join(k) PROVE ResultsInv'
    OBVIOUS
  <1>1. /\ UNCHANGED <<i, start, ranges, recording, stats, result, at, merged, counters, verdict, log>>
        /\ joined' = joined \cup {k} /\ Assigned
        /\ \A t \in Terminals : WorkerOf(t) = k => recording[t] = None
    BY DEF Join, assignmentVars, mergeVars
  <1>2. Assigned' /\ \A t : WorkerOf(t)' = WorkerOf(t) /\ ThreadOf(t)' = ThreadOf(t)
    BY <1>1 DEF Assigned, WorkerOf, ThreadOf, Owns
  <1>3. AssignmentInv'
    BY <1>1, StepServes DEF ResultsInv, assignmentVars
  <1>4. RecordingOK'
    <2>1. RecordingOK
      BY DEF ResultsInv
    <2>2. recording' = recording
      BY <1>1
    <2>3. ASSUME NEW t \in Terminals, recording[t] # None PROVE recording[t].worker \notin joined'
      <3>1. recording[t].worker = WorkerOf(t) /\ recording[t].worker \notin joined
        BY <2>1, <2>3 DEF RecordingOK
      <3>2. WorkerOf(t) # k
        BY <1>1, <2>3
      <3> QED BY <1>1, <3>1, <3>2
    <2> QED BY <1>1, <1>2, <2>1, <2>2, <2>3 DEF RecordingOK
  <1>5. JoinedOK'
    BY <1>1, <1>2 DEF ResultsInv, JoinedOK
  <1>6. ResultOK'
    <2>1. ResultOK
      BY DEF ResultsInv
    <2> QED BY <1>1, <2>1 DEF ResultOK
  <1>7. BagOfTransactions(log)' /\ StatsOK' /\ MergeOK' /\ BoundOK'
    BY <1>1 DEF ResultsInv, StatsOK, MergeOK, BoundOK
  <1> QED BY <1>3, <1>4, <1>5, <1>6, <1>7 DEF ResultsInv

\* A transaction of a worker that has not been joined is not in any result.
LEMMA Apart ==
  ASSUME ResultsInv, NEW x \in Transactions, x.worker \notin joined
  PROVE  /\ \A k \in Instances : \A O : result[k].written => x \notin Part({k}, Threads, O)
         /\ \A O : x \notin Part(1..(at - 1), Threads, O)
  <1>1. ASSUME NEW k \in Instances, result[k].written PROVE x.worker # k
    BY <1>1 DEF ResultsInv, ResultOK
  <1>2. x.worker \in Instances
    BY DEF Transactions
  <1>3. ASSUME x.worker \in 1..(at - 1) PROVE FALSE
    <2>1. at # 1 /\ at \in Nat
      BY <1>3, ConstantFacts DEF ResultsInv, MergeOK
    <2>2. result[x.worker].written
      BY <2>1, <1>2 DEF ResultsInv, MergeOK
    <2> QED BY <1>1, <1>2, <2>2
  <1>4. ASSUME NEW k \in Instances, NEW O, result[k].written PROVE x \notin Part({k}, Threads, O)
    BY <1>1, <1>4 DEF Part
  <1>5. ASSUME NEW O PROVE x \notin Part(1..(at - 1), Threads, O)
    BY <1>3 DEF Part
  <1> QED BY <1>4, <1>5

\* Results and merged figures do not change when such a transaction is recorded.
LEMMA RecordedApart ==
  ASSUME ResultsInv, NEW x \in Transactions, x.worker \notin joined,
         log' = log (+) SetToBag({x}),
         UNCHANGED <<joined, result, at, merged, counters, verdict>>
  PROVE  BagOfTransactions(log)' /\ ResultOK' /\ MergeOK'
  <1> DEFINE C == log (+) SetToBag({x})
  <1>1. BagOfTransactions(log) /\ log' = C
    BY DEF ResultsInv
  <1>2. BagOfTransactions(C) /\ DOMAIN C = DOMAIN log \cup {x}
    BY <1>1, BagAdd DEF Raises
  <1>3. BagOfTransactions(log')
    BY <1>1, <1>2
  <1>4. ResultOK'
    <2>1. ASSUME NEW k \in Instances, result[k].written PROVE WorkerResult(result[k], C, k)
      <3>1. WorkerResult(result[k], log, k)
        BY <2>1 DEF ResultsInv, ResultOK
      <3>2. x \notin Part({k}, Threads, Outcomes) /\ x \notin Part({k}, Threads, Complete)
        BY <2>1, Apart
      <3>3. Tally(result[k], C, {k}, Threads)
        BY <1>1, <3>1, <3>2, TallyOther DEF WorkerResult
      <3>4. Latency(result[k], C, {k}, Threads, 0)
        BY <1>1, <3>1, <3>2, LatencyOther DEF WorkerResult
      <3> HIDE DEF C
      <3> QED BY <3>1, <3>3, <3>4 DEF WorkerResult
    <2> HIDE DEF C
    <2>2. ResultOK
      BY DEF ResultsInv
    <2> QED BY <1>1, <2>1, <2>2 DEF ResultOK
  <1>5. MergeOK'
    <2>1. MergeOK
      BY DEF ResultsInv
    <2>2. x \notin Part(1..(at - 1), Threads, Outcomes) /\ x \notin Part(1..(at - 1), Threads, Complete)
      BY Apart
    <2>3. Tally(counters, C, 1..(at - 1), Threads)
      BY <1>1, <2>1, <2>2, TallyOther DEF MergeOK
    <2>4. CASE merged = <<>>
      <3>1. DOMAIN C \cap Part(1..(at - 1), Threads, Complete) = {}
        BY <1>2, <2>1, <2>2, <2>4 DEF MergeOK
      <3> HIDE DEF C
      <3> QED BY <1>1, <2>1, <2>3, <2>4, <3>1 DEF MergeOK
    <2>5. CASE merged # <<>>
      <3>1. Latency(merged, C, 1..(at - 1), Threads, 0)
        BY <1>1, <2>1, <2>2, <2>5, LatencyOther DEF MergeOK
      <3> HIDE DEF C
      <3> QED BY <1>1, <2>1, <2>3, <2>5, <3>1 DEF MergeOK
    <2> QED BY <2>4, <2>5
  <1> QED BY <1>3, <1>4, <1>5

\* The statistics of a thread, when a transaction of another is recorded.
LEMMA ThreadOther ==
  ASSUME NEW B, BagOfTransactions(B), NEW x \in Transactions, NEW k, NEW h,
         x.worker # k \/ x.thread # h, NEW rec, NEW rec2,
         \A o \in Outcomes : Pending(rec2, k, h, o) = Pending(rec, k, h, o),
         NEW s, ThreadStats(s, B, rec, k, h)
  PROVE  ThreadStats(s, B (+) SetToBag({x}), rec2, k, h)
  <1>0. ASSUME NEW U
        PROVE  /\ Total(B, U) \in Nat
               /\ Total(B (+) SetToBag({x}), U) = Total(B, U) + (IF x \in U THEN 1 ELSE 0)
    BY PartAdd
  <1>1. \A O : x \notin Part({k}, {h}, O)
    BY DEF Part
  <1>2. Latency(s, B (+) SetToBag({x}), {k}, {h}, Uint64Max)
    BY <1>1, LatencyOther DEF ThreadStats
  <1>3. ASSUME NEW o \in Outcomes
        PROVE  s[o] = Total(B (+) SetToBag({x}), Part({k}, {h}, {o})) + Pending(rec2, k, h, o)
    <2>1. /\ Total(B, Part({k}, {h}, {o})) \in Nat
          /\ Total(B (+) SetToBag({x}), Part({k}, {h}, {o}))
                = Total(B, Part({k}, {h}, {o})) + (IF x \in Part({k}, {h}, {o}) THEN 1 ELSE 0)
      BY <1>0
    <2>2. x \notin Part({k}, {h}, {o})
      BY <1>1
    <2>3. Total(B (+) SetToBag({x}), Part({k}, {h}, {o})) = Total(B, Part({k}, {h}, {o}))
      BY <2>1, <2>2
    <2> QED BY <2>3 DEF ThreadStats
  <1> QED BY <1>2, <1>3 DEF ThreadStats

\* The statistics of a thread, when it records a transaction it has counted.
LEMMA ThreadRecord ==
  ASSUME NEW B, BagOfTransactions(B), NEW x \in Transactions, NEW k, NEW h,
         x.worker = k, x.thread = h, x.outcome \in Complete, NEW rec, NEW rec2,
         \A o \in Outcomes :
            /\ x \in Part({k}, {h}, {o}) => Pending(rec, k, h, o) = Pending(rec2, k, h, o) + 1
            /\ x \notin Part({k}, {h}, {o}) => Pending(rec, k, h, o) = Pending(rec2, k, h, o),
         NEW s, ThreadStats(s, B, rec, k, h),
         NEW g, g = [s EXCEPT !.full = RecordValue(s.full, x.full), !.txn = RecordValue(s.txn, x.txn)]
  PROVE  ThreadStats(g, B (+) SetToBag({x}), rec2, k, h)
  <1> DEFINE C == B (+) SetToBag({x})
             P == Part({k}, {h}, Complete)
  <1>0. ASSUME NEW U
        PROVE  Total(B, U) \in Nat /\ Total(C, U) = Total(B, U) + (IF x \in U THEN 1 ELSE 0)
    BY PartAdd
  <1>1. x \in P
    BY DEF Part
  <1>2. s \in Statistics /\ Latency(s, B, {k}, {h}, Uint64Max)
    BY DEF ThreadStats
  <1>3. /\ Represents(RecordValue(s.full, x.full), C, P, Full, Uint64Max)
        /\ Represents(RecordValue(s.txn, x.txn), C, P, Txn, Uint64Max)
    BY <1>1, <1>2, LatencyRecord
  <1>4. /\ g.full = RecordValue(s.full, x.full) /\ g.txn = RecordValue(s.txn, x.txn)
        /\ g.OK = s.OK /\ g.UserAborted = s.UserAborted /\ g.Failed = s.Failed
    BY <1>2 DEF Statistics
  <1>5. RecordValue(s.full, x.full) \in RawType /\ RecordValue(s.txn, x.txn) \in RawType
    BY <1>3 DEF Represents
  <1>6. g \in Statistics
    BY <1>2, <1>5 DEF Statistics
  <1>7. Latency(g, C, {k}, {h}, Uint64Max)
    BY <1>3, <1>4 DEF Latency
  <1>8. ASSUME NEW o \in Outcomes
        PROVE  g[o] = Total(C, Part({k}, {h}, {o})) + Pending(rec2, k, h, o)
    <2> DEFINE Q == Part({k}, {h}, {o})
               d == IF x \in Q THEN 1 ELSE 0
    <2>1. Total(B, Q) \in Nat /\ Total(C, Q) = Total(B, Q) + d
      BY <1>0
    <2>2. g[o] = s[o]
      BY <1>4 DEF Outcomes
    <2>3. s[o] = Total(B, Q) + Pending(rec, k, h, o)
      BY DEF ThreadStats
    <2>4. Pending(rec2, k, h, o) \in Nat
      BY PendingType
    <2>5. Pending(rec, k, h, o) = Pending(rec2, k, h, o) + d
      <3>1. /\ x \in Q => Pending(rec, k, h, o) = Pending(rec2, k, h, o) + 1
            /\ x \notin Q => Pending(rec, k, h, o) = Pending(rec2, k, h, o)
        OBVIOUS
      <3> HIDE DEF Q
      <3> QED BY <2>4, <3>1
    <2>6. d \in Nat
      OBVIOUS
    <2> HIDE DEF C, Q, d
    <2>7. g[o] = Total(C, Q) + Pending(rec2, k, h, o)
      BY <2>1, <2>2, <2>3, <2>4, <2>5, <2>6
    <2> QED BY <2>7 DEF Q
  <1> HIDE DEF C
  <1>9. ThreadStats(g, C, rec2, k, h)
    BY <1>6, <1>7, <1>8 DEF ThreadStats
  <1> QED BY <1>9 DEF C

\* The statistics of a thread, when a transaction of it has failed.
LEMMA ThreadFailed ==
  ASSUME NEW B, BagOfTransactions(B), NEW x \in Transactions, NEW k, NEW h,
         x.worker = k, x.thread = h, x.outcome = "Failed", NEW rec,
         NEW s, ThreadStats(s, B, rec, k, h),
         NEW g, g = [s EXCEPT !.Failed = s.Failed + 1]
  PROVE  ThreadStats(g, B (+) SetToBag({x}), rec, k, h)
  <1>0. ASSUME NEW U
        PROVE  /\ Total(B, U) \in Nat
               /\ Total(B (+) SetToBag({x}), U) = Total(B, U) + (IF x \in U THEN 1 ELSE 0)
    BY PartAdd
  <1> DEFINE C == B (+) SetToBag({x})
  <1>1. x \notin Part({k}, {h}, Complete)
    BY DEF Part, Complete
  <1>2. s \in Statistics /\ Latency(s, B, {k}, {h}, Uint64Max)
    BY DEF ThreadStats
  <1>3. Latency(s, C, {k}, {h}, Uint64Max)
    BY <1>1, <1>2, LatencyOther
  <1>4. /\ g.full = s.full /\ g.txn = s.txn
        /\ g.OK = s.OK /\ g.UserAborted = s.UserAborted /\ g.Failed = s.Failed + 1
    BY <1>2 DEF Statistics
  <1>5. g \in Statistics
    BY <1>2 DEF Statistics
  <1>6. Latency(g, C, {k}, {h}, Uint64Max)
    BY <1>3, <1>4 DEF Latency
  <1>7. ASSUME NEW o \in Outcomes
        PROVE  g[o] = Total(C, Part({k}, {h}, {o})) + Pending(rec, k, h, o)
    <2>1. /\ Total(B, Part({k}, {h}, {o})) \in Nat
          /\ Total(C, Part({k}, {h}, {o}))
                = Total(B, Part({k}, {h}, {o})) + (IF x \in Part({k}, {h}, {o}) THEN 1 ELSE 0)
      BY <1>0
    <2>2. x \in Part({k}, {h}, {o}) <=> o = "Failed"
      BY DEF Part
    <2>3. g[o] = s[o] + (IF o = "Failed" THEN 1 ELSE 0)
      BY <1>2, <1>4 DEF Outcomes, Statistics
    <2>4. s[o] = Total(B, Part({k}, {h}, {o})) + Pending(rec, k, h, o)
      BY DEF ThreadStats
    <2>5. Pending(rec, k, h, o) \in Nat
      BY PendingType
    <2> HIDE DEF C
    <2> QED BY <2>1, <2>2, <2>3, <2>4, <2>5
  <1> HIDE DEF C
  <1>8. ThreadStats(g, C, rec, k, h)
    BY <1>5, <1>6, <1>7 DEF ThreadStats
  <1> QED BY <1>8 DEF C

\* The statistics of a thread, when it counts a transaction.
LEMMA ThreadCounts ==
  ASSUME NEW B, BagOfTransactions(B), NEW k, NEW h, NEW out \in Complete, NEW rec, NEW rec2,
         \A o \in Outcomes : Pending(rec2, k, h, o)
            = Pending(rec, k, h, o) + (IF o = out THEN 1 ELSE 0),
         NEW s, ThreadStats(s, B, rec, k, h),
         NEW g, g = [s EXCEPT ![out] = s[out] + 1]
  PROVE  ThreadStats(g, B, rec2, k, h)
  <1>1. s \in Statistics /\ Latency(s, B, {k}, {h}, Uint64Max)
    BY DEF ThreadStats
  <1>2. g.full = s.full /\ g.txn = s.txn
    BY <1>1 DEF Statistics, Complete
  <1>3. g \in Statistics
    BY <1>1 DEF Statistics, Complete
  <1>4. Latency(g, B, {k}, {h}, Uint64Max)
    BY <1>1, <1>2 DEF Latency
  <1>5. ASSUME NEW o \in Outcomes
        PROVE  g[o] = Total(B, Part({k}, {h}, {o})) + Pending(rec2, k, h, o)
    <2>1. Total(B, Part({k}, {h}, {o})) \in Nat
      BY BagValued, TotalType
    <2>2. g[o] = s[o] + (IF o = out THEN 1 ELSE 0)
      BY <1>1 DEF Outcomes, Complete, Statistics
    <2>3. s[o] = Total(B, Part({k}, {h}, {o})) + Pending(rec, k, h, o)
      BY DEF ThreadStats
    <2>4. Pending(rec, k, h, o) \in Nat
      BY PendingType
    <2> QED BY <2>1, <2>2, <2>3, <2>4
  <1> QED BY <1>3, <1>4, <1>5 DEF ThreadStats

\* The number of transactions under way.
LEMMA UnderWay ==
  ASSUME NEW rec \in [Terminals -> Transactions \cup {None}], NEW t \in Terminals
  PROVE  LET n(r) == Cardinality({u \in Terminals : r[u] # None}) IN
         /\ n(rec) \in Nat
         /\ \A x \in Transactions : rec[t] = None => n([rec EXCEPT ![t] = x]) = n(rec) + 1
         /\ rec[t] # None => n([rec EXCEPT ![t] = None]) = n(rec) - 1
  <1> DEFINE S(r) == {u \in Terminals : r[u] # None}
  <1>1. IsFiniteSet(S(rec)) /\ Cardinality(S(rec)) \in Nat
    <2>1. IsFiniteSet(Terminals)
      BY ConstantFacts, FS_Interval DEF Terminals
    <2>2. S(rec) \subseteq Terminals
      OBVIOUS
    <2>3. IsFiniteSet(S(rec))
      BY <2>1, <2>2, FS_Subset
    <2> QED BY <2>3, FS_CardinalityType
  <1>2. ASSUME NEW x \in Transactions, rec[t] = None
        PROVE  Cardinality(S([rec EXCEPT ![t] = x])) = Cardinality(S(rec)) + 1
    <2>1. S([rec EXCEPT ![t] = x]) = S(rec) \cup {t} /\ t \notin S(rec)
      BY <1>2, NoneApart
    <2>2. Cardinality(S(rec) \cup {t}) = Cardinality(S(rec)) + 1
      BY <1>1, <2>1, FS_AddElement
    <2> HIDE DEF S
    <2> QED BY <2>1, <2>2
  <1>3. ASSUME rec[t] # None
        PROVE  Cardinality(S([rec EXCEPT ![t] = None])) = Cardinality(S(rec)) - 1
    <2>1. S([rec EXCEPT ![t] = None]) = S(rec) \ {t} /\ t \in S(rec)
      BY <1>3
    <2>2. Cardinality(S(rec) \ {t}) = Cardinality(S(rec)) - 1
      BY <1>1, <2>1, FS_RemoveElement
    <2> HIDE DEF S
    <2> QED BY <2>1, <2>2
  <1> QED BY <1>1, <1>2, <1>3

\* Nothing of a thread is under way before it finishes another transaction.
LEMMA MayFinishPlace ==
  ASSUME ResultsInv, NEW t \in Terminals, MayFinish(t)
  PROVE  /\ WorkerOf(t) \in Instances /\ ThreadOf(t) \in Threads /\ WorkerOf(t) \notin joined
         /\ recording[t] = None /\ Assigned
         /\ \A u \in Terminals : recording[u] # None =>
               ~(recording[u].worker = WorkerOf(t) /\ recording[u].thread = ThreadOf(t))
  <1>1. Assigned /\ AssignmentInv
    BY DEF MayFinish, ResultsInv
  <1>2. WorkerOf(t) \in Instances /\ ThreadOf(t) \in Threads
    BY <1>1, TerminalPlace
  <1>3. /\ WorkerOf(t) \notin joined
        /\ \A u \in Terminals : WorkerOf(u) = WorkerOf(t) /\ ThreadOf(u) = ThreadOf(t)
                                  => recording[u] = None
    BY DEF MayFinish
  <1>4. \A u \in Terminals : recording[u] # None =>
           recording[u].worker = WorkerOf(u) /\ recording[u].thread = ThreadOf(u)
    BY DEF ResultsInv, RecordingOK
  <1> QED BY <1>1, <1>2, <1>3, <1>4

\* What stays as it is while the terminals work.
LEMMA PlacesKept ==
  ASSUME UNCHANGED <<i, start, ranges, joined>>, ResultsInv
  PROVE  /\ AssignmentInv' /\ JoinedOK' /\ (Assigned' <=> Assigned)
         /\ \A t : WorkerOf(t)' = WorkerOf(t) /\ ThreadOf(t)' = ThreadOf(t)
  <1>1. Assigned' <=> Assigned
    BY DEF Assigned
  <1>2. \A t : WorkerOf(t)' = WorkerOf(t) /\ ThreadOf(t)' = ThreadOf(t)
    BY DEF WorkerOf, ThreadOf, Owns
  <1>3. AssignmentInv'
    BY StepServes DEF ResultsInv, assignmentVars
  <1>4. JoinedOK'
    BY <1>1 DEF ResultsInv, JoinedOK
  <1> QED BY <1>1, <1>2, <1>3, <1>4

\* The statistics of one thread are replaced.
LEMMA StatsReplaced ==
  ASSUME NEW S \in [Instances -> [Threads -> Statistics]], NEW w \in Instances, NEW d \in Threads,
         NEW g \in Statistics, NEW B, NEW rec,
         ThreadStats(g, B, rec, w, d),
         \A k \in Instances, h \in Threads :
            k # w \/ h # d => ThreadStats(S[k][h], B, rec, k, h)
  PROVE  LET R == [S EXCEPT ![w][d] = g] IN
         /\ R \in [Instances -> [Threads -> Statistics]]
         /\ \A k \in Instances, h \in Threads : ThreadStats(R[k][h], B, rec, k, h)
  <1> DEFINE R == [S EXCEPT ![w][d] = g]
  <1>1. R \in [Instances -> [Threads -> Statistics]]
    OBVIOUS
  <1>2. \A k \in Instances, h \in Threads : R[k][h] = IF k = w /\ h = d THEN g ELSE S[k][h]
    OBVIOUS
  <1> HIDE DEF R
  <1>3. ASSUME NEW k \in Instances, NEW h \in Threads PROVE ThreadStats(R[k][h], B, rec, k, h)
    <2>1. CASE k = w /\ h = d
      BY <1>2, <2>1
    <2>2. CASE k # w \/ h # d
      <3>1. R[k][h] = S[k][h]
        BY <1>2, <2>2
      <3> QED BY <2>2, <3>1
    <2> QED BY <2>1, <2>2
  <1> QED BY <1>1, <1>3 DEF R

\* CountCompleted: the transaction is counted, and is the only one of its
\* thread that is still to be recorded.
LEMMA CountInv ==
  ASSUME NEW t \in Terminals, NEW s \in Samples, NEW out \in Complete
  PROVE  ResultsInv /\ CountCompleted(t, s, out) => ResultsInv'
  <1> SUFFICES ASSUME ResultsInv, CountCompleted(t, s, out) PROVE ResultsInv'
    OBVIOUS
  <1> DEFINE w == WorkerOf(t)
             d == ThreadOf(t)
             x == Transaction(w, d, out, s)
             rec2 == [recording EXCEPT ![t] = x]
             g == [stats[w][d] EXCEPT ![out] = stats[w][d][out] + 1]
  <1>1. /\ UNCHANGED <<i, start, ranges, joined, result, at, merged, counters, verdict, log>>
        /\ MayFinish(t) /\ recording' = rec2
        /\ stats' = [stats EXCEPT ![w][d][out] = @ + 1]
    BY DEF CountCompleted, assignmentVars, mergeVars
  <1>2. /\ w \in Instances /\ d \in Threads /\ w \notin joined /\ recording[t] = None /\ Assigned
        /\ \A u \in Terminals : recording[u] # None =>
              ~(recording[u].worker = w /\ recording[u].thread = d)
    BY <1>1, MayFinishPlace
  <1>3. recording \in [Terminals -> Transactions \cup {None}]
    BY DEF ResultsInv, RecordingOK
  <1> HIDE DEF w, d
  <1>4. /\ x \in Transactions /\ x.worker = w /\ x.thread = d /\ x.outcome = out
        /\ x.full = s.full /\ x.txn = s.txn
    BY <1>2, TransactionIn DEF Outcomes, Complete
  <1>5. [full |-> x.full, txn |-> x.txn] \in Samples
    <2>1. [full |-> s.full, txn |-> s.txn] = s
      BY ConstantFacts
    <2> QED BY <1>4, <2>1
  <1> HIDE DEF x
  <1>6. /\ AssignmentInv' /\ JoinedOK' /\ (Assigned' <=> Assigned)
        /\ \A u : WorkerOf(u)' = WorkerOf(u) /\ ThreadOf(u)' = ThreadOf(u)
    BY <1>1, PlacesKept
  <1>7. rec2[t] = x /\ (\A u \in Terminals : u # t => rec2[u] = recording[u])
        /\ rec2 \in [Terminals -> Transactions \cup {None}]
    BY <1>3, <1>4
  <1>8. RecordingOK'
    <2>1. RecordingOK
      BY DEF ResultsInv
    <2>2. ASSUME NEW u \in Terminals, rec2[u] # None
          PROVE  /\ Assigned
                 /\ rec2[u].worker = WorkerOf(u) /\ rec2[u].thread = ThreadOf(u)
                 /\ rec2[u].outcome \in Complete
                 /\ [full |-> rec2[u].full, txn |-> rec2[u].txn] \in Samples
                 /\ rec2[u].worker \notin joined
      <3>1. CASE u = t
        BY <1>2, <1>4, <1>5, <1>7, <3>1 DEF w, d
      <3>2. CASE u # t
        <4>1. rec2[u] = recording[u]
          BY <1>7, <3>2
        <4> HIDE DEF rec2
        <4> QED BY <2>1, <2>2, <4>1 DEF RecordingOK
      <3> QED BY <3>1, <3>2
    <2>3. ASSUME NEW u \in Terminals, NEW v \in Terminals, rec2[u] # None, rec2[v] # None,
                 rec2[u].worker = rec2[v].worker, rec2[u].thread = rec2[v].thread
          PROVE  u = v
      <3> HIDE DEF rec2
      <3>1. CASE u = t /\ v # t
        BY <1>2, <1>4, <1>7, <2>3, <3>1
      <3>2. CASE u # t /\ v = t
        BY <1>2, <1>4, <1>7, <2>3, <3>2
      <3>3. CASE u # t /\ v # t
        BY <1>7, <2>1, <2>3, <3>3 DEF RecordingOK
      <3> QED BY <3>1, <3>2, <3>3
    <2> HIDE DEF rec2
    <2> QED BY <1>1, <1>6, <1>7, <2>2, <2>3 DEF RecordingOK
  <1>9. StatsOK'
    <2>1. ASSUME NEW k, NEW h, NEW o
          PROVE  /\ x \in Part({k}, {h}, {o}) => Pending(rec2, k, h, o) = 1
                 /\ x \notin Part({k}, {h}, {o})
                       => Pending(rec2, k, h, o) = Pending(recording, k, h, o)
      <3>1. rec2[t] = x /\ \A u \in Terminals : u # t => rec2[u] = recording[u]
        BY <1>7
      <3> HIDE DEF rec2
      <3> QED BY <1>2, <1>3, <1>4, <3>1, PendingMore
    <2>2. \A o : Pending(recording, w, d, o) = 0
      BY <1>2, NoneApart DEF Pending, Part
    <2>3. \A k, h, o : x \in Part({k}, {h}, {o}) <=> k = w /\ h = d /\ o = out
      BY <1>4 DEF Part
    <2>4. \A o \in Outcomes : Pending(rec2, w, d, o)
                                 = Pending(recording, w, d, o) + (IF o = out THEN 1 ELSE 0)
      <3> SUFFICES ASSUME NEW o \in Outcomes
                   PROVE  Pending(rec2, w, d, o)
                             = Pending(recording, w, d, o) + (IF o = out THEN 1 ELSE 0)
        OBVIOUS
      <3>1. x \in Part({w}, {d}, {o}) <=> o = out
        BY <2>3
      <3>2. Pending(recording, w, d, o) = 0
        BY <2>2
      <3>3. /\ x \in Part({w}, {d}, {o}) => Pending(rec2, w, d, o) = 1
            /\ x \notin Part({w}, {d}, {o}) => Pending(rec2, w, d, o) = Pending(recording, w, d, o)
        BY <2>1
      <3> HIDE DEF rec2
      <3> QED BY <3>1, <3>2, <3>3
    <2>5. \A k, h, o : k # w \/ h # d => Pending(rec2, k, h, o) = Pending(recording, k, h, o)
      BY <2>1, <2>3
    <2>6. BagOfTransactions(log) /\ StatsOK
      BY DEF ResultsInv
    <2>7. ThreadStats(stats[w][d], log, recording, w, d)
      BY <1>2, <2>6 DEF StatsOK
    <2>8. ThreadStats(g, log, rec2, w, d)
      <3> HIDE DEF rec2
      <3> QED BY <2>4, <2>6, <2>7, ThreadCounts
    <2>9. ASSUME NEW k \in Instances, NEW h \in Threads, k # w \/ h # d
          PROVE  ThreadStats(stats[k][h], log, rec2, k, h)
      <3>1. ThreadStats(stats[k][h], log, recording, k, h)
        BY <2>6 DEF StatsOK
      <3> HIDE DEF rec2
      <3> QED BY <2>5, <2>9, <3>1 DEF ThreadStats
    <2>10. stats' = [stats EXCEPT ![w][d] = g]
      <3>1. stats \in [Instances -> [Threads -> Statistics]]
        BY <2>6 DEF StatsOK
      <3> QED BY <1>1, <1>2, <3>1
    <2>11. g \in Statistics
      BY <2>8 DEF ThreadStats
    <2> DEFINE R == [stats EXCEPT ![w][d] = g]
    <2> HIDE DEF rec2, g
    <2>12. /\ R \in [Instances -> [Threads -> Statistics]]
           /\ \A k \in Instances, h \in Threads : ThreadStats(R[k][h], log, rec2, k, h)
      BY <1>2, <2>6, <2>8, <2>9, <2>11, StatsReplaced DEF StatsOK
    <2>13. stats' = R /\ log' = log /\ recording' = rec2
      BY <1>1, <2>10
    <2> HIDE DEF R
    <2> QED BY <2>12, <2>13 DEF StatsOK
  <1>10. BoundOK'
    <2>1. SumFunction(log) + Cardinality({u \in Terminals : recording[u] # None}) < MaxSamples
      BY <1>1 DEF MayFinish
    <2>2. /\ Cardinality({u \in Terminals : recording[u] # None}) \in Nat
          /\ Cardinality({u \in Terminals : rec2[u] # None})
                = Cardinality({u \in Terminals : recording[u] # None}) + 1
      BY <1>2, <1>3, <1>4, UnderWay
    <2>3. SumFunction(log) \in Nat
      BY LogSize DEF ResultsInv
    <2> HIDE DEF rec2
    <2>4. SumFunction(log) + Cardinality({u \in Terminals : rec2[u] # None}) <= MaxSamples
      BY <2>1, <2>2, <2>3, ConstantFacts
    <2> QED BY <1>1, <2>4 DEF BoundOK
  <1>11. BagOfTransactions(log)' /\ ResultOK' /\ MergeOK'
    BY <1>1 DEF ResultsInv, ResultOK, MergeOK
  <1> QED BY <1>6, <1>8, <1>9, <1>10, <1>11 DEF ResultsInv

\* RecordLatency: what was counted is recorded, in the histograms of the thread
\* that counted it.
LEMMA RecordInv ==
  ASSUME NEW t \in Terminals
  PROVE  ResultsInv /\ RecordLatency(t) => ResultsInv'
  <1> SUFFICES ASSUME ResultsInv, RecordLatency(t) PROVE ResultsInv'
    OBVIOUS
  <1> DEFINE w == WorkerOf(t)
             d == ThreadOf(t)
             x == recording[t]
             rec2 == [recording EXCEPT ![t] = None]
             C == log (+) SetToBag({x})
             g == [stats[w][d] EXCEPT !.full = RecordValue(stats[w][d].full, x.full),
                                      !.txn = RecordValue(stats[w][d].txn, x.txn)]
  <1>1. /\ UNCHANGED <<i, start, ranges, joined, result, at, merged, counters, verdict>>
        /\ x # None /\ recording' = rec2 /\ log' = C
        /\ stats' = [stats EXCEPT ![w][d].full = RecordValue(@, x.full),
                                  ![w][d].txn = RecordValue(@, x.txn)]
    BY DEF RecordLatency, assignmentVars, mergeVars
  <1>2. RecordingOK /\ recording \in [Terminals -> Transactions \cup {None}]
    BY DEF ResultsInv, RecordingOK
  <1>3. /\ x \in Transactions /\ x.worker = w /\ x.thread = d /\ x.outcome \in Complete
        /\ x.worker \notin joined /\ Assigned
        /\ \A u \in Terminals : recording[u] # None /\ recording[u].worker = x.worker
                                   /\ recording[u].thread = x.thread => u = t
    BY <1>1, <1>2 DEF RecordingOK
  <1>4. w \in Instances /\ d \in Threads
    BY <1>3, TerminalPlace DEF ResultsInv
  <1>5. /\ AssignmentInv' /\ JoinedOK' /\ (Assigned' <=> Assigned)
        /\ \A u : WorkerOf(u)' = WorkerOf(u) /\ ThreadOf(u)' = ThreadOf(u)
    BY <1>1, PlacesKept
  <1> HIDE DEF w, d
  <1>6. BagOfTransactions(log)' /\ ResultOK' /\ MergeOK'
    BY <1>1, <1>3, RecordedApart
  <1>7. /\ \A u \in Terminals : rec2[u] # None => rec2[u] = recording[u]
        /\ rec2 \in [Terminals -> Transactions \cup {None}]
    BY <1>2
  <1>8. RecordingOK'
    <2> HIDE DEF rec2
    <2>1. ASSUME NEW u \in Terminals, rec2[u] # None
          PROVE  /\ Assigned
                 /\ rec2[u].worker = WorkerOf(u) /\ rec2[u].thread = ThreadOf(u)
                 /\ rec2[u].outcome \in Complete
                 /\ [full |-> rec2[u].full, txn |-> rec2[u].txn] \in Samples
                 /\ rec2[u].worker \notin joined
      <3>1. rec2[u] = recording[u] /\ recording[u] # None
        BY <1>7, <2>1
      <3> QED BY <1>2, <3>1 DEF RecordingOK
    <2>2. ASSUME NEW u \in Terminals, NEW v \in Terminals, rec2[u] # None, rec2[v] # None,
                 rec2[u].worker = rec2[v].worker, rec2[u].thread = rec2[v].thread
          PROVE  u = v
      <3>1. /\ rec2[u] = recording[u] /\ recording[u] # None
            /\ rec2[v] = recording[v] /\ recording[v] # None
        BY <1>7, <2>2
      <3> QED BY <1>2, <2>2, <3>1 DEF RecordingOK
    <2>3. joined' = joined /\ recording' = rec2
      BY <1>1
    <2> QED BY <1>5, <1>7, <2>1, <2>2, <2>3 DEF RecordingOK
  <1>9. StatsOK'
    <2>1. ASSUME NEW k, NEW h, NEW o
          PROVE  /\ x \in Part({k}, {h}, {o})
                       => Pending(recording, k, h, o) = Pending(rec2, k, h, o) + 1
                 /\ x \notin Part({k}, {h}, {o})
                       => Pending(recording, k, h, o) = Pending(rec2, k, h, o)
      <3>1. rec2[t] = None /\ \A u \in Terminals : u # t => rec2[u] = recording[u]
        BY <1>2
      <3> HIDE DEF rec2
      <3> QED BY <1>1, <1>2, <1>3, <3>1, PendingLess
    <2>2. ASSUME NEW k, NEW h, NEW o, k # w \/ h # d
          PROVE  Pending(rec2, k, h, o) = Pending(recording, k, h, o)
      <3>1. x \notin Part({k}, {h}, {o})
        BY <1>3, <2>2 DEF Part
      <3> QED BY <2>1, <3>1
    <2>3. BagOfTransactions(log) /\ StatsOK
      BY DEF ResultsInv
    <2>4. ThreadStats(stats[w][d], log, recording, w, d)
      BY <1>4, <2>3 DEF StatsOK
    <2> HIDE DEF rec2, x
    <2>5. ThreadStats(g, C, rec2, w, d)
      <3>1. \A o \in Outcomes :
               /\ x \in Part({w}, {d}, {o})
                     => Pending(recording, w, d, o) = Pending(rec2, w, d, o) + 1
               /\ x \notin Part({w}, {d}, {o})
                     => Pending(recording, w, d, o) = Pending(rec2, w, d, o)
        BY <2>1
      <3> HIDE DEF g
      <3>2. g = [stats[w][d] EXCEPT !.full = RecordValue(stats[w][d].full, x.full),
                                    !.txn = RecordValue(stats[w][d].txn, x.txn)]
        BY DEF g
      <3> QED BY <1>3, <2>3, <2>4, <3>1, <3>2, ThreadRecord
    <2>6. ASSUME NEW k \in Instances, NEW h \in Threads, k # w \/ h # d
          PROVE  ThreadStats(stats[k][h], C, rec2, k, h)
      <3>1. ThreadStats(stats[k][h], log, recording, k, h)
        BY <2>3 DEF StatsOK
      <3>2. \A o \in Outcomes : Pending(rec2, k, h, o) = Pending(recording, k, h, o)
        BY <2>2, <2>6
      <3>3. x.worker # k \/ x.thread # h
        BY <1>3, <2>6
      <3> QED BY <1>3, <2>3, <3>1, <3>2, <3>3, ThreadOther
    <2>7. stats' = [stats EXCEPT ![w][d] = g]
      <3>1. stats \in [Instances -> [Threads -> Statistics]]
        BY <2>3 DEF StatsOK
      <3>2. stats[w][d] \in Statistics
        BY <1>4, <3>1
      <3> QED BY <1>1, <1>4, <3>1, <3>2 DEF Statistics
    <2>8. g \in Statistics
      BY <2>5 DEF ThreadStats
    <2> DEFINE R == [stats EXCEPT ![w][d] = g]
    <2> HIDE DEF g, C
    <2>9. /\ R \in [Instances -> [Threads -> Statistics]]
          /\ \A k \in Instances, h \in Threads : ThreadStats(R[k][h], C, rec2, k, h)
      BY <1>4, <2>3, <2>5, <2>6, <2>8, StatsReplaced DEF StatsOK
    <2>10. stats' = R /\ log' = C /\ recording' = rec2
      BY <1>1, <2>7
    <2> HIDE DEF R
    <2> QED BY <2>9, <2>10 DEF StatsOK
  <1>10. BoundOK'
    <2>1. SumFunction(log) + Cardinality({u \in Terminals : recording[u] # None}) <= MaxSamples
      BY DEF ResultsInv, BoundOK
    <2>2. /\ Cardinality({u \in Terminals : recording[u] # None}) \in Nat
          /\ Cardinality({u \in Terminals : rec2[u] # None})
                = Cardinality({u \in Terminals : recording[u] # None}) - 1
      BY <1>1, <1>2, UnderWay
    <2>3. SumFunction(log) \in Nat /\ SumFunction(C) = SumFunction(log) + 1
      BY <1>3, LogSize, LogGrows DEF ResultsInv
    <2> HIDE DEF rec2, C
    <2>4. SumFunction(C) + Cardinality({u \in Terminals : rec2[u] # None}) <= MaxSamples
      BY <2>1, <2>2, <2>3, ConstantFacts
    <2> QED BY <1>1, <2>4 DEF BoundOK
  <1> QED BY <1>5, <1>6, <1>8, <1>9, <1>10 DEF ResultsInv

\* IncFailed: a failed transaction is counted and has no latency.
LEMMA FailedInv ==
  ASSUME NEW t \in Terminals
  PROVE  ResultsInv /\ IncFailed(t) => ResultsInv'
  <1> SUFFICES ASSUME ResultsInv, IncFailed(t) PROVE ResultsInv'
    OBVIOUS
  <1> DEFINE w == WorkerOf(t)
             d == ThreadOf(t)
             x == Transaction(w, d, "Failed", NoSample)
             C == log (+) SetToBag({x})
             g == [stats[w][d] EXCEPT !.Failed = stats[w][d].Failed + 1]
  <1>1. /\ UNCHANGED <<i, start, ranges, joined, result, at, merged, counters, verdict, recording>>
        /\ MayFinish(t) /\ log' = C
        /\ stats' = [stats EXCEPT ![w][d].Failed = @ + 1]
    BY DEF IncFailed, assignmentVars, mergeVars
  <1>2. w \in Instances /\ d \in Threads /\ w \notin joined
    BY <1>1, MayFinishPlace
  <1>3. RecordingOK /\ recording \in [Terminals -> Transactions \cup {None}]
    BY DEF ResultsInv, RecordingOK
  <1> HIDE DEF w, d
  <1>4. x \in Transactions /\ x.worker = w /\ x.thread = d /\ x.outcome = "Failed"
    BY <1>2, TransactionIn DEF Outcomes
  <1> HIDE DEF x
  <1>5. /\ AssignmentInv' /\ JoinedOK' /\ (Assigned' <=> Assigned)
        /\ \A u : WorkerOf(u)' = WorkerOf(u) /\ ThreadOf(u)' = ThreadOf(u)
    BY <1>1, PlacesKept
  <1>6. BagOfTransactions(log)' /\ ResultOK' /\ MergeOK'
    BY <1>1, <1>2, <1>4, RecordedApart
  <1>7. RecordingOK'
    BY <1>1, <1>3, <1>5 DEF RecordingOK
  <1>8. StatsOK'
    <2>1. BagOfTransactions(log) /\ StatsOK
      BY DEF ResultsInv
    <2>2. ThreadStats(stats[w][d], log, recording, w, d)
      BY <1>2, <2>1 DEF StatsOK
    <2>3. ThreadStats(g, C, recording, w, d)
      BY <1>4, <2>1, <2>2, ThreadFailed
    <2>4. ASSUME NEW k \in Instances, NEW h \in Threads, k # w \/ h # d
          PROVE  ThreadStats(stats[k][h], C, recording, k, h)
      <3>1. ThreadStats(stats[k][h], log, recording, k, h)
        BY <2>1 DEF StatsOK
      <3>2. \A o \in Outcomes : Pending(recording, k, h, o) = Pending(recording, k, h, o)
        OBVIOUS
      <3>3. x.worker # k \/ x.thread # h
        BY <1>4, <2>4
      <3> QED BY <1>4, <2>1, <3>1, <3>2, <3>3, ThreadOther
    <2>5. stats' = [stats EXCEPT ![w][d] = g]
      <3>1. stats \in [Instances -> [Threads -> Statistics]]
        BY <2>1 DEF StatsOK
      <3> QED BY <1>1, <1>2, <3>1
    <2>6. g \in Statistics
      BY <2>3 DEF ThreadStats
    <2> DEFINE R == [stats EXCEPT ![w][d] = g]
    <2> HIDE DEF g, C
    <2>7. /\ R \in [Instances -> [Threads -> Statistics]]
          /\ \A k \in Instances, h \in Threads : ThreadStats(R[k][h], C, recording, k, h)
      BY <1>2, <2>1, <2>3, <2>4, <2>6, StatsReplaced DEF StatsOK
    <2>8. stats' = R /\ log' = C /\ recording' = recording
      BY <1>1, <2>5
    <2> HIDE DEF R
    <2> QED BY <2>7, <2>8 DEF StatsOK
  <1>9. BoundOK'
    <2>1. SumFunction(log) + Cardinality({u \in Terminals : recording[u] # None}) < MaxSamples
      BY <1>1 DEF MayFinish
    <2>2. Cardinality({u \in Terminals : recording[u] # None}) \in Nat
      BY <1>3, UnderWay
    <2>3. SumFunction(log) \in Nat /\ SumFunction(C) = SumFunction(log) + 1
      BY <1>4, LogSize, LogGrows DEF ResultsInv
    <2> HIDE DEF C
    <2>4. SumFunction(C) + Cardinality({u \in Terminals : recording[u] # None}) <= MaxSamples
      BY <2>1, <2>2, <2>3, ConstantFacts
    <2> QED BY <1>1, <2>4 DEF BoundOK
  <1> QED BY <1>5, <1>6, <1>7, <1>8, <1>9 DEF ResultsInv

-----------------------------------------------------------------------------
(* The result of a worker.                                                 *)

\* The sum of two histograms is one.
LEMMA AddType ==
  ASSUME NEW h \in RawType, NEW g \in RawType
  PROVE  Add(h, g) \in RawType
  <1> DEFINE bs == [b \in DOMAIN h.Buckets |-> h.Buckets[b] + g.Buckets[b]]
             hi == Greatest(h.MaxRecorded, g.MaxRecorded)
             lo == IF g.TotalCount > 0 THEN Least(h.MinRecorded, g.MinRecorded) ELSE h.MinRecorded
  <1>1. DOMAIN h.Buckets = 0..(GetTotalBuckets - 1)
    BY DEF RawType
  <1>2. bs \in [0..(GetTotalBuckets - 1) -> Nat]
    BY <1>1, BucketsAddUp
  <1>3. /\ h.TotalCount \in Nat /\ h.OverflowCount \in Nat /\ h.SumValues \in Nat
        /\ h.MaxRecorded \in Nat /\ h.MinRecorded \in Nat
        /\ g.TotalCount \in Nat /\ g.OverflowCount \in Nat /\ g.SumValues \in Nat
        /\ g.MaxRecorded \in Nat /\ g.MinRecorded \in Nat
    BY DEF RawType
  <1>4. hi \in Nat /\ lo \in Nat
    BY <1>3 DEF Greatest, Least
  <1>5. /\ h.TotalCount + g.TotalCount \in Nat /\ h.OverflowCount + g.OverflowCount \in Nat
        /\ h.SumValues + g.SumValues \in Nat
    BY <1>3
  <1>6. Add(h, g) = [Buckets |-> bs, TotalCount |-> h.TotalCount + g.TotalCount,
                     OverflowCount |-> h.OverflowCount + g.OverflowCount,
                     MaxRecorded |-> hi, MinRecorded |-> lo,
                     SumValues |-> h.SumValues + g.SumValues]
    BY DEF Add
  <1> HIDE DEF bs, hi, lo
  <1> QED BY <1>2, <1>4, <1>5, <1>6 DEF RawType

\* The sum of the statistics of two threads has the type of each.
LEMMA CollectType ==
  ASSUME NEW q \in Statistics, NEW r \in Statistics
  PROVE  Collect(q, r) \in Statistics
  <1>1. /\ q.OK \in Nat /\ q.UserAborted \in Nat /\ q.Failed \in Nat
        /\ r.OK \in Nat /\ r.UserAborted \in Nat /\ r.Failed \in Nat
        /\ q.full \in RawType /\ q.txn \in RawType /\ r.full \in RawType /\ r.txn \in RawType
    BY DEF Statistics
  <1>2. Add(r.full, q.full) \in RawType /\ Add(r.txn, q.txn) \in RawType
    BY <1>1, AddType
  <1>3. r.OK + q.OK \in Nat /\ r.UserAborted + q.UserAborted \in Nat /\ r.Failed + q.Failed \in Nat
    BY <1>1
  <1> QED BY <1>2, <1>3 DEF Collect, Statistics

\* Collect adds the statistics of some threads to those of others.
LEMMA CollectAdds ==
  ASSUME NEW B, BagOfTransactions(B), NEW K, NEW H, NEW H2, H \cap H2 = {},
         NEW q \in Statistics, NEW r \in Statistics,
         Tally(r, B, K, H), Latency(r, B, K, H, Uint64Max),
         Tally(q, B, K, H2), Latency(q, B, K, H2, Uint64Max)
  PROVE  /\ Tally(Collect(q, r), B, K, H \cup H2)
         /\ Latency(Collect(q, r), B, K, H \cup H2, Uint64Max)
  <1> DEFINE c == Collect(q, r)
  <1>1. Table(B) /\ Valued(B, Full) /\ Valued(B, Txn)
    BY BagValued
  <1>2. ASSUME NEW O
        PROVE  /\ Part(K, H \cup H2, O) = Part(K, H, O) \cup Part(K, H2, O)
               /\ \A e : ~(e \in Part(K, H, O) /\ e \in Part(K, H2, O))
    <2>1. K \cup K = K
      OBVIOUS
    <2>2. /\ Part(K \cup K, H \cup H2, O) = Part(K, H, O) \cup Part(K, H2, O)
          /\ \A e : ~(e \in Part(K, H, O) /\ e \in Part(K, H2, O))
      BY PartUnion
    <2> QED BY <2>1, <2>2
  <1>3. /\ c.OK = r.OK + q.OK /\ c.UserAborted = r.UserAborted + q.UserAborted
        /\ c.Failed = r.Failed + q.Failed
        /\ c.full = Add(r.full, q.full) /\ c.txn = Add(r.txn, q.txn)
    BY DEF Collect
  <1> HIDE DEF c
  <1>4. ASSUME NEW o \in Outcomes PROVE c[o] = Total(B, Part(K, H \cup H2, {o}))
    <2>1. c[o] = r[o] + q[o]
      BY <1>3 DEF Outcomes
    <2>2. r[o] = Total(B, Part(K, H, {o})) /\ q[o] = Total(B, Part(K, H2, {o}))
      BY DEF Tally
    <2>3. Total(B, Part(K, H, {o}) \cup Part(K, H2, {o}))
             = Total(B, Part(K, H, {o})) + Total(B, Part(K, H2, {o}))
      <3>1. \A e \in DOMAIN B : ~(e \in Part(K, H, {o}) /\ e \in Part(K, H2, {o}))
        BY <1>2
      <3> QED BY <1>1, <3>1, TotalUnion
    <2>4. Total(B, Part(K, H \cup H2, {o})) = Total(B, Part(K, H, {o}) \cup Part(K, H2, {o}))
      BY <1>2
    <2> QED BY <2>1, <2>2, <2>3, <2>4
  <1>5. Represents(Add(r.full, q.full), B, Part(K, H, Complete) \cup Part(K, H2, Complete),
                   Full, Uint64Max)
    BY <1>1, <1>2, RepresentsAdd DEF Latency
  <1>6. Represents(Add(r.txn, q.txn), B, Part(K, H, Complete) \cup Part(K, H2, Complete),
                   Txn, Uint64Max)
    BY <1>1, <1>2, RepresentsAdd DEF Latency
  <1>7. Latency(c, B, K, H \cup H2, Uint64Max)
    BY <1>2, <1>3, <1>5, <1>6 DEF Latency
  <1>8. Tally(c, B, K, H \cup H2)
    BY <1>4 DEF Tally
  <1> QED BY <1>7, <1>8 DEF c

\* The sums of the first threads.
IsCollected(f, S) ==
    f = [n \in 0..ThreadCount |-> IF n = 0 THEN NoStats ELSE Collect(S[n - 1], f[n - 1])]

\* The loop over the threads.
LEMMA CollectUnfolded ==
  ASSUME NEW k, stats[k] \in [Threads -> Statistics], NoStats \in Statistics
  PROVE  \E f : /\ CollectThreads(k) = f[ThreadCount]
                /\ f[0] = NoStats
                /\ \A n \in 0..ThreadCount : n # 0 => f[n] = Collect(stats[k][n - 1], f[n - 1])
  <1> DEFINE S == stats[k]
             F == [n \in Nat |-> [v \in Statistics |-> IF n \in Threads THEN Collect(S[n], v) ELSE v]]
  <1>1. \A n \in Threads, v \in Statistics : Collect(S[n], v) \in Statistics
    BY CollectType
  <1>2. F \in [Nat -> [Statistics -> Statistics]]
    BY <1>1
  <1>3. PICK g : IteratesTo(g, Statistics, NoStats, F, ThreadCount)
    <2> HIDE DEF F
    <2> QED BY <1>2, Recursion, ConstantFacts
  <1>4. /\ g \in [0..ThreadCount -> Statistics] /\ g[0] = NoStats
        /\ \A n \in 0..ThreadCount : n # 0 => g[n] = F[n - 1][g[n - 1]]
    BY <1>3 DEF IteratesTo
  <1>5. ASSUME NEW n \in 0..ThreadCount, n # 0 PROVE g[n] = Collect(S[n - 1], g[n - 1])
    <2>1. n - 1 \in Nat /\ n - 1 \in 0..ThreadCount /\ n - 1 \in Threads
      BY <1>5, ConstantFacts DEF Threads
    <2>2. g[n] = F[n - 1][g[n - 1]] /\ g[n - 1] \in Statistics
      BY <1>4, <1>5, <2>1
    <2> QED BY <2>1, <2>2
  <1> HIDE DEF S, F
  <1>6. IsCollected(g, S)
    BY <1>4, <1>5 DEF IsCollected
  <1> DEFINE f == CHOOSE y : IsCollected(y, S)
  <1>7. IsCollected(f, S)
    BY <1>6
  <1>8. CollectThreads(k) = f[ThreadCount]
    BY DEF CollectThreads, IsCollected, S
  <1> HIDE DEF f
  <1>9. f[0] = NoStats /\ \A n \in 0..ThreadCount : n # 0 => f[n] = Collect(S[n - 1], f[n - 1])
    <2>1. 0 \in 0..ThreadCount
      BY ConstantFacts
    <2> QED BY <1>7, <2>1 DEF IsCollected
  <1> QED BY <1>8, <1>9 DEF S

\* A joined worker collects all it has finished.
LEMMA Collected ==
  ASSUME ResultsInv, NEW k \in Instances, k \in joined
  PROVE  /\ CollectThreads(k) \in Statistics
         /\ Tally(CollectThreads(k), log, {k}, Threads)
         /\ Latency(CollectThreads(k), log, {k}, Threads, Uint64Max)
  <1>1. BagOfTransactions(log) /\ StatsOK /\ RecordingOK
    BY DEF ResultsInv
  <1>2. ASSUME NEW h \in Threads
        PROVE  /\ stats[k][h] \in Statistics /\ Tally(stats[k][h], log, {k}, {h})
               /\ Latency(stats[k][h], log, {k}, {h}, Uint64Max)
    <2>1. ThreadStats(stats[k][h], log, recording, k, h)
      BY <1>1 DEF StatsOK
    <2>2. ASSUME NEW o PROVE Pending(recording, k, h, o) = 0
      <3>1. \A t \in Terminals : recording[t] \notin Part({k}, {h}, {o})
        BY <1>1, NoneApart DEF RecordingOK, Part
      <3> QED BY <3>1 DEF Pending
    <2>3. ASSUME NEW o \in Outcomes PROVE stats[k][h][o] = Total(log, Part({k}, {h}, {o}))
      <3>1. stats[k][h][o] = Total(log, Part({k}, {h}, {o})) + Pending(recording, k, h, o)
        BY <2>1 DEF ThreadStats
      <3>2. Total(log, Part({k}, {h}, {o})) \in Nat
        BY <1>1, BagValued, TotalType
      <3> QED BY <2>2, <3>1, <3>2
    <2> QED BY <2>1, <2>3 DEF ThreadStats, Tally
  <1>3. /\ NoStats \in Statistics /\ Tally(NoStats, log, {k}, 0..(0 - 1))
        /\ Latency(NoStats, log, {k}, 0..(0 - 1), Uint64Max)
    <2>1. DOMAIN log \cap Part({k}, 0..(0 - 1), Outcomes) = {}
      BY DEF Part
    <2> QED BY <1>1, <2>1, NoThreadStats
  <1>4. stats[k] \in [Threads -> Statistics]
    BY <1>1 DEF StatsOK
  <1>5. PICK f : /\ CollectThreads(k) = f[ThreadCount]
                 /\ f[0] = NoStats
                 /\ \A n \in 0..ThreadCount : n # 0 => f[n] = Collect(stats[k][n - 1], f[n - 1])
    BY <1>3, <1>4, CollectUnfolded
  <1> DEFINE So(n) == /\ f[n] \in Statistics /\ Tally(f[n], log, {k}, 0..(n - 1))
                      /\ Latency(f[n], log, {k}, 0..(n - 1), Uint64Max)
             T == {n \in Nat : n <= ThreadCount => So(n)}
  <1>6. 0 \in T
    BY <1>3, <1>5
  <1>7. ASSUME NEW n \in Nat, n \in T PROVE n + 1 \in T
    <2> SUFFICES ASSUME n + 1 <= ThreadCount PROVE So(n + 1)
      BY <1>7
    <2>1. n <= ThreadCount /\ n \in Threads /\ n + 1 \in 0..ThreadCount /\ n + 1 # 0 /\ (n + 1) - 1 = n
      BY ConstantFacts DEF Threads
    <2>2. So(n)
      BY <1>7, <2>1
    <2>3. f[n + 1] = Collect(stats[k][n], f[n])
      BY <1>5, <2>1
    <2>4. (0..(n - 1)) \cap {n} = {} /\ 0..n = (0..(n - 1)) \cup {n}
      OBVIOUS
    <2>5. /\ Tally(Collect(stats[k][n], f[n]), log, {k}, (0..(n - 1)) \cup {n})
          /\ Latency(Collect(stats[k][n], f[n]), log, {k}, (0..(n - 1)) \cup {n}, Uint64Max)
      BY <1>1, <1>2, <2>1, <2>2, <2>4, CollectAdds
    <2>6. Collect(stats[k][n], f[n]) \in Statistics
      BY <1>2, <2>1, <2>2, CollectType
    <2>7. 0..((n + 1) - 1) = (0..(n - 1)) \cup {n}
      BY <2>1, <2>4
    <2> QED BY <2>3, <2>5, <2>6, <2>7
  <1> HIDE DEF T
  <1>8. Nat \subseteq T
    BY <1>6, <1>7, SetInduction
  <1>9. ThreadCount \in T /\ 0..(ThreadCount - 1) = Threads
    BY <1>8, ConstantFacts DEF Threads
  <1>10. So(ThreadCount)
    BY <1>9, ConstantFacts DEF T
  <1> QED BY <1>5, <1>9, <1>10

\* Counters that add up to nothing are zero.
LEMMA ZeroSum ==
  \A a, b, c, d \in Nat : ~(a + b + c + d > 0) => a = 0 /\ b = 0 /\ c = 0
  OBVIOUS

\* WriteWorkerResultJson: the worker writes what it has finished.
LEMMA WriteInv ==
  ASSUME NEW k \in Instances
  PROVE  ResultsInv /\ WriteWorkerResultJson(k) => ResultsInv'
  <1> SUFFICES ASSUME ResultsInv, WriteWorkerResultJson(k) PROVE ResultsInv'
    OBVIOUS
  <1> DEFINE s == CollectThreads(k)
             R(retried) ==
               [written |-> TRUE,
                present |-> retried \/ s.OK + s.UserAborted + s.Failed + s.full.TotalCount > 0,
                OK |-> s.OK, UserAborted |-> s.UserAborted, Failed |-> s.Failed,
                full |-> HistogramRaw(s.full), txn |-> HistogramRaw(s.txn)]
  <1>0. PICK retried \in BOOLEAN : result' = [result EXCEPT ![k] = R(retried)]
    BY DEF WriteWorkerResultJson
  <1> DEFINE r == R(retried)
  <1>1. /\ k \in joined /\ ~result[k].written /\ result' = [result EXCEPT ![k] = r]
        /\ UNCHANGED <<i, start, ranges, recording, stats, joined, log, at, merged, counters, verdict>>
    BY <1>0 DEF WriteWorkerResultJson, assignmentVars, measureVars, mergeVars
  <1>2. s \in Statistics /\ Tally(s, log, {k}, Threads) /\ Latency(s, log, {k}, Threads, Uint64Max)
    BY <1>1, Collected
  <1> HIDE DEF s
  <1>3. /\ r.OK = s.OK /\ r.UserAborted = s.UserAborted /\ r.Failed = s.Failed
        /\ r.full = HistogramRaw(s.full) /\ r.txn = HistogramRaw(s.txn) /\ r.written = TRUE
    OBVIOUS
  <1>4. s.OK + s.UserAborted + s.Failed + s.full.TotalCount > 0 => r.present
    OBVIOUS
  <1>5. r.present \in BOOLEAN
    OBVIOUS
  <1> HIDE DEF r, R
  <1>6. BagOfTransactions(log) /\ Table(log) /\ Valued(log, Full) /\ Valued(log, Txn)
    BY BagValued DEF ResultsInv
  <1>7. WorkerResult(r, log, k)
    <2>1. \A o \in Outcomes : r[o] = s[o]
      BY <1>3 DEF Outcomes
    <2>2. Tally(r, log, {k}, Threads)
      BY <1>2, <2>1 DEF Tally
    <2>3. /\ Represents(HistogramRaw(s.full), log, Part({k}, Threads, Complete), Full, 0)
          /\ Represents(HistogramRaw(s.txn), log, Part({k}, Threads, Complete), Txn, 0)
      BY <1>2, <1>6, RepresentsRaw DEF Latency
    <2>4. Latency(r, log, {k}, Threads, 0)
      BY <1>3, <2>3 DEF Latency
    <2>5. ASSUME ~r.present PROVE \A o \in Outcomes : r[o] = 0
      <3>1. /\ s.OK \in Nat /\ s.UserAborted \in Nat /\ s.Failed \in Nat /\ s.full.TotalCount \in Nat
        BY <1>2 DEF Statistics, RawType
      <3>2. ~(s.OK + s.UserAborted + s.Failed + s.full.TotalCount > 0)
        BY <1>4, <2>5
      <3>3. s.OK = 0 /\ s.UserAborted = 0 /\ s.Failed = 0
        BY <3>1, <3>2, ZeroSum, Zenon
      <3> QED BY <1>3, <3>3 DEF Outcomes
    <2> QED BY <1>5, <2>2, <2>4, <2>5 DEF WorkerResult
  <1>8. ResultOK'
    <2>1. ResultOK
      BY DEF ResultsInv
    <2>2. DOMAIN result' = Instances /\ result'[k] = r
          /\ \A l \in Instances : l # k => result'[l] = result[l]
      BY <1>1, <2>1 DEF ResultOK
    <2>3. ASSUME NEW l \in Instances
          PROVE  /\ result'[l].written \in BOOLEAN
                 /\ result'[l].written => l \in joined /\ WorkerResult(result'[l], log, l)
      <3>1. CASE l = k
        BY <1>1, <1>3, <1>7, <2>2, <3>1
      <3>2. CASE l # k
        BY <2>1, <2>2, <3>2 DEF ResultOK
      <3> QED BY <3>1, <3>2
    <2>4. joined' = joined /\ log' = log
      BY <1>1
    <2> QED BY <2>2, <2>3, <2>4 DEF ResultOK
  <1>9. MergeOK'
    <2>1. MergeOK
      BY DEF ResultsInv
    <2>2. at # 1 => \A l \in Instances : result'[l].written
      BY <1>1, <2>1 DEF MergeOK
    <2> QED BY <1>1, <2>1, <2>2 DEF MergeOK
  <1>10. AssignmentInv' /\ JoinedOK'
    BY <1>1, PlacesKept
  <1>11. RecordingOK'
    <2>1. RecordingOK /\ Assigned' = Assigned
          /\ \A t : WorkerOf(t)' = WorkerOf(t) /\ ThreadOf(t)' = ThreadOf(t)
      BY <1>1, PlacesKept DEF ResultsInv, Assigned
    <2> QED BY <1>1, <2>1 DEF RecordingOK
  <1>12. BagOfTransactions(log)' /\ StatsOK' /\ BoundOK'
    BY <1>1 DEF ResultsInv, StatsOK, BoundOK
  <1> QED BY <1>8, <1>9, <1>10, <1>11, <1>12 DEF ResultsInv

-----------------------------------------------------------------------------
(* The consolidation.                                                      *)

\* What a worker completed is what succeeded and what its user aborted.
LEMMA CompleteTotal ==
  ASSUME NEW B, BagOfTransactions(B), NEW K, NEW H, NEW r, Tally(r, B, K, H)
  PROVE  Total(B, Part(K, H, Complete)) = r.OK + r.UserAborted /\ r.OK \in Nat /\ r.UserAborted \in Nat
  <1>1. Table(B)
    BY BagValued
  <1>2. /\ \A e \in DOMAIN B : ~(e \in Part(K, H, {"OK"}) /\ e \in Part(K, H, {"UserAborted"}))
        /\ Part(K, H, Complete) = Part(K, H, {"OK"}) \cup Part(K, H, {"UserAborted"})
    BY DEF Part, Complete
  <1>3. /\ Total(B, Part(K, H, {"OK"}) \cup Part(K, H, {"UserAborted"}))
              = Total(B, Part(K, H, {"OK"})) + Total(B, Part(K, H, {"UserAborted"}))
        /\ Total(B, Part(K, H, {"OK"})) \in Nat /\ Total(B, Part(K, H, {"UserAborted"})) \in Nat
    BY <1>1, <1>2, TotalUnion
  <1>4. r.OK = Total(B, Part(K, H, {"OK"})) /\ r.UserAborted = Total(B, Part(K, H, {"UserAborted"}))
    BY DEF Tally, Outcomes
  <1> QED BY <1>2, <1>3, <1>4

\* A pair of histograms that holds the latencies of a set passes Validate.
LEMMA LatencyValid ==
  ASSUME NEW B, BagOfTransactions(B), NEW K, NEW H, NEW r, Latency(r, B, K, H, 0)
  PROVE  Validate(r.full) /\ Validate(r.txn)
         /\ r.full.TotalCount = Total(B, Part(K, H, Complete))
  <1>1. Valued(B, Full) /\ Valued(B, Txn)
    BY BagValued
  <1>2. Validate(r.full)
    BY <1>1, HonestHistogramValid DEF Latency
  <1>3. Validate(r.txn)
    BY <1>1, HonestHistogramValid DEF Latency
  <1>4. r.full.TotalCount = Total(B, Part(K, H, Complete))
    BY DEF Latency, Represents, Counts
  <1> QED BY <1>2, <1>3, <1>4

\* What a worker writes is accepted.
LEMMA WrittenAccepted ==
  ASSUME NEW B, BagOfTransactions(B), NEW k, NEW r, WorkerResult(r, B, k)
  PROVE  /\ AcceptedResult(r)
         /\ ~r.present => DOMAIN B \cap Part({k}, Threads, Complete) = {}
  <1>1. Tally(r, B, {k}, Threads) /\ Latency(r, B, {k}, Threads, 0)
        /\ r.present \in BOOLEAN /\ (~r.present => \A o \in Outcomes : r[o] = 0)
    BY DEF WorkerResult
  <1>2. /\ Total(B, Part({k}, Threads, Complete)) = r.OK + r.UserAborted
        /\ r.OK \in Nat /\ r.UserAborted \in Nat
    BY <1>1, CompleteTotal
  <1>3. Validate(r.full) /\ Validate(r.txn) /\ r.full.TotalCount = r.OK + r.UserAborted
    BY <1>1, <1>2, LatencyValid
  <1>4. ~r.present => r.OK = 0 /\ r.UserAborted = 0
    BY <1>1 DEF Outcomes
  <1>5. ~r.present => r.OK + r.UserAborted = 0
    BY <1>4
  <1>6. AcceptedResult(r)
    BY <1>3, <1>5 DEF AcceptedResult, validateCounterHistogramInvariants, Completed
  <1>7. ASSUME ~r.present PROVE DOMAIN B \cap Part({k}, Threads, Complete) = {}
    <2>1. Total(B, Part({k}, Threads, Complete)) = 0
      BY <1>2, <1>5, <1>7
    <2> QED BY <2>1, BagValued, TotalZero
  <1> QED BY <1>6, <1>7

\* A pair of histograms of a set is one of every other with the same transactions.
LEMMA LatencySame ==
  ASSUME NEW B, BagOfTransactions(B), NEW K, NEW K2, NEW H, NEW none, NEW r, Latency(r, B, K, H, none),
         \A e \in DOMAIN B : e \in Part(K, H, Complete) <=> e \in Part(K2, H, Complete)
  PROVE  Latency(r, B, K2, H, none)
  <1>1. Valued(B, Full) /\ Valued(B, Txn)
    BY BagValued
  <1>2. Represents(r.full, B, Part(K2, H, Complete), Full, none)
    BY <1>1, RepresentsSame DEF Latency
  <1>3. Represents(r.txn, B, Part(K2, H, Complete), Txn, none)
    BY <1>1, RepresentsSame DEF Latency
  <1> QED BY <1>2, <1>3 DEF Latency

\* Merging the histograms of some workers with those of others.
LEMMA LatencyMerge ==
  ASSUME NEW B, BagOfTransactions(B), NEW K, NEW K2, NEW H, K \cap K2 = {},
         NEW r, Latency(r, B, K, H, 0), NEW q, Latency(q, B, K2, H, 0),
         NEW m, m = [full |-> Merge(r.full, q.full), txn |-> Merge(r.txn, q.txn)]
  PROVE  Latency(m, B, K \cup K2, H, 0)
  <1>1. Valued(B, Full) /\ Valued(B, Txn)
    BY BagValued
  <1> DEFINE P == Part(K, H, Complete)
             Q == Part(K2, H, Complete)
  <1>2. Part(K \cup K2, H, Complete) = P \cup Q /\ \A e \in DOMAIN B : ~(e \in P /\ e \in Q)
    BY DEF Part
  <1>3. /\ Represents(r.full, B, P, Full, 0) /\ Represents(q.full, B, Q, Full, 0)
        /\ Represents(r.txn, B, P, Txn, 0) /\ Represents(q.txn, B, Q, Txn, 0)
    BY DEF Latency
  <1> HIDE DEF P, Q
  <1>4. Represents(Merge(r.full, q.full), B, P \cup Q, Full, 0)
    BY <1>1, <1>2, <1>3, RepresentsMerge
  <1>5. Represents(Merge(r.txn, q.txn), B, P \cup Q, Txn, 0)
    BY <1>1, <1>2, <1>3, RepresentsMerge
  <1>6. m.full = Merge(r.full, q.full) /\ m.txn = Merge(r.txn, q.txn)
    OBVIOUS
  <1> QED BY <1>2, <1>4, <1>5, <1>6 DEF Latency

\* The worker that is merged next.
LEMMA NextWorker ==
  ASSUME ResultsInv, MergeWorker
  PROVE  /\ at \in Instances /\ at \in joined /\ Assigned /\ WorkerResult(result[at], log, at)
         /\ AcceptedResult(result[at])
         /\ merged # <<>> => Validate(merged.full) /\ Validate(merged.txn)
  <1>1. at \in Nat /\ at >= 1 /\ at <= InstanceCount /\ \A k \in Instances : result[k].written
    BY ConstantFacts DEF MergeWorker, ResultsInv, MergeOK
  <1>2. at \in Instances
    BY <1>1, ConstantFacts DEF Instances
  <1>3. at \in joined /\ WorkerResult(result[at], log, at)
    BY <1>1, <1>2 DEF ResultsInv, ResultOK
  <1>4. Assigned
    BY <1>3 DEF ResultsInv, JoinedOK
  <1>5. AcceptedResult(result[at])
    BY <1>3, WrittenAccepted DEF ResultsInv
  <1>6. ASSUME merged # <<>> PROVE Validate(merged.full) /\ Validate(merged.txn)
    <2>1. Latency(merged, log, 1..(at - 1), Threads, 0)
      BY <1>6 DEF ResultsInv, MergeOK
    <2> QED BY <2>1, LatencyValid DEF ResultsInv
  <1> QED BY <1>2, <1>3, <1>4, <1>5, <1>6

\* MergeWorker: the result is accepted and added to those of the workers before.
LEMMA MergeInv == ResultsInv /\ MergeWorker => ResultsInv'
  <1> SUFFICES ASSUME ResultsInv, MergeWorker PROVE ResultsInv'
    OBVIOUS
  <1> DEFINE r == result[at]
             K == 1..(at - 1)
  <1>1. /\ at \in Instances /\ at \in joined /\ Assigned /\ WorkerResult(r, log, at)
        /\ AcceptedResult(r)
        /\ merged # <<>> => Validate(merged.full) /\ Validate(merged.txn)
    BY NextWorker
  <1>2. /\ merged' = Absorb(r)
        /\ counters' = [OK |-> counters.OK + r.OK,
                        UserAborted |-> counters.UserAborted + r.UserAborted,
                        Failed |-> counters.Failed + r.Failed,
                        warehouses |-> counters.warehouses + ranges[at].End - ranges[at].Start]
        /\ at' = at + 1
        /\ verdict' = IF at = InstanceCount THEN "published" ELSE "none"
    BY <1>1 DEF MergeWorker
  <1>3. /\ UNCHANGED <<i, start, ranges, recording, stats, joined, log, result>>
        /\ \A k \in Instances : result[k].written
    BY DEF MergeWorker, assignmentVars, measureVars
  <1>4. BagOfTransactions(log) /\ MergeOK /\ Table(log)
    BY BagValued DEF ResultsInv
  <1>5. at \in Nat /\ at >= 1 /\ at <= InstanceCount /\ (at + 1) - 1 = at /\ at - 1 \in Nat
    BY <1>1, ConstantFacts DEF Instances
  <1>6. 1..at = K \cup {at} /\ K \cap {at} = {}
    BY <1>5
  <1> HIDE DEF K, r
  <1>7. ASSUME NEW O
        PROVE  /\ Part(1..at, Threads, O) = Part(K, Threads, O) \cup Part({at}, Threads, O)
               /\ \A e : ~(e \in Part(K, Threads, O) /\ e \in Part({at}, Threads, O))
    BY <1>6 DEF Part
  <1>8. Tally(counters', log, 1..at, Threads)
    <2> SUFFICES ASSUME NEW o \in Outcomes PROVE counters'[o] = Total(log, Part(1..at, Threads, {o}))
      BY DEF Tally
    <2>1. counters'[o] = counters[o] + r[o]
      BY <1>2 DEF Outcomes
    <2>2. counters[o] = Total(log, Part(K, Threads, {o})) /\ r[o] = Total(log, Part({at}, Threads, {o}))
      BY <1>1, <1>4 DEF MergeOK, WorkerResult, Tally, K
    <2>3. Total(log, Part(K, Threads, {o}) \cup Part({at}, Threads, {o}))
             = Total(log, Part(K, Threads, {o})) + Total(log, Part({at}, Threads, {o}))
      <3>1. \A e \in DOMAIN log : ~(e \in Part(K, Threads, {o}) /\ e \in Part({at}, Threads, {o}))
        BY <1>7
      <3> QED BY <1>4, <3>1, TotalUnion
    <2>4. Part(1..at, Threads, {o}) = Part(K, Threads, {o}) \cup Part({at}, Threads, {o})
      BY <1>7
    <2> QED BY <2>1, <2>2, <2>3, <2>4
  <1>9. counters'.warehouses = Given(at)
    <2>1. Served /\ i = InstanceCount
      BY <1>1, AllGiven DEF ResultsInv
    <2>2. ranges[at].End = ranges[at].Start + Count(at - 1)
      BY <1>5, <2>1 DEF Served
    <2>3. ranges[at].Start \in Int /\ ranges[at].End \in Int
      BY <1>1 DEF ResultsInv, AssignmentInv, AssignmentTypeOK
    <2>4. /\ Given(at - 1) \in Nat /\ Count(at - 1) \in Nat
          /\ Given((at - 1) + 1) = Given(at - 1) + Count(at - 1)
      BY <1>5, ConstantFacts, Shares
    <2>5. (at - 1) + 1 = at
      BY <1>5
    <2>6. counters'.warehouses = counters.warehouses + ranges[at].End - ranges[at].Start
      BY <1>2
    <2>7. counters.warehouses = Given(at - 1)
      BY <1>4 DEF MergeOK
    <2>8. Given(at) = Given(at - 1) + Count(at - 1)
      BY <2>4, <2>5
    <2> QED BY <2>2, <2>3, <2>4, <2>6, <2>7, <2>8
  <1>10. \/ merged' = <<>> /\ DOMAIN log \cap Part(1..at, Threads, Complete) = {}
         \/ merged' # <<>> /\ Latency(merged', log, 1..at, Threads, 0)
    <2>1. \/ merged = <<>> /\ DOMAIN log \cap Part(K, Threads, Complete) = {}
          \/ merged # <<>> /\ Latency(merged, log, K, Threads, 0)
      BY <1>4 DEF MergeOK, K
    <2>2. Latency(r, log, {at}, Threads, 0) /\ r.present \in BOOLEAN
      BY <1>1 DEF WorkerResult
    <2>3. CASE ~r.present
      <3>1. merged' = merged
        BY <1>2, <2>3 DEF Absorb
      <3>2. DOMAIN log \cap Part({at}, Threads, Complete) = {}
        BY <1>1, <1>4, <2>3, WrittenAccepted
      <3>3. \A e \in DOMAIN log : e \in Part(K, Threads, Complete) <=> e \in Part(1..at, Threads, Complete)
        BY <1>7, <3>2
      <3>4. CASE merged = <<>>
        BY <2>1, <3>1, <3>3, <3>4
      <3>5. CASE merged # <<>>
        <4>1. Latency(merged, log, 1..at, Threads, 0)
          BY <1>4, <2>1, <3>3, <3>5, LatencySame
        <4> QED BY <3>1, <3>5, <4>1
      <3> QED BY <3>4, <3>5
    <2>4. CASE r.present /\ merged = <<>>
      <3> DEFINE m == [full |-> r.full, txn |-> r.txn]
      <3>1. merged' = m
        BY <1>2, <2>4 DEF Absorb
      <3>2. m # <<>> /\ m.full = r.full /\ m.txn = r.txn
        <4>1. "full" \in DOMAIN m
          OBVIOUS
        <4>2. DOMAIN <<>> = {}
          OBVIOUS
        <4> QED BY <4>1, <4>2
      <3> HIDE DEF m
      <3>3. Latency(m, log, {at}, Threads, 0)
        BY <2>2, <3>2 DEF Latency
      <3>4. \A e \in DOMAIN log : e \in Part({at}, Threads, Complete) <=> e \in Part(1..at, Threads, Complete)
        BY <1>7, <2>1, <2>4
      <3>5. Latency(m, log, 1..at, Threads, 0)
        BY <1>4, <3>3, <3>4, LatencySame
      <3> QED BY <3>1, <3>2, <3>5
    <2>5. CASE r.present /\ merged # <<>>
      <3> DEFINE m == [full |-> Merge(merged.full, r.full), txn |-> Merge(merged.txn, r.txn)]
      <3>1. merged' = m
        BY <1>2, <2>5 DEF Absorb
      <3>2. m # <<>>
        <4>1. "full" \in DOMAIN m
          OBVIOUS
        <4>2. DOMAIN <<>> = {}
          OBVIOUS
        <4> QED BY <4>1, <4>2
      <3>3. m = [full |-> Merge(merged.full, r.full), txn |-> Merge(merged.txn, r.txn)]
        OBVIOUS
      <3> HIDE DEF m
      <3>4. Latency(m, log, K \cup {at}, Threads, 0)
        BY <1>4, <1>6, <2>1, <2>2, <2>5, <3>3, LatencyMerge
      <3> QED BY <1>6, <3>1, <3>2, <3>4
    <2> QED BY <2>2, <2>3, <2>4, <2>5
  <1>11. MergeOK'
    <2>1. at' \in 1..(InstanceCount + 1) /\ at' - 1 = at
      BY <1>2, <1>5, ConstantFacts
    <2>2. verdict' = IF at' = InstanceCount + 1 THEN "published" ELSE "none"
      BY <1>2, <1>5, ConstantFacts
    <2>3. log' = log /\ result' = result
      BY <1>3
    <2> QED BY <1>3, <1>8, <1>9, <1>10, <2>1, <2>2, <2>3 DEF MergeOK
  <1>12. AssignmentInv' /\ JoinedOK'
    BY <1>3, PlacesKept
  <1>13. RecordingOK'
    <2>1. RecordingOK /\ Assigned' = Assigned
          /\ \A t : WorkerOf(t)' = WorkerOf(t) /\ ThreadOf(t)' = ThreadOf(t)
      BY <1>3, PlacesKept DEF ResultsInv, Assigned
    <2> QED BY <1>3, <2>1 DEF RecordingOK
  <1>14. BagOfTransactions(log)' /\ StatsOK' /\ BoundOK' /\ ResultOK'
    BY <1>3 DEF ResultsInv, StatsOK, BoundOK, ResultOK
  <1> QED BY <1>11, <1>12, <1>13, <1>14 DEF ResultsInv

\* Nothing else changes the invariant.
LEMMA StutterInv == ResultsInv /\ UNCHANGED vars => ResultsInv'
  <1> SUFFICES ASSUME ResultsInv, UNCHANGED vars PROVE ResultsInv'
    OBVIOUS
  <1>1. UNCHANGED <<i, start, ranges, recording, stats, joined, log, result, at, merged, counters, verdict>>
    BY DEF vars, assignmentVars, measureVars, mergeVars
  <1>2. AssignmentInv' /\ JoinedOK'
    BY <1>1, PlacesKept
  <1>3. RecordingOK'
    <2>1. RecordingOK /\ Assigned' = Assigned
          /\ \A t : WorkerOf(t)' = WorkerOf(t) /\ ThreadOf(t)' = ThreadOf(t)
      BY <1>1, PlacesKept DEF ResultsInv, Assigned
    <2> QED BY <1>1, <2>1 DEF RecordingOK
  <1>4. BagOfTransactions(log)' /\ StatsOK' /\ ResultOK' /\ MergeOK' /\ BoundOK'
    BY <1>1 DEF ResultsInv, StatsOK, ResultOK, MergeOK, BoundOK
  <1> QED BY <1>2, <1>3, <1>4 DEF ResultsInv

\* At every moment the statistics, the written results and the merged figures
\* are those of the transactions finished so far, each counted once.
THEOREM ResultsInvariance == Spec => []ResultsInv
  <1>1. ResultsInv /\ [Next]_vars => ResultsInv'
    <2> SUFFICES ASSUME ResultsInv, [Next]_vars PROVE ResultsInv'
      OBVIOUS
    <2>1. CASE Assign
      BY <2>1, AssignInv
    <2>2. ASSUME NEW t \in Terminals, NEW s \in Samples, NEW out \in {"OK", "UserAborted"},
                 CountCompleted(t, s, out)
          PROVE  ResultsInv'
      BY <2>2, CountInv DEF Complete
    <2>3. ASSUME NEW t \in Terminals, RecordLatency(t) PROVE ResultsInv'
      BY <2>3, RecordInv
    <2>4. ASSUME NEW t \in Terminals, IncFailed(t) PROVE ResultsInv'
      BY <2>4, FailedInv
    <2>5. ASSUME NEW k \in Instances, Join(k) PROVE ResultsInv'
      BY <2>5, JoinInv
    <2>6. ASSUME NEW k \in Instances, WriteWorkerResultJson(k) PROVE ResultsInv'
      BY <2>6, WriteInv
    <2>7. CASE MergeWorker
      BY <2>7, MergeInv
    <2>8. CASE UNCHANGED vars
      BY <2>8, StutterInv
    <2> QED BY <2>1, <2>2, <2>3, <2>4, <2>5, <2>6, <2>7, <2>8 DEF Next
  <1> QED BY <1>1, InitInv, PTL DEF Spec

\* No result of a worker and no merge of results is refused by the
\* consolidation, however the samples fall and whatever the order of the steps.
THEOREM HonestResults == Spec => []HonestResultsAccepted
  <1>1. ResultsInv => HonestResultsAccepted
    BY DEF ResultsInv, MergeOK, HonestResultsAccepted
  <1> QED BY <1>1, ResultsInvariance, PTL

\* A histogram of at most MaxSamples values below Uint64Max.
LEMMA HistogramBounded ==
  ASSUME NEW B, NEW val, Valued(B, val), NEW U, NEW h, Represents(h, B, U, val, Uint64Max),
         \A W : Total(B, W) \in 0..MaxSamples
  PROVE  h \in Histograms
  <1> DEFINE D == 0..(GetTotalBuckets - 1)
  <1>1. h \in RawType /\ Counts(h, B, U, val) /\ Extremes(h, B, U, val, Uint64Max)
    BY DEF Represents
  <1>2. h.Buckets \in [D -> 0..MaxSamples]
    <2>1. h.Buckets \in [D -> Nat]
      BY <1>1 DEF RawType
    <2>2. \A b \in D : h.Buckets[b] \in 0..MaxSamples
      BY <1>1 DEF Counts
    <2> HIDE DEF D
    <2> QED BY <2>1, <2>2
  <1>3. h.TotalCount \in 0..MaxSamples /\ h.OverflowCount \in 0..MaxSamples
    BY <1>1 DEF Counts
  <1>4. h.MaxRecorded \in Nat /\ h.MinRecorded \in Nat /\ h.SumValues \in Nat
    BY <1>1 DEF RawType
  <1>5. \A e \in DOMAIN B : val[e] \in Nat /\ val[e] < Uint64Max
    BY DEF Valued
  <1>6. h.MaxRecorded <= Uint64Max /\ h.MinRecorded <= Uint64Max
    <2>1. CASE \E e \in DOMAIN B : e \in U
      <3>1. PICK e \in DOMAIN B : val[e] = h.MinRecorded
        BY <1>1, <2>1 DEF Extremes
      <3>2. PICK y \in DOMAIN B : val[y] = h.MaxRecorded
        BY <1>1, <2>1 DEF Extremes
      <3> QED BY <1>5, <3>1, <3>2, HistogramAssumption
    <2>2. CASE ~\E e \in DOMAIN B : e \in U
      <3>1. h.MinRecorded = Uint64Max /\ h.MaxRecorded = 0
        BY <1>1, <2>2 DEF Extremes
      <3> QED BY <3>1, HistogramAssumption
    <2> QED BY <2>1, <2>2
  <1>7. h.MaxRecorded \in 0..Uint64Max /\ h.MinRecorded \in 0..Uint64Max
    BY <1>4, <1>6, HistogramAssumption
  <1>8. h = [Buckets |-> h.Buckets, TotalCount |-> h.TotalCount, OverflowCount |-> h.OverflowCount,
             MaxRecorded |-> h.MaxRecorded, MinRecorded |-> h.MinRecorded, SumValues |-> h.SumValues]
    BY <1>1 DEF RawType
  <1> HIDE DEF D
  <1>9. [Buckets |-> h.Buckets, TotalCount |-> h.TotalCount, OverflowCount |-> h.OverflowCount,
         MaxRecorded |-> h.MaxRecorded, MinRecorded |-> h.MinRecorded, SumValues |-> h.SumValues]
           \in [Buckets : [D -> 0..MaxSamples], TotalCount : 0..MaxSamples, OverflowCount : 0..MaxSamples,
                MaxRecorded : 0..Uint64Max, MinRecorded : 0..Uint64Max, SumValues : Nat]
    BY <1>2, <1>3, <1>4, <1>7
  <1>10. h \in [Buckets : [D -> 0..MaxSamples], TotalCount : 0..MaxSamples, OverflowCount : 0..MaxSamples,
                MaxRecorded : 0..Uint64Max, MinRecorded : 0..Uint64Max, SumValues : Nat]
    BY <1>8, <1>9, Zenon
  <1> QED BY <1>10 DEF Histograms, D

\* No part of the finished transactions is larger than the bound.
LEMMA PartBounded ==
  ASSUME ResultsInv, NEW W
  PROVE  /\ Total(log, W) \in Nat
         /\ Total(log, W) + Cardinality({u \in Terminals : recording[u] # None}) <= MaxSamples
         /\ Cardinality({u \in Terminals : recording[u] # None}) \in Nat
  <1>1. BagOfTransactions(log) /\ Table(log)
    BY BagValued DEF ResultsInv
  <1>2. Total(log, W) <= Total(log, Transactions)
    <2>1. \A e \in DOMAIN log : e \in W => e \in Transactions
      BY <1>1 DEF BagOfTransactions
    <2> QED BY <1>1, <2>1, TotalMonotone
  <1>3. Total(log, W) \in Nat /\ Total(log, Transactions) \in Nat
    BY <1>1, TotalType
  <1>4. SumFunction(log) = Total(log, Transactions)
    BY <1>1, LogSize
  <1>5. Cardinality({u \in Terminals : recording[u] # None}) \in Nat
    <2>1. 1 \in Terminals /\ recording \in [Terminals -> Transactions \cup {None}]
      BY ConstantFacts DEF ResultsInv, RecordingOK, Terminals
    <2> QED BY <2>1, UnderWay
  <1>6. SumFunction(log) + Cardinality({u \in Terminals : recording[u] # None}) <= MaxSamples
    BY DEF ResultsInv, BoundOK
  <1> QED BY <1>2, <1>3, <1>4, <1>5, <1>6, ConstantFacts

\* A transaction under way counts against the bound.
LEMMA PendingBounded ==
  ASSUME ResultsInv, NEW k, NEW h, NEW o
  PROVE  Pending(recording, k, h, o) <= Cardinality({u \in Terminals : recording[u] # None})
  <1> DEFINE S == {u \in Terminals : recording[u] # None}
  <1>1. IsFiniteSet(S)
    <2>1. IsFiniteSet(Terminals)
      BY ConstantFacts, FS_Interval DEF Terminals
    <2> QED BY <2>1, FS_Subset
  <1>2. Cardinality(S) \in Nat
    BY <1>1, FS_CardinalityType
  <1>3. CASE \E t \in Terminals : recording[t] \in Part({k}, {h}, {o})
    <2>1. S # {}
      BY <1>3, NoneApart DEF Part
    <2>2. Cardinality(S) # 0
      BY <1>1, <2>1, FS_EmptySet
    <2>3. Pending(recording, k, h, o) = 1
      BY <1>3 DEF Pending
    <2> HIDE DEF S
    <2>4. Pending(recording, k, h, o) <= Cardinality(S)
      BY <1>2, <2>2, <2>3
    <2> QED BY <2>4 DEF S
  <1>4. CASE ~\E t \in Terminals : recording[t] \in Part({k}, {h}, {o})
    <2>1. Pending(recording, k, h, o) = 0
      BY <1>4 DEF Pending
    <2> HIDE DEF S
    <2>2. Pending(recording, k, h, o) <= Cardinality(S)
      BY <1>2, <2>1
    <2> QED BY <2>2 DEF S
  <1> QED BY <1>3, <1>4

\* Every variable keeps its shape; every value is recorded in a bucket that
\* exists, and no count passes the number of finished transactions.
THEOREM TypeCorrect == Spec => []TypeOK
  <1>1. ASSUME ResultsInv PROVE TypeOK
    <2>1. BagOfTransactions(log) /\ Valued(log, Full) /\ Valued(log, Txn) /\ StatsOK /\ RecordingOK
      BY BagValued, <1>1 DEF ResultsInv
    <2>2. i \in 0..InstanceCount /\ at \in 1..(InstanceCount + 1) /\ joined \subseteq Instances
      BY <1>1 DEF ResultsInv, AssignmentInv, AssignmentTypeOK, MergeOK, JoinedOK
    <2>3. \A t \in Terminals :
             \/ recording[t] = None
             \/ recording[t].outcome \in {"OK", "UserAborted"}
                /\ [full |-> recording[t].full, txn |-> recording[t].txn] \in Samples
      BY <2>1 DEF RecordingOK, Complete
    <2>4. ASSUME NEW k \in Instances, NEW h \in Threads
          PROVE  /\ stats[k][h].full \in Histograms /\ stats[k][h].txn \in Histograms
                 /\ \A o \in {"OK", "UserAborted", "Failed"} : stats[k][h][o] \in 0..MaxSamples
      <3> DEFINE n == Cardinality({u \in Terminals : recording[u] # None})
      <3>1. ThreadStats(stats[k][h], log, recording, k, h)
        BY <2>1 DEF StatsOK
      <3>2. ASSUME NEW W PROVE Total(log, W) \in Nat /\ Total(log, W) + n <= MaxSamples /\ n \in Nat
        BY <1>1, PartBounded
      <3> HIDE DEF n
      <3>3. ASSUME NEW W PROVE Total(log, W) \in 0..MaxSamples
        <4>1. Total(log, W) \in Nat /\ Total(log, W) + n <= MaxSamples /\ n \in Nat
          BY <3>2
        <4> QED BY <4>1, ConstantFacts
      <3>4. \A W : Total(log, W) \in 0..MaxSamples
        BY <3>3
      <3>5. stats[k][h].full \in Histograms
        BY <2>1, <3>1, <3>4, HistogramBounded DEF ThreadStats, Latency
      <3>6. stats[k][h].txn \in Histograms
        BY <2>1, <3>1, <3>4, HistogramBounded DEF ThreadStats, Latency
      <3>7. ASSUME NEW o \in {"OK", "UserAborted", "Failed"} PROVE stats[k][h][o] \in 0..MaxSamples
        <4> DEFINE W == Part({k}, {h}, {o})
        <4>1. stats[k][h][o] = Total(log, W) + Pending(recording, k, h, o)
          BY <3>1 DEF ThreadStats, Outcomes
        <4>2. Pending(recording, k, h, o) <= n /\ Pending(recording, k, h, o) \in Nat
          BY <1>1, PendingBounded, PendingType DEF n
        <4>3. Total(log, W) \in Nat /\ Total(log, W) + n <= MaxSamples /\ n \in Nat
          BY <3>2
        <4> HIDE DEF W
        <4> QED BY <4>1, <4>2, <4>3, ConstantFacts
      <3> QED BY <3>5, <3>6, <3>7
    <2>5. verdict \in {"none", "published", "refused"}
      BY <1>1 DEF ResultsInv, MergeOK
    <2> QED BY <2>2, <2>3, <2>4, <2>5 DEF TypeOK
  <1> QED BY <1>1, ResultsInvariance, PTL

-----------------------------------------------------------------------------
(* The published figures.                                                  *)

\* The sizes of the octaves, as the resolution counts them.
LEMMA DoubledSize ==
  ASSUME NEW n \in 0..MaxValue
  PROVE  Doubled[n] = ForEachOctave[n].size
  <1> DEFINE Is(f) == f = [m \in 0..MaxValue |-> IF m = 0 THEN HdrTill ELSE 2 * f[m - 1]]
             g == [m \in 0..MaxValue |-> ForEachOctave[m].size]
  <1>1. g[0] = HdrTill /\ 0 \in 0..MaxValue
    BY OctaveUnfolded, HistogramAssumption DEF Octave
  <1>2. ASSUME NEW m \in 0..MaxValue, m # 0 PROVE g[m] = 2 * g[m - 1]
    BY <1>2, OctaveStep
  <1>3. Is(g)
    <2>1. g = [m \in 0..MaxValue |-> g[m]]
      OBVIOUS
    <2> HIDE DEF g
    <2>2. \A m \in 0..MaxValue : g[m] = IF m = 0 THEN HdrTill ELSE 2 * g[m - 1]
      BY <1>1, <1>2
    <2> QED BY <2>1, <2>2
  <1>4. Is(Doubled)
    <2>1. Doubled = CHOOSE f : Is(f)
      BY DEF Doubled
    <2> HIDE DEF Is
    <2>2. \E f : Is(f)
      BY <1>3
    <2> QED BY <2>1, <2>2
  <1>5. Doubled[0] = HdrTill
    BY <1>1, <1>4
  <1>6. ASSUME NEW m \in 0..MaxValue, m # 0 PROVE Doubled[m] = 2 * Doubled[m - 1]
    BY <1>4, <1>6
  <1> DEFINE T == {m \in Nat : m <= MaxValue => Doubled[m] = g[m]}
  <1> HIDE DEF g, Is
  <1>7. 0 \in T
    BY <1>1, <1>5
  <1>8. ASSUME NEW m \in Nat, m \in T PROVE m + 1 \in T
    <2> SUFFICES ASSUME m + 1 <= MaxValue PROVE Doubled[m + 1] = g[m + 1]
      OBVIOUS
    <2>1. m + 1 \in 0..MaxValue /\ m + 1 # 0 /\ (m + 1) - 1 = m /\ m <= MaxValue
      BY HistogramAssumption
    <2>2. Doubled[m + 1] = 2 * Doubled[m] /\ g[m + 1] = 2 * g[m]
      BY <1>2, <1>6, <2>1
    <2> QED BY <1>8, <2>1, <2>2
  <1>9. Nat \subseteq T
    <2> HIDE DEF T
    <2> QED BY <1>7, <1>8, SetInduction
  <1>10. Doubled[n] = g[n]
    BY <1>9, HistogramAssumption
  <1> QED BY <1>10 DEF g

\* They grow.
LEMMA DoubledGrows ==
  ASSUME NEW a \in 0..MaxValue, NEW b \in 0..MaxValue, a <= b
  PROVE  Doubled[a] \in Nat /\ Doubled[b] \in Nat /\ Doubled[a] <= Doubled[b]
  <1>1. \A n \in 0..MaxValue : Doubled[n] \in Nat
    BY DoubledSize, OctaveNumbers
  <1>2. ASSUME NEW n \in 0..MaxValue, n # 0
        PROVE  n - 1 \in 0..MaxValue /\ Doubled[n] = 2 * Doubled[n - 1]
    BY <1>2, OctaveStep, DoubledSize
  <1> DEFINE T == {d \in Nat : a + d <= MaxValue => Doubled[a] <= Doubled[a + d]}
  <1>3. 0 \in T
    BY <1>1
  <1>4. ASSUME NEW d \in Nat, d \in T PROVE d + 1 \in T
    <2> SUFFICES ASSUME a + (d + 1) <= MaxValue PROVE Doubled[a] <= Doubled[a + (d + 1)]
      OBVIOUS
    <2>1. /\ a + (d + 1) \in 0..MaxValue /\ a + (d + 1) # 0 /\ (a + (d + 1)) - 1 = a + d
          /\ a + d \in 0..MaxValue /\ a + d <= MaxValue
      BY HistogramAssumption
    <2>2. Doubled[a + (d + 1)] = 2 * Doubled[a + d]
      BY <1>2, <2>1
    <2>3. Doubled[a + d] \in Nat /\ Doubled[a] \in Nat
      BY <1>1, <2>1
    <2>4. Doubled[a] <= Doubled[a + d]
      BY <1>4, <2>1
    <2> QED BY <2>2, <2>3, <2>4
  <1> HIDE DEF T
  <1>5. Nat \subseteq T
    BY <1>3, <1>4, SetInduction
  <1>6. b - a \in T /\ a + (b - a) = b /\ b <= MaxValue
    BY <1>5, HistogramAssumption
  <1>7. Doubled[a] <= Doubled[b]
    BY <1>6 DEF T
  <1> QED BY <1>1, <1>7

\* The resolution of the published percentiles is that of the octave of v.
LEMMA ResolutionOfOctave ==
  ASSUME NEW v \in Nat, HdrTill <= v, NEW k \in 0..(OctaveCount - 1), Holds(k, v)
  PROVE  Resolution(v) = ForEachOctave[k].span \div ForEachOctave[k].nsubs
  <1> DEFINE o == ForEachOctave[k]
             Is(n) == Doubled[n] <= v /\ v < Doubled[n + 1]
  <1>1. OctaveCount \in Nat /\ OctaveCount <= MaxValue /\ k \in 0..MaxValue /\ o.start < MaxValue
    BY OctaveCountFacts, HistogramAssumption
  <1>2. /\ k \in Nat /\ k + 1 \in 0..MaxValue /\ k \in 0..(MaxValue - 1) /\ k + 1 # 0 /\ (k + 1) - 1 = k
    BY <1>1, HistogramAssumption
  <1>3. /\ o.start \in Nat /\ o.end \in Nat /\ o.size \in Nat /\ o.span \in Nat /\ o.nsubs \in Nat
        /\ o.span = o.end - o.start /\ o.start = o.size /\ o.span >= 1
        /\ o.nsubs = Least(o.span, SubBucketsPerOctave)
    BY <1>1, OctaveNumbers
  <1>4. o.end = Least(o.start + o.size, MaxValue)
    BY <1>1, OctaveParts
  <1>5. Doubled[k] = o.size /\ Doubled[k + 1] = 2 * o.size
    <2>1. ForEachOctave[k + 1].size = 2 * ForEachOctave[k].size
      BY <1>2, OctaveStep
    <2> QED BY <1>1, <1>2, <2>1, DoubledSize
  <1>6. o.start <= v /\ v < o.end
    BY DEF Holds
  <1> HIDE DEF o
  <1>7. Is(k)
    BY <1>3, <1>4, <1>5, <1>6, HistogramAssumption DEF Least
  <1>8. ASSUME NEW n \in 0..(MaxValue - 1), Is(n) PROVE n = k
    <2>1. n \in Nat /\ n \in 0..MaxValue /\ n + 1 \in 0..MaxValue
      BY HistogramAssumption
    <2>2. CASE n < k
      <3>1. n + 1 <= k
        BY <1>2, <2>1, <2>2
      <3>2. Doubled[n + 1] \in Nat /\ Doubled[k] \in Nat /\ Doubled[n + 1] <= Doubled[k]
        BY <1>1, <2>1, <3>1, DoubledGrows
      <3> QED BY <1>7, <1>8, <3>2
    <2>3. CASE k < n
      <3>1. k + 1 <= n
        BY <1>2, <2>1, <2>3
      <3>2. Doubled[k + 1] \in Nat /\ Doubled[n] \in Nat /\ Doubled[k + 1] <= Doubled[n]
        BY <1>2, <2>1, <3>1, DoubledGrows
      <3> QED BY <1>7, <1>8, <3>2
    <2> QED BY <1>2, <2>1, <2>2, <2>3
  <1> DEFINE c == CHOOSE n \in 0..(MaxValue - 1) : Is(n)
             span == Least(Doubled[c], MaxValue - Doubled[c])
  <1>9. c = k
    <2> HIDE DEF Is
    <2>1. c \in 0..(MaxValue - 1) /\ Is(c)
      BY <1>2, <1>7
    <2> QED BY <1>8, <2>1
  <1>10. Resolution(v) = IF span <= SubBucketsPerOctave THEN 1 ELSE span \div SubBucketsPerOctave
    <2>1. ~(v < HdrTill)
      BY HistogramAssumption
    <2> QED BY <2>1 DEF Resolution
  <1> HIDE DEF c
  <1>11. span = o.span
    BY <1>3, <1>4, <1>5, <1>9, HistogramAssumption DEF Least
  <1> HIDE DEF span
  <1>12. CASE o.span <= SubBucketsPerOctave
    <2>1. o.nsubs = o.span
      BY <1>3, <1>12 DEF Least
    <2>2. o.span \div o.span = 1
      BY <1>3
    <2>3. Resolution(v) = 1
      BY <1>10, <1>11, <1>12
    <2> QED BY <2>1, <2>2, <2>3 DEF o
  <1>13. CASE ~(o.span <= SubBucketsPerOctave)
    <2>1. o.nsubs = SubBucketsPerOctave
      BY <1>3, <1>13 DEF Least
    <2>2. Resolution(v) = o.span \div SubBucketsPerOctave
      BY <1>10, <1>11, <1>13
    <2> QED BY <2>1, <2>2 DEF o
  <1> QED BY <1>12, <1>13

\* The upper bound of the bucket of v lies within the resolution above v.
LEMMA ReportedClose ==
  ASSUME NEW v \in Nat, v < MaxValue
  PROVE  LET u == bucketUpperBound(GetBucketIndex(v)) IN v <= u /\ u <= v + Resolution(v)
  <1> DEFINE u == bucketUpperBound(GetBucketIndex(v))
  <1>1. /\ u \in Nat /\ v <= u
        /\ v < HdrTill => u = v + 1
        /\ \A k \in 0..(OctaveCount - 1) : HdrTill <= v /\ Holds(k, v) =>
              u <= v + ForEachOctave[k].span \div ForEachOctave[k].nsubs
    BY UpperBound
  <1> HIDE DEF u
  <1>2. CASE v < HdrTill
    <2>1. Resolution(v) = 1
      BY <1>2 DEF Resolution
    <2>2. u <= v + Resolution(v)
      BY <1>1, <1>2, <2>1
    <2> QED BY <1>1, <2>2 DEF u
  <1>3. CASE HdrTill <= v
    <2>1. PICK k \in 0..(OctaveCount - 1) : Holds(k, v)
      BY <1>3, Located
    <2>2. Resolution(v) = ForEachOctave[k].span \div ForEachOctave[k].nsubs
      BY <1>3, <2>1, ResolutionOfOctave
    <2>3. u <= v + Resolution(v)
      BY <1>1, <1>3, <2>1, <2>2
    <2> QED BY <1>1, <2>3 DEF u
  <1> QED BY <1>2, <1>3, HistogramAssumption

\* The number of transactions of a set is its total.
LEMMA NumberTotal ==
  ASSUME BagOfTransactions(log), NEW S, NEW U, S = DOMAIN log \cap U
  PROVE  Number(S) = Total(log, U)
  BY DEF Number, Total

\* The finished transactions by outcome.
LEMMA FinishedPart ==
  ASSUME BagOfTransactions(log), NEW O
  PROVE  Finished(O) = DOMAIN log \cap Part(Instances, Threads, O)
  <1>1. BagToSet(log) = DOMAIN log
    BY DEF BagToSet
  <1>2. \A e \in DOMAIN log : e \in Transactions /\ e.worker \in Instances /\ e.thread \in Threads
    BY DEF BagOfTransactions, Transactions
  <1> QED BY <1>1, <1>2 DEF Finished, Part

\* A histogram of all the finished transactions is faithful to them.
LEMMA FieldFaithful ==
  ASSUME BagOfTransactions(log), NEW field, NEW val, Valued(log, val),
         \A e \in DOMAIN log : val[e] = e[field],
         NEW U, Done = DOMAIN log \cap U, Done # {},
         NEW h, Represents(h, log, U, val, 0)
  PROVE  Faithful(h, field)
  <1>1. h \in RawType /\ Counts(h, log, U, val) /\ Extremes(h, log, U, val, 0)
    BY DEF Represents
  <1>2. Table(log) /\ Table(Weighted(log, val)) /\ DOMAIN Weighted(log, val) = DOMAIN log
        /\ \A e \in DOMAIN log : Weighted(log, val)[e] = log[e] * val[e]
    BY WeightedTable
  <1>3. h.SumValues = SumFunction([e \in Done |-> log[e] * e[field]])
    <2> DEFINE f == [e \in Done |-> log[e] * e[field]]
               w == Weighted(log, val)
    <2>1. DOMAIN f = Done /\ \A e \in Done : f[e] = w[e] /\ w[e] \in Nat
      BY <1>2 DEF Table
    <2>2. IsFiniteSet(Done)
      BY <1>2, FS_Subset DEF Table
    <2>3. h.SumValues = Total(w, U)
      BY <1>1 DEF Counts
    <2> HIDE DEF f
    <2>4. SumFunctionOnSet(f, Done) = SumFunctionOnSet(w, Done)
      <3> HIDE DEF w
      <3> QED BY <2>1, <2>2, SumCongruence
    <2>5. SumFunction(f) = SumFunctionOnSet(f, Done)
      BY <2>1 DEF SumFunction
    <2>6. Total(w, U) = SumFunctionOnSet(w, Done)
      BY <1>2 DEF Total
    <2>7. h.SumValues = SumFunction(f)
      BY <2>3, <2>4, <2>5, <2>6
    <2> QED BY <2>7 DEF f
  <1>4. \E e \in DOMAIN log : e \in U
    OBVIOUS
  <1>5. \E e \in Done : e[field] = h.MinRecorded
    BY <1>1, <1>4 DEF Extremes
  <1>6. \E e \in Done : e[field] = h.MaxRecorded
    BY <1>1, <1>4 DEF Extremes
  <1>7. \A e \in Done : h.MinRecorded <= e[field] /\ e[field] <= h.MaxRecorded
    BY <1>1 DEF Extremes
  <1>8. h.TotalCount = Number(Done) /\ h.TotalCount # 0
    <2>1. h.TotalCount = Total(log, U)
      BY <1>1 DEF Counts
    <2>2. Number(Done) = Total(log, U)
      BY NumberTotal
    <2>3. Total(log, U) # 0
      BY <1>4, TotalZero
    <2> QED BY <2>1, <2>2, <2>3
  <1>9. ASSUME NEW p \in Percentiles
        PROVE  \E e \in Done :
                  LET v == e[field]
                      reported == ValueAtPercentile(h, p)
                  IN  /\ HasRank(field, v, Rank(Number(Done), p))
                      /\ IF v >= MaxValue THEN reported = MaxValue
                         ELSE v <= reported /\ reported <= v + Resolution(v)
    <2>1. PICK e \in DOMAIN log :
             /\ e \in U
             /\ Total(log, Below(U, val, val[e])) < Rank(h.TotalCount, p)
             /\ Rank(h.TotalCount, p) <= Total(log, AtMost(U, val, val[e]))
             /\ IF val[e] >= MaxValue THEN ValueAtPercentile(h, p) = MaxValue
                ELSE ValueAtPercentile(h, p) = bucketUpperBound(GetBucketIndex(val[e]))
      BY <1>8, PercentileFound
    <2> DEFINE v == e[field]
    <2>2. e \in Done /\ val[e] = v /\ v \in Nat
      BY <2>1 DEF Valued
    <2>3. Number({y \in Done : y[field] < v}) = Total(log, Below(U, val, v))
      <3>1. {y \in Done : y[field] < v} = DOMAIN log \cap Below(U, val, v)
        BY DEF Below
      <3> QED BY <3>1, NumberTotal
    <2>4. Number({y \in Done : y[field] <= v}) = Total(log, AtMost(U, val, v))
      <3>1. {y \in Done : y[field] <= v} = DOMAIN log \cap AtMost(U, val, v)
        BY DEF AtMost
      <3> QED BY <3>1, NumberTotal
    <2>5. HasRank(field, v, Rank(Number(Done), p))
      <3> HIDE DEF v
      <3> QED BY <1>8, <2>1, <2>2, <2>3, <2>4 DEF HasRank
    <2>6. IF v >= MaxValue THEN ValueAtPercentile(h, p) = MaxValue
          ELSE v <= ValueAtPercentile(h, p) /\ ValueAtPercentile(h, p) <= v + Resolution(v)
      <3> HIDE DEF v
      <3>1. CASE v >= MaxValue
        BY <2>1, <2>2, <3>1
      <3>2. CASE ~(v >= MaxValue)
        <4>1. v < MaxValue
          BY <2>2, <3>2, HistogramAssumption
        <4>2. ValueAtPercentile(h, p) = bucketUpperBound(GetBucketIndex(v))
          BY <2>1, <2>2, <3>2
        <4>3. /\ v <= bucketUpperBound(GetBucketIndex(v))
              /\ bucketUpperBound(GetBucketIndex(v)) <= v + Resolution(v)
          BY <2>2, <4>1, ReportedClose
        <4> QED BY <3>2, <4>2, <4>3
      <3> QED BY <3>1, <3>2
    <2> QED BY <2>2, <2>5, <2>6
  <1> QED BY <1>3, <1>5, <1>6, <1>7, <1>9 DEF Faithful

\* assignment_valid: the ranges are those the consolidation expects.
LEMMA AssignmentValid ==
  ASSUME AssignmentInv, Assigned
  PROVE  ValidateRunConfigAssignment
  <1>1. Served /\ Accepted /\ i = InstanceCount /\ start = Warehouses + 1
    BY AllGiven
  <1>2. start - 1 = Warehouses /\ 1..i = Instances
    BY <1>1, ConstantFacts DEF Instances
  <1>3. ASSUME NEW k \in Instances
        PROVE  ranges[k].Start \in Int /\ ranges[k].End \in Int
    BY DEF AssignmentInv, AssignmentTypeOK
  <1>4. ASSUME NEW k \in Instances
        PROVE  /\ 0 < ranges[k].Start /\ ranges[k].Start < ranges[k].End
               /\ ranges[k].End <= Warehouses + 1
    <2>1. /\ 1 <= ranges[k].Start /\ ranges[k].End = ranges[k].Start + Count(k - 1)
          /\ ranges[k].End <= start
      BY <1>1, <1>2 DEF Served
    <2>2. k - 1 \in Nat
      BY ConstantFacts DEF Instances
    <2>3. Count(k - 1) \in Nat /\ Count(k - 1) >= 1
      BY <1>1, <2>2, Shares
    <2> QED BY <1>1, <1>3, <2>1, <2>3, ConstantFacts
  <1>5. ASSUME NEW k \in Instances, NEW l \in Instances \ {k},
               NEW w \in ranges[k].Start..(ranges[k].End - 1)
        PROVE  ~Owns(l, w)
    <2>1. k \in Int /\ l \in Int /\ (k < l \/ l < k)
      BY ConstantFacts DEF Instances
    <2>2. k < l => ranges[k].End <= ranges[l].Start
      BY <1>1, <1>2 DEF Served
    <2>3. l < k => ranges[l].End <= ranges[k].Start
      BY <1>1, <1>2 DEF Served
    <2>4. /\ ranges[k].Start \in Int /\ ranges[k].End \in Int
          /\ ranges[l].Start \in Int /\ ranges[l].End \in Int
      BY <1>3
    <2>5. w \in Int /\ ranges[k].Start <= w /\ w < ranges[k].End
      BY <2>4
    <2> QED BY <2>1, <2>2, <2>3, <2>4, <2>5 DEF Owns
  <1>6. \A w \in 1..Warehouses : \E k \in Instances : Owns(k, w)
    BY <1>1, <1>2 DEF Served
  <1> QED BY <1>4, <1>5, <1>6 DEF ValidateRunConfigAssignment

\* What is published is true of all that was measured: the counters are the
\* numbers of finished transactions, the sums and extremes are exact, and every
\* percentile is the value of its rank, from above within the resolution.
THEOREM PublishedTrue == Spec => []PublishedFiguresTrue
  <1>1. ASSUME ResultsInv PROVE PublishedFiguresTrue
    <2> SUFFICES ASSUME verdict = "published"
                 PROVE  /\ \A t \in Terminals : recording[t] = None
                        /\ \A o \in {"OK", "UserAborted", "Failed"} : counters[o] = Number(Finished({o}))
                        /\ counters.warehouses = Warehouses /\ ValidateRunConfigAssignment
                        /\ Done # {} => Faithful(merged.full, "full") /\ Faithful(merged.txn, "txn")
      BY DEF PublishedFiguresTrue
    <2>1. BagOfTransactions(log) /\ Valued(log, Full) /\ Valued(log, Txn) /\ MergeOK
      BY <1>1, BagValued DEF ResultsInv
    <2>2. at = InstanceCount + 1 /\ at # 1 /\ 1..(at - 1) = Instances /\ at - 1 = InstanceCount
      <3>1. at = InstanceCount + 1
        BY <2>1 DEF MergeOK
      <3> QED BY <3>1, ConstantFacts DEF Instances
    <2>3. \A k \in Instances : k \in joined
      BY <1>1, <2>1, <2>2 DEF MergeOK, ResultsInv, ResultOK
    <2>4. ASSUME NEW t \in Terminals PROVE recording[t] = None
      <3>1. recording[t] \in Transactions \cup {None}
        BY <1>1 DEF ResultsInv, RecordingOK
      <3>2. recording[t] # None => recording[t].worker \notin joined
        BY <1>1 DEF ResultsInv, RecordingOK
      <3>3. recording[t] \in Transactions => recording[t].worker \in Instances
        BY DEF Transactions
      <3> QED BY <2>3, <3>1, <3>2, <3>3
    <2>5. ASSUME NEW o \in {"OK", "UserAborted", "Failed"} PROVE counters[o] = Number(Finished({o}))
      <3>1. counters[o] = Total(log, Part(1..(at - 1), Threads, {o}))
        BY <2>1 DEF MergeOK, Tally, Outcomes
      <3>2. Finished({o}) = DOMAIN log \cap Part(Instances, Threads, {o})
        BY <2>1, FinishedPart
      <3>3. Number(Finished({o})) = Total(log, Part(Instances, Threads, {o}))
        BY <2>1, <3>2, NumberTotal
      <3> QED BY <2>2, <3>1, <3>3
    <2>6. Assigned /\ AssignmentInv
      <3>1. 1 \in Instances
        BY ConstantFacts DEF Instances
      <3> QED BY <1>1, <2>3, <3>1 DEF ResultsInv, JoinedOK
    <2>7. counters.warehouses = Warehouses
      <3>1. counters.warehouses = Given(InstanceCount)
        BY <2>1, <2>2 DEF MergeOK
      <3>2. Served /\ i = InstanceCount /\ start = Warehouses + 1
        BY <2>6, AllGiven
      <3>3. start = 1 + Given(InstanceCount)
        BY <3>2 DEF Served
      <3>4. Given(InstanceCount) \in Nat
        BY ConstantFacts, Shares
      <3> QED BY <3>1, <3>2, <3>3, <3>4, ConstantFacts
    <2>8. ValidateRunConfigAssignment
      BY <2>6, AssignmentValid
    <2>9. ASSUME Done # {} PROVE Faithful(merged.full, "full") /\ Faithful(merged.txn, "txn")
      <3> DEFINE U == Part(Instances, Threads, Complete)
      <3>1. Done = DOMAIN log \cap U
        BY <2>1, FinishedPart DEF Done, Complete
      <3>2. Latency(merged, log, Instances, Threads, 0)
        <4>1. ~(DOMAIN log \cap Part(1..(at - 1), Threads, Complete) = {})
          BY <2>2, <2>9, <3>1
        <4>2. Latency(merged, log, 1..(at - 1), Threads, 0)
          BY <2>1, <4>1 DEF MergeOK
        <4> QED BY <2>2, <4>2
      <3>3. \A e \in DOMAIN log : Full[e] = e["full"] /\ Txn[e] = e["txn"]
        BY <2>1 DEF BagOfTransactions, Full, Txn
      <3>4. /\ Represents(merged.full, log, U, Full, 0)
            /\ Represents(merged.txn, log, U, Txn, 0)
        BY <3>2 DEF Latency
      <3> HIDE DEF U
      <3>5. Faithful(merged.full, "full")
        BY <2>1, <2>9, <3>1, <3>3, <3>4, FieldFaithful
      <3>6. Faithful(merged.txn, "txn")
        BY <2>1, <2>9, <3>1, <3>3, <3>4, FieldFaithful
      <3> QED BY <3>5, <3>6
    <2> QED BY <2>4, <2>5, <2>7, <2>8, <2>9
  <1> QED BY <1>1, ResultsInvariance, PTL
=============================================================================
