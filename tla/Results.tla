------------------------------- MODULE Results -------------------------------
(***************************************************************************)
(* From samples to the published figures: the warehouses are divided among *)
(* the workers, the terminals of a worker record what they measure in the  *)
(* statistics of their thread, the worker joins its threads, adds their    *)
(* statistics up and writes result.json, and the consolidation checks and  *)
(* merges the results and reports percentiles.                             *)
(*                                                                         *)
(* Source: src/tpcc/harness/terminal.h (TTerminalStats), artifacts.cpp,    *)
(* src/tpcc/dbms/pgsql/runner.cpp,                                         *)
(* src/mind/internal/consolidate/consolidate.go.                           *)
(*                                                                         *)
(* One transaction type stands for the five, which share nothing; one      *)
(* terminal for those of a warehouse; one component histogram for five.    *)
(* Every worker ends with status 0 (see Measurement for the others).       *)
(***************************************************************************)
EXTENDS Assignment, RawHistogram, FiniteSets, Functions, Bags

CONSTANTS
    ThreadCount,  \* threads of a worker
    Samples,      \* [full, txn]: latencies a terminal may measure
    MaxSamples    \* bound: transactions finished in the measurement

ASSUME ResultsAssumption ==
    /\ Accepted
    /\ ThreadCount \in Nat \ {0} /\ MaxSamples \in Nat
    /\ Samples \subseteq [full : 0..(Uint64Max - 1), txn : 0..(Uint64Max - 1)]

VARIABLES
    recording,  \* terminal -> the transaction it has counted and not yet recorded
    stats,      \* worker -> thread -> TTransactionStats
    joined,     \* workers whose threads have ended
    result,     \* worker -> its entry in result.json
    at,         \* the next worker of the consolidation
    merged,     \* histograms merged so far
    counters,   \* counters added up so far, and the warehouses
    verdict,    \* how the consolidation ended
    log         \* history: the bag of finished transactions that are recorded

measureVars == <<recording, stats, joined, log>>
mergeVars == <<at, merged, counters, verdict>>
vars == <<assignmentVars, measureVars, result, mergeVars>>

Terminals == 1..Warehouses
Threads == 0..(ThreadCount - 1)
Transaction(k, h, outcome, s) ==
    [worker |-> k, thread |-> h, outcome |-> outcome, full |-> s.full, txn |-> s.txn]
NoSample == [full |-> 0, txn |-> 0]
None == Transaction(0, 0, "None", NoSample)
NoStats == [OK |-> 0, UserAborted |-> 0, Failed |-> 0,
            full |-> NewHistogram, txn |-> NewHistogram]
NoResult == [written |-> FALSE]

Init ==
    /\ AssignmentInit
    /\ recording = [t \in Terminals |-> None]
    /\ stats = [k \in Instances |-> [h \in Threads |-> NoStats]]
    /\ joined = {}
    /\ log = EmptyBag
    /\ result = [k \in Instances |-> NoResult]
    /\ at = 1
    /\ merged = <<>>
    /\ counters = [OK |-> 0, UserAborted |-> 0, Failed |-> 0, warehouses |-> 0]
    /\ verdict = "none"

Assign ==
    /\ BalancedContiguous
    /\ UNCHANGED <<measureVars, result, mergeVars>>

-----------------------------------------------------------------------------
(* Recording.                                                              *)

\* The terminals of a worker are dealt out to its threads in turn.
WorkerOf(t) == CHOOSE k \in Instances : Owns(k, t)
ThreadOf(t) == (t - ranges[WorkerOf(t)].Start) % ThreadCount

\* A thread finishes one transaction at a time.
MayFinish(t) ==
    /\ Assigned /\ WorkerOf(t) \notin joined
    /\ \A u \in Terminals : WorkerOf(u) = WorkerOf(t) /\ ThreadOf(u) = ThreadOf(t)
                              => recording[u] = None
    /\ SumFunction(log) + Cardinality({u \in Terminals : recording[u] # None}) < MaxSamples

\* AddOK and AddUserAborted count at once and record under the lock after that.
CountCompleted(t, s, outcome) ==
    /\ MayFinish(t)
    /\ stats' = [stats EXCEPT ![WorkerOf(t)][ThreadOf(t)][outcome] = @ + 1]
    /\ recording' = [recording EXCEPT ![t] = Transaction(WorkerOf(t), ThreadOf(t), outcome, s)]
    /\ UNCHANGED <<assignmentVars, joined, result, mergeVars, log>>

RecordLatency(t) ==
    LET s == recording[t] IN
    /\ s # None
    /\ stats' = [stats EXCEPT ![WorkerOf(t)][ThreadOf(t)].full = RecordValue(@, s.full),
                              ![WorkerOf(t)][ThreadOf(t)].txn = RecordValue(@, s.txn)]
    /\ recording' = [recording EXCEPT ![t] = None]
    /\ log' = log (+) SetToBag({s})
    /\ UNCHANGED <<assignmentVars, joined, result, mergeVars>>

IncFailed(t) ==
    /\ MayFinish(t)
    /\ stats' = [stats EXCEPT ![WorkerOf(t)][ThreadOf(t)].Failed = @ + 1]
    /\ log' = log (+) SetToBag({Transaction(WorkerOf(t), ThreadOf(t), "Failed", NoSample)})
    /\ UNCHANGED <<assignmentVars, recording, joined, result, mergeVars>>

FaultJoin(k) ==
    /\ Assigned /\ k \notin joined
    /\ joined' = joined \cup {k}
    /\ UNCHANGED <<assignmentVars, recording, stats, result, mergeVars, log>>

\* A thread ends between two tasks, never in the middle of recording.
Join(k) ==
    /\ Assigned /\ k \notin joined
    /\ \A t \in Terminals : WorkerOf(t) = k => recording[t] = None
    /\ joined' = joined \cup {k}
    /\ UNCHANGED <<assignmentVars, recording, stats, result, mergeVars, log>>

\* TTransactionStats::Collect
Collect(src, dst) ==
    [OK |-> dst.OK + src.OK, UserAborted |-> dst.UserAborted + src.UserAborted,
     Failed |-> dst.Failed + src.Failed,
     full |-> Add(dst.full, src.full), txn |-> Add(dst.txn, src.txn)]

\* The threads of a worker are collected in turn.
CollectThreads(k) ==
    LET sum[n \in 0..ThreadCount] ==
          IF n = 0 THEN NoStats ELSE Collect(stats[k][n - 1], sum[n - 1])
    IN  sum[ThreadCount]

\* A type nothing happened to is left out.  The retried counter, a figure of its
\* own that nothing else depends on, is kept only as whether it is positive.
WriteWorkerResultJson(k) ==
    LET s == CollectThreads(k) IN
    /\ k \in joined /\ ~result[k].written
    /\ \E retried \in BOOLEAN :
          result' = [result EXCEPT ![k] =
             [written |-> TRUE,
              present |-> retried \/ s.OK + s.UserAborted + s.Failed + s.full.TotalCount > 0,
              OK |-> s.OK, UserAborted |-> s.UserAborted, Failed |-> s.Failed,
              full |-> HistogramRaw(s.full), txn |-> HistogramRaw(s.txn)]]
    /\ UNCHANGED <<assignmentVars, measureVars, mergeVars>>

-----------------------------------------------------------------------------
(* Consolidation.                                                          *)

Completed(r) == r.OK + r.UserAborted

validateCounterHistogramInvariants(r) ==
    IF r.present THEN r.full.TotalCount = Completed(r) ELSE Completed(r) = 0

\* parseWorkerHistograms, with the component.
AcceptedResult(r) ==
    /\ r.present => Validate(r.full) /\ Validate(r.txn)
    /\ validateCounterHistogramInvariants(r)

Absorb(r) ==
    IF ~r.present THEN merged
    ELSE IF merged = <<>> THEN [full |-> r.full, txn |-> r.txn]
    ELSE [full |-> Merge(merged.full, r.full), txn |-> Merge(merged.txn, r.txn)]

\* The results are taken in the order of the workers' names.  Merge refuses a
\* destination that does not pass Validate.
MergeWorker ==
    LET r == result[at] IN
    /\ \A k \in Instances : result[k].written
    /\ verdict = "none" /\ at <= InstanceCount
    /\ IF /\ AcceptedResult(r)
          /\ r.present /\ merged # <<>> => Validate(merged.full) /\ Validate(merged.txn)
       THEN /\ merged' = Absorb(r)
            /\ counters' = [OK |-> counters.OK + r.OK,
                            UserAborted |-> counters.UserAborted + r.UserAborted,
                            Failed |-> counters.Failed + r.Failed,
                            warehouses |-> counters.warehouses
                                              + ranges[at].End - ranges[at].Start]
            /\ at' = at + 1
            /\ verdict' = IF at = InstanceCount THEN "published" ELSE "none"
       ELSE /\ verdict' = "refused"
            /\ UNCHANGED <<at, merged, counters>>
    /\ UNCHANGED <<assignmentVars, measureVars, result>>

Next ==
    \/ Assign
    \/ \E t \in Terminals :
          \/ \E s \in Samples, outcome \in {"OK", "UserAborted"} : CountCompleted(t, s, outcome)
          \/ RecordLatency(t) \/ IncFailed(t)
    \/ \E k \in Instances : Join(k) \/ WriteWorkerResultJson(k)
    \/ MergeWorker

Spec == Init /\ [][Next]_vars

-----------------------------------------------------------------------------
(* Properties.                                                             *)

Histograms ==
    [Buckets : [0..(GetTotalBuckets - 1) -> 0..MaxSamples],
     TotalCount : 0..MaxSamples, OverflowCount : 0..MaxSamples,
     MaxRecorded : 0..Uint64Max, MinRecorded : 0..Uint64Max, SumValues : Nat]

\* Every variable has the shape the code gives it; a value is recorded in a
\* bucket that exists ("THistogram internal error").
TypeOK ==
    /\ i \in 0..InstanceCount /\ at \in 1..(InstanceCount + 1) /\ joined \subseteq Instances
    /\ \A t \in Terminals :
          \/ recording[t] = None
          \/ recording[t].outcome \in {"OK", "UserAborted"}
             /\ [full |-> recording[t].full, txn |-> recording[t].txn] \in Samples
    /\ \A k \in Instances, h \in Threads :
          /\ stats[k][h].full \in Histograms /\ stats[k][h].txn \in Histograms
          /\ \A o \in {"OK", "UserAborted", "Failed"} : stats[k][h][o] \in 0..MaxSamples
    /\ verdict \in {"none", "published", "refused"}

\* Whatever a worker's threads measured and in whatever order, what it writes
\* satisfies the consolidation's checks, and so does every merge of such
\* results: the counters agree with the histograms, and the two
\* implementations of the bucket layout with one another.
HonestResultsAccepted == verdict # "refused"

Finished(outcomes) == {e \in BagToSet(log) : e.outcome \in outcomes}
Done == Finished({"OK", "UserAborted"})
Number(S) == SumFunctionOnSet(log, S)

\* v is the value of the given rank among those recorded in a field.
HasRank(field, v, rank) ==
    /\ Number({e \in Done : e[field] < v}) < rank
    /\ rank <= Number({e \in Done : e[field] <= v})

\* How far above v a percentile may lie: 1 while values are counted one by one,
\* the width of a sub-bucket in the octave of v beyond.
Doubled[n \in 0..MaxValue] == IF n = 0 THEN HdrTill ELSE 2 * Doubled[n - 1]
Resolution(v) ==
    IF v < HdrTill THEN 1
    ELSE LET k == CHOOSE n \in 0..(MaxValue - 1) : Doubled[n] <= v /\ v < Doubled[n + 1]
             span == Least(Doubled[k], MaxValue - Doubled[k])
         IN  IF span <= SubBucketsPerOctave THEN 1 ELSE span \div SubBucketsPerOctave

\* What a published histogram says of the values recorded in a field.
Faithful(h, field) ==
    /\ h.SumValues = SumFunction([e \in Done |-> log[e] * e[field]])
    /\ \E e \in Done : e[field] = h.MinRecorded
    /\ \E e \in Done : e[field] = h.MaxRecorded
    /\ \A e \in Done : h.MinRecorded <= e[field] /\ e[field] <= h.MaxRecorded
    /\ \A p \in Percentiles : \E e \in Done :
          LET v == e[field]
              reported == ValueAtPercentile(h, p)
          IN  /\ HasRank(field, v, Rank(Number(Done), p))
              /\ IF v >= MaxValue THEN reported = MaxValue
                 ELSE v <= reported /\ reported <= v + Resolution(v)

\* The published figures are those of all the samples of all the workers, each
\* taken once: counts, sum and extremes exactly, a percentile from above within
\* the resolution of its octave, and a censored one as MaxValue.  They are those
\* of all the warehouses, and the assignment is reported as valid; no
\* transaction that was counted is still to be recorded.
PublishedFiguresTrue ==
    verdict = "published" =>
       /\ \A t \in Terminals : recording[t] = None
       /\ \A o \in {"OK", "UserAborted", "Failed"} : counters[o] = Number(Finished({o}))
       /\ counters.warehouses = Warehouses /\ ValidateRunConfigAssignment
       /\ Done # {} => Faithful(merged.full, "full") /\ Faithful(merged.txn, "txn")
=============================================================================
