----------------------------- MODULE RawHistogram -----------------------------
(***************************************************************************)
(* The histograms of result.json as the consolidation treats them: it      *)
(* rebuilds the layout of the buckets from its parameters, checks what a   *)
(* worker claims against it, and merges and reports.                       *)
(*                                                                         *)
(* Source: src/mind/internal/histogram/merge.go, which mirrors             *)
(* THistogram in another language and must agree with it bucket by bucket. *)
(* All histograms of a run have one layout, unit and pair of parameters;   *)
(* the checks that refuse others are left out.                             *)
(***************************************************************************)
EXTENDS Histogram

\* start and size after n rounds of the loop of octaves.
octaveLoop[n \in 0..MaxValue] ==
    IF n = 0 THEN [start |-> HdrTill, size |-> HdrTill]
    ELSE LET prev == octaveLoop[n - 1] IN
         [start |-> Least(prev.start + prev.size, MaxValue), size |-> 2 * prev.size]

\* octaves: the sequence the loop appends to while start < maxValue.
octaves ==
    LET from(n) == octaveLoop[n].start
        count == CHOOSE n \in 0..MaxValue :
                    from(n) >= MaxValue /\ \A m \in 0..(n - 1) : from(m) < MaxValue
        span(k) == from(k) - from(k - 1)
    IN  [k \in 1..count |->
           [start |-> from(k - 1), end |-> from(k), span |-> span(k),
            nsubs |-> IF span(k) < SubBucketsPerOctave THEN span(k)
                      ELSE SubBucketsPerOctave]]

\* First bucket of the k-th octave.
octaveIndex[k \in 1..(Len(octaves) + 1)] ==
    IF k = 1 THEN HdrTill ELSE octaveIndex[k - 1] + octaves[k - 1].nsubs

ExpectedBucketCount == octaveIndex[Len(octaves) + 1]

\* -1: the value belongs to the overflow.
bucketIndex(value) ==
    IF value >= MaxValue THEN -1
    ELSE IF value < HdrTill THEN value
    ELSE LET k == CHOOSE n \in 1..Len(octaves) :
                     octaves[n].start <= value /\ value < octaves[n].end
             o == octaves[k]
         IN  octaveIndex[k] + Least(((value - o.start) * o.nsubs) \div o.span, o.nsubs - 1)

bucketUpperBound(b) ==
    IF b < HdrTill THEN b + 1
    ELSE LET k == CHOOSE n \in 1..Len(octaves) :
                     octaveIndex[n] <= b /\ b < octaveIndex[n + 1]
             o == octaves[k]
         IN  Least(o.start + ((b - octaveIndex[k] + 1) * o.span) \div o.nsubs, o.end)

\* The counts up to and including each bucket.
Running(h) ==
    LET run[b \in DOMAIN h.Buckets] ==
          h.Buckets[b] + (IF b = 0 THEN 0 ELSE run[b - 1])
    IN  run

validateSumBounds(h) ==
    IF h.TotalCount = 1
    THEN h.MinRecorded = h.MaxRecorded /\ h.SumValues = h.MinRecorded
    ELSE /\ h.SumValues >= h.MinRecorded * (h.TotalCount - 1) + h.MaxRecorded
         /\ h.SumValues <= h.MaxRecorded * h.TotalCount

\* The extremes a worker claims lie in the first and last occupied bucket.
validateExtremaBuckets(h) ==
    LET occupied == {b \in DOMAIN h.Buckets : h.Buckets[b] # 0}
        first == CHOOSE b \in occupied : \A c \in occupied : b <= c
        last == CHOOSE b \in occupied : \A c \in occupied : b >= c
    IN  IF h.TotalCount = h.OverflowCount
        THEN occupied = {} /\ h.MinRecorded >= MaxValue /\ h.MaxRecorded >= MaxValue
        ELSE /\ occupied # {}
             /\ bucketIndex(h.MinRecorded) = first
             /\ IF h.OverflowCount > 0 THEN h.MaxRecorded >= MaxValue
                ELSE bucketIndex(h.MaxRecorded) = last

Validate(h) ==
    /\ DOMAIN h.Buckets = 0..(ExpectedBucketCount - 1)
    /\ h.TotalCount = Running(h)[ExpectedBucketCount - 1] + h.OverflowCount
    /\ IF h.TotalCount = 0
       THEN h.SumValues = 0 /\ h.OverflowCount = 0
            /\ h.MinRecorded = 0 /\ h.MaxRecorded = 0
       ELSE /\ h.MinRecorded <= h.MaxRecorded
            /\ validateSumBounds(h)
            /\ validateExtremaBuckets(h)

FaultMerge(dst, src) ==
    [Buckets |-> [b \in DOMAIN src.Buckets |-> dst.Buckets[b] + src.Buckets[b]],
     TotalCount |-> dst.TotalCount + src.TotalCount,
     OverflowCount |-> dst.OverflowCount + src.OverflowCount,
     MinRecorded |-> Least(dst.MinRecorded, src.MinRecorded),
     MaxRecorded |-> Greatest(dst.MaxRecorded, src.MaxRecorded),
     SumValues |-> dst.SumValues + src.SumValues]

\* Merge of two histograms that pass Validate.
Merge(dst, src) ==
    [Buckets |-> [b \in DOMAIN src.Buckets |-> dst.Buckets[b] + src.Buckets[b]],
     TotalCount |-> dst.TotalCount + src.TotalCount,
     OverflowCount |-> dst.OverflowCount + src.OverflowCount,
     MinRecorded |-> IF src.TotalCount > 0
                        /\ (dst.TotalCount = 0 \/ src.MinRecorded < dst.MinRecorded)
                     THEN src.MinRecorded ELSE dst.MinRecorded,
     MaxRecorded |-> IF src.TotalCount > 0
                        /\ (dst.TotalCount = 0 \/ src.MaxRecorded > dst.MaxRecorded)
                     THEN src.MaxRecorded ELSE dst.MaxRecorded,
     SumValues |-> dst.SumValues + src.SumValues]

\* The rank of a percentile: math.Ceil(percentile * total / 100).
Rank(total, percentile) == (percentile * total + 99) \div 100

ValueAtPercentile(h, percentile) ==
    LET target == Rank(h.TotalCount, percentile)
        reached == {b \in DOMAIN h.Buckets : Running(h)[b] >= target}
    IN  IF h.TotalCount = 0 THEN 0
        ELSE IF reached # {}
        THEN bucketUpperBound(CHOOSE b \in reached : \A c \in reached : b <= c)
        ELSE IF h.OverflowCount > 0 /\ h.TotalCount >= target THEN MaxValue
        ELSE Uint64Max

Percentiles == {50, 90, 95, 99}
=============================================================================
