------------------------------ MODULE Histogram ------------------------------
(***************************************************************************)
(* THistogram, the latency histogram of a worker: HdrTill buckets of unit  *)
(* width, then octaves that double in size up to MaxValue, each divided    *)
(* into at most SubBucketsPerOctave buckets, and a count of the values     *)
(* beyond.                                                                 *)
(*                                                                         *)
(* Source: src/tpcc/metrics/histogram.cpp and histogram.h.                 *)
(*                                                                         *)
(* Counts and sums stay far below 2^64: wrap-around and the saturation of  *)
(* the octave bounds are left out.                                         *)
(***************************************************************************)
EXTENDS Integers, Sequences

CONSTANTS
    HdrTill,              \* first value that is not counted exactly
    MaxValue,             \* first value that is not counted in a bucket
    SubBucketsPerOctave,  \* kSubBucketsPerOctave (64)
    Uint64Max             \* numeric_limits<uint64_t>::max(), above every value

ASSUME HistogramAssumption ==
    /\ HdrTill \in Nat \ {0} /\ MaxValue \in Nat /\ HdrTill <= MaxValue
    /\ SubBucketsPerOctave \in Nat \ {0}
    /\ Uint64Max \in Nat /\ MaxValue < Uint64Max

Least(a, b) == IF a <= b THEN a ELSE b
Greatest(a, b) == IF a >= b THEN a ELSE b

SubBucketCount(span) ==
    IF span = 0 THEN 1 ELSE Least(span, SubBucketsPerOctave)

Octave(from, size, index) ==
    LET to == Least(from + size, MaxValue) IN
    [start |-> from, size |-> size, end |-> to, span |-> to - from,
     nsubs |-> SubBucketCount(to - from), index |-> index]

\* The octaves in turn; index is the first bucket of the octave.  From the one
\* that starts at MaxValue on, they are past the end of the loop.
ForEachOctave[k \in 0..MaxValue] ==
    IF k = 0 THEN Octave(HdrTill, HdrTill, HdrTill)
    ELSE LET prev == ForEachOctave[k - 1] IN
         Octave(prev.end, 2 * prev.size, prev.index + prev.nsubs)

Octaves == {o \in {ForEachOctave[k] : k \in 0..MaxValue} : o.start < MaxValue}

GetTotalBuckets ==
    IF Octaves = {} THEN HdrTill
    ELSE LET last == CHOOSE o \in Octaves : o.end = MaxValue IN last.index + last.nsubs

\* The bucket of a value below MaxValue.
GetBucketIndex(value) ==
    IF value < HdrTill THEN value
    ELSE LET o == CHOOSE oct \in Octaves : oct.start <= value /\ value < oct.end
         IN  o.index + Least(((value - o.start) * o.nsubs) \div o.span, o.nsubs - 1)

FaultNewHistogram ==
    [Buckets |-> [b \in 0..GetTotalBuckets |-> 0],
     TotalCount |-> 0, OverflowCount |-> 0,
     MaxRecorded |-> 0, MinRecorded |-> Uint64Max, SumValues |-> 0]

NewHistogram ==
    [Buckets |-> [b \in 0..(GetTotalBuckets - 1) |-> 0],
     TotalCount |-> 0, OverflowCount |-> 0,
     MaxRecorded |-> 0, MinRecorded |-> Uint64Max, SumValues |-> 0]

Increment(buckets, b) == [buckets EXCEPT ![b] = @ + 1]

RecordValue(h, value) ==
    [h EXCEPT !.TotalCount = @ + 1,
              !.MaxRecorded = Greatest(@, value),
              !.MinRecorded = Least(@, value),
              !.SumValues = @ + value,
              !.OverflowCount = IF value >= MaxValue THEN @ + 1 ELSE @,
              !.Buckets = IF value >= MaxValue THEN @
                          ELSE Increment(@, GetBucketIndex(value))]

Add(h, other) ==
    [Buckets |-> [b \in DOMAIN h.Buckets |-> h.Buckets[b] + other.Buckets[b]],
     TotalCount |-> h.TotalCount + other.TotalCount,
     OverflowCount |-> h.OverflowCount + other.OverflowCount,
     MaxRecorded |-> Greatest(h.MaxRecorded, other.MaxRecorded),
     MinRecorded |-> IF other.TotalCount > 0
                     THEN Least(h.MinRecorded, other.MinRecorded) ELSE h.MinRecorded,
     SumValues |-> h.SumValues + other.SumValues]

\* What goes into result.json: an empty histogram has minimum 0 there.
HistogramRaw(h) ==
    [h EXCEPT !.MinRecorded = IF h.TotalCount = 0 THEN 0 ELSE @]
=============================================================================
