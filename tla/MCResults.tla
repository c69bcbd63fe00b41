------------------------------ MODULE MCResults ------------------------------
\* A small instance of Results for TLC.
EXTENDS Results

\* Between the two fields: values counted exactly, in the first octave, in the
\* last, which MaxValue cuts short, and in the overflow; no sub-bucket divides
\* its octave evenly.
MCSamples ==
    {[full |-> 3, txn |-> 0], [full |-> 10, txn |-> 6], [full |-> 14, txn |-> 12]}
=============================================================================
