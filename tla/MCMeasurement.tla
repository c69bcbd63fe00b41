---- MODULE MCMeasurement ----
\* Small instances of Measurement for TLC.
EXTENDS Measurement
====
