-------------------------- MODULE MCMetricRetrieval --------------------------
(* A small instance: two processes with different embedding profiles, each   *)
(* with an ingest to serve, and two retrievals at one of them.               *)
EXTENDS MetricRetrieval

CONSTANTS p1, p2, i0, i1, i2, q1, q2, hash, http

MCHome == [c \in Ingests \cup Retrievals |-> IF c = i2 THEN p2 ELSE p1]
MCInitially == [p \in Instances |-> IF p = p1 THEN hash ELSE http]
=============================================================================
