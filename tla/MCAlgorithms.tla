----------------------------- MODULE MCAlgorithms -----------------------------
(***************************************************************************)
(* The inputs TLC calls the pure functions on that a cfg cannot write.     *)
(***************************************************************************)
EXTENDS Algorithms

\* Up to five rows.  Periods rise, fall or stay the same, and some have more digits than
\* others: 8 to 12, 10 down to 6, 98 to 102.  One row may be larger than the others.
MCMetrics == {[numeric |-> FALSE, value |-> 0], [numeric |-> TRUE, value |-> -1], [numeric |-> TRUE, value |-> 2]}
MCPeriods == {<<8, 1>>, <<10, -1>>, <<10, 0>>, <<10, 1>>, <<98, 1>>}
MCResults ==
  UNION {{[i \in 1..n |-> [period |-> p[1] + p[2] * (i - 1), numeric |-> metrics[i].numeric,
                           value |-> metrics[i].value, size |-> IF i = big THEN 3 ELSE 1]] :
            p \in MCPeriods, metrics \in [1..n -> MCMetrics], big \in 0..n} : n \in 0..5}

\* The largest graph of three tables with two columns and two keys has 10 entities and 11
\* relations.
MCGraphLimits == [text |-> 2, entities |-> 9, relations |-> 9]
=============================================================================
