----------------------------- MODULE GraphStore -----------------------------
(***************************************************************************)
(* What GraphStore promises to those who write into it, as the in-memory   *)
(* store keeps it for one tenant: one whole graph per source, replaced in  *)
(* one step.                                                               *)
(***************************************************************************)
CONSTANTS
  Sources,
  Graphs        \* the graphs that may be stored

VARIABLE graphs \* graphs[s]: the graph of source s

Empty == [nodes |-> {}, edges |-> {}]

Init == graphs = [s \in Sources |-> Empty]

replace(s, g) == graphs' = [graphs EXCEPT ![s] = g]

Next == \E s \in Sources, g \in Graphs : replace(s, g)

Spec == Init /\ [][Next]_graphs
=============================================================================
