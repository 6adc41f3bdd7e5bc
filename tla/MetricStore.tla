----------------------------- MODULE MetricStore -----------------------------
(***************************************************************************)
(* What MetricKnowledgeRepository promises for the documents of one        *)
(* tenant, as the in-memory repository keeps it: every title has at most   *)
(* one current document, replacing it is one indivisible step that gives   *)
(* the new document the next version, and the corpus revision counts the   *)
(* replacements.                                                           *)
(***************************************************************************)
EXTENDS Naturals

CONSTANTS
  Titles,
  Documents     \* contents that may be ingested

VARIABLES
  entries,      \* entries[t]: the current document of title t; version 0: none yet
  revision

\* A store that already holds documents may be opened.
Init ==
  /\ \A t \in Titles :
       \/ entries[t] = [version |-> 0, document |-> "none"]
       \/ entries[t].version \in Nat \ {0} /\ entries[t].document \in Documents
  /\ revision \in Nat

replace_document(t, d) ==
  /\ entries' = [entries EXCEPT ![t] = [version |-> entries[t].version + 1, document |-> d]]
  /\ revision' = revision + 1

Next == \E t \in Titles, d \in Documents : replace_document(t, d)

Spec == Init /\ [][Next]_<<entries, revision>>
=============================================================================
