----------------------------- MODULE RankFusion -----------------------------
(***************************************************************************)
(* How MetricRetrievalService turns the candidates of the two searches     *)
(* into hits: weighted reciprocal rank fusion (_rank), the limit, and the  *)
(* decision whether there is evidence to answer from (_has_evidence).      *)
(* A candidate is [id, score]; ids are numbers in the order of their       *)
(* names; scores are integers, NoScore is the None of a hit that a search  *)
(* has not found.  Fused scores are exact fractions.                       *)
(***************************************************************************)
EXTENDS Integers, Sequences, FiniteSets, FiniteSetsExt, SequencesExt, Ranking

CONSTANTS
  LexicalWeight, VectorWeight,     \* of the fusion: 3 and 1
  MinLexical, MinVector            \* min_lexical_score, min_vector_score

\* (The settings allow thresholds of 0 and -1, too, at which a missing score is evidence.)
ASSUME FusionAssumption == {LexicalWeight, VectorWeight, MinLexical, MinVector} \subseteq Nat \ {0}

NoScore == -9

Ids(list) == {list[i].id : i \in DOMAIN list}
RankOf(list, id) == CHOOSE i \in DOMAIN list : list[i].id = id
ScoreOf(list, id) == IF id \in Ids(list) THEN list[RankOf(list, id)].score ELSE NoScore

Add(p, q) == [num |-> p.num * q.den + q.num * p.den, den |-> p.den * q.den]
Less(p, q) == p.num * q.den < q.num * p.den

Part(list, id, k, weight) == IF id \in Ids(list) THEN [num |-> weight, den |-> k + RankOf(list, id)]
                             ELSE [num |-> 0, den |-> 1]

\* Mutant: the weights are swapped.
MutFused(lexical, vector, id, k) ==
  Add(Part(lexical, id, k, VectorWeight), Part(vector, id, k, LexicalWeight))

Fused(lexical, vector, id, k) ==
  Add(Part(lexical, id, k, LexicalWeight), Part(vector, id, k, VectorWeight))

\* _rank: the ids in their order, then what is known of each.
Order(lexical, vector, mode, k) ==
  CASE mode = "lexical" -> [i \in DOMAIN lexical |-> lexical[i].id]
    [] mode = "vector"  -> [i \in DOMAIN vector |-> vector[i].id]
    [] OTHER ->
       Ranked(Ids(lexical) \cup Ids(vector),
         LAMBDA a, b : \/ Less(Fused(lexical, vector, b, k), Fused(lexical, vector, a, k))
                       \/ ~Less(Fused(lexical, vector, a, k), Fused(lexical, vector, b, k)) /\ a < b)

Hits(lexical, vector, mode, k, limit) ==
  LET order == Order(lexical, vector, mode, k)
  IN [i \in 1..Min({limit, Len(order)}) |->
        [id |-> order[i], lexical |-> ScoreOf(lexical, order[i]), vector |-> ScoreOf(vector, order[i])]]

\* x or default: zero counts as missing, too.
Or(x, default) == IF x \in {NoScore, 0} THEN default ELSE x

\* _has_evidence
HasEvidence(hits, mode) ==
  \E i \in DOMAIN hits :
    \/ mode # "vector" /\ Or(hits[i].lexical, 0) >= MinLexical
    \/ mode # "lexical" /\ Or(hits[i].vector, -1) >= MinVector
=============================================================================
