-------------------------- MODULE MCKnowledgeGraph --------------------------
(* Three extractions, two of them of one source with nothing in common, and *)
(* one question that matches two names and reaches their neighbours.        *)
EXTENDS KnowledgeGraph

CONSTANTS x1, x2, x3, q1

MCExtracted == [x \in Extractions |->
  CASE x = x1 -> [source |-> "s1", names |-> {"a", "b"}, relations |-> {<<"a", "b">>}]
    [] x = x2 -> [source |-> "s1", names |-> {"c", "d"}, relations |-> {<<"c", "d">>, <<"d", "c">>}]
    [] x = x3 -> [source |-> "s2", names |-> {"b"}, relations |-> {<<"b", "b">>}]]
MCQuery == [q \in Questions |-> {"b", "c"}]
MCRank == <<"s1", "a">> :> 1 @@ <<"s2", "b">> :> 2 @@ <<"s1", "b">> :> 3 @@ <<"s1", "c">> :> 4
          @@ <<"s1", "d">> :> 5
MCSize == [node |-> 1, edge |-> 3, document |-> 2]
=============================================================================
