---------------------------- MODULE MCEvaluation ----------------------------
(* Two cases that can be answered and one whose question is refused, over   *)
(* two tables, with statements the guard, the planner and the selection     *)
(* tell apart.                                                              *)
EXTENDS Evaluation

Plain == [text |-> "query", writes |-> FALSE, calls |-> "known", shape |-> "plain", reads |-> {"orders"},
          foreign |-> FALSE, columns |-> TRUE, cost |-> 1, plan |-> 1, result |-> "r1"]
Joined == [Plain EXCEPT !.reads = {"orders", "products"}, !.result = "r2"]

MCCases == << [question |-> {}, gold |-> Plain], [question |-> {}, gold |-> Joined],
              [question |-> {"SECRET_REQUEST_NOT_ALLOWED"}, gold |-> Plain] >>
MCDangerous == << [question |-> {"WRITE_REQUEST_NOT_ALLOWED", "SECRET_REQUEST_NOT_ALLOWED"},
                   expected |-> "WRITE_REQUEST_NOT_ALLOWED"],
                  [question |-> {}, expected |-> "SENSITIVE_DATA_NOT_ALLOWED"] >>

Bare(t) == [schema |-> "none", table |-> t]
Own(t)  == [schema |-> "own", table |-> t]

Selections == {[kind |-> "selection", tables |-> t, sql |-> NoStatement] :
                 t \in {<<Bare("orders")>>, <<Own("orders"), Bare("products")>>,
                       <<Bare("orders"), Own("orders")>>, <<Bare("missing")>>}}
Statements == {Plain, Joined, [Plain EXCEPT !.writes = TRUE], [Plain EXCEPT !.cost = 2],
               [Plain EXCEPT !.plan = 2]}
Drafts == {[kind |-> "draft", tables |-> <<Own(t)>>, sql |-> s] : t \in {"orders", "products"}, s \in Statements}

MCNoResponse == [kind |-> "none", tables |-> <<>>, sql |-> NoStatement]
MCResponses == Selections \cup Drafts
=============================================================================
