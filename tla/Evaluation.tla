----------------------------- MODULE Evaluation -----------------------------
(***************************************************************************)
(* evaluate_p10: the cases one after the other.  The gold statement of a   *)
(* case is executed, then the question is answered by NL2SQLService and    *)
(* the two results are compared.  Gold statements and candidates go        *)
(* through a SafeQueryService each, only one of which is in use at a time; *)
(* the one for gold statements has no cost estimator.                      *)
(***************************************************************************)
EXTENDS NL2SQL, FiniteSetsExt, SequencesExt

CONSTANTS
  Cases,        \* <<[question, gold], ...>>
  Dangerous     \* <<[question, expected], ...>>

\* EXPLAIN gives every statement a cost and a number of rows.
ASSUME EvaluationAssumption ==
  /\ Len(Cases) \in Nat /\ DOMAIN Cases = 1..Len(Cases)
  /\ Len(Dangerous) \in Nat /\ DOMAIN Dangerous = 1..Len(Dangerous)
  /\ \A sql \in {Cases[i].gold : i \in DOMAIN Cases} \cup {r.sql : r \in Responses} :
       sql.cost \in Int /\ sql.plan \in Int

VARIABLES
  ev,           \* the evaluation: the case it is at and what that case expects
  results,      \* EvaluationCaseResults
  report,       \* the metrics of the report
  faulty        \* a database or a sink has failed, which a healthy one does not

evVars == <<ev, results, report, faulty>>
vars == <<nlVars, evVars>>

NoReport == [cases |-> 0]

\* _selected_tables
SelectedTables(gold) ==
  LET names == SetToSeq(gold.reads) IN [i \in DOMAIN names |-> [schema |-> "none", table |-> names[i]]]

\* Mutant: all selections come before the drafts.
MutScriptedResponses ==
  [k \in 1..(2 * Len(Cases)) |->
     IF k <= Len(Cases) THEN [kind |-> "selection", tables |-> SelectedTables(Cases[k].gold), sql |-> NoStatement]
     ELSE LET gold == Cases[k - Len(Cases)].gold
          IN [kind |-> "draft", tables |-> SelectedTables(gold), sql |-> gold]]

\* _scripted_responses: two answers for every case.
ScriptedResponses ==
  [k \in 1..(2 * Len(Cases)) |->
     LET gold == Cases[(k + 1) \div 2].gold
     IN IF k % 2 = 1 THEN [kind |-> "selection", tables |-> SelectedTables(gold), sql |-> NoStatement]
        ELSE [kind |-> "draft", tables |-> SelectedTables(gold), sql |-> gold]]

Init ==
  /\ LLMInit(ScriptedResponses) /\ QueryInit /\ NLInit
  /\ ev = [at |-> "next", case |-> 1, expected |-> "none"]
  /\ results = <<>>
  /\ report = NoReport
  /\ faulty = FALSE

----------------------------------------------------------------------------

Case == Cases[ev.case]

StartCase ==
  /\ ev.at = "next" /\ ev.case <= Len(Cases)
  /\ query' = Submit(FALSE, Case.gold, Tables)
  /\ ev' = [ev EXCEPT !.at = "gold"]
  /\ UNCHANGED <<llmVars, nl, results, report, faulty>>

GoldDone ==
  /\ ev.at = "gold" /\ query.at = "ok"
  /\ Ask(Case.question)
  /\ query' = NoQuery
  /\ ev' = [ev EXCEPT !.at = "answer", !.expected = Case.gold.result]
  /\ UNCHANGED <<results, report, faulty>>

\* A result is appended and the evaluation turns to the next case.
EndCase(result) ==
  /\ results' = Append(results, result)
  /\ ev' = [ev EXCEPT !.at = "next", !.case = @ + 1, !.expected = "none"]
  /\ query' = NoQuery
  /\ nl' = NoAnswer
  /\ UNCHANGED <<llmVars, report, faulty>>

\* _failed_case
FailedCase(category) ==
  [kind |-> "nl2sql", passed |-> FALSE, safe |-> FALSE, first |-> FALSE, repairs |-> 0,
   category |-> category]

\* Mutant: a gold statement that fails is tried again.
MutGoldFails ==
  /\ ev.at = "gold" /\ query.at = "error"
  /\ ev' = [ev EXCEPT !.at = "next"]
  /\ UNCHANGED <<nlVars, results, report, faulty>>

GoldFails ==
  /\ ev.at = "gold" /\ query.at = "error"
  /\ EndCase(FailedCase("dataset"))

\* _classify_failure
Category(code) ==
  CASE code \in LLMErrors                          -> "model"
    [] code = "NL2SQL_SCHEMA_SELECTION_FAILED"     -> "schema_selection"
    [] code = "NL2SQL_REPAIR_EXHAUSTED"            -> "execution"
    [] code \in {"NL2SQL_QUESTION_REJECTED", "QUERY_APPROVAL_REQUIRED"} -> "safety"
    [] OTHER                                       -> "unknown"

AnswerFails ==
  /\ ev.at = "answer" /\ nl.at = "error"
  /\ EndCase(FailedCase(Category(nl.code)))

\* execution_results_match
Correct == nl.last.result = ev.expected

AnswerDone ==
  /\ ev.at = "answer" /\ nl.at = "ok"
  /\ EndCase([kind |-> "nl2sql", passed |-> Correct, safe |-> TRUE,
              first |-> Correct /\ nl.repairs = 0, repairs |-> nl.repairs,
              category |-> IF Correct THEN "none" ELSE "result_mismatch"])

\* _evaluate_dangerous_case
DangerousResult(case) ==
  LET correct == InspectQuestion(case.question) = case.expected
  IN [kind |-> "dangerous", passed |-> correct, safe |-> FALSE, first |-> FALSE, repairs |-> 0,
      category |-> IF correct THEN "none" ELSE "safety"]

Where(rs, Test(_)) == Cardinality({i \in DOMAIN rs : Test(rs[i])})

\* Mutant: a case counts as failed when its statement did not run.
MutBuildMetrics(rs) ==
  LET categories == {rs[i].category : i \in DOMAIN rs} \ {"none", "result_mismatch"}
  IN [cases    |-> Len(rs),
      passed   |-> Where(rs, LAMBDA r : r.passed),
      safe     |-> Where(rs, LAMBDA r : r.safe),
      first    |-> Where(rs, LAMBDA r : r.first),
      repaired |-> Where(rs, LAMBDA r : r.repairs > 0),
      failures |-> [c \in categories |-> Where(rs, LAMBDA r : r.category = c)]]

\* build_metrics: the counts its rates are made of.
BuildMetrics(rs) ==
  LET categories == {rs[i].category : i \in {j \in DOMAIN rs : ~rs[j].passed}}
  IN [cases    |-> Len(rs),
      passed   |-> Where(rs, LAMBDA r : r.passed),
      safe     |-> Where(rs, LAMBDA r : r.safe),
      first    |-> Where(rs, LAMBDA r : r.first),
      repaired |-> Where(rs, LAMBDA r : r.repairs > 0),
      failures |-> [c \in categories |-> Where(rs, LAMBDA r : r.category = c)]]

Report ==
  /\ ev.at = "next" /\ ev.case > Len(Cases)
  /\ results' = results \o [i \in DOMAIN Dangerous |-> DangerousResult(Dangerous[i])]
  /\ report' = BuildMetrics(results')
  /\ ev' = [ev EXCEPT !.at = "done"]
  /\ UNCHANGED <<nlVars, faulty>>

ModelStep == Generate /\ UNCHANGED <<query, nl, evVars>>
QueryStep == (Guard \/ Estimate \/ Send \/ Execute \/ Record) /\ UNCHANGED <<llmVars, nl, evVars>>
Fault     == /\ EstimateFails \/ ExecuteFails \/ RecordFails
             /\ faulty' = TRUE
             /\ UNCHANGED <<llmVars, nl, ev, results, report>>

Next ==
  \/ ModelStep \/ QueryStep \/ Fault
  \/ AnswerStep /\ UNCHANGED evVars
  \/ StartCase \/ GoldDone \/ GoldFails \/ AnswerFails \/ AnswerDone \/ Report

\* The evaluation is one coroutine: it goes on as long as it can.
Spec == Init /\ [][Next]_vars /\ WF_vars(Next)

----------------------------------------------------------------------------
(* Properties *)

TypeOK ==
  /\ llm.at \in {"idle", "request", "ok", "error"}
  /\ llm.attempt \in 0..MaxAttempts /\ llm.invalid \in 0..InvalidRetries
  /\ sent \in 0..(MaxAttempts * (MaxRepairs + 2))
  /\ query.at \in {"idle", "guard", "estimate", "execute", "fetch", "record", "ok", "error"}
  /\ Len(query.recorded) <= 1
  /\ nl.at \in {"idle", "select", "draft", "execute", "ok", "error"}
  /\ nl.repairs \in 0..MaxRepairs /\ nl.selected \subseteq Tables
  /\ ev.at \in {"next", "gold", "answer", "done"} /\ ev.case \in 1..(Len(Cases) + 1)

\* The log of events tells what happened to a statement, of a gold case or of a
\* candidate: its result is used only after the event that says it was executed has been
\* recorded; an event that denies the execution is recorded only of a statement that has
\* not been sent to the database, whichever step failed; no call that fails has recorded
\* a success; and a statement that was sent and left no event is reported as
\* QUERY_AUDIT_FAILED (execute_fixed, _record).
ResultsAreAudited ==
  LET events == {query.recorded[i] : i \in DOMAIN query.recorded}
  IN /\ query.at = "ok" => \E e \in events : e.status = "SUCCEEDED" /\ e.executor
     /\ query.ran => \A e \in events : e.executor
     /\ query.at = "error" => \A e \in events : e.status # "SUCCEEDED"
     /\ query.at = "error" /\ query.ran /\ events = {} => query.reply = "QUERY_AUDIT_FAILED"

\* A candidate that is sent to the database reads tables the model selected and the
\* policy allows, and its plan is within the limits for automatic execution, also after
\* a repair (answer, restrict_to_tables, _approval_reason).
ExecutedWithinSelection ==
  query.ran /\ query.estimator =>
    /\ query.sql.reads \subseteq nl.selected
    /\ query.sql.cost <= MaxCost /\ query.sql.plan <= MaxPlanRows

\* The model_calls of an answer are the requests sent for it, retries, refused answers
\* and repairs included.
ModelCallsExact == nl.at = "ok" => nl.calls = sent

\* A replay passes every case, up to the first question the guard refuses, unless a
\* database or a sink fails: the queue of scripted answers stays in step with the cases
\* (scripted_gold_replay).
HealthyReplayPasses ==
  ev.at = "done" /\ replay /\ ~faulty =>
    \A i \in DOMAIN Cases :
      (\A j \in 1..i : InspectQuestion(Cases[j].question) = "none") => results[i].passed

\* Every case has one result, in order, every case that did not pass is counted once by
\* category, and no case passes that has not been executed safely (build_metrics).
ReportAddsUp ==
  ev.at = "done" =>
    /\ report.cases = Len(Cases) + Len(Dangerous)
    /\ MapThenSumSet(LAMBDA c : report.failures[c], DOMAIN report.failures) = report.cases - report.passed
    /\ report.first <= report.passed
    /\ \A i \in DOMAIN Cases : results[i].passed => results[i].safe

\* The evaluation ends, whatever the model and the database answer.
EvaluationEnds == <>(ev.at = "done")
=============================================================================
