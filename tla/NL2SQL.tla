------------------------------- MODULE NL2SQL -------------------------------
(***************************************************************************)
(* NL2SQLService.answer: the question is inspected, the model selects      *)
(* tables and drafts a statement, and the safe query service executes it   *)
(* with a policy restricted to the selected tables.  A statement the       *)
(* service refuses is sent back to the model, MaxRepairs times.            *)
(***************************************************************************)
EXTENDS StructuredLLM, SafeQuery, FiniteSets

CONSTANTS
  MaxSelected,    \* max_selected_tables
  MaxRepairs      \* max_repairs

ASSUME NL2SQLAssumption == MaxSelected \in 1..6 /\ MaxRepairs \in 0..2

VARIABLE nl       \* the call of answer

nlVars == <<llmVars, query, nl>>

NoAnswer == [at |-> "idle", selected |-> {}, repairs |-> 0, calls |-> 0, code |-> "none", last |-> NoStatement]

NLInit == nl = NoAnswer

\* The reasons of QuestionGuard.inspect, in their order; a question is the set of
\* those that apply to it.
Reasons == <<"EMPTY_QUESTION", "QUESTION_TOO_LONG", "WRITE_REQUEST_NOT_ALLOWED",
             "SAFETY_OVERRIDE_NOT_ALLOWED", "SECRET_REQUEST_NOT_ALLOWED",
             "CROSS_TENANT_REQUEST_NOT_ALLOWED", "SENSITIVE_DATA_NOT_ALLOWED",
             "ARBITRARY_CODE_NOT_ALLOWED">>

InspectQuestion(question) ==
  IF question = {} THEN "none"
  ELSE Reasons[CHOOSE i \in DOMAIN Reasons :
                 Reasons[i] \in question /\ \A j \in 1..(i - 1) : Reasons[j] \notin question]

Raise(code) == nl' = [nl EXCEPT !.at = "error", !.code = code]

\* answer begins: the question is refused, or the model is asked for tables.
Ask(question) ==
  /\ sent' = 0
  /\ IF InspectQuestion(question) # "none"
     THEN /\ nl' = [NoAnswer EXCEPT !.at = "error", !.code = "NL2SQL_QUESTION_REJECTED"]
          /\ UNCHANGED llm
     ELSE /\ nl' = [NoAnswer EXCEPT !.at = "select"]
          /\ llm' = Request("selection")
  /\ UNCHANGED <<script, replay>>

Names(tables) == {tables[i].table : i \in DOMAIN tables}

\* normalize_reported_tables: no other schema, and no table twice.
Normal(tables) ==
  /\ \A i \in DOMAIN tables : tables[i].schema \in {"none", "own"}
  /\ Cardinality(Names(tables)) = Len(tables)

\* _validate_selection
ValidSelection(tables) ==
  /\ Normal(tables)
  /\ Len(tables) <= MaxSelected
  /\ Names(tables) \subseteq Tables

\* _validate_draft_tables
ValidDraft(tables) == Normal(tables) /\ Names(tables) \subseteq nl.selected

Select ==
  /\ nl.at = "select" /\ llm.at = "ok"
  /\ IF ValidSelection(llm.reply.tables)
     THEN /\ nl' = [nl EXCEPT !.at = "draft", !.selected = Names(llm.reply.tables), !.calls = llm.attempt]
          /\ llm' = Request("draft")
     ELSE /\ Raise("NL2SQL_SCHEMA_SELECTION_FAILED")
          /\ llm' = NoCall
  /\ UNCHANGED <<sent, script, replay, query>>

\* Mutant: the statement may read whatever the tenant's policy allows.
MutRestrictToTables(tables) == Tables

\* restrict_to_tables
RestrictToTables(tables) == Tables \cap tables

\* Mutant: a retried request counts once.
MutCallsAfter == nl.calls + 1

CallsAfter == nl.calls + llm.attempt

Draft ==
  /\ nl.at = "draft" /\ llm.at = "ok"
  /\ llm' = NoCall
  /\ IF ValidDraft(llm.reply.tables)
     THEN /\ nl' = [nl EXCEPT !.at = "execute", !.calls = CallsAfter, !.last = llm.reply.sql]
          /\ query' = Submit(TRUE, llm.reply.sql, RestrictToTables(nl.selected))
     ELSE /\ Raise("NL2SQL_SCHEMA_SELECTION_FAILED")
          /\ UNCHANGED query
  /\ UNCHANGED <<sent, script, replay>>

ModelFails ==
  /\ nl.at \in {"select", "draft"} /\ llm.at = "error"
  /\ Raise(llm.error)
  /\ llm' = NoCall
  /\ UNCHANGED <<sent, script, replay, query>>

Repairable(error) == error # "QUERY_APPROVAL_REQUIRED"

\* The statement was refused or failed: the model repairs it, if it may.
Repair ==
  /\ nl.at = "execute" /\ query.at = "error"
  /\ \/ /\ ~Repairable(query.reply)
        /\ Raise(query.reply)
        /\ UNCHANGED llm
     \/ /\ Repairable(query.reply) /\ nl.repairs >= MaxRepairs
        /\ Raise("NL2SQL_REPAIR_EXHAUSTED")
        /\ UNCHANGED llm
     \/ /\ Repairable(query.reply) /\ nl.repairs < MaxRepairs
        /\ nl' = [nl EXCEPT !.at = "draft", !.repairs = @ + 1]
        /\ llm' = Request("draft")
  /\ query' = NoQuery
  /\ UNCHANGED <<sent, script, replay>>

Return ==
  /\ nl.at = "execute" /\ query.at = "ok"
  /\ nl' = [nl EXCEPT !.at = "ok"]
  /\ UNCHANGED <<llmVars, query>>

AnswerStep == Select \/ Draft \/ ModelFails \/ Repair \/ Return
=============================================================================
