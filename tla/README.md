# Verification of the Enterprise Data Copilot

TLA+ specifications of how the copilot executes an analysis job and shows its
progress, keeps its metric
documents and its knowledge graph, and turns questions into audited queries; TLC
configurations that check them on small instances; and TLAPS proofs for every
instance. Paths are relative to the repository; `PLAT` is
`platform-api/src/main/java/com/example/copilot`, `AGT` is `agent-service/app`.

## 1. The system

A browser client talks to the **platform** (Java, Spring), which owns users,
jobs, approvals and audit in PostgreSQL. For each job the platform calls the
**agent service** (Python, LangGraph), which keeps a checkpointed run per job,
reads the business database, and calls back into the platform to record steps
and to request approvals. Redis holds dispatch leases and short-lived progress
events.

| Component | State | Operations | Talks to |
|---|---|---|---|
| Job state machine (`PLAT/entity/AnalysisJobStateMachine`, `AnalysisJob`) | `analysis_jobs.status`, `version` | `transition`, `transitionTo`, `storeAgentResult` | used by worker, approvals, recovery |
| Submission (`AnalysisJobService`) | job row, idempotency key | `create`, `get`, `list` | after-commit event to the dispatcher |
| Dispatcher and pool (`AnalysisJobDispatcher`, `AnalysisExecutionConfiguration`) | threads, bounded queue | `enqueue`, `recoverUnfinishedJobs` | worker |
| Dispatch lease (`JobDispatchLease`) | one Redis key per job, with TTL | `acquire`, `release` (compare and delete) | worker |
| Worker (`AnalysisJobWorker`, `HttpAgentRunClient`) | nothing of its own | `execute`: `prepare`, `callAgent`, `persistResult`, `fail`, `reject` | PostgreSQL, agent service |
| Approvals (`ApprovalService`) | one row per job | `request` (callback), `decide` (administrator) | job row, agent service (`resume`) |
| Agent workflow (`AGT/agent`) | checkpoints of a run | `start`, `resume`, `inspect`, nine nodes | model, metric store, business database, platform callbacks |
| Agent steps (`AgentStepService`) | `agent_steps` | `record` (insert if absent), `list` | callbacks of the workflow |
| Progress events (`AnalysisEventStreamService`, `RedisAnalysisEventStore`) | Redis stream per job, emitters | `publish`, `subscribe`, `replay` | job row, web client |
| Web client (`web/src`) | cursor, shown status | SSE with reconnect, polling | platform |
| Query safety (`AGT/query_safety`), NL2SQL (`AGT/nl2sql`) | audit records | guard, cost, execution with limits, repair loop | business database |
| Structured LLM client (`AGT/llm`) | attempts of a call | `generate` with correction and backoff | model provider |
| Retrieval (`AGT/retrieval`) | documents, corpus revision, cache | `ingest`, `retrieve`, rank fusion | PostgreSQL, embedding provider |
| Knowledge graph (`AGT/knowledge_graph`) | nodes and edges in Neo4j, by source | `extract`, `replace`, `subgraph`, `answer`; import of a catalogue | Neo4j, retrieval, model |
| Schema metadata (`AGT/metadata`) | a snapshot file | `inspect`, `build_snapshot` | business database |
| Evaluation (`AGT/evaluation`) | results of the cases so far | `evaluate_p10`, live or as a replay | NL2SQL, safe query, LLM client |
| Accounts, data sources, metric documents, search, audit | rows | single-statement operations | PostgreSQL |

What is hard here:

* *Three stores, no common transaction.* A job row and an approval row in
  PostgreSQL, a lease in Redis, a checkpoint in the agent's store. Each remote
  call sits between a read and a write of the caller.
* *Optimistic locking across a remote call.* The worker and `decide` read a job,
  call the agent (up to a minute) and then write it.
* *Clients that give up.* The agent's invocation does not notice; the retry
  meets the run half-way.
* *Check then act* in `AgentWorkflowService.start` and `resume`.
* *Crashes* of either process, a lease that outlives its owner, and a recovery
  that runs once.
* *Nested repair loops* of the graph, with an approval that pauses it.
* *Caches in several processes* over one corpus: an answer is cached under a
  revision that was read before the searches it holds.
* *Two transactions where one is meant*: the profile check before a vector
  search, nodes and edges of a subgraph.
* *Row and node locks*: an ingest or an extraction that waits wakes up to a row
  that is no longer what it asked for.
* *Boundaries*: the row and the byte that meet a limit, the chunk that ends early,
  the candidate a cut drops.

What makes each component correct is what section 4 checks; `PROJECT.json` lists
the hazards with their lines.

## 2. Modules

| Module | What it models |
|---|---|
| `JobStateMachine` | the status enumeration, the transition table, and the three places that compute a status (`advance`, `advanceToWaiting`, `decide`); `Invalid` stands for the exception |
| `JobLifecycle` | abstract: a table of jobs whose status is created once and then moves only along the allowed transitions |
| `JobExecution` | submission, pool, recovery, lease, worker transactions, approvals and the agent service as the platform sees it, with their faults |
| `EventStream` | the progress events of one job, from the commits of its row through Redis to the page that follows them |
| `AgentWorkflow` | one run inside the agent service, node by node, with overlapping requests |
| `MetricStore` | abstract: one current document per title, replaced in one step |
| `MetricRetrieval` | ingest and retrieve of several processes over PostgreSQL, with their caches; implements `MetricStore` |
| `StructuredLLM` | one call of `generate`: attempts, invalid answers, the provider or the scripted queue |
| `SafeQuery` | one call of `execute_fixed`: guard, cost, execution, audit event |
| `NL2SQL` | one call of `answer`, composed of `StructuredLLM` and `SafeQuery` |
| `Evaluation` | the runner, composed of `NL2SQL` and all below it |
| `GraphStore` | abstract: the graph of a source is replaced in one step |
| `KnowledgeGraph` | extractions and questions over Neo4j; implements `GraphStore` |
| `Documents`, `Providers`, `RankFusion`, `QueryResults`, `CatalogGraph` | pure functions: parsing and chunking; the HTTP adapters of retrieval; rank fusion and evidence; bounded results and their description; a catalogue as a graph |
| `Ranking` | a set in the order of a comparison: what `sorted` makes of it |
| `Algorithms` | calls each pure function on every bounded input, and says what callers rely on |
| `JobExecution_proofs`, `AgentWorkflow_proofs`, `EventStream_proofs`, `MetricRetrieval_proofs`, `Evaluation_proofs`, `KnowledgeGraph_proofs`, `Algorithms_proofs` | theorems about the module each is named after, and their proofs |
| `Folds_proofs` | lemmas about sums, folds, sequences made of sets, and rankings |
| `MCJobExecution`, `MCAgentWorkflow`, `MCMetricRetrieval`, `MCEvaluation`, `MCKnowledgeGraph`, `MCAlgorithms` | instances for TLC |

### JobExecution

One action per step that other processes can observe.

* **Transactions.** A transaction that reads a job and writes it later is two
  actions: `Prepare`/`CommitPrepare`, `PersistResult`/`CommitResult`,
  `Fail`/`CommitFail`, `Decide`/`CommitDecision`. The first remembers `st` and
  `ver`; the second is refused when `version` has moved (`Current`, the
  `@Version` column). The approval callback (`Request`) reads and writes in one
  short transaction and is one step; `Refused` is the exception of its state
  machine.
* **Pool.** `Spawn`, `Enqueue` and `Saturated` are the three outcomes of
  `ThreadPoolExecutor.execute`; `Live`, `CoreSize`, `QueueCapacity` and
  `Workers` its configuration.
* **Rejection.** `Create` runs the after-commit listener: when the pool is
  saturated the row stays `CREATED`, because the transaction template of
  `worker.reject` joins the transaction that has already committed. The
  start-up recovery has no such transaction around it, so there the job becomes
  `FAILED` (`Recover`).
* **Lease.** `lease[j]` is the owner of the key; `"orphan"` is an owner that no
  longer exists (crashed, or failed to release). `Expire` removes it: freely for
  orphans, as a fault for a live owner. `lost` marks a worker that no longer
  owns its key without knowing. A Redis error in `acquire` counts as success, as
  in the code.
* **Agent.** `run[j]` is the checkpoint of the run (`none`, `running`,
  `waiting`, or final); `inv` are graph invocations, which go on when their
  client has given up. `Inspect` is what `start` answers for a run that exists.
  The gap between the empty `get_state` and `invoke` is the phase `"new"`.
* **Faults.** `FaultKinds` selects among platform crash, agent crash, lost or
  timed-out calls, Redis errors, early expiry of a lease, node errors, lost
  callback answers and unusable data sources; `MaxFaults` bounds how many happen.

### AgentWorkflow

A request (`call[c]`) that invokes the graph works on its own copy of the state
and writes a checkpoint after each node (`Commit`). `ckpt` is the checkpoint
written last, which is what `start`, `inspect` and `resume` read; `head` tells
which requests work from it, since errors and interrupts are stored with the
checkpoint a node started from. `request_approval` is `Ask` (callback and WAITING
step), `Interrupt` (the pause) and, after a resume, `Decide`, which is the node run
again with the decision. `exclusive` says whether requests of the platform
overlap: its lease and its lock on the approval row keep them apart until a
client gives up on a request that is still running. Statements are numbered;
`log` and `executions` record what happened to each.

`RunMovesForward` is the link between the two modules: with serial requests the
run moves exactly as `run[j]` of `JobExecution` does.

### EventStream

`row` is the job in PostgreSQL, `pending` holds the signals whose threads have
committed (`Commit`) or read the status (`Observe`, an accepted job or a step of the
agent) and have not published yet. `Publish` and `Subscribe` are one action each
because both hold the lock of the job; `ReadSnapshot` is the read of the job before
it. A failed append is two cases: Redis has executed the script, or it has not.
`wire` is what was sent on the connection, `cursor` the last event id the page
keeps, `watched` the status its effect was run for, which decides whether it
polls. `reloadJob` is `Reload`, `ReadRow` and `Reloaded`, for several calls at a time.

### MetricRetrieval

`doc[i]` is the row that ingest `i` writes, `chunks` the ingests whose chunks are
stored, `lock[i]` the transaction that holds row `i`, `cache[p]` the cache of
process `p`. `replace_document` is a transaction of several statements:
`SelectCurrent` is `SELECT ... FOR UPDATE` (which may have to wait, and which
PostgreSQL repeats on the row it waited for, `Woken`), `ReplaceDocument` is the rest
up to the commit with the unique index on active titles (`Conflict`), and
`Invalidate` clears the cache of its own process afterwards. A retrieval reads the
revision (`Retrieve`), looks into the cache (`CacheGet`), runs its searches in a
transaction each (`LexicalSearch`, `ProfileCheck`, `VectorSearch`) and stores what
it found under the revision it began with (`RankAndPut`). `Restart` gives a process
an empty cache and, perhaps, another embedding profile. `born`, `died` and `since`
are history: they number the commits, to say what fresh means.

`ImplementsStore` maps a title to the version and document of its active row and
the store's revision to the sum of the versions, which the hash of the code covers.

### Evaluation and what it drives

The evaluation is one coroutine; what is nondeterministic is the model, the
provider, the database and the audit sink. Each module owns one record (`llm`,
`query`, `nl`, `ev`) whose field `at` is the place in the code; a caller puts a
request into the record of the component it calls and reads the reply there.
A statement is a record of what the guard, the planner and the database can tell
about it, so `Checks` lists the checks of `SQLGuard.inspect` in their order; where the
guard goes from function to function or from table to table, the record says what the
first one it refuses is. The call of the executor is two steps, `Send` and `Execute`, with
a failure possible before and after the statement has been sent. `query.ran` is a history
variable, which no guard reads: whether it has. `ResultsAreAudited` compares it with what
the event says, and the mutant `MutExecuteFails`, whose event denies the execution, fails
it as much as one that ignores a failing sink. The
two budgets of `generate` (attempts, invalid answers) and the repairs of `answer`
are counted as in the code. A replay answers from `script`, which
`_scripted_responses` fills; `faulty` remembers that a database or a sink failed.

### KnowledgeGraph

A transaction of `Neo4jGraphStore.replace` is one action per statement
(`MergeSource`, which takes the lock of the source, `DeleteOld`, `CreateNodes`,
`CreateEdges`) on what it will commit, and `Commit`; `Abort` is any failure.
A question reads nodes (`ReadNodes`) and edges (`ReadEdges`) in two steps, adds
documents and bounds the evidence (`Gather`), and checks the model's citations
(`Answer`); a read that fails for good ends it (`ReadFails`). Searches for paths read and
keep nothing, and are left out.

### Algorithms

The pure modules hold operators, no state. `Algorithms` chooses a function and its
arguments initially, calls it in one step, and states what the callers use of the
result, in terms of the arguments and not of the operators: which line is where,
which character is in which chunk, which vector belongs to which text. What a call may be
given is a set that a constant names (`Results`, `RowLimits`, `GraphLimits`, ...), so that
the theorems hold for all of them.

## 3. Abstractions

Questions, SQL, rows, answers and messages are not represented: a statement is a number, a
question is what the question guard and `classify` make of it. Costs, confidence and
columns are nondeterministic outcomes of the nodes that look at them. Logging, metrics,
tracing and audit rows are left out. Identity and tenant checks are left out: the model
has one tenant, and a refused request changes nothing. In retrieval a document is the
ingest that wrote it and all documents match a query; scores and vectors appear only in
`RankFusion`, where fused scores are exact fractions (the code adds floats, so that only
exact ties may be ordered otherwise). In `QueryResults` a row has one period and one
metric column, and a period is a natural number, written in decimal; in `Documents` a line
is a heading, text or blank, and a character is one of the five kinds that chunking tells
apart. Names of a catalogue hold no dots, and two foreign keys of a table that refer to
the same table are one. Token counts, latencies and backoff delays are left out. Timing
appears once, in `HandlersPrompt`: a handler of the agent gets from its read to the next
statement within a lease duration (5 minutes).

## 4. Runs

| Run | Instance | Checks |
|---|---|---|
| `job_safety` | 1 job, 2 threads, 2 invocations, all faults, at most 2 | `TypeOK`, `ApprovalMatchesJob`, `HolderKeepsLease`, `ImplementsLifecycle` |
| `job_start_once` | 3 jobs, 2 threads (1 core), queue of 1, crashes and node failures but no Redis failure, at most 1 | `RunStartedOnce` |
| `job_settles` | 1 job, 2 threads, no restarts and no timeouts, at most 2 faults, fairness | `Settles` |
| `job_pool` | 2 jobs, 1 thread, queue of 1, no faults, fairness | `ScheduledSettles`, `UncontestedDecisionLands` |
| `agent_workflow` | 3 requests, 2 at a time, 1 repair, 1 fault, fairness | `TypeOK`, `ExecutedWasCleared`, `SerialCallsExecuteOnce`, `EndIsFinal`, `RunMovesForward`, `RequestsAreAnswered` |
| `retrieval` | 2 processes with different profiles, 1 title with a stored document and 2 ingests, 2 retrievals of mode `hybrid_rerank` (which does all there is to do), 1 restart, fairness of ingests | `TypeOK`, `RevisionIdentifiesCorpus`, `AnswersAreFresh`, `ComparesOwnProfile`, `ImplementsStore`, `IngestsEnd` |
| `evaluation` | 3 gold cases (one refused) and 2 dangerous ones, 14 answers of a model, 5 statuses, 3 attempts, 2 repairs, fairness | `TypeOK`, `ResultsAreAudited`, `ExecutedWithinSelection`, `ModelCallsExact`, `HealthyReplayPasses`, `ReportAddsUp`, `EvaluationEnds` |
| `knowledge_graph` | 3 extractions of 2 sources, 1 failing transaction, 1 question, limits of 2 nodes and 2 edges, fairness of extractions | `TypeOK`, `SubgraphIsClosed`, `RelationsComeFirst`, `ImplementsGraphStore`, `ExtractionsEnd` |
| `algorithms` | documents of 5 lines, sections of 6 characters, limits 1 to 6, 3 texts in batches of 2, 3 candidates, 5 rows, 3 tables with 2 keys | `SectionsLocateText`, `ChunksCoverSection`, `ProviderOrderKept`, `FusionIsFair`, `DescriptionIsGrounded`, `CatalogGraphIsValid` |
| `progress_events` | 3 statuses, a stream of 2 events, 3 signals and what faults add, 2 reloads at a time, 1 fault, fairness of the page | `NoSilentGap`, `ClientShowsResult` |

Why the bounds are enough: one job with two threads contains every contention
about a row, a lease or a run, because jobs share only the pool; the pool has its
own runs with more jobs than it can hold, in which queue, extra thread, keep-alive
and rejection all happen. Two faults allow a fault during the handling of another.
Two attempts are the smallest retry. In `AgentWorkflow` three requests are a
start and two competing resumes, one repair the smallest loop of each kind.
Symmetry (threads, invocations, and jobs where all are alike) is used in the
safety runs only.

In `retrieval` two ingests are a writer and one that waits for it, two processes a
cache that is invalidated and one that is not. In `knowledge_graph` two extractions
of one source contend, the other source must not notice. In `algorithms` six
characters hold a boundary on either side of the middle of every limit up to six,
three texts make a full batch and a partial one, five rows are one more than the
description lists one by one, and the limits on rows and bytes are met and missed. Their
periods stay within one width or reach from 9 to 10 or from 99 to 100, up and down
(`MCResults`). Graphs of three tables reach the limits on entities and relations, which
are below the 100 and 200 of the code.

In `progress_events` three signals overflow a stream of two, two reloads overtake
each other, and one fault makes an event id the stream does not hold.

Two further runs are expected to be violated. Each shows that the code does not
do what the repository's documents or tests say; the quotations are in
`PROJECT.json`.

| Run | What happens |
|---|---|
| `job_crash_recovery` | After a crash the recovered dispatch meets the lease of the crashed worker and gives up; the job stays `CREATED` or `PLANNING`. |
| `job_rejected_after_execution` | A worker's late commit rolls a decision back after the run consumed it; a later rejection is recorded for a job whose SQL was executed. |

What the passing runs leave out by their constants is left out because the property
does not hold there. `Settles` fails with client timeouts (the retry of `start`
reads `PLANNING`, the worker stores it and nobody asks again);
`UncontestedDecisionLands` fails with node failures (`resume` answers 500, `decide`
rolls back, the approval stays `PENDING`); `RunStartedOnce` fails with Redis errors,
which count as an acquired lease. A job the full pool rejects stays `CREATED`, and
an approved run that repairs its SQL and needs an approval again finds the one
approval row decided, so its job stays `RUNNING`.

Further observations have no run of their own. A restart of the agent process
cuts a run off for good, because `start` only inspects a run that has a
checkpoint. `_status` reports `FAILED` for a checkpoint that holds an error the
graph is about to repair, and a retried `start` makes that final. A job in the
recovery's list that meanwhile waits for an approval is failed when the pool is
full, which is why `UncontestedDecisionLands` excludes it. A case whose repairs are
exhausted has no repair count, so the rate of successful repairs in the evaluation
report leaves it out. An extraction that was started earlier may replace the graph
of a later one. Chunks may repeat each other entirely if the overlap is set to more
than half the chunk. A foreign key into another schema joins a table of the same
name in this one. If the recovery loses a race on the version while it fails a job the
full pool rejected, the exception ends the start-up listener and the process, so that the
rest of its list waits for the next start: in the model this is the platform crash, during
recovery. A statement that was executed but left no event, because the sink failed, is
repaired like any other, and the question may be answered by another statement.
Periods are sorted as strings: months 10 and 9, in this order,
count as ordered, and the change is told backwards. The events alone do not always
tell the page that a job has ended: a page that comes back with the id of a snapshot
is sent another one, read before the lock was taken, and an event published in
between is in neither; polling makes up for it. A reload that fails after a terminal
event is not repeated, because polling has stopped.

### Fairness

`FairSpec` of `JobExecution` assumes weak fairness of each thread, each graph invocation,
each decision in progress, the expiry of a key and the start-up sequence: threads of a
live process are scheduled, the container is restarted by its supervisor, Redis honours a
TTL, and every node ends because models, databases and callbacks are called with timeouts
and bounded retries. Nothing is assumed about people (submitting, deciding) or faults.
`FairSpec` of `AgentWorkflow` assumes the same of each request. `MetricRetrieval` assumes
weak fairness of every ingest and `KnowledgeGraph` of every extraction, whose threads the
process schedules; `KnowledgeGraph` also assumes that Neo4j grants a lock that is free
again and again (strong fairness of `MergeSource`). `Evaluation` is one coroutine, which
goes on as long as it can. `EventStream` assumes that the interval of the page fires, that
React runs its effect and that requests are answered; it assumes nothing of the threads
that publish or of the stream. Nothing is assumed about questions, retrievals, restarts or
failures.

The runs do not check deadlock: a system whose jobs are all finished, or wait for
an administrator, may stop.

## 5. Proofs

TLAPS checks the theorems below for every value of the constants that the named
assumptions allow (`Assumption`, `WorkflowAssumption`, `GraphAssumption`,
`RetrievalAssumption`, `StreamAssumption`, `QueryAssumption`, `EvaluationAssumption`,
`FusionAssumption`, `AlgorithmsAssumption`): sets of threads, requests, ingests,
extractions, documents and names of a catalogue are finite, limits are numbers, relations
join names of their own extraction, sequences are sequences. `FusionAssumption` asks for
positive weights and thresholds; the settings allow thresholds of 0 and -1, too, with
which a hit that was not found counts as evidence. Of `AlgorithmsAssumption` one conjunct
is more than a type: a candidate at the end of the lexical list outweighs the first one of
the vector list: with the weights 3 and 1 and `rrf_k` of 60 this holds for lists of up to
122 candidates, and the code asks for 100 at most, but the settings allow an `rrf_k` (from
1 on) with which it does not. Two theorems have a hypothesis of their own, stated with
them.

All invariants named here were checked by TLC on the instances of section 4 before
they were proved.

### JobExecution

* **`TypeCorrect`**: `[]TypeOK`. More than typing: the
  status function stays within the statuses only if no transaction writes
  `Invalid`, that is, if every write the code does without a check is legal. The
  type invariant is not inductive. `IndInv` adds what each process relies on
  between two of its steps: a worker that is preparing has read `CREATED`, one
  that is failing has read a status that can fail, and one that is persisting has
  checked its target (`Legal`); a decision in progress has a decision to record
  (`Active`); a client waits exactly for the invocation that names it, so that an
  answer reaches only a thread that waits (`Clients`); and whoever is busy is busy
  with a job.
* **`LeaseKept`**: `[]HolderKeepsLease`, from the same invariant and the
  fact that only the owner or a TTL removes a key.
* **`ApprovalsMatchJobs`** (`[]ApprovalMatchesJob`) and **`JobsImplementLifecycle`**
  (the refinement of `JobLifecycle`). A transaction writes what
  it computed from an earlier read, so `RowInv` says what it still knows: as long as
  the version has not moved, the row holds what was read (`Informed` for threads,
  `Consulted` for decisions, which also hold the lock of a pending approval).
* **`StartedOnce`**: `LeaseSound => (Spec => []RunStartedOnce)`. `LeaseSound` excludes
  client timeouts, Redis errors and leases that end under their owner: with any of
  these a second worker reaches `start` (section 4), so the hypothesis is the condition
  under which the code keeps its promise, and `job_start_once` is an instance of it.
  `StartInv` adds that whoever is between the check and the invocation works for the
  one thread that holds the job's lease.

### AgentWorkflow

* **`OnlyClearedExecuted`**: `[]ExecutedWasCleared`.
  What `execute_sql` runs was decided some nodes earlier, perhaps by another
  request, so `Inv` adds that every request at `execute_sql`, and a checkpoint
  whose next node it is, holds a guarded statement that is cleared. Marks are
  only added (`Grows`), so it stays cleared; `GuardSqlKeeps` and `DecideKeeps` are
  the only two lemmas in which something becomes ready to execute.
* **`EndsFinal`** (`[]EndIsFinal`), **`ExecutesOnce`** (`[]SerialCallsExecuteOnce`) and
  **`RunsMoveForward`** (`RunMovesForward`). `RunInv` adds what each node may take for
  granted of the state it finds (`Sound`) and, for requests that do not overlap, that
  the request at work and the checkpoint agree and that what is about to be executed
  was not executed (`Serial`). Every node that commits is one case of `Advance`.
* **`RunIsWellFormed`**: `[]TypeOK`, however requests overlap: no statement is executed
  more often than requests arrived, and no run goes beyond its repairs. A request that
  takes over a checkpoint may execute its statement again, so `Counts` adds to the
  executions of a statement the requests that may still execute it, and to the statements
  generated the attempts that all requests have left, a sum over the requests. The
  statements that can exist, `MaxCalls * (MaxRepairs + 1)`, are therefore enough
  (`HasRoom`); no guard of the model limits them.

### EventStream

* **`NoGaps`**: `[]NoSilentGap`. The property speaks of the head of the wire; `StreamInv`
  says how all of it continues: the stream is the end of what was appended, numbers on
  the wire follow one another and, on an open connection, lead up to the last one
  appended, and the cursor names the event heard last or none of the stream.

### MetricRetrieval

* **`RevisionsDiffer`** (`[]RevisionIdentifiesCorpus`) and **`ReplacementsAreAtomic`** (the
  refinement of `MetricStore`), from `CorpusInv`: a title has one current row, a
  transaction that writes holds the lock of the row it supersedes, and every commit adds
  exactly one to the sum of the versions.
* **`AnswersStayFresh`**, **`VectorsKeepTheirProfile`** and **`RetrievalIsWellFormed`**, from
  `RetrievalInv`, which adds what a request in progress has found and what every cache
  holds: an entry cached under a revision is as fresh as one made while the corpus has
  that revision.

### Evaluation and what it drives

* **`EvaluationIsWellFormed`**, **`ResultsAudited`**, **`CandidatesStayWithinSelection`** and
  **`ModelCallsAreExact`**, from `EvalInv`: who has called whom (`Flow`), the calls counted
  at every place of the three nested loops, and the event a call of `execute_fixed` holds,
  which agrees with whether the statement was sent (`Audited`).
* **`ReplaysPass`**: `Replayable => (Spec => []HealthyReplayPasses)`. `Replayable` says that
  the guard accepts the gold statements and that they keep the limits: a data set without
  it cannot be expected to pass. `ReplayInv` says that the queue is what is left of the
  script after two answers per case.
* **`ReportsAddUp`**: `[]ReportAddsUp`. `FiledInv` says that the results are those of the
  cases so far, in order.

### KnowledgeGraph

* **`SubgraphsClosed`**: `[]SubgraphIsClosed`. Nothing
  the extractions commit between the two reads matters, because the edges are asked
  for by the ids of the nodes that are kept (`ReadEdgesKeeps`) and no later step
  writes either (`OthersKeep`). `Inv` adds the fields of a question (`Shaped`) and that it
  has no edges before they are read.
* **`GraphsAreReplacedWhole`** (the refinement of `GraphStore`) and **`GraphIsWellFormed`**
  (`[]TypeOK`), from `StoreInv`: a transaction that deletes or writes holds the lock of
  its source, so that what it marked is still all there is of the source at its commit,
  and no edge leaves its source.

* **`RelationsAreShownFirst`**: `[]RelationsComeFirst`. `bounded_evidence` is a fold over
  the pieces, relations in front. `BoundedSteps` names what is shown after each piece,
  `RelationsFront` that a piece in front of the last relation is a relation, and
  `EvidenceFits` that a relation that found no room met only relations before it.
  `ReadInv` adds that what a question has read is finite, which it is because
  `StoreInv` says that only extracted nodes and edges are stored.

### Algorithms

A call is one step, so the invariant of each theorem is that the input is one the bounds
allow and that the property holds of what was returned; the work is in the lemmas about
the operators.

* **`SectionsAreLocated`**: `[]SectionsLocateText`. After each line (`Reads`) the sections
  so far hold the text of the lines before the last heading (`Located`), the body is what
  came since, and the heading is the nearest one above. `FlushIs` and `ReadLineIs` keep it.
* **`ChunksCoverSections`**: `[]ChunksCoverSection`. `Ranges` is a recursive function that
  calls itself further on; `RangesWalk` goes from the end of the text backwards and shows
  that the ranges from each start are a `Walk`: each leads to the next, without a gap, to
  the end of the text.
* **`ProvidersKeepOrder`**: `[]ProviderOrderKept`. A complete answer has each index once,
  so that sorted by index the item at place k is that of input k (`ByIndexIs`, with
  `Increasing`); after k batches (`Embedded`) the vectors are those of the texts these hold
  (`BatchesAre` is the arithmetic of the last, partial one).
* **`FusionsAreFair`**: `[]FusionIsFair`. Fractions are compared by cross multiplication,
  which is an order (`LessIsTransitive`) that addition keeps (`SumsOrder`); so a candidate
  ahead in both lists has the greater sum (`FusedIsFair`).
* **`DescriptionsAreGrounded`**: `[]DescriptionIsGrounded`. `BoundedResultIs` says what
  `_bounded_result` has after each row, in terms of what the rows cost; costs grow. The rows
  and the limits are any (`Results`, `EmptySizes`, `RowLimits`, `ByteLimits`): the theorem
  takes them one result at a time. That a change is told forward needs periods of equal
  width (`StringsOrder`); without it the code tells it backwards (section 4).
* **`CataloguesAreValid`**: `[]CatalogGraphIsValid`. Ids are positions and names are
  those of the sorted tables and columns, so that different entities have different ones
  (`EntitiesDiffer`); a key finds the table of its name (`TableIdIs`).

### Sums, folds and rankings

`Folds_proofs` shows what `MapThenSumSet` computes (it may begin with any element, one
more element adds its value, only the values of the elements matter), that a fold whose
steps stay in a set is a function that goes from position to position (`FoldExists`), that
`SetToSeq` lists a set, and that a ranking by the number of smaller elements lists a set
in order (`RankedIs`). The library's induction theorems cannot be instantiated here, so
each of these is the search for a least counterexample (`Least`, `UpTo`), and a recursive
function is shown to exist before it is unfolded.

### Model-checked only

All invariants and all step properties of the runs are proved. Everything about fairness
is beyond the prover: `Settles`, `ScheduledSettles`, `UncontestedDecisionLands`,
`RequestsAreAnswered`, `IngestsEnd`, `EvaluationEnds`, `ExtractionsEnd` and
`ClientShowsResult` are checked by TLC on the instances of section 4 only.

## 6. What could come next

`JobSubmission`: the idempotency key of `create` against concurrent submissions, which is
one unique index in the code and no part of `JobExecution`.

## 7. Not modelled

* **The web client**, but for the page of one job: forms and rendering.
* **Agent steps** (but for their signals)**, audit, data source registration, metric documents of the
  platform, start-up data**: inserts of single rows inside transactions of other
  components; their failures are faults of `JobExecution` and node failures of
  `AgentWorkflow`.
* **Accounts and access control**: a stateless check in front of every handler.
* **Job search and the MCP server**: read-only calls.
* **Settings, observability, command lines**: no behaviour depends on them, but for
  limits, which are constants here.
* **`SchemaMetadataCache`**: tested, but used by no code of the service.
* **What libraries do**: parsing SQL (SQLGlot) and PDF, JSON, ranking in PostgreSQL,
  hashing of texts to vectors. Their results are inputs here.
* **The choice of a chart type**: a case distinction on names of columns.
