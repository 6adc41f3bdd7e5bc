--------------------------- MODULE MetricRetrieval ---------------------------
(***************************************************************************)
(* Metric documents in PostgreSQL, and the service processes that ingest   *)
(* and retrieve them, for one tenant (every statement and every cache key  *)
(* names the tenant, so two tenants share nothing).                        *)
(*                                                                         *)
(* An ingest replaces the current document of its title in a transaction   *)
(* and then clears the cache of its own process.  A retrieval reads the    *)
(* corpus revision, looks in the cache of its process, and on a miss runs  *)
(* up to three more statements, each in a transaction of its own, before   *)
(* it caches the answer under the revision it read first.  Every document  *)
(* matches the query; what is left of the answer is whose hits it holds.   *)
(***************************************************************************)
EXTENDS Naturals, Sequences, FiniteSets, FiniteSetsExt

CONSTANTS
  Instances,     \* processes of the agent service
  Ingests,       \* calls of ingest; also names the document each one carries
  Retrievals,    \* calls of retrieve
  Titles,
  Times,         \* readings of the wall clocks
  First,         \* the ingest that may have been made before all the others
  Home,          \* Home[c]: the process a call is made to
  Profiles,      \* embedding profiles a process may be configured with
  Initially,     \* Initially[p]: the profile process p starts with
  Modes,         \* retrieval modes in use
  MaxRestarts    \* bound: restarts of processes in all

ASSUME RetrievalAssumption ==
  /\ "none" \notin Ingests /\ IsFiniteSet(Ingests)
  /\ Times \subseteq Nat
  /\ First \in Ingests
  /\ Home \in [Ingests \cup Retrievals -> Instances]
  /\ Initially \in [Instances -> Profiles]
  /\ Modes \subseteq {"lexical", "vector", "hybrid", "hybrid_rerank"}
  /\ MaxRestarts \in Nat

VARIABLES
  profile,       \* the embedding profile of each process
  doc,           \* metric_documents: the row an ingest has committed
  chunks,        \* metric_chunks: the documents whose chunks are stored
  lock,          \* the row an ingest's transaction holds FOR UPDATE
  ing,           \* the ingests
  ret,           \* the retrievals
  cache,         \* RetrievalCache of each process
  revisions,     \* the revision after each commit so far
  restarts

vars == <<profile, doc, chunks, lock, ing, ret, cache, revisions, restarts>>

NoRow == [status |-> "none", title |-> "none", version |-> 0, updated |-> 0, profile |-> "none",
          born |-> 0, died |-> 0]
NoIngest == [pc |-> "idle", title |-> "none", now |-> 0, current |-> "none", reply |-> "none"]
NoAnswer == [lexical |-> {}, vector |-> {}]
NoRetrieval == [pc |-> "idle", mode |-> "none", revision |-> <<>>,
                profile |-> "none", since |-> 0, answer |-> NoAnswer, reply |-> "none"]

Commits == Len(revisions) - 1
Active  == {i \in Ingests : doc[i].status = "ACTIVE"}
Titled(t) == {i \in Active : doc[i].title = t}

\* Mutant: the revision leaves the versions out.
MutRevision(rows) ==
  LET active == {i \in Ingests : rows[i].status = "ACTIVE"}
  IN <<Cardinality(active), 0,
       IF active = {} THEN 0 ELSE Max({rows[i].updated : i \in active})>>

\* corpus_revision: count, sum(version) and max(updated_at) of the ACTIVE rows.
Revision(rows) ==
  LET active == {i \in Ingests : rows[i].status = "ACTIVE"}
  IN <<Cardinality(active), MapThenSumSet(LAMBDA i : rows[i].version, active),
       IF active = {} THEN 0 ELSE Max({rows[i].updated : i \in active})>>

\* The corpus is empty, or the first ingest is over.
InitialRows ==
  {[i \in Ingests |-> NoRow]} \cup
  {[i \in Ingests |-> IF i # First THEN NoRow
      ELSE [status |-> "ACTIVE", title |-> t, version |-> 1, updated |-> now,
            profile |-> Initially[Home[First]], born |-> 0, died |-> 0]] : t \in Titles, now \in Times}

Init ==
  /\ profile = Initially
  /\ doc \in InitialRows
  /\ chunks = Active
  /\ lock = [i \in Ingests |-> "none"]
  /\ ing = [i \in Ingests |-> IF i = First THEN [NoIngest EXCEPT !.pc = "done"] ELSE NoIngest]
  /\ ret = [q \in Retrievals |-> NoRetrieval]
  /\ cache = [p \in Instances |-> {}]
  /\ revisions = <<Revision(doc)>>
  /\ restarts = 0

----------------------------------------------------------------------------
(* Ingest *)

IngestAt(i, pc) == ing[i].pc = pc
EndIngest(i, reply) == ing' = [ing EXCEPT ![i] = [NoIngest EXCEPT !.pc = "done", !.reply = reply]]
store == <<doc, chunks, revisions>>

\* ingest up to the transaction: the document is parsed, chunked and embedded and
\* the time is taken; any of these may be refused, and nothing is stored then.
Ingest(i, t) ==
  /\ IngestAt(i, "idle")
  /\ \/ \E now \in Times :
          ing' = [ing EXCEPT ![i] = [NoIngest EXCEPT !.pc = "select", !.title = t, !.now = now]]
     \/ EndIngest(i, "refused")
  /\ UNCHANGED <<profile, store, lock, ret, cache, restarts>>

Locked(row) == \E other \in Ingests : lock[other] = row

\* SELECT ... FOR UPDATE: the row is locked, waited for, or not there.
SelectCurrent(i) ==
  /\ IngestAt(i, "select")
  /\ LET rows == Titled(ing[i].title) IN
     \/ /\ rows = {}
        /\ ing' = [ing EXCEPT ![i].pc = "write"]
        /\ UNCHANGED lock
     \/ \E row \in rows :
          /\ ing' = [ing EXCEPT ![i] = [@ EXCEPT !.pc = IF Locked(row) THEN "wait" ELSE "write",
                                                 !.current = row]]
          /\ lock' = IF Locked(row) THEN lock ELSE [lock EXCEPT ![i] = row]
  /\ UNCHANGED <<profile, store, ret, cache, restarts>>

\* The wait is over: the statement looks at the row again, and does not see the
\* document that has replaced it meanwhile.
Woken(i) ==
  /\ IngestAt(i, "wait")
  /\ ~Locked(ing[i].current)
  /\ LET still == doc[ing[i].current].status = "ACTIVE" IN
     /\ ing' = [ing EXCEPT ![i] = [@ EXCEPT !.pc = "write",
                                            !.current = IF still THEN ing[i].current ELSE "none"]]
     /\ lock' = IF still THEN [lock EXCEPT ![i] = ing[i].current] ELSE lock
  /\ UNCHANGED <<profile, store, ret, cache, restarts>>

\* Mutant: the schema lacks its unique constraints.
MutConflict(rows, row) == FALSE

\* The unique constraints of metric_documents.
Conflict(rows, row) ==
  \E i \in Ingests :
    /\ rows[i].title = row.title
    /\ rows[i].status # "none"
    /\ rows[i].version = row.version \/ rows[i].status = "ACTIVE"

Version(current) == IF current = "none" THEN 1 ELSE doc[current].version + 1

Superseded(current, now) ==
  IF current = "none" THEN doc
  ELSE [doc EXCEPT ![current] = [@ EXCEPT !.status = "SUPERSEDED", !.updated = now,
                                          !.died = Commits + 1]]

NewRow(i) == [status |-> "ACTIVE", title |-> ing[i].title, version |-> Version(ing[i].current),
              updated |-> ing[i].now, profile |-> profile[Home[i]], born |-> Commits + 1,
              died |-> 0]

\* Mutant: the chunks of the old document stay.
MutChunksAfter(i) == chunks \cup {i}

ChunksAfter(i) == (chunks \ {ing[i].current}) \cup {i}

\* Mutant: the connection keeps its locks.
MutReleased(i) == lock

\* Leaving the transaction, by a commit or an error, releases its locks.
Released(i) == [lock EXCEPT ![i] = "none"]

\* The rest of the transaction: the old row is superseded and its chunks deleted, the
\* new row and its chunks inserted, all of it committed or, after an error, undone.
ReplaceDocument(i) ==
  /\ IngestAt(i, "write")
  /\ lock' = Released(i)
  /\ LET rows == Superseded(ing[i].current, ing[i].now) IN
     \/ /\ ~Conflict(rows, NewRow(i))
        /\ doc' = [rows EXCEPT ![i] = NewRow(i)]
        /\ chunks' = ChunksAfter(i)
        /\ revisions' = Append(revisions, Revision(doc'))
        /\ ing' = [ing EXCEPT ![i].pc = "stored"]
     \/ EndIngest(i, "store_error") /\ UNCHANGED store
  /\ UNCHANGED <<profile, ret, cache, restarts>>

----------------------------------------------------------------------------
(* Retrieve *)

RetrieveAt(q, pc) == ret[q].pc = pc
Lexical(mode) == mode \in {"lexical", "hybrid", "hybrid_rerank"}
Vector(mode)  == mode \in {"vector", "hybrid", "hybrid_rerank"}
AfterLexical(mode) == IF Vector(mode) THEN "profile" ELSE "rank"

Answered(q, answer) ==
  ret' = [ret EXCEPT ![q] = [@ EXCEPT !.pc = "done", !.revision = <<>>, !.answer = answer,
                                      !.reply = "ok"]]
Failed(q, reply) == ret' = [ret EXCEPT ![q] = [NoRetrieval EXCEPT !.pc = "done", !.reply = reply]]
unread == <<profile, doc, chunks, lock, revisions, restarts>>

\* retrieve begins with the revision of the corpus; an invalid query, or a database that
\* does not answer, ends it.
Retrieve(q, mode) ==
  /\ RetrieveAt(q, "idle")
  /\ \/ Failed(q, "error")
     \/ ret' = [ret EXCEPT ![q] = [NoRetrieval EXCEPT !.pc = "cache", !.mode = mode,
                  !.revision = Revision(doc), !.profile = profile[Home[q]], !.since = Commits]]
  /\ UNCHANGED <<unread, ing, cache>>

\* Mutant: the key does not hold the revision.
MutKey(q) == <<ret[q].mode>>

\* The key of the cache (one query, one limit).
Key(q) == <<ret[q].mode, ret[q].revision>>

\* cache.get: an entry may have expired by now, and is removed then.
CacheGet(q) ==
  /\ RetrieveAt(q, "cache")
  /\ LET found == {e \in cache[Home[q]] : e.key = Key(q)}
         miss  == ret' = [ret EXCEPT ![q].pc = IF Lexical(ret[q].mode) THEN "lexical" ELSE "profile"]
     IN \/ \E e \in found : Answered(q, e.answer) /\ UNCHANGED cache
        \/ miss /\ cache' = [cache EXCEPT ![Home[q]] = @ \ found]
  /\ UNCHANGED <<unread, ing>>

\* lexical_search joins the chunks with the ACTIVE documents.
LexicalSearch(q) ==
  /\ RetrieveAt(q, "lexical")
  /\ ret' = [ret EXCEPT ![q] = [@ EXCEPT !.pc = AfterLexical(ret[q].mode),
                                         !.answer.lexical = chunks \cap Active]]
  /\ UNCHANGED <<unread, ing, cache>>

\* vector_search looks for chunks of another profile in a transaction of its own ...
ProfileCheck(q) ==
  /\ RetrieveAt(q, "profile")
  /\ IF \E i \in chunks \cap Active : doc[i].profile # ret[q].profile
     THEN Failed(q, "reindex")
     ELSE ret' = [ret EXCEPT ![q].pc = "vector"]
  /\ UNCHANGED <<unread, ing, cache>>

\* Mutant: the search relies on the check before it.
MutVectorSearch(q) ==
  /\ RetrieveAt(q, "vector")
  /\ ret' = [ret EXCEPT ![q] = [@ EXCEPT !.pc = "rank", !.answer.vector = chunks \cap Active]]
  /\ UNCHANGED <<unread, ing, cache>>

\* ... and searches those of its own in the next.
VectorSearch(q) ==
  /\ RetrieveAt(q, "vector")
  /\ ret' = [ret EXCEPT ![q] = [@ EXCEPT !.pc = "rank",
               !.answer.vector = {i \in chunks \cap Active : doc[i].profile = ret[q].profile}]]
  /\ UNCHANGED <<unread, ing, cache>>

Put(q) == (cache[Home[q]] \ {e \in cache[Home[q]] : e.key = Key(q)})
            \cup {[key |-> Key(q), answer |-> ret[q].answer]}

\* The lists are ranked and the answer is put into the cache.
RankAndPut(q) ==
  /\ RetrieveAt(q, "rank")
  /\ cache' = [cache EXCEPT ![Home[q]] = Put(q)]
  /\ Answered(q, ret[q].answer)
  /\ UNCHANGED <<unread, ing>>

\* A statement, the embedding of the query or the reranker fails: nothing is cached.
RetrieveFails(q) ==
  /\ ret[q].pc \in {"lexical", "profile", "vector"} \/ (RetrieveAt(q, "rank") /\ ret[q].mode = "hybrid_rerank")
  /\ Failed(q, "error")
  /\ UNCHANGED <<unread, ing, cache>>

----------------------------------------------------------------------------

\* invalidate_tenant, the last step of an ingest, copies the dictionary without the
\* tenant's entries.  An entry that another thread of the process adds meanwhile is
\* lost with them, or makes the copy fail and the cache stays as it is.
Invalidate(i) ==
  /\ IngestAt(i, "stored")
  /\ EndIngest(i, "ok")
  /\ cache' = [cache EXCEPT ![Home[i]] = {}]
  /\ UNCHANGED <<unread, ret>>

InvalidateFails(i, q) ==
  /\ IngestAt(i, "stored") /\ RetrieveAt(q, "rank") /\ Home[q] = Home[i]
  /\ \A e \in cache[Home[q]] : e.key # Key(q)
  /\ EndIngest(i, "error")
  /\ Answered(q, ret[q].answer)
  /\ cache' = [cache EXCEPT ![Home[q]] = Put(q)]
  /\ UNCHANGED unread

\* A process is restarted with another embedding profile: its calls die, their
\* transactions are rolled back and its cache is empty.
Restart(p, f) ==
  /\ restarts < MaxRestarts
  /\ f # profile[p]
  /\ restarts' = restarts + 1
  /\ profile' = [profile EXCEPT ![p] = f]
  /\ cache' = [cache EXCEPT ![p] = {}]
  /\ ing' = [i \in Ingests |-> IF Home[i] = p /\ ing[i].pc \notin {"idle", "done"}
                               THEN [NoIngest EXCEPT !.pc = "done", !.reply = "lost"] ELSE ing[i]]
  /\ ret' = [q \in Retrievals |-> IF Home[q] = p /\ ret[q].pc \notin {"idle", "done"}
                               THEN [NoRetrieval EXCEPT !.pc = "done", !.reply = "lost"]
                               ELSE ret[q]]
  /\ lock' = [i \in Ingests |-> IF Home[i] = p THEN "none" ELSE lock[i]]
  /\ UNCHANGED <<doc, chunks, revisions>>

IngestStep(i) == SelectCurrent(i) \/ Woken(i) \/ ReplaceDocument(i) \/ Invalidate(i)
RetrieveStep(q) == CacheGet(q) \/ LexicalSearch(q) \/ ProfileCheck(q) \/ VectorSearch(q)
                   \/ RankAndPut(q) \/ RetrieveFails(q)

Next ==
  \/ \E i \in Ingests : IngestStep(i) \/ \E t \in Titles : Ingest(i, t)
  \/ \E q \in Retrievals : RetrieveStep(q) \/ \E m \in Modes : Retrieve(q, m)
  \/ \E i \in Ingests, q \in Retrievals : InvalidateFails(i, q)
  \/ \E p \in Instances, f \in Profiles : Restart(p, f)

\* Every call runs in a thread of its own, which the process schedules.
Fairness == \A i \in Ingests : WF_vars(IngestStep(i))

Spec == Init /\ [][Next]_vars /\ Fairness

----------------------------------------------------------------------------
(* Properties *)

TypeOK ==
  /\ profile \in [Instances -> Profiles]
  /\ \A i \in Ingests : doc[i].status \in {"none", "ACTIVE", "SUPERSEDED"} /\ doc[i].version \in Nat
  /\ chunks \subseteq Ingests
  /\ chunks = Active
  /\ lock \in [Ingests -> Ingests \cup {"none"}]
  /\ \A i \in Ingests :
       /\ ing[i].pc \in {"idle", "select", "wait", "write", "stored", "done"}
       /\ ing[i].reply \in {"none", "refused", "store_error", "ok", "error", "lost"}
  /\ \A q \in Retrievals :
       /\ ret[q].pc \in {"idle", "cache", "lexical", "profile", "vector", "rank", "done"}
       /\ ret[q].reply \in {"none", "ok", "reindex", "error", "lost"}
  /\ \A p \in Instances : \A e \in cache[p] : DOMAIN e = {"key", "answer"}
  /\ restarts \in 0..MaxRestarts

\* Replacing a document (replace_document of the PostgreSQL repository) is one
\* indivisible step of the promised store, and the sum of the versions that the corpus
\* revision hashes counts the replacements, however the transactions interleave.
Current == INSTANCE MetricStore WITH
  Documents <- Ingests,
  entries   <- [t \in Titles |->
                  IF Titled(t) = {} THEN [version |-> 0, document |-> "none"]
                  ELSE LET current == CHOOSE i \in Titled(t) : TRUE
                       IN [version |-> doc[current].version, document |-> current]],
  revision  <- MapThenSumSet(LAMBDA i : doc[i].version, Active)
ImplementsStore == Current!Spec

\* No two states of the corpus have the same revision (corpus_revision), although the
\* time of a document is taken before its transaction and may be an old one.
RevisionIdentifiesCorpus ==
  \A a, b \in DOMAIN revisions : a # b => revisions[a] # revisions[b]

\* What retrieve answers, from the cache of any process or not, holds no document that
\* was superseded before the call, and its lexical part holds every document that was
\* current from the call until now: the answer is never older than the question.
AnswersAreFresh ==
  \A q \in Retrievals : ret[q].reply = "ok" =>
    /\ \A i \in ret[q].answer.lexical \cup ret[q].answer.vector :
         doc[i].died = 0 \/ doc[i].died > ret[q].since
    /\ Lexical(ret[q].mode) =>
         \A i \in Active : doc[i].born <= ret[q].since => i \in ret[q].answer.lexical

\* A query vector is only ever compared with chunks embedded under the same profile,
\* although the check for other profiles is made one transaction earlier.
ComparesOwnProfile ==
  \A q \in Retrievals : ret[q].reply = "ok" =>
    \A i \in ret[q].answer.vector : doc[i].profile = ret[q].profile

\* Every ingest ends, also one that waits for the row another transaction has locked
\* (SELECT ... FOR UPDATE), whatever becomes of that transaction.
IngestsEnd == \A i \in Ingests : ing[i].pc # "idle" ~> ing[i].pc = "done"
=============================================================================
