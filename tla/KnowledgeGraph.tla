--------------------------- MODULE KnowledgeGraph ---------------------------
(***************************************************************************)
(* The knowledge graph of one tenant in Neo4j: extractions replace the     *)
(* graph of a source in one transaction of four statements, and questions  *)
(* read a part of the graph, nodes and edges in two transactions, gather   *)
(* evidence and let the model answer from it.                              *)
(*                                                                         *)
(* A node is identified by its source and its name (uuid5 of both), an     *)
(* edge by its two nodes; "by" is the extraction an object was written by. *)
(* Statements see what is committed and what their own transaction did.    *)
(***************************************************************************)
EXTENDS Naturals, Sequences, FiniteSets, FiniteSetsExt, SequencesExt

CONSTANTS
  Extractions,   \* calls of extract
  Extracted,     \* Extracted[x]: [source, names, relations] the model found for x
  Questions,     \* calls of answer
  Query,         \* Query[q]: the names the question matches
  Rank,          \* Rank[n]: the order of node ids
  Depth, Limit,  \* of the subgraph that is read
  SeedLimit,     \* nodes the search starts from, at most
  EdgeLimit,     \* edges that are read, at most
  Documents,     \* keys of the documents retrieval may return
  Size,          \* Size[kind]: characters one piece of evidence takes
  Budget,        \* characters of evidence the model is shown, at most
  MaxAborts      \* bound: transactions that fail

ASSUME GraphAssumption ==
  /\ \A x \in Extractions : Extracted[x].relations \subseteq Extracted[x].names \X Extracted[x].names
  /\ \A x \in Extractions : {Extracted[x].source} \X Extracted[x].names \subseteq DOMAIN Rank
  /\ "none" \notin Extractions
  /\ \A x \in Extractions : IsFiniteSet(Extracted[x].names)
  /\ IsFiniteSet(Extractions) /\ IsFiniteSet(Documents)
  /\ Size \in [{"edge", "document", "node"} -> Nat]
  /\ {Depth, Limit, SeedLimit, EdgeLimit, Budget, MaxAborts} \subseteq Nat

VARIABLES
  nodes, edges,  \* what is committed
  lock,          \* lock[s]: the transaction that holds the GraphSource of s
  tx,            \* the extraction's transaction
  ask,           \* the questions
  aborts

vars == <<nodes, edges, lock, tx, ask, aborts>>

Sources == {Extracted[x].source : x \in Extractions}

NoTx == [pc |-> "idle", deleted |-> {}, nodes |-> {}, edges |-> {}, reply |-> "none"]
NoQuestion == [pc |-> "idle", nodes |-> {}, edges |-> {}, ids |-> {}, shown |-> {}, used |-> 0,
               cited |-> {}, reply |-> "none"]

Init ==
  /\ nodes = {} /\ edges = {}
  /\ lock = [s \in Sources |-> "none"]
  /\ tx = [x \in Extractions |-> NoTx]
  /\ ask = [q \in Questions |-> NoQuestion]
  /\ aborts = 0

----------------------------------------------------------------------------
(* Extraction *)

At(x, pc) == tx[x].pc = pc
Source(x) == Extracted[x].source
Id(x, name) == <<Source(x), name>>

\* persist: ids from names, repeated relations once.
GraphOf(x) == [nodes |-> {[id |-> Id(x, n), by |-> x] : n \in Extracted[x].names},
               edges |-> {[from |-> Id(x, r[1]), to |-> Id(x, r[2]), by |-> x] : r \in Extracted[x].relations}]

\* The model answers, and the extraction is accepted or refused (duplicates, unknown
\* references, evidence that is no quote of the text).
Extract(x) ==
  /\ At(x, "idle")
  /\ \/ tx' = [tx EXCEPT ![x].pc = "merge"]
     \/ tx' = [tx EXCEPT ![x] = [@ EXCEPT !.pc = "done", !.reply = "refused"]]
  /\ UNCHANGED <<nodes, edges, lock, ask, aborts>>

\* Mutant: the source record is not locked.
MutMergeSource(x) ==
  /\ At(x, "merge")
  /\ tx' = [tx EXCEPT ![x].pc = "delete"]
  /\ UNCHANGED <<nodes, edges, lock, ask, aborts>>

\* MERGE ... SET on the source record waits for its lock and keeps it.
MergeSource(x) ==
  /\ At(x, "merge")
  /\ lock[Source(x)] = "none"
  /\ lock' = [lock EXCEPT ![Source(x)] = x]
  /\ tx' = [tx EXCEPT ![x].pc = "delete"]
  /\ UNCHANGED <<nodes, edges, ask, aborts>>

\* DETACH DELETE of the source's nodes.
DeleteOld(x) ==
  /\ At(x, "delete")
  /\ tx' = [tx EXCEPT ![x] = [@ EXCEPT !.pc = "nodes", !.deleted = {n \in nodes : n.id[1] = Source(x)}]]
  /\ UNCHANGED <<nodes, edges, lock, ask, aborts>>

Ids(ns) == {n.id : n \in ns}

\* CREATE the nodes.  The unique constraint makes it wait for another transaction that
\* creates one of them, and fail if one of them is there.
CreateNodes(x) ==
  /\ At(x, "nodes")
  /\ \A y \in Extractions \ {x} : Ids(tx[y].nodes) \cap Ids(GraphOf(x).nodes) = {}
  /\ Ids(nodes \ tx[x].deleted) \cap Ids(GraphOf(x).nodes) = {}
  /\ tx' = [tx EXCEPT ![x] = [@ EXCEPT !.pc = "edges", !.nodes = GraphOf(x).nodes]]
  /\ UNCHANGED <<nodes, edges, lock, ask, aborts>>

\* CREATE the edges between the nodes that the transaction sees.
CreateEdges(x) ==
  /\ At(x, "edges")
  /\ LET visible == Ids((nodes \ tx[x].deleted) \cup tx[x].nodes) IN
     tx' = [tx EXCEPT ![x] = [@ EXCEPT !.pc = "commit",
              !.edges = {e \in GraphOf(x).edges : {e.from, e.to} \subseteq visible}]]
  /\ UNCHANGED <<nodes, edges, lock, ask, aborts>>

Unlock(x) == lock' = [s \in Sources |-> IF lock[s] = x THEN "none" ELSE lock[s]]

\* Mutant: the edges of deleted nodes stay.
MutEdgesLeft(x) == edges

\* DETACH: the edges of deleted nodes go with them.
EdgesLeft(x) == {e \in edges : {e.from, e.to} \subseteq Ids(nodes \ tx[x].deleted)}

\* The commit, whose acknowledgement may be lost.
Commit(x) ==
  /\ At(x, "commit")
  /\ nodes' = (nodes \ tx[x].deleted) \cup tx[x].nodes
  /\ edges' = EdgesLeft(x) \cup tx[x].edges
  /\ Unlock(x)
  /\ \E reply \in {"ok", "unavailable"} :
       tx' = [tx EXCEPT ![x] = [NoTx EXCEPT !.pc = "done", !.reply = reply]]
  /\ UNCHANGED <<ask, aborts>>

\* Mutant: a transaction that fails keeps its locks.
MutAbort(x) ==
  /\ tx[x].pc \in {"merge", "delete", "nodes", "edges", "commit"}
  /\ aborts < MaxAborts
  /\ aborts' = aborts + 1
  /\ tx' = [tx EXCEPT ![x] = [NoTx EXCEPT !.pc = "done", !.reply = "unavailable"]]
  /\ UNCHANGED <<nodes, edges, lock, ask>>

\* A statement fails and the transaction is rolled back; execute_write tries it again
\* if the error is transient and time is left.
Abort(x) ==
  /\ tx[x].pc \in {"merge", "delete", "nodes", "edges", "commit"}
  /\ aborts < MaxAborts
  /\ aborts' = aborts + 1
  /\ Unlock(x)
  /\ \/ tx' = [tx EXCEPT ![x] = [NoTx EXCEPT !.pc = "merge"]]
     \/ tx' = [tx EXCEPT ![x] = [NoTx EXCEPT !.pc = "done", !.reply = "unavailable"]]
  /\ UNCHANGED <<nodes, edges, ask>>

----------------------------------------------------------------------------
(* Questions *)

AskAt(q, pc) == ask[q].pc = pc

\* The first k of a set of nodes in the order of their ids.
Take(ns, k) == {n \in ns : Cardinality({m \in ns : Rank[m.id] < Rank[n.id]}) < k}

\* The nodes at most d edges away from the seeds.
Reach(seeds, d) ==
  LET near[i \in 0..d] ==
        IF i = 0 THEN Ids(seeds)
        ELSE near[i - 1] \cup {e.to : e \in {f \in edges : f.from \in near[i - 1]}}
                         \cup {e.from : e \in {f \in edges : f.to \in near[i - 1]}}
  IN {n \in nodes : n.id \in near[d]}

\* subgraph, first statement: seeds by name, then what they reach; one node more than
\* the limit is asked for.
ReadNodes(q) ==
  /\ AskAt(q, "idle")
  /\ LET seeds == Take({n \in nodes : n.id[2] \in Query[q]}, Min({SeedLimit, Limit + 1}))
     IN ask' = [ask EXCEPT ![q] = [@ EXCEPT !.pc = "edges", !.nodes = Take(Reach(seeds, Depth), Limit + 1)]]
  /\ UNCHANGED <<nodes, edges, lock, tx, aborts>>

\* Mutant: the node beyond the limit is asked for its edges, too.
MutChosen(q) == ask[q].nodes

Chosen(q) == Take(ask[q].nodes, Limit)

\* subgraph, second statement: the edges between the nodes that are returned, up to the
\* limit; which ones depends on ids this model leaves out.
ReadEdges(q) ==
  /\ AskAt(q, "edges")
  /\ LET found == {e \in edges : {e.from, e.to} \subseteq Ids(Chosen(q))}
     IN \E kept \in SUBSET found :
          /\ Cardinality(kept) = Min({EdgeLimit, Cardinality(found)})
          /\ ask' = [ask EXCEPT ![q] = [@ EXCEPT !.pc = "gather", !.nodes = Take(ask[q].nodes, Limit), !.edges = kept]]
  /\ UNCHANGED <<nodes, edges, lock, tx, aborts>>

\* Mutant: evidence is taken in the order it was gathered.
MutOrder(ns, es, ds) == SetToSeq(ns) \o SetToSeq(es) \o SetToSeq(ds)

\* Relations first, then documents, then entities.
Order(ns, es, ds) == SetToSeq(es) \o SetToSeq(ds) \o SetToSeq(ns)

\* What fits is shown; what does not is left out, never cut.
Bounded(keys) ==
  FoldLeft(LAMBDA acc, key : IF acc.used + Size[key.kind] > Budget THEN acc
                             ELSE [used |-> acc.used + Size[key.kind], shown |-> acc.shown \cup {key}],
           [used |-> 0, shown |-> {}], keys)

Evidence(kind, things) == {[kind |-> kind, of |-> t] : t \in things}

\* retrieve adds documents, if they are evidence enough, and the evidence is bounded.
Gather(q) ==
  /\ AskAt(q, "gather")
  /\ \E ds \in SUBSET Documents :
       LET found == Bounded(Order(Evidence("node", ask[q].nodes), Evidence("edge", ask[q].edges),
                                  Evidence("document", ds)))
       IN ask' = [ask EXCEPT ![q] =
                    IF found.shown = {} THEN [@ EXCEPT !.pc = "done", !.reply = "insufficient"]
                    ELSE [@ EXCEPT !.pc = "model", !.ids = ds, !.shown = found.shown, !.used = found.used]]
  /\ UNCHANGED <<nodes, edges, lock, tx, aborts>>

\* A transaction that reads fails for good, or retrieve does.
ReadFails(q) ==
  /\ ask[q].pc \in {"idle", "edges", "gather"}
  /\ ask' = [ask EXCEPT ![q] = [@ EXCEPT !.pc = "done", !.reply = "error"]]
  /\ UNCHANGED <<nodes, edges, lock, tx, aborts>>

Known(q, ids) == ids \subseteq ask[q].shown

Unknown == [kind |-> "node", of |-> [id |-> <<"none", "invented">>, by |-> "none"]]

\* The model cites some of the evidence, or something else, or fails.
Answer(q) ==
  /\ AskAt(q, "model")
  /\ \/ \E ids \in {{}, ask[q].shown, {Unknown}} \cup {{k} : k \in ask[q].shown} :
          ask' = [ask EXCEPT ![q] =
            IF Known(q, ids)
            THEN [@ EXCEPT !.pc = "done", !.cited = ids, !.reply = IF ids = {} THEN "insufficient" ELSE "answer"]
            ELSE [@ EXCEPT !.pc = "done", !.reply = "error"]]
     \/ ask' = [ask EXCEPT ![q] = [@ EXCEPT !.pc = "done", !.reply = "error"]]
  /\ UNCHANGED <<nodes, edges, lock, tx, aborts>>

----------------------------------------------------------------------------

ExtractionStep(x) ==
  MergeSource(x) \/ DeleteOld(x) \/ CreateNodes(x) \/ CreateEdges(x) \/ Commit(x)

Next ==
  \/ \E x \in Extractions : Extract(x) \/ ExtractionStep(x) \/ Abort(x)
  \/ \E q \in Questions : ReadNodes(q) \/ ReadEdges(q) \/ Gather(q) \/ ReadFails(q) \/ Answer(q)

\* Every extraction has a thread of its own, and Neo4j grants a lock that stays free.
Fairness == \A x \in Extractions : SF_vars(MergeSource(x)) /\ WF_vars(ExtractionStep(x))

Spec == Init /\ [][Next]_vars /\ Fairness

----------------------------------------------------------------------------
(* Properties *)

TypeOK ==
  /\ Ids(nodes) \subseteq DOMAIN Rank
  /\ \A a, b \in nodes : a.id = b.id => a = b
  /\ \A e \in edges : {e.from, e.to} \subseteq Ids(nodes)
  /\ lock \in [Sources -> Extractions \cup {"none"}]
  /\ \A x \in Extractions : tx[x].pc \in {"idle", "merge", "delete", "nodes", "edges", "commit", "done"}
  /\ \A q \in Questions : ask[q].pc \in {"idle", "edges", "gather", "model", "done"}
  /\ aborts \in 0..MaxAborts

\* Replacing the graph of a source is one indivisible step of the promised store: no
\* interleaving of extractions and no failed transaction leaves the graphs of two
\* extractions mixed, or a part of one (the lock in Neo4jGraphStore.replace).
Store == INSTANCE GraphStore WITH
  Graphs <- {GraphOf(x) : x \in Extractions},
  graphs <- [s \in Sources |-> [nodes |-> {n \in nodes : n.id[1] = s},
                                edges |-> {e \in edges : e.from[1] = s}]]
ImplementsGraphStore == Store!Spec

\* The subgraph of a question is closed although its nodes and its edges are read in two
\* transactions, with a replacement of the graph in between: answer looks up the name
\* of both nodes of every edge.
SubgraphIsClosed ==
  \A q \in Questions : ask[q].pc \in {"gather", "model", "done"} =>
    \A e \in ask[q].edges : {e.from, e.to} \subseteq Ids(ask[q].nodes)

\* The model is shown no more than the budget; a relation is left out only if the
\* relations shown leave no room for it, whatever documents and entities there are.
RelationsComeFirst ==
  \A q \in Questions : ask[q].pc = "model" =>
    LET left == {e \in ask[q].edges : [kind |-> "edge", of |-> e] \notin ask[q].shown}
        shown == {k \in ask[q].shown : k.kind = "edge"}
    IN /\ ask[q].used <= Budget
       /\ left # {} => Size["edge"] * (Cardinality(shown) + 1) > Budget

\* Every accepted extraction ends, also while others hold the lock it needs or fail.
ExtractionsEnd == \A x \in Extractions : At(x, "merge") ~> At(x, "done")
=============================================================================
