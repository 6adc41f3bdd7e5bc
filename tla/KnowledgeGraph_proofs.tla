----------------------- MODULE KnowledgeGraph_proofs -----------------------
(***************************************************************************)
(* The subgraph a question is answered from is closed, the evidence shown  *)
(* keeps to its budget with relations first, and the graphs of the sources *)
(* are replaced as the promised store replaces them, for every set of      *)
(* extractions and questions and every limit.                              *)
(*                                                                         *)
(* The last needs StoreInv: a transaction that deletes or writes holds     *)
(* the lock of its source, so that what it marked for deletion is still    *)
(* all there is of the source when it commits; and no edge leaves its      *)
(* source, so that DETACH takes no edge of another one.                    *)
(***************************************************************************)
EXTENDS KnowledgeGraph, Folds_proofs, SequenceTheorems

\* The state of a question has the fields of NoQuestion.
Shaped ==
  /\ DOMAIN ask = Questions
  /\ \A q \in Questions : DOMAIN ask[q] = {"pc", "nodes", "edges", "ids", "shown", "used", "cited", "reply"}

\* The edges of a question join its nodes: there are none until they are read, and they
\* are asked for by the ids of the nodes that are kept.
ClosedAt(r) ==
  /\ r.pc \in {"idle", "edges"} => r.edges = {}
  /\ r.pc \in {"gather", "model", "done"} => \A e \in r.edges : {e.from, e.to} \subseteq Ids(r.nodes)

Inv == Shaped /\ \A q \in Questions : ClosedAt(ask[q])

\* Only the steps of a question change it.
LEMMA OthersLeaveQuestions ==
  ASSUME NEW x \in Extractions, Extract(x) \/ ExtractionStep(x) \/ Abort(x)
  PROVE  ask' = ask
BY DEF Extract, ExtractionStep, MergeSource, DeleteOld, CreateNodes, CreateEdges, Commit, Abort

\* A question that keeps its nodes and edges after the second read stays closed.
LEMMA KeepsClosed ==
  ASSUME Inv, NEW q \in Questions, NEW r,
         ask' = [ask EXCEPT ![q] = r],
         DOMAIN r = DOMAIN ask[q], ClosedAt(r)
  PROVE  Inv'
BY DEF Inv, Shaped, ClosedAt

LEMMA ReadNodesKeeps ==
  ASSUME Inv, NEW q \in Questions, ReadNodes(q)
  PROVE  Inv'
<1> DEFINE ns == Take(Reach(Take({n \in nodes : n.id[2] \in Query[q]}, Min({SeedLimit, Limit + 1})), Depth), Limit + 1)
           r == [ask[q] EXCEPT !.pc = "edges", !.nodes = ns]
<1>1. ask' = [ask EXCEPT ![q] = r]
  BY DEF ReadNodes, Inv, Shaped
<1>2. DOMAIN r = DOMAIN ask[q]
  OBVIOUS
<1>3. r.pc = "edges" /\ r.edges = {}
  BY DEF Inv, Shaped, ReadNodes, AskAt, ClosedAt
<1> HIDE DEF r
<1>4. ClosedAt(r)
  BY <1>3 DEF ClosedAt
<1> QED BY <1>1, <1>2, <1>4, KeepsClosed

LEMMA ReadEdgesKeeps ==
  ASSUME Inv, NEW q \in Questions, ReadEdges(q)
  PROVE  Inv'
<1> DEFINE found == {e \in edges : {e.from, e.to} \subseteq Ids(Chosen(q))}
<1>1. PICK kept \in SUBSET found :
        ask' = [ask EXCEPT ![q] = [@ EXCEPT !.pc = "gather", !.nodes = Take(ask[q].nodes, Limit), !.edges = kept]]
  BY DEF ReadEdges
<1> DEFINE r == [ask[q] EXCEPT !.pc = "gather", !.nodes = Take(ask[q].nodes, Limit), !.edges = kept]
<1>2. ask' = [ask EXCEPT ![q] = r]
  BY <1>1 DEF Inv, Shaped
<1>3. DOMAIN r = DOMAIN ask[q] /\ r.nodes = Chosen(q) /\ r.edges = kept /\ r.pc = "gather"
  BY DEF Inv, Shaped, Chosen
<1> HIDE DEF r
<1>4. ClosedAt(r)
  BY <1>3 DEF ClosedAt
<1> QED BY <1>2, <1>3, <1>4, KeepsClosed

\* What follows the reads, or their failure, writes neither the nodes nor the edges of the
\* question.
LEMMA OthersKeep ==
  ASSUME Inv, NEW q \in Questions, Gather(q) \/ ReadFails(q) \/ Answer(q)
  PROVE  Inv'
<1>1. ask[q].pc \in {"idle", "edges", "gather", "model"}
  BY DEF Gather, ReadFails, Answer, AskAt
<1> DEFINE Kept(r) == /\ DOMAIN r = DOMAIN ask[q] /\ r.nodes = ask[q].nodes /\ r.edges = ask[q].edges
                      /\ r.pc \in {"model", "done"}
<1>2. \E r : ask' = [ask EXCEPT ![q] = r] /\ Kept(r)
  <2>1. CASE Gather(q)
    <3> DEFINE a == [ask[q] EXCEPT !.pc = "done", !.reply = "insufficient"]
               b(ds, found) == [ask[q] EXCEPT !.pc = "model", !.ids = ds, !.shown = found.shown, !.used = found.used]
    <3>1. ask' = [ask EXCEPT ![q] = a] \/ \E ds, found : ask' = [ask EXCEPT ![q] = b(ds, found)]
      BY <2>1 DEF Gather, Inv, Shaped
    <3>2. Kept(a) /\ \A ds, found : Kept(b(ds, found))
      BY DEF Inv, Shaped
    <3>. HIDE DEF a, b, Kept
    <3>. QED BY <3>1, <3>2
  <2>2. CASE Answer(q)
    <3> DEFINE a(ids) == [ask[q] EXCEPT !.pc = "done", !.cited = ids,
                                        !.reply = IF ids = {} THEN "insufficient" ELSE "answer"]
               b == [ask[q] EXCEPT !.pc = "done", !.reply = "error"]
    <3>1. (\E ids : ask' = [ask EXCEPT ![q] = a(ids)]) \/ ask' = [ask EXCEPT ![q] = b]
      BY <2>2 DEF Answer, Inv, Shaped
    <3>2. (\A ids : Kept(a(ids))) /\ Kept(b)
      BY DEF Inv, Shaped
    <3>. HIDE DEF a, b, Kept
    <3>. QED BY <3>1, <3>2
  <2>3. CASE ReadFails(q)
    <3> DEFINE r == [ask[q] EXCEPT !.pc = "done", !.reply = "error"]
    <3>1. ask' = [ask EXCEPT ![q] = r]
      BY <2>3 DEF ReadFails, Inv, Shaped
    <3>2. Kept(r)
      BY DEF Inv, Shaped
    <3>. HIDE DEF r, Kept
    <3>. QED BY <3>1, <3>2
  <2> QED BY <2>1, <2>2, <2>3
<1>3. PICK r : ask' = [ask EXCEPT ![q] = r] /\ Kept(r)
  BY <1>2
<1>4. ClosedAt(r)
  BY <1>1, <1>3 DEF ClosedAt, Inv
<1> QED BY <1>3, <1>4, KeepsClosed

\* A subgraph is closed although its nodes and its edges are read by two statements,
\* whatever is replaced between them.  (Neo4jGraphStore.subgraph)
THEOREM SubgraphsClosed == Spec => []SubgraphIsClosed
<1>1. Init => Inv
  BY DEF Init, Inv, Shaped, ClosedAt, NoQuestion
<1>2. Inv /\ [Next]_vars => Inv'
  <2> SUFFICES ASSUME Inv, [Next]_vars PROVE Inv'
    OBVIOUS
  <2>1. CASE UNCHANGED vars
    BY <2>1 DEF vars, Inv, Shaped, ClosedAt
  <2>2. ASSUME NEW x \in Extractions, Extract(x) \/ ExtractionStep(x) \/ Abort(x) PROVE Inv'
    BY <2>2, OthersLeaveQuestions DEF Inv, Shaped, ClosedAt
  <2>3. ASSUME NEW q \in Questions, ReadNodes(q) \/ ReadEdges(q) \/ Gather(q) \/ ReadFails(q) \/ Answer(q) PROVE Inv'
    BY <2>3, ReadNodesKeeps, ReadEdgesKeeps, OthersKeep
  <2> QED BY <2>1, <2>2, <2>3 DEF Next
<1>3. Inv => SubgraphIsClosed
  BY DEF Inv, ClosedAt, SubgraphIsClosed
<1> QED BY <1>1, <1>2, <1>3, PTL DEF Spec

----------------------------------------------------------------------------
(* Replacing the graph of a source *)

AnyNode == UNION {GraphOf(x).nodes : x \in Extractions}
AnyEdge == UNION {GraphOf(x).edges : x \in Extractions}

Transaction == [pc : {"idle", "merge", "delete", "nodes", "edges", "commit", "done"},
                deleted : SUBSET AnyNode, nodes : SUBSET AnyNode, edges : SUBSET AnyEdge,
                reply : {"none", "ok", "refused", "unavailable"}]

StoreTypes ==
  /\ tx \in [Extractions -> Transaction]
  /\ nodes \subseteq AnyNode /\ edges \subseteq AnyEdge
  /\ lock \in [Sources -> Extractions \cup {"none"}]

NodesOf(ns, s) == {n \in ns : n.id[1] = s}

\* What transaction r of x has done so far, the committed nodes being ns and the locks l.
Proceeds(x, r, ns, l) ==
  /\ r.pc \in {"delete", "nodes", "edges", "commit"} => l[Source(x)] = x
  /\ r.pc \in {"nodes", "edges", "commit"} => r.deleted = NodesOf(ns, Source(x))
  /\ r.pc \in {"edges", "commit"} => r.nodes = GraphOf(x).nodes
  /\ r.pc = "commit" => r.edges = GraphOf(x).edges

UniqueIds == \A a, b \in nodes : a.id = b.id => a = b
NoDangling == \A e \in edges : e.from \in Ids(nodes) /\ e.to \in Ids(nodes)

StoreInv ==
  /\ StoreTypes /\ UniqueIds /\ NoDangling
  /\ \A x \in Extractions : Proceeds(x, tx[x], nodes, lock)

\* The nodes of an extraction belong to its source and differ in their ids.
LEMMA GraphNodes ==
  ASSUME NEW x \in Extractions
  PROVE  /\ \A n \in GraphOf(x).nodes : n.id[1] = Source(x) /\ n.id \in DOMAIN Rank
         /\ \A m, n \in GraphOf(x).nodes : m.id = n.id => m = n
<1>1. ASSUME NEW n \in GraphOf(x).nodes
      PROVE  \E a \in Extracted[x].names : n = [id |-> Id(x, a), by |-> x]
  BY DEF GraphOf
<1>2. \A n \in GraphOf(x).nodes : n.id[1] = Source(x) /\ n.id \in DOMAIN Rank
  BY <1>1, GraphAssumption DEF Id, Source
<1>3. \A m, n \in GraphOf(x).nodes : m.id = n.id => m = n
  BY <1>1
<1> QED
  BY <1>2, <1>3

\* Its edges join its nodes.
LEMMA GraphEdges ==
  ASSUME NEW x \in Extractions, NEW e \in GraphOf(x).edges
  PROVE  /\ e.from \in Ids(GraphOf(x).nodes) /\ e.to \in Ids(GraphOf(x).nodes)
         /\ e.from[1] = Source(x) /\ e.to[1] = Source(x)
<1>1. PICK r \in Extracted[x].relations : e = [from |-> Id(x, r[1]), to |-> Id(x, r[2]), by |-> x]
  BY DEF GraphOf
<1>2. r[1] \in Extracted[x].names /\ r[2] \in Extracted[x].names
  BY GraphAssumption
<1>3. \A a \in Extracted[x].names : Id(x, a) \in Ids(GraphOf(x).nodes) /\ Id(x, a)[1] = Source(x)
  <2> SUFFICES ASSUME NEW a \in Extracted[x].names
               PROVE  Id(x, a) \in Ids(GraphOf(x).nodes) /\ Id(x, a)[1] = Source(x)
    OBVIOUS
  <2>1. [id |-> Id(x, a), by |-> x] \in GraphOf(x).nodes
    BY DEF GraphOf
  <2> QED
    BY <2>1 DEF Ids, Id
<1> QED
  BY <1>1, <1>2, <1>3

\* Every source is that of an extraction.
LEMMA SourceType == ASSUME NEW x \in Extractions PROVE Source(x) \in Sources
BY DEF Source, Sources

\* A step that changes neither the graph nor a lock another transaction holds leaves the
\* other transactions as they are.
LEMMA TransactionKeeps ==
  ASSUME StoreInv, NEW x \in Extractions, NEW r \in Transaction, tx' = [tx EXCEPT ![x] = r],
         UNCHANGED <<nodes, edges>>, lock' \in [Sources -> Extractions \cup {"none"}],
         \A y \in Extractions \ {x} : lock[Source(y)] = y => lock'[Source(y)] = y,
         Proceeds(x, r, nodes, lock')
  PROVE  StoreInv'
<1>1. StoreTypes'
  BY DEF StoreInv, StoreTypes
<1>2. ASSUME NEW y \in Extractions PROVE Proceeds(y, tx'[y], nodes, lock')
  <2>1. CASE y = x
    BY <2>1 DEF StoreInv, StoreTypes
  <2>2. CASE y # x
    <3>1. tx'[y] = tx[y] /\ Proceeds(y, tx[y], nodes, lock)
      BY <2>2 DEF StoreInv, StoreTypes
    <3> QED
      BY <2>2, <3>1 DEF Proceeds
  <2> QED
    BY <2>1, <2>2
<1>3. UniqueIds' /\ NoDangling'
  BY DEF StoreInv, UniqueIds, NoDangling
<1> QED
  BY <1>1, <1>2, <1>3 DEF StoreInv

\* What Unlock leaves.
LEMMA UnlockLeaves ==
  ASSUME StoreInv, NEW x \in Extractions, Unlock(x)
  PROVE  /\ lock' \in [Sources -> Extractions \cup {"none"}]
         /\ \A y \in Extractions \ {x} : lock[Source(y)] = y => lock'[Source(y)] = y
BY SourceType DEF StoreInv, StoreTypes, Unlock

\* The steps before the commit.
LEMMA ExtractKeepsStore == ASSUME StoreInv, NEW x \in Extractions, Extract(x) PROVE StoreInv'
<1> DEFINE a == [tx[x] EXCEPT !.pc = "merge"]
           b == [tx[x] EXCEPT !.pc = "done", !.reply = "refused"]
<1>1. tx[x] \in Transaction
  BY DEF StoreInv, StoreTypes
<1>2. a \in Transaction /\ b \in Transaction /\ a.pc = "merge" /\ b.pc = "done"
  BY <1>1 DEF Transaction
<1>3. /\ tx' = [tx EXCEPT ![x] = a] \/ tx' = [tx EXCEPT ![x] = b]
      /\ UNCHANGED <<nodes, edges, lock>>
  BY DEF Extract
<1> HIDE DEF a, b
<1>4. Proceeds(x, a, nodes, lock') /\ Proceeds(x, b, nodes, lock')
  BY <1>2 DEF Proceeds
<1> QED
  BY <1>2, <1>3, <1>4, TransactionKeeps DEF StoreInv, StoreTypes

\* The lock is taken while nobody holds it.
LEMMA MergeSourceKeepsStore ==
  ASSUME StoreInv, NEW x \in Extractions, MergeSource(x) PROVE StoreInv'
<1> DEFINE a == [tx[x] EXCEPT !.pc = "delete"]
<1>1. tx[x] \in Transaction /\ lock \in [Sources -> Extractions \cup {"none"}] /\ Source(x) \in Sources
  BY SourceType DEF StoreInv, StoreTypes
<1>2. a \in Transaction /\ a.pc = "delete"
  BY <1>1 DEF Transaction
<1>3. /\ tx' = [tx EXCEPT ![x] = a] /\ UNCHANGED <<nodes, edges>>
      /\ lock' = [lock EXCEPT ![Source(x)] = x] /\ lock[Source(x)] = "none"
  BY DEF MergeSource
<1> HIDE DEF a
<1>4. Proceeds(x, a, nodes, lock')
  BY <1>1, <1>2, <1>3 DEF Proceeds
<1>5. /\ lock' \in [Sources -> Extractions \cup {"none"}]
      /\ \A y \in Extractions \ {x} : lock[Source(y)] = y => lock'[Source(y)] = y
  BY <1>1, <1>3, SourceType, GraphAssumption
<1> QED
  BY <1>2, <1>3, <1>4, <1>5, TransactionKeeps

\* The nodes of the source are marked for deletion,
LEMMA DeleteOldKeepsStore ==
  ASSUME StoreInv, NEW x \in Extractions, DeleteOld(x) PROVE StoreInv'
<1> DEFINE old == {n \in nodes : n.id[1] = Source(x)}
           a == [tx[x] EXCEPT !.pc = "nodes", !.deleted = old]
<1>1. tx[x] \in Transaction /\ tx[x].pc = "delete" /\ Proceeds(x, tx[x], nodes, lock)
  BY DEF StoreInv, StoreTypes, DeleteOld, At
<1>2. old \in SUBSET AnyNode /\ old = NodesOf(nodes, Source(x))
  BY DEF StoreInv, StoreTypes, NodesOf
<1>3. /\ tx' = [tx EXCEPT ![x] = a] /\ UNCHANGED <<nodes, edges, lock>>
  BY DEF DeleteOld
<1> HIDE DEF old
<1>4. a \in Transaction /\ a.pc = "nodes" /\ a.deleted = old
  BY <1>1, <1>2 DEF Transaction
<1> HIDE DEF a
<1>5. Proceeds(x, a, nodes, lock')
  BY <1>1, <1>2, <1>3, <1>4 DEF Proceeds
<1> QED
  BY <1>3, <1>4, <1>5, TransactionKeeps DEF StoreInv, StoreTypes

\* all nodes of the extraction are created,
LEMMA CreateNodesKeepsStore ==
  ASSUME StoreInv, NEW x \in Extractions, CreateNodes(x) PROVE StoreInv'
<1> DEFINE new == GraphOf(x).nodes
           a == [tx[x] EXCEPT !.pc = "edges", !.nodes = new]
<1>1. tx[x] \in Transaction /\ tx[x].pc = "nodes" /\ Proceeds(x, tx[x], nodes, lock)
  BY DEF StoreInv, StoreTypes, CreateNodes, At
<1>2. new \in SUBSET AnyNode
  BY DEF AnyNode
<1>3. /\ tx' = [tx EXCEPT ![x] = a] /\ UNCHANGED <<nodes, edges, lock>>
  BY DEF CreateNodes
<1> HIDE DEF new
<1>4. a \in Transaction /\ a.pc = "edges" /\ a.deleted = tx[x].deleted /\ a.nodes = new
  BY <1>1, <1>2 DEF Transaction
<1> HIDE DEF a
<1>5. Proceeds(x, a, nodes, lock')
  BY <1>1, <1>3, <1>4 DEF Proceeds, new
<1> QED
  BY <1>3, <1>4, <1>5, TransactionKeeps DEF StoreInv, StoreTypes

\* and all its edges, whose nodes the transaction sees.
LEMMA CreateEdgesKeepsStore ==
  ASSUME StoreInv, NEW x \in Extractions, CreateEdges(x) PROVE StoreInv'
<1> DEFINE visible == Ids((nodes \ tx[x].deleted) \cup tx[x].nodes)
           new == {e \in GraphOf(x).edges : {e.from, e.to} \subseteq visible}
           a == [tx[x] EXCEPT !.pc = "commit", !.edges = new]
<1>1. tx[x] \in Transaction /\ tx[x].pc = "edges" /\ Proceeds(x, tx[x], nodes, lock)
  BY DEF StoreInv, StoreTypes, CreateEdges, At
<1>2. new = GraphOf(x).edges
  <2>1. tx[x].nodes = GraphOf(x).nodes
    BY <1>1 DEF Proceeds
  <2>2. Ids(GraphOf(x).nodes) \subseteq visible
    BY <2>1 DEF Ids
  <2> HIDE DEF visible
  <2> QED
    BY <2>2, GraphEdges
<1>3. new \in SUBSET AnyEdge
  BY <1>2 DEF AnyEdge
<1>4. /\ tx' = [tx EXCEPT ![x] = a] /\ UNCHANGED <<nodes, edges, lock>>
  BY DEF CreateEdges
<1> HIDE DEF new
<1>5. a \in Transaction /\ a.pc = "commit" /\ a.deleted = tx[x].deleted /\ a.nodes = tx[x].nodes /\ a.edges = new
  BY <1>1, <1>3 DEF Transaction
<1> HIDE DEF a
<1>6. Proceeds(x, a, nodes, lock')
  BY <1>1, <1>2, <1>4, <1>5 DEF Proceeds
<1> QED
  BY <1>4, <1>5, <1>6, TransactionKeeps DEF StoreInv, StoreTypes

\* A transaction that is rolled back holds nothing.
LEMMA AbortKeepsStore == ASSUME StoreInv, NEW x \in Extractions, Abort(x) PROVE StoreInv'
<1> DEFINE a == [NoTx EXCEPT !.pc = "merge"]
           b == [NoTx EXCEPT !.pc = "done", !.reply = "unavailable"]
<1>1. a \in Transaction /\ b \in Transaction /\ a.pc = "merge" /\ b.pc = "done"
  BY DEF Transaction, NoTx
<1>2. /\ tx' = [tx EXCEPT ![x] = a] \/ tx' = [tx EXCEPT ![x] = b]
      /\ UNCHANGED <<nodes, edges>> /\ Unlock(x)
  BY DEF Abort
<1> HIDE DEF a, b
<1>3. Proceeds(x, a, nodes, lock') /\ Proceeds(x, b, nodes, lock')
  BY <1>1 DEF Proceeds
<1> QED
  BY <1>1, <1>2, <1>3, UnlockLeaves, TransactionKeeps

\* What a commit leaves of each source: the graph of the extraction, and the others'.
LEMMA CommitReplaces ==
  ASSUME StoreInv, NEW x \in Extractions, Commit(x)
  PROVE  /\ NodesOf(nodes', Source(x)) = GraphOf(x).nodes
         /\ {e \in edges' : e.from[1] = Source(x)} = GraphOf(x).edges
         /\ \A s : s # Source(x) => /\ NodesOf(nodes', s) = NodesOf(nodes, s)
                                    /\ {e \in edges' : e.from[1] = s} = {e \in edges : e.from[1] = s}
         /\ nodes' = {n \in nodes : n.id[1] # Source(x)} \cup GraphOf(x).nodes
         /\ edges' \subseteq AnyEdge /\ NoDangling'
<1>1. /\ lock[Source(x)] = x /\ tx[x].deleted = NodesOf(nodes, Source(x))
      /\ tx[x].nodes = GraphOf(x).nodes /\ tx[x].edges = GraphOf(x).edges
  BY DEF StoreInv, Proceeds, Commit, At
<1> DEFINE rest == {n \in nodes : n.id[1] # Source(x)}
           left == {e \in edges : e.from \in Ids(rest) /\ e.to \in Ids(rest)}
           new == GraphOf(x).nodes
           joins == GraphOf(x).edges
<1>2. nodes \ tx[x].deleted = rest
  BY <1>1 DEF NodesOf
<1>3. nodes' = rest \cup new /\ edges' = left \cup joins
  BY <1>1, <1>2 DEF Commit, EdgesLeft
<1>4. \A n \in new : n.id[1] = Source(x)
  BY GraphNodes
<1>5. \A e \in joins : e.from[1] = Source(x) /\ e.from \in Ids(new) /\ e.to \in Ids(new)
  BY GraphEdges
<1>6. \A e \in edges : e.to[1] = e.from[1] /\ e.from \in Ids(nodes) /\ e.to \in Ids(nodes)
  BY GraphEdges DEF StoreInv, StoreTypes, AnyEdge, NoDangling
<1>7. \A e \in edges : e \in left <=> e.from[1] # Source(x)
  <2> SUFFICES ASSUME NEW e \in edges PROVE e \in left <=> e.from[1] # Source(x)
    OBVIOUS
  <2>1. PICK m \in nodes, n \in nodes : e.from = m.id /\ e.to = n.id
    BY <1>6 DEF Ids
  <2>2. m \in rest /\ n \in rest <=> e.from[1] # Source(x)
    BY <1>6, <2>1
  <2>3. e.from \in Ids(rest) => e.from[1] # Source(x)
    BY DEF Ids
  <2> QED
    BY <2>1, <2>2, <2>3 DEF Ids
<1> HIDE DEF left, new, joins
<1>8. NodesOf(nodes', Source(x)) = new
  BY <1>3, <1>4 DEF NodesOf
<1>9. {e \in edges' : e.from[1] = Source(x)} = joins
  BY <1>3, <1>5, <1>7 DEF left
<1>10. ASSUME NEW s, s # Source(x)
       PROVE  /\ NodesOf(nodes', s) = NodesOf(nodes, s)
              /\ {e \in edges' : e.from[1] = s} = {e \in edges : e.from[1] = s}
  <2>1. NodesOf(nodes', s) = NodesOf(nodes, s)
    BY <1>3, <1>4, <1>10 DEF NodesOf
  <2>2. left \subseteq edges
    BY DEF left
  <2>3. \A e : e \in edges' /\ e.from[1] = s <=> e \in edges /\ e.from[1] = s
    BY <1>3, <1>5, <1>7, <1>10, <2>2
  <2> QED
    BY <2>1, <2>3
<1>11. edges' \subseteq AnyEdge
  BY <1>3 DEF left, joins, AnyEdge, StoreInv, StoreTypes
<1>12. NoDangling'
  <2>1. Ids(rest) \subseteq Ids(nodes') /\ Ids(new) \subseteq Ids(nodes')
    BY <1>3 DEF Ids
  <2>2. \A e \in left : e.from \in Ids(rest) /\ e.to \in Ids(rest)
    BY DEF left
  <2> HIDE DEF rest
  <2> QED
    BY <1>3, <1>5, <2>1, <2>2 DEF NoDangling
<1> QED
  BY <1>3, <1>8, <1>9, <1>10, <1>11, <1>12 DEF new, joins

\* The commit keeps the other transactions going: they are of other sources.
LEMMA CommitKeepsStore == ASSUME StoreInv, NEW x \in Extractions, Commit(x) PROVE StoreInv'
<1>1. PICK reply \in {"ok", "unavailable"} :
        tx' = [tx EXCEPT ![x] = [NoTx EXCEPT !.pc = "done", !.reply = reply]]
  BY DEF Commit
<1> DEFINE a == [NoTx EXCEPT !.pc = "done", !.reply = reply]
<1>2. a \in Transaction /\ a.pc = "done" /\ tx' = [tx EXCEPT ![x] = a]
  BY <1>1 DEF Transaction, NoTx
<1> HIDE DEF a
<1>3. /\ lock' \in [Sources -> Extractions \cup {"none"}]
      /\ \A y \in Extractions \ {x} : lock[Source(y)] = y => lock'[Source(y)] = y
  BY UnlockLeaves DEF Commit
<1>4. /\ \A s : s # Source(x) => NodesOf(nodes', s) = NodesOf(nodes, s)
      /\ nodes' = {n \in nodes : n.id[1] # Source(x)} \cup GraphOf(x).nodes
      /\ edges' \subseteq AnyEdge /\ NoDangling'
  BY CommitReplaces
<1>5. nodes' \subseteq AnyNode
  BY <1>4 DEF AnyNode, StoreInv, StoreTypes
<1>6. StoreTypes'
  BY <1>2, <1>3, <1>4, <1>5 DEF StoreInv, StoreTypes
<1>7. UniqueIds'
  <2>1. \A n \in GraphOf(x).nodes : n.id[1] = Source(x)
    BY GraphNodes
  <2>2. \A m, n \in GraphOf(x).nodes : m.id = n.id => m = n
    BY GraphNodes
  <2> QED
    BY <1>4, <2>1, <2>2 DEF StoreInv, UniqueIds
<1>8. ASSUME NEW y \in Extractions PROVE Proceeds(y, tx'[y], nodes', lock')
  <2>1. CASE y = x
    BY <1>2, <2>1 DEF StoreInv, StoreTypes, Proceeds
  <2>2. CASE y # x
    <3>1. tx'[y] = tx[y] /\ Proceeds(y, tx[y], nodes, lock)
      BY <1>2, <2>2 DEF StoreInv, StoreTypes
    <3>2. lock[Source(x)] = x
      BY DEF StoreInv, Proceeds, Commit, At
    <3>3. lock[Source(y)] = y => Source(y) # Source(x)
      BY <2>2, <3>2
    <3> QED
      BY <1>3, <1>4, <2>2, <3>1, <3>3 DEF Proceeds
  <2> QED
    BY <2>1, <2>2
<1> QED
  BY <1>4, <1>6, <1>7, <1>8 DEF StoreInv

\* Questions write nothing.
LEMMA QuestionsLeaveStore ==
  ASSUME NEW q \in Questions, ReadNodes(q) \/ ReadEdges(q) \/ Gather(q) \/ ReadFails(q) \/ Answer(q)
  PROVE  UNCHANGED <<nodes, edges, lock, tx, aborts>>
BY DEF ReadNodes, ReadEdges, Gather, ReadFails, Answer

\* Every step keeps the invariant.
LEMMA NextStoreInv == StoreInv /\ [Next]_vars => StoreInv'
<1> SUFFICES ASSUME StoreInv, [Next]_vars PROVE StoreInv'
  OBVIOUS
<1>1. ASSUME UNCHANGED <<nodes, edges, lock, tx>> PROVE StoreInv'
  BY <1>1 DEF StoreInv, StoreTypes, UniqueIds, NoDangling
<1>2. ASSUME NEW x \in Extractions, Extract(x) \/ ExtractionStep(x) \/ Abort(x) PROVE StoreInv'
  BY <1>2, ExtractKeepsStore, MergeSourceKeepsStore, DeleteOldKeepsStore, CreateNodesKeepsStore,
     CreateEdgesKeepsStore, CommitKeepsStore, AbortKeepsStore DEF ExtractionStep
<1>3. ASSUME NEW q \in Questions, ReadNodes(q) \/ ReadEdges(q) \/ Gather(q) \/ ReadFails(q) \/ Answer(q) PROVE StoreInv'
  BY <1>1, <1>3, QuestionsLeaveStore
<1>4. CASE UNCHANGED vars
  BY <1>1, <1>4 DEF vars
<1> QED
  BY <1>2, <1>3, <1>4 DEF Next

\* Initially there is nothing.
LEMMA InitStoreInv == Init => StoreInv
<1> SUFFICES ASSUME Init PROVE StoreInv
  OBVIOUS
<1>1. NoTx \in Transaction /\ NoTx.pc = "idle"
  BY DEF NoTx, Transaction
<1>2. tx = [x \in Extractions |-> NoTx] /\ nodes = {} /\ edges = {}
  BY DEF Init
<1>3. StoreTypes
  BY <1>1, <1>2 DEF Init, StoreTypes
<1>4. \A x \in Extractions : Proceeds(x, tx[x], nodes, lock)
  BY <1>1, <1>2 DEF Proceeds
<1> QED
  BY <1>2, <1>3, <1>4 DEF StoreInv, UniqueIds, NoDangling

\* The invariant holds throughout.
LEMMA StoreInductive == Spec => []StoreInv
BY InitStoreInv, NextStoreInv, PTL DEF Spec

\* The graphs of the sources, as the promised store sees them.
GraphsNow == [s \in Sources |-> [nodes |-> {n \in nodes : n.id[1] = s},
                                 edges |-> {e \in edges : e.from[1] = s}]]

\* A commit replaces the graph of one source.
LEMMA CommitIsReplace ==
  ASSUME StoreInv, NEW x \in Extractions, Commit(x)
  PROVE  GraphsNow' = [GraphsNow EXCEPT ![Source(x)] = GraphOf(x)]
<1>1. GraphOf(x) = [nodes |-> GraphOf(x).nodes, edges |-> GraphOf(x).edges]
  BY DEF GraphOf
<1>2. /\ {n \in nodes' : n.id[1] = Source(x)} = GraphOf(x).nodes
      /\ {e \in edges' : e.from[1] = Source(x)} = GraphOf(x).edges
      /\ \A s : s # Source(x) =>
           /\ {n \in nodes' : n.id[1] = s} = {n \in nodes : n.id[1] = s}
           /\ {e \in edges' : e.from[1] = s} = {e \in edges : e.from[1] = s}
  BY CommitReplaces DEF NodesOf
<1>3. \A s \in Sources : [nodes |-> {n \in nodes' : n.id[1] = s}, edges |-> {e \in edges' : e.from[1] = s}]
                       = IF s = Source(x) THEN GraphOf(x)
                         ELSE [nodes |-> {n \in nodes : n.id[1] = s}, edges |-> {e \in edges : e.from[1] = s}]
  BY <1>1, <1>2
<1> QED
  BY <1>3 DEF GraphsNow

\* Replacing the graph of a source is one indivisible step of the promised store, however
\* many extractions of however many sources run, wait for a lock, fail, or are never
\* told that they were committed.  (Neo4jGraphStore.replace)
THEOREM GraphsAreReplacedWhole == Spec => ImplementsGraphStore
<1>1. Init => Store!Init
  <2> SUFFICES ASSUME Init PROVE GraphsNow = [s \in Sources |-> [nodes |-> {}, edges |-> {}]]
    BY DEF Store!Init, Store!Empty, GraphsNow
  <2>1. nodes = {} /\ edges = {}
    BY DEF Init
  <2> QED
    BY <2>1 DEF GraphsNow
<1>2. StoreInv /\ [Next]_vars => [Store!Next]_GraphsNow
  <2> SUFFICES ASSUME StoreInv, [Next]_vars PROVE [Store!Next]_GraphsNow
    OBVIOUS
  <2>1. ASSUME UNCHANGED <<nodes, edges>> PROVE UNCHANGED GraphsNow
    BY <2>1 DEF GraphsNow
  <2>2. ASSUME NEW x \in Extractions, Commit(x) PROVE Store!Next
    <3>1. Source(x) \in Sources /\ GraphOf(x) \in {GraphOf(y) : y \in Extractions}
      BY SourceType
    <3>2. GraphsNow' = [GraphsNow EXCEPT ![Source(x)] = GraphOf(x)]
      BY <2>2, CommitIsReplace
    <3> QED
      BY <3>1, <3>2 DEF Store!Next, Store!replace, GraphsNow
  <2>3. ASSUME NEW x \in Extractions, Extract(x) \/ ExtractionStep(x) \/ Abort(x)
        PROVE  Commit(x) \/ UNCHANGED <<nodes, edges>>
    BY <2>3 DEF Extract, ExtractionStep, MergeSource, DeleteOld, CreateNodes, CreateEdges, Abort
  <2>4. CASE UNCHANGED vars
    BY <2>1, <2>4 DEF vars
  <2> QED
    BY <2>1, <2>2, <2>3, <2>4, QuestionsLeaveStore DEF Next
<1> QED
  BY <1>1, <1>2, StoreInductive, PTL DEF Spec, ImplementsGraphStore, Store!Spec, GraphsNow

\* Where a question is, and that transactions are aborted within the bound.
Progress ==
  /\ DOMAIN ask = Questions
  /\ \A q \in Questions : /\ ask[q].pc \in {"idle", "edges", "gather", "model", "done"}
                          /\ "pc" \in DOMAIN ask[q]
  /\ aborts \in 0..MaxAborts

\* No step leaves it.
LEMMA NextProgress == Progress /\ [Next]_vars => Progress'
<1> SUFFICES ASSUME Progress, [Next]_vars PROVE Progress'
  OBVIOUS
<1>1. ASSUME UNCHANGED ask, aborts' \in 0..MaxAborts PROVE Progress'
  BY <1>1 DEF Progress
<1>2. ASSUME NEW x \in Extractions, Extract(x) \/ ExtractionStep(x) \/ Abort(x) PROVE Progress'
  <2>1. UNCHANGED ask
    BY <1>2, OthersLeaveQuestions
  <2>2. CASE UNCHANGED aborts
    BY <1>1, <2>1, <2>2 DEF Progress
  <2>3. CASE aborts < MaxAborts /\ aborts' = aborts + 1
    BY <1>1, <2>1, <2>3, GraphAssumption DEF Progress
  <2> QED
    BY <1>2, <2>2, <2>3 DEF Extract, ExtractionStep, MergeSource, DeleteOld, CreateNodes, CreateEdges,
                            Commit, Abort
<1>3. ASSUME NEW q \in Questions, ReadNodes(q) \/ ReadEdges(q) \/ Gather(q) \/ ReadFails(q) \/ Answer(q) PROVE Progress'
  <2>1. \E r : /\ ask' = [ask EXCEPT ![q] = r] /\ DOMAIN r = DOMAIN ask[q]
               /\ r.pc \in {"edges", "gather", "model", "done"}
    <3>1. CASE ReadNodes(q)
      <4> DEFINE ns == Take(Reach(Take({n \in nodes : n.id[2] \in Query[q]}, Min({SeedLimit, Limit + 1})), Depth), Limit + 1)
                 r == [ask[q] EXCEPT !.pc = "edges", !.nodes = ns]
      <4>1. ask' = [ask EXCEPT ![q] = r]
        BY <3>1 DEF ReadNodes, Progress
      <4> HIDE DEF ns
      <4>2. DOMAIN r = DOMAIN ask[q] /\ r.pc = "edges"
        BY DEF Progress
      <4> HIDE DEF r
      <4> QED
        BY <4>1, <4>2
    <3>2. CASE ReadEdges(q)
      BY <3>2 DEF ReadEdges, Progress
    <3>3. CASE Gather(q)
      BY <3>3 DEF Gather, Progress
    <3>4. CASE Answer(q)
      BY <3>4 DEF Answer, Progress
    <3>5. CASE ReadFails(q)
      <4> DEFINE r == [ask[q] EXCEPT !.pc = "done", !.reply = "error"]
      <4>1. ask' = [ask EXCEPT ![q] = r]
        BY <3>5 DEF ReadFails, Progress
      <4>2. DOMAIN r = DOMAIN ask[q] /\ r.pc = "done"
        BY DEF Progress
      <4> HIDE DEF r
      <4> QED
        BY <4>1, <4>2
    <3> QED
      BY <1>3, <3>1, <3>2, <3>3, <3>4, <3>5
  <2>2. PICK r : /\ ask' = [ask EXCEPT ![q] = r] /\ DOMAIN r = DOMAIN ask[q]
                 /\ r.pc \in {"edges", "gather", "model", "done"}
    BY <2>1
  <2>3. UNCHANGED aborts
    BY <1>3, QuestionsLeaveStore
  <2> QED
    BY <2>2, <2>3 DEF Progress
<1>4. CASE UNCHANGED vars
  BY <1>1, <1>4 DEF vars, Progress
<1> QED
  BY <1>2, <1>3, <1>4 DEF Next

\* The committed graph keeps the constraints of the store: an id is there once, every edge
\* has its two nodes, and a lock is held by an extraction or by nobody.
THEOREM GraphIsWellFormed == Spec => []TypeOK
<1>1. Init => Progress
  BY GraphAssumption DEF Init, Progress, NoQuestion
<1>2. StoreInv /\ Progress => TypeOK
  <2> SUFFICES ASSUME StoreInv, Progress PROVE TypeOK
    OBVIOUS
  <2>1. Ids(nodes) \subseteq DOMAIN Rank
    BY GraphNodes DEF StoreInv, StoreTypes, AnyNode, Ids
  <2>2. \A x \in Extractions : tx[x].pc \in {"idle", "merge", "delete", "nodes", "edges", "commit", "done"}
    BY DEF StoreInv, StoreTypes, Transaction
  <2> QED
    BY <2>1, <2>2 DEF TypeOK, StoreInv, StoreTypes, UniqueIds, NoDangling, Progress
<1> QED
  BY <1>1, <1>2, NextProgress, StoreInductive, PTL DEF Spec

----------------------------------------------------------------------------
(* The evidence a question is answered from *)

Kinds == {"edge", "document", "node"}

\* One step of Bounded: the key is shown if it fits.
Fit(acc, key) == IF acc.used + Size[key.kind] > Budget THEN acc
                 ELSE [used |-> acc.used + Size[key.kind], shown |-> acc.shown \cup {key}]

\* What Bounded goes through, key by key.
LEMMA BoundedSteps ==
  ASSUME NEW n \in Nat, NEW keys, DOMAIN keys = 1..n, \A i \in 1..n : keys[i].kind \in Kinds
  PROVE  \E h : /\ h[0] = [used |-> 0, shown |-> {}]
                /\ \A k \in 1..n : h[k] = Fit(h[k - 1], keys[k])
                /\ h[n] = Bounded(keys)
<1> DEFINE K == {keys[i] : i \in 1..n}
           A == [used : Nat, shown : SUBSET K]
           base == [used |-> 0, shown |-> {}]
           step == [p \in A \X (1..n) |-> Fit(p[1], keys[p[2]])]
           Is(f) == f = [s \in SUBSET (1..n) |-> IF s = {} THEN base ELSE Fit(f[s \ {Max(s)}], keys[Max(s)])]
<1>1. ASSUME NEW a \in A, NEW i \in 1..n
      PROVE  step[<<a, i>>] = Fit(a, keys[i]) /\ step[<<a, i>>] \in A
  <2>1. Size[keys[i].kind] \in Nat /\ keys[i] \in K
    BY GraphAssumption DEF Kinds
  <2>2. Fit(a, keys[i]) \in A
    BY <2>1 DEF Fit
  <2>. QED BY <2>2
<1>2. base \in A
  OBVIOUS
<1>. HIDE DEF step, A, base
<1>a. \A a \in A, i \in 1..n : step[<<a, i>>] \in A
  BY <1>1
<1>3. PICK f : Folds(n, base, step, f) /\ \A s \in SUBSET (1..n) : f[s] \in A
  BY <1>a, <1>2, FoldExists
<1>4. Is(f)
  <2>1. ASSUME NEW s \in SUBSET (1..n), s # {}
        PROVE  step[<<f[s \ {Max(s)}], Max(s)>>] = Fit(f[s \ {Max(s)}], keys[Max(s)])
    <3>1. s \in SUBSET Nat /\ \A y \in s : y <= n
      OBVIOUS
    <3>2. Max(s) \in 1..n
      BY <2>1, <3>1, MaxIs
    <3>3. f[s \ {Max(s)}] \in A
      BY <1>3
    <3>. QED BY <1>1, <3>2, <3>3
  <2>. QED BY <1>3, <2>1 DEF Folds
<1> DEFINE g == CHOOSE f_1 : Is(f_1)
<1>5. Is(g)
  BY <1>4
<1>6. Bounded(keys) = g[1..n]
  BY Zenon DEF base, Bounded, FoldLeft, MapThenFoldSet, Fit
<1>. HIDE DEF g
<1>7. g[1..0] = base
  <2>1. 1..0 = {} /\ {} \in SUBSET (1..n)
    OBVIOUS
  <2>. QED BY <1>5, <2>1
<1>8. ASSUME NEW k \in 1..n PROVE g[1..k] = Fit(g[1..(k - 1)], keys[k])
  <2>0. k \in Nat \ {0} /\ 1..k \in SUBSET (1..n)
    OBVIOUS
  <2>1. 1..k # {} /\ Max(1..k) = k /\ (1..k) \ {k} = 1..(k - 1)
    BY <2>0, LastOf
  <2>. QED BY <1>5, <2>0, <2>1
<1> DEFINE h == [k \in 0..n |-> g[1..k]]
<1>9. h[0] = base /\ (\A k \in 1..n : h[k] = Fit(h[k - 1], keys[k])) /\ h[n] = Bounded(keys)
  BY <1>6, <1>7, <1>8
<1>. HIDE DEF h
<1>. QED BY <1>9 DEF base

\* The evidence in its order: the relations are at the front.
LEMMA RelationsFront ==
  ASSUME NEW ns, NEW es, NEW ds, IsFiniteSet(ns), IsFiniteSet(es), IsFiniteSet(ds),
         \A k \in es : k.kind = "edge", \A k \in ds : k.kind = "document", \A k \in ns : k.kind = "node"
  PROVE  LET keys == Order(ns, es, ds)
             m == Cardinality(es)
         IN \E n \in Nat :
              /\ m \in 0..n /\ DOMAIN keys = 1..n
              /\ \A i \in 1..n : keys[i].kind \in Kinds /\ (keys[i].kind = "edge" <=> i <= m)
              /\ \A i, j \in 1..m : keys[i] = keys[j] => i = j
              /\ \A k \in es : \E i \in 1..m : keys[i] = k
<1> DEFINE a == SetToSeq(es)
           b == SetToSeq(ds)
           c == SetToSeq(ns)
           m == Cardinality(es)
           K == es \cup ds \cup ns
           ab == a \o b
           keys == ab \o c
<1>1. /\ m \in Nat /\ a \in [1..m -> es]
      /\ \A i, j \in 1..m : a[i] = a[j] => i = j
      /\ \A k \in es : \E i \in 1..m : a[i] = k
  BY SetToSeqIs
<1>2. PICK d \in Nat : b \in [1..d -> ds]
  BY SetToSeqIs
<1>3. PICK e \in Nat : c \in [1..e -> ns]
  BY SetToSeqIs
<1>. HIDE DEF a, b, c, m
<1>4. /\ a \in Seq(K) /\ b \in Seq(K) /\ c \in Seq(K)
      /\ Len(a) = m /\ Len(b) = d /\ Len(c) = e
  <2>1. a \in [1..m -> K] /\ b \in [1..d -> K] /\ c \in [1..e -> K]
    BY <1>1, <1>2, <1>3
  <2>. QED BY <1>1, <2>1
<1>5. /\ ab \in Seq(K) /\ Len(ab) = m + d
      /\ \A i \in 1..(m + d) : ab[i] = IF i <= m THEN a[i] ELSE b[i - m]
  BY <1>4, ConcatProperties
<1>. HIDE DEF ab, K
<1>6. /\ keys \in Seq(K) /\ Len(keys) = (m + d) + e
      /\ \A i \in 1..((m + d) + e) : keys[i] = IF i <= m + d THEN ab[i] ELSE c[i - (m + d)]
  <2>1. /\ keys \in Seq(K) /\ Len(keys) = Len(ab) + Len(c)
        /\ \A i \in 1..(Len(ab) + Len(c)) : keys[i] = IF i <= Len(ab) THEN ab[i] ELSE c[i - Len(ab)]
    <3>1. ab \in Seq(K) /\ c \in Seq(K)
      BY <1>4, <1>5
    <3>. QED BY <3>1, ConcatProperties
  <2>. HIDE DEF keys
  <2>. QED BY <1>4, <1>5, <2>1
<1>. HIDE DEF keys
<1>7. ASSUME NEW i \in 1..((m + d) + e)
      PROVE  /\ i <= m => keys[i] = a[i] /\ keys[i] \in es
             /\ i > m => keys[i] \in ds \cup ns
  <2>1. CASE i <= m
    BY <1>1, <1>5, <1>6, <2>1
  <2>2. CASE i > m /\ i <= m + d
    <3>1. i \in 1..(m + d) /\ ~(i <= m) /\ i - m \in 1..d
      BY <1>1, <2>2
    <3>2. keys[i] = b[i - m]
      BY <1>5, <1>6, <2>2, <3>1
    <3>. QED BY <1>1, <1>2, <2>2, <3>1, <3>2
  <2>3. CASE i > m + d
    <3>1. keys[i] = c[i - (m + d)] /\ i - (m + d) \in 1..e
      BY <1>1, <1>6, <2>3
    <3>. QED BY <1>1, <1>3, <2>3, <3>1
  <2>. QED BY <1>1, <2>1, <2>2, <2>3
<1> DEFINE n == (m + d) + e
<1>8. n \in Nat /\ m \in 0..n /\ DOMAIN keys = 1..n
  BY <1>1, <1>6
<1>. HIDE DEF n
<1>9. \A i \in 1..n : keys[i].kind \in Kinds /\ (keys[i].kind = "edge" <=> i <= m)
  BY <1>1, <1>7, <1>8 DEF n, Kinds
<1>10. \A i \in 1..m : keys[i] = a[i]
  BY <1>1, <1>7, <1>8 DEF n
<1>11. /\ \A i, j \in 1..m : keys[i] = keys[j] => i = j
       /\ \A k \in es : \E i \in 1..m : keys[i] = k
  BY <1>1, <1>10
<1>12. keys = Order(ns, es, ds)
  BY DEF keys, ab, a, b, c, Order
<1>. QED BY <1>8, <1>9, <1>11, <1>12 DEF m

\* Whatever is shown fits, and a relation is left out only if the relations that are shown
\* leave no room for it: as long as relations come, nothing else has been shown; later
\* keys add no relation.
LEMMA EvidenceFits ==
  ASSUME NEW ns, NEW es, NEW ds, IsFiniteSet(ns), IsFiniteSet(es), IsFiniteSet(ds),
         \A k \in es : k.kind = "edge", \A k \in ds : k.kind = "document", \A k \in ns : k.kind = "node"
  PROVE  LET found == Bounded(Order(ns, es, ds))
         IN /\ found.used <= Budget
            /\ \A k \in es : k \notin found.shown =>
                 Size["edge"] * (Cardinality({x \in found.shown : x.kind = "edge"}) + 1) > Budget
<1> DEFINE keys == Order(ns, es, ds)
           m == Cardinality(es)
           s == Size["edge"]
<1>1. PICK n \in Nat : /\ m \in 0..n /\ DOMAIN keys = 1..n
                       /\ \A i \in 1..n : keys[i].kind \in Kinds /\ (keys[i].kind = "edge" <=> i <= m)
                       /\ \A i, j \in 1..m : keys[i] = keys[j] => i = j
                       /\ \A k \in es : \E i \in 1..m : keys[i] = k
  BY RelationsFront
<1>. HIDE DEF keys, m, s
<1>2. PICK h : /\ h[0] = [used |-> 0, shown |-> {}]
               /\ \A k \in 1..n : h[k] = Fit(h[k - 1], keys[k])
               /\ h[n] = Bounded(keys)
  BY <1>1, BoundedSteps
<1>0. s \in Nat /\ Budget \in Nat /\ \A i \in 1..n : Size[keys[i].kind] \in Nat
  BY <1>1, GraphAssumption DEF s, Kinds
<1> DEFINE Typed(k) == /\ h[k].used \in 0..Budget
                       /\ IsFiniteSet(h[k].shown) /\ h[k].shown \subseteq {keys[i] : i \in 1..k}
           Edges(k) == {x \in h[k].shown : x.kind = "edge"}
           Full(k) == s * (Cardinality(Edges(k)) + 1) > Budget
           First(k) == /\ h[k].used = s * Cardinality(h[k].shown)
                       /\ Edges(k) = h[k].shown
           G == {k \in 0..n : /\ Typed(k)
                              /\ k <= m => First(k)
                              /\ \A i \in 1..m : i <= k => keys[i] \in h[k].shown \/ Full(k)}
<1>3. 0 \in G
  <2>1. h[0].used = 0 /\ h[0].shown = {}
    BY <1>2
  <2>2. Cardinality({}) = 0 /\ IsFiniteSet({}) /\ Edges(0) = {}
    BY <2>1, FS_EmptySet
  <2>3. First(0)
    BY <1>0, <2>1, <2>2
  <2>4. Typed(0)
    BY <1>0, <2>1, <2>2
  <2>. QED BY <2>3, <2>4
<1>4. ASSUME NEW k \in 0..(n - 1), k \in G PROVE k + 1 \in G
  <2> DEFINE key == keys[k + 1]
             z == Size[key.kind]
             u == h[k].used
             shown == h[k].shown
  <2>1. /\ k + 1 \in 1..n /\ k + 1 \in 0..n /\ h[k + 1] = Fit(h[k], key) /\ z \in Nat
        /\ key.kind = "edge" <=> k + 1 <= m
    <3>1. k + 1 \in 1..n /\ (k + 1) - 1 = k /\ k + 1 \in 0..n
      OBVIOUS
    <3>. QED BY <1>0, <1>1, <1>2, <3>1
  <2>2. /\ u \in 0..Budget /\ IsFiniteSet(shown) /\ shown \subseteq {keys[i] : i \in 1..k}
        /\ k <= m => u = s * Cardinality(shown) /\ Edges(k) = shown
        /\ \A i \in 1..m : i <= k => keys[i] \in shown \/ Full(k)
    BY <1>4
  <2>a. m \in Nat /\ k \in Nat
    BY <1>1
  <2>b. Cardinality(shown) \in Nat
    BY <2>2, FS_CardinalityType
  <2>3. CASE u + z > Budget
    <3>1. h[k + 1] = h[k]
      BY <2>1, <2>3 DEF Fit
    <3>2. Typed(k + 1)
      BY <2>2, <3>1
    <3>3. k + 1 <= m => First(k + 1)
      BY <2>2, <2>a, <3>1
    <3>4. k + 1 <= m => Full(k + 1)
      <4>1. SUFFICES ASSUME k + 1 <= m PROVE Full(k + 1)
        OBVIOUS
      <4>2. z = s /\ u = s * Cardinality(shown) /\ Edges(k + 1) = shown
        BY <2>1, <2>2, <2>a, <3>1, <4>1 DEF s
      <4>3. s * (Cardinality(shown) + 1) = s * Cardinality(shown) + s
        BY <1>0, <2>b
      <4>. QED BY <2>3, <4>2, <4>3
    <3>5. ASSUME NEW i \in 1..m, i <= k + 1 PROVE keys[i] \in h[k + 1].shown \/ Full(k + 1)
      <4>1. CASE i <= k
        BY <2>2, <3>1, <4>1
      <4>2. CASE i = k + 1
        BY <2>a, <3>4, <4>2
      <4>. QED BY <2>a, <3>5, <4>1, <4>2
    <3>. QED BY <2>1, <3>2, <3>3, <3>5
  <2>4. CASE ~(u + z > Budget)
    <3>1. h[k + 1].used = u + z /\ h[k + 1].shown = shown \cup {key}
      BY <2>1, <2>4 DEF Fit
    <3>2. Typed(k + 1)
      <4>1. u + z \in 0..Budget
        BY <1>0, <2>1, <2>2, <2>4
      <4>2. IsFiniteSet(shown \cup {key})
        BY <2>2, FS_AddElement
      <4>3. shown \cup {key} \subseteq {keys[i] : i \in 1..(k + 1)}
        BY <2>2, <2>a
      <4>. QED BY <3>1, <4>1, <4>2, <4>3
    <3>3. CASE k + 1 <= m
      <4>1. key \notin shown
        <5>1. SUFFICES ASSUME key \in shown PROVE FALSE
          OBVIOUS
        <5>2. PICK i \in 1..k : keys[k + 1] = keys[i]
          BY <2>2, <5>1
        <5>3. i \in 1..m /\ k + 1 \in 1..m /\ i # k + 1
          BY <2>a, <3>3
        <5>. QED BY <1>1, <5>2, <5>3
      <4>2. Cardinality(shown \cup {key}) = Cardinality(shown) + 1
        BY <2>2, <4>1, FS_AddElement
      <4>3. z = s /\ u = s * Cardinality(shown) /\ Edges(k) = shown /\ key.kind = "edge"
        BY <2>1, <2>2, <2>a, <3>3 DEF s
      <4>4. s * (Cardinality(shown) + 1) = s * Cardinality(shown) + s
        BY <1>0, <2>b
      <4>5. First(k + 1)
        BY <3>1, <4>2, <4>3, <4>4
      <4>6. ASSUME Full(k) PROVE FALSE
        BY <1>0, <2>2, <2>4, <2>b, <4>3, <4>4, <4>6
      <4>7. ASSUME NEW i \in 1..m, i <= k + 1 PROVE keys[i] \in h[k + 1].shown
        <5>1. CASE i <= k
          BY <2>2, <3>1, <4>6, <5>1
        <5>2. CASE i = k + 1
          BY <3>1, <5>2
        <5>. QED BY <2>a, <4>7, <5>1, <5>2
      <4>. QED BY <2>1, <3>2, <4>5, <4>7
    <3>4. CASE ~(k + 1 <= m)
      <4>1. Edges(k + 1) = Edges(k)
        BY <2>1, <3>1, <3>4
      <4>2. ASSUME NEW i \in 1..m, i <= k + 1 PROVE keys[i] \in h[k + 1].shown \/ Full(k + 1)
        <5>1. i <= k
          BY <2>a, <3>4
        <5>. QED BY <2>2, <3>1, <4>1, <5>1
      <4>. QED BY <2>1, <3>2, <3>4, <4>2
    <3>. QED BY <3>3, <3>4
  <2>. QED BY <2>3, <2>4
<1>5. n \in G
  <2>1. 0..n \subseteq G
    BY <1>3, <1>4, UpTo
  <2>. QED BY <2>1
<1>6. h[n].used <= Budget
  BY <1>0, <1>5
<1>7. ASSUME NEW k \in es, k \notin h[n].shown PROVE Full(n)
  <2>1. PICK i \in 1..m : keys[i] = k
    BY <1>1
  <2>2. i <= n
    BY <1>1
  <2>. QED BY <1>5, <1>7, <2>1, <2>2
<1>. QED BY <1>2, <1>6, <1>7 DEF keys, s

\* The image of a finite set under a function is finite.
LEMMA FiniteImage ==
  ASSUME NEW S, IsFiniteSet(S), NEW f
  PROVE  IsFiniteSet({f[x] : x \in S})
<1> DEFINE g == [x \in S |-> f[x]]
           T == {f[x] : x \in S}
<1>1. g \in Surjection(S, T)
  BY DEF Surjection
<1>. QED BY <1>1, FS_Surjection

\* There are finitely many nodes and edges, ever.
LEMMA FiniteGraph == IsFiniteSet(AnyNode) /\ IsFiniteSet(AnyEdge)
<1>1. ASSUME NEW x \in Extractions
      PROVE  IsFiniteSet(GraphOf(x).nodes) /\ IsFiniteSet(GraphOf(x).edges)
  <2> DEFINE f == [n \in Extracted[x].names |-> [id |-> Id(x, n), by |-> x]]
             g == [r \in Extracted[x].relations |-> [from |-> Id(x, r[1]), to |-> Id(x, r[2]), by |-> x]]
  <2>1. IsFiniteSet(Extracted[x].names) /\ Extracted[x].relations \subseteq Extracted[x].names \X Extracted[x].names
    BY GraphAssumption
  <2>2. IsFiniteSet(Extracted[x].relations)
    BY <2>1, FS_Product, FS_Subset
  <2>3. IsFiniteSet({f[n] : n \in Extracted[x].names})
    BY <2>1, FiniteImage
  <2>4. IsFiniteSet({g[r] : r \in Extracted[x].relations})
    BY <2>2, FiniteImage
  <2>5. {f[n] : n \in Extracted[x].names} = GraphOf(x).nodes
    BY DEF GraphOf
  <2>6. {g[r] : r \in Extracted[x].relations} = GraphOf(x).edges
    BY DEF GraphOf
  <2>. QED BY <2>3, <2>4, <2>5, <2>6
<1> DEFINE f == [x \in Extractions |-> GraphOf(x).nodes]
           g == [x \in Extractions |-> GraphOf(x).edges]
<1>2. IsFiniteSet({f[x] : x \in Extractions}) /\ IsFiniteSet({g[x] : x \in Extractions})
  <2>1. IsFiniteSet(Extractions)
    BY GraphAssumption
  <2>. HIDE DEF f, g
  <2>. QED BY <2>1, FiniteImage
<1>3. /\ {f[x] : x \in Extractions} = {GraphOf(x).nodes : x \in Extractions}
      /\ {g[x] : x \in Extractions} = {GraphOf(x).edges : x \in Extractions}
  OBVIOUS
<1>4. IsFiniteSet(UNION {GraphOf(x).nodes : x \in Extractions})
  <2>1. \A T \in {GraphOf(x).nodes : x \in Extractions} : IsFiniteSet(T)
    BY <1>1
  <2>. QED BY <1>2, <1>3, <2>1, FS_UNION
<1>5. IsFiniteSet(UNION {GraphOf(x).edges : x \in Extractions})
  <2>1. \A T \in {GraphOf(x).edges : x \in Extractions} : IsFiniteSet(T)
    BY <1>1
  <2>. QED BY <1>2, <1>3, <2>1, FS_UNION
<1>. QED BY <1>4, <1>5 DEF AnyNode, AnyEdge

\* Evidence of finitely many things.
LEMMA FiniteEvidence ==
  ASSUME NEW kind, NEW things, IsFiniteSet(things)
  PROVE  IsFiniteSet(Evidence(kind, things)) /\ \A k \in Evidence(kind, things) : k.kind = kind
<1> DEFINE f == [t \in things |-> [kind |-> kind, of |-> t]]
<1>1. IsFiniteSet({f[t] : t \in things})
  BY FiniteImage
<1>2. {f[t] : t \in things} = Evidence(kind, things)
  BY DEF Evidence
<1>. QED BY <1>1, <1>2 DEF Evidence

\* What a question r has read is finite, and what it is shown is as RelationsComeFirst says.
FirstAt(r) ==
  LET left == {e \in r.edges : [kind |-> "edge", of |-> e] \notin r.shown}
      shown == {k \in r.shown : k.kind = "edge"}
  IN /\ r.used <= Budget
     /\ left # {} => Size["edge"] * (Cardinality(shown) + 1) > Budget

ReadAt(r) ==
  /\ r.pc \in {"edges", "gather"} => IsFiniteSet(r.nodes)
  /\ r.pc = "gather" => IsFiniteSet(r.edges)
  /\ r.pc = "model" => FirstAt(r)

ReadInv == Shaped /\ \A q \in Questions : ReadAt(ask[q])

\* A question that moves from one such state to another.
LEMMA ReadKept ==
  ASSUME ReadInv, NEW q \in Questions, NEW r, ask' = [ask EXCEPT ![q] = r], DOMAIN r = DOMAIN ask[q], ReadAt(r)
  PROVE  ReadInv'
<1>1. Shaped'
  BY DEF ReadInv, Shaped
<1>2. ASSUME NEW p \in Questions PROVE ReadAt(ask'[p])
  <2>1. ask'[p] = IF p = q THEN r ELSE ask[p]
    BY DEF ReadInv, Shaped
  <2>2. ReadAt(ask[p])
    BY DEF ReadInv
  <2>. QED BY <2>1, <2>2
<1>3. \A p \in Questions : ReadAt(ask'[p])
  BY <1>2
<1>. QED BY <1>1, <1>3 DEF ReadInv, ReadAt, FirstAt

\* What is read is part of what is committed.
LEMMA ReadNodesReads ==
  ASSUME StoreInv, ReadInv, NEW q \in Questions, ReadNodes(q)
  PROVE  ReadInv'
<1> DEFINE ns == Take(Reach(Take({n \in nodes : n.id[2] \in Query[q]}, Min({SeedLimit, Limit + 1})), Depth), Limit + 1)
           r == [ask[q] EXCEPT !.pc = "edges", !.nodes = ns]
<1>1. ask' = [ask EXCEPT ![q] = r]
  BY DEF ReadNodes, ReadInv, Shaped
<1>2. ns \subseteq nodes
  BY DEF Take, Reach
<1>3. IsFiniteSet(ns)
  BY <1>2, FiniteGraph, FS_Subset DEF StoreInv, StoreTypes
<1>. HIDE DEF ns
<1>4. DOMAIN r = DOMAIN ask[q] /\ r.pc = "edges" /\ r.nodes = ns
  BY DEF ReadInv, Shaped
<1>. HIDE DEF r
<1>5. ReadAt(r)
  BY <1>3, <1>4 DEF ReadAt
<1>. QED BY <1>1, <1>4, <1>5, ReadKept

LEMMA ReadEdgesReads ==
  ASSUME StoreInv, ReadInv, NEW q \in Questions, ReadEdges(q)
  PROVE  ReadInv'
<1> DEFINE found == {e \in edges : {e.from, e.to} \subseteq Ids(Chosen(q))}
           ns == Take(ask[q].nodes, Limit)
<1>1. PICK kept \in SUBSET found :
        ask' = [ask EXCEPT ![q] = [@ EXCEPT !.pc = "gather", !.nodes = ns, !.edges = kept]]
  BY DEF ReadEdges
<1> DEFINE r == [ask[q] EXCEPT !.pc = "gather", !.nodes = ns, !.edges = kept]
<1>2. ask' = [ask EXCEPT ![q] = r]
  BY <1>1 DEF ReadInv, Shaped
<1>3. ns \subseteq ask[q].nodes /\ IsFiniteSet(ask[q].nodes)
  BY DEF Take, ReadInv, ReadAt, ReadEdges, AskAt
<1>4. kept \subseteq edges
  OBVIOUS
<1>5. IsFiniteSet(ns) /\ IsFiniteSet(kept)
  BY <1>3, <1>4, FiniteGraph, FS_Subset DEF StoreInv, StoreTypes
<1>. HIDE DEF ns
<1>6. DOMAIN r = DOMAIN ask[q] /\ r.pc = "gather" /\ r.nodes = ns /\ r.edges = kept
  BY DEF ReadInv, Shaped
<1>. HIDE DEF r
<1>7. ReadAt(r)
  BY <1>5, <1>6 DEF ReadAt
<1>. QED BY <1>2, <1>6, <1>7, ReadKept

\* The evidence is bounded as EvidenceFits says.
LEMMA GatherReads ==
  ASSUME ReadInv, NEW q \in Questions, Gather(q)
  PROVE  ReadInv'
<1> DEFINE ns == Evidence("node", ask[q].nodes)
           es == Evidence("edge", ask[q].edges)
<1>1. PICK ds \in SUBSET Documents :
        LET found == Bounded(Order(ns, es, Evidence("document", ds)))
        IN ask' = [ask EXCEPT ![q] =
                    IF found.shown = {} THEN [@ EXCEPT !.pc = "done", !.reply = "insufficient"]
                    ELSE [@ EXCEPT !.pc = "model", !.ids = ds, !.shown = found.shown, !.used = found.used]]
  BY DEF Gather
<1> DEFINE found == Bounded(Order(ns, es, Evidence("document", ds)))
           a == [ask[q] EXCEPT !.pc = "done", !.reply = "insufficient"]
           b == [ask[q] EXCEPT !.pc = "model", !.ids = ds, !.shown = found.shown, !.used = found.used]
<1>2. IsFiniteSet(ask[q].nodes) /\ IsFiniteSet(ask[q].edges) /\ IsFiniteSet(ds)
  BY GraphAssumption, FS_Subset DEF ReadInv, ReadAt, Gather, AskAt
<1>3. /\ IsFiniteSet(ns) /\ \A k \in ns : k.kind = "node"
      /\ IsFiniteSet(es) /\ \A k \in es : k.kind = "edge"
      /\ IsFiniteSet(Evidence("document", ds)) /\ \A k \in Evidence("document", ds) : k.kind = "document"
  BY <1>2, FiniteEvidence
<1>4. \A e \in ask[q].edges : [kind |-> "edge", of |-> e] \in es
  BY DEF Evidence
<1>. HIDE DEF ns, es
<1>5. /\ found.used <= Budget
      /\ \A k \in es : k \notin found.shown =>
           Size["edge"] * (Cardinality({x \in found.shown : x.kind = "edge"}) + 1) > Budget
  BY <1>3, EvidenceFits
<1>. HIDE DEF found
<1>6. ask' = [ask EXCEPT ![q] = a] \/ ask' = [ask EXCEPT ![q] = b]
  BY <1>1 DEF ReadInv, Shaped, found
<1>7. /\ DOMAIN a = DOMAIN ask[q] /\ a.pc = "done"
      /\ DOMAIN b = DOMAIN ask[q] /\ b.pc = "model" /\ b.edges = ask[q].edges
      /\ b.shown = found.shown /\ b.used = found.used
  BY DEF ReadInv, Shaped
<1>. HIDE DEF a, b
<1>8. ReadAt(a)
  BY <1>7 DEF ReadAt
<1>9. FirstAt(b)
  BY <1>4, <1>5, <1>7 DEF FirstAt
<1>10. ReadAt(b)
  BY <1>7, <1>9 DEF ReadAt
<1>. QED BY <1>6, <1>7, <1>8, <1>10, ReadKept

\* An answered question is done.
LEMMA AnswerReads ==
  ASSUME ReadInv, NEW q \in Questions, Answer(q)
  PROVE  ReadInv'
<1>1. \E r : ask' = [ask EXCEPT ![q] = r] /\ DOMAIN r = DOMAIN ask[q] /\ r.pc = "done"
  <2> DEFINE a(ids) == [ask[q] EXCEPT !.pc = "done", !.cited = ids,
                                      !.reply = IF ids = {} THEN "insufficient" ELSE "answer"]
             b == [ask[q] EXCEPT !.pc = "done", !.reply = "error"]
  <2>1. (\E ids : ask' = [ask EXCEPT ![q] = a(ids)]) \/ ask' = [ask EXCEPT ![q] = b]
    BY DEF Answer, ReadInv, Shaped
  <2>2. \A ids : DOMAIN a(ids) = DOMAIN ask[q] /\ a(ids).pc = "done"
    BY DEF ReadInv, Shaped
  <2>3. DOMAIN b = DOMAIN ask[q] /\ b.pc = "done"
    BY DEF ReadInv, Shaped
  <2>. HIDE DEF a, b
  <2>. QED BY <2>1, <2>2, <2>3
<1>2. PICK r : ask' = [ask EXCEPT ![q] = r] /\ DOMAIN r = DOMAIN ask[q] /\ r.pc = "done"
  BY <1>1
<1>3. ReadAt(r)
  BY <1>2 DEF ReadAt
<1>. QED BY <1>2, <1>3, ReadKept

\* A question whose reads fail is done.
LEMMA ReadFailsReads ==
  ASSUME ReadInv, NEW q \in Questions, ReadFails(q)
  PROVE  ReadInv'
<1> DEFINE r == [ask[q] EXCEPT !.pc = "done", !.reply = "error"]
<1>1. ask' = [ask EXCEPT ![q] = r]
  BY DEF ReadFails, ReadInv, Shaped
<1>2. DOMAIN r = DOMAIN ask[q] /\ r.pc = "done"
  BY DEF ReadInv, Shaped
<1>. HIDE DEF r
<1>3. ReadAt(r)
  BY <1>2 DEF ReadAt
<1>. QED BY <1>1, <1>2, <1>3, ReadKept

\* The model is shown no more than the budget, and relations come first: for every graph,
\* every budget and every size of the pieces, however many documents and entities compete
\* for the room.  (bounded_evidence)
THEOREM RelationsAreShownFirst == Spec => []RelationsComeFirst
<1>1. Init => ReadInv
  BY DEF Init, ReadInv, Shaped, ReadAt, NoQuestion
<1>2. StoreInv /\ ReadInv /\ [Next]_vars => ReadInv'
  <2> SUFFICES ASSUME StoreInv, ReadInv, [Next]_vars PROVE ReadInv'
    OBVIOUS
  <2>1. CASE UNCHANGED ask
    BY <2>1 DEF ReadInv, Shaped, ReadAt, FirstAt
  <2>2. ASSUME NEW x \in Extractions, Extract(x) \/ ExtractionStep(x) \/ Abort(x) PROVE ReadInv'
    BY <2>1, <2>2, OthersLeaveQuestions
  <2>3. ASSUME NEW q \in Questions, ReadNodes(q) \/ ReadEdges(q) \/ Gather(q) \/ ReadFails(q) \/ Answer(q) PROVE ReadInv'
    BY <2>3, ReadNodesReads, ReadEdgesReads, GatherReads, ReadFailsReads, AnswerReads
  <2>. QED BY <2>1, <2>2, <2>3 DEF Next, vars
<1>3. ReadInv => RelationsComeFirst
  BY DEF ReadInv, ReadAt, FirstAt, RelationsComeFirst
<1>. QED BY <1>1, <1>2, <1>3, StoreInductive, PTL DEF Spec
=============================================================================
