----------------------- MODULE MetricRetrieval_proofs -----------------------
(***************************************************************************)
(* The corpus and its revision, for every number of processes, ingests and *)
(* retrievals.  Every commit adds exactly one to the sum of the versions   *)
(* of the current documents, so a revision names one state of the corpus,  *)
(* and an answer found under it is as fresh as one made from that state.   *)
(***************************************************************************)
EXTENDS MetricRetrieval, Folds_proofs, SequenceTheorems

----------------------------------------------------------------------------
(* The inductive invariants *)

Row == [status : {"none", "ACTIVE", "SUPERSEDED"}, title : Titles \cup {"none"}, version : Nat,
        updated : Nat, profile : Profiles \cup {"none"}, born : Nat, died : Nat]

Replies == {"none", "refused", "store_error", "ok", "error", "lost"}
Call == [pc : {"idle", "select", "wait", "write", "stored", "done"}, title : Titles \cup {"none"},
         now : Nat, current : Ingests \cup {"none"}, reply : Replies]

ActiveIn(rows) == {i \in Ingests : rows[i].status = "ACTIVE"}
Versions(rows) == [i \in Ingests |-> rows[i].version]
Total(rows) == Sum(Versions(rows), ActiveIn(rows))

\* Every title has at most one current document.
Single(rows) == \A i, j \in ActiveIn(rows) : rows[i].title = rows[j].title => i = j

Rows ==
  /\ profile \in [Instances -> Profiles]
  /\ doc \in [Ingests -> Row]
  /\ chunks = Active
  /\ \A i \in Ingests : doc[i].status = "ACTIVE" => doc[i].title \in Titles /\ doc[i].died = 0
  /\ Single(doc)

\* The row that a call of an ingest is about to supersede is current, and its own lock.
Holds(rows, i, c, l) ==
  /\ rows[i].status # "none" => c.pc \in {"stored", "done"}
  /\ c.pc \in {"select", "wait", "write"} => c.title \in Titles
  /\ c.pc = "select" => c.current = "none"
  /\ c.pc = "wait" => /\ c.current \in Ingests
                      /\ rows[c.current].status # "none" /\ rows[c.current].title = c.title
  /\ c.pc = "write" /\ c.current # "none" =>
       l = c.current /\ c.current \in ActiveIn(rows) /\ rows[c.current].title = c.title
  /\ l # "none" => c.pc = "write" /\ c.current = l

Locks ==
  /\ ing \in [Ingests -> Call]
  /\ lock \in [Ingests -> Ingests \cup {"none"}]
  /\ \A i \in Ingests : Holds(doc, i, ing[i], lock[i])
  /\ \A i, j \in Ingests : lock[i] # "none" /\ lock[i] = lock[j] => i = j

\* The commits so far, each with the sum of the versions one above the last.
Triple == Nat \X Nat \X Nat
Log ==
  /\ revisions \in Seq(Triple) /\ Len(revisions) \in Nat \ {0}
  /\ revisions[Len(revisions)] = Revision(doc)
  /\ \A k \in 1..Len(revisions) : revisions[k][2] + Len(revisions) = Total(doc) + k

CorpusInv == Rows /\ Locks /\ Log

\* What an answer holds was current when its call was made or later ...
Fresh(rows, answer, since) ==
  \A i \in answer.lexical \cup answer.vector :
    /\ i \in Ingests /\ rows[i].status # "none"
    /\ rows[i].died = 0 \/ rows[i].died > since

\* ... and its lexical part is all that has been current since.
Whole(rows, mode, answer, since) ==
  Lexical(mode) => \A i \in ActiveIn(rows) : rows[i].born <= since => i \in answer.lexical

Own(rows, answer, f) == \A i \in answer.vector : rows[i].profile = f

AllModes == {"lexical", "vector", "hybrid", "hybrid_rerank"}
Answers == [lexical : SUBSET Ingests, vector : SUBSET Ingests]
Query == [pc : {"idle", "cache", "lexical", "profile", "vector", "rank", "done"},
          mode : AllModes \cup {"none"}, revision : Triple \cup {<<>>},
          profile : Profiles \cup {"none"}, since : Nat, answer : Answers,
          reply : {"none", "ok", "reindex", "error", "lost"}]
Entry == [key : AllModes \X Triple, answer : Answers]

\* A call that is under way knows the revision it read first and the profile of its
\* process.
Serves(rows, revs, c, f) ==
  /\ c.since < Len(revs)
  /\ c.reply = "ok" => c.pc = "done"
  /\ c.pc \notin {"idle", "done"} =>
       c.revision = revs[c.since + 1] /\ c.profile = f /\ c.mode \in AllModes
  /\ Fresh(rows, c.answer, c.since)
  /\ Own(rows, c.answer, c.profile)
  /\ c.pc \in {"profile", "vector", "rank"} \/ c.reply = "ok" =>
       Whole(rows, c.mode, c.answer, c.since)

\* An entry of a cache answers a call that read its revision.
Answering(rows, revs, e, f) ==
  /\ Own(rows, e.answer, f)
  /\ \E k \in 1..Len(revs) : /\ e.key[2] = revs[k]
                             /\ Fresh(rows, e.answer, k - 1)
                             /\ Whole(rows, e.key[1], e.answer, k - 1)

Callers == /\ ret \in [Retrievals -> Query]
           /\ \A q \in Retrievals : Serves(doc, revisions, ret[q], profile[Home[q]])
Caches  == /\ cache \in [Instances -> SUBSET Entry]
           /\ \A p \in Instances : \A e \in cache[p] : Answering(doc, revisions, e, profile[p])
Bounded == restarts \in 0..MaxRestarts

RetrievalInv == CorpusInv /\ Callers /\ Caches /\ Bounded

----------------------------------------------------------------------------
(* The revision *)

\* The sum in corpus_revision is the sum of the versions of the ACTIVE rows.
LEMMA VersionsAdd ==
  ASSUME NEW rows, NEW S \in SUBSET Ingests
  PROVE  MapThenSumSet(LAMBDA i : rows[i].version, S) = Sum(Versions(rows), S)
<1> DEFINE v == Versions(rows)
           Adding(f) == f = [s \in SUBSET S |-> IF s = {} THEN 0 ELSE rows[Pick(s)].version + f[s \ {Pick(s)}]]
           g == CHOOSE f : Adding(f)
<1>0. IsFiniteSet(S)
  BY RetrievalAssumption, FS_Subset
<1>1. MapThenSumSet(LAMBDA i : rows[i].version, S) = g[S]
  BY Zenon DEF MapThenSumSet, MapThenFoldSet, Pick
<1>2. \A s \in SUBSET S : s # {} => v[Pick(s)] = rows[Pick(s)].version
  BY PickIn DEF Versions
<1>3. ASSUME NEW f PROVE Adding(f) <=> Adds(v, S, f)
  <2> DEFINE one == [s \in SUBSET S |-> IF s = {} THEN 0 ELSE rows[Pick(s)].version + f[s \ {Pick(s)}]]
             two == [s \in SUBSET S |-> IF s = {} THEN 0 ELSE v[Pick(s)] + f[s \ {Pick(s)}]]
  <2>. HIDE DEF v
  <2>1. one = two
    BY <1>2
  <2>. QED BY <2>1 DEF Adds
<1>4. PICK f : Adds(v, S, f)
  BY <1>0, AddsExists
<1>5. Adding(f)
  BY <1>3, <1>4
<1>6. Adding(g)
  <2>. HIDE DEF Adding
  <2>. QED BY <1>5
<1>7. Adds(v, S, g)
  BY <1>3, <1>6
<1>. HIDE DEF g, v
<1>8. g[S] = Sum(v, S)
  BY <1>0, <1>7, SumIs
<1>. QED BY <1>1, <1>8 DEF v

\* A sum of numbers is at least each of them.
LEMMA SumBounds ==
  ASSUME NEW v, NEW S, IsFiniteSet(S), \A y \in S : v[y] \in Nat, NEW x \in S
  PROVE  v[x] <= Sum(v, S)
<1>1. \A y \in S : v[y] \in Int
  OBVIOUS
<1>2. Sum(v, S) = v[x] + Sum(v, S \ {x})
  BY <1>1, SumRemove
<1>3. IsFiniteSet(S \ {x})
  BY FS_RemoveElement
<1>4. Sum(v, S \ {x}) \in Nat
  BY <1>3, SumType
<1>5. PICK a \in Nat, b \in Nat : a = v[x] /\ b = Sum(v, S \ {x})
  BY <1>4
<1>6. a <= a + b
  OBVIOUS
<1>. QED BY <1>2, <1>5, <1>6

\* A finite set of numbers that is not empty has a greatest one, which is its Max.
LEMMA Greatest ==
  ASSUME NEW S \in SUBSET Nat, S # {}, IsFiniteSet(S)
  PROVE  Max(S) \in S /\ \A x \in S : x <= Max(S)
<1> DEFINE v == [x \in S |-> x]
           U == {u \in Nat : \A x \in S : x <= u}
<1>1. Sum(v, S) \in U
  <2>1. \A x \in S : v[x] \in Nat
    OBVIOUS
  <2>2. \A x \in S : v[x] = x
    OBVIOUS
  <2>3. Sum(v, S) \in Nat
    <3>. HIDE DEF v, U
    <3>. QED BY <2>1, SumType
  <2>4. \A x \in S : v[x] <= Sum(v, S)
    <3>. HIDE DEF v, U
    <3>. QED BY <2>1, SumBounds
  <2>5. \A x \in S : x <= Sum(v, S)
    BY <2>2, <2>4, Zenon
  <2>. QED BY <2>3, <2>5
<1>2. PICK u \in U : \A w \in U : ~(w < u)
  <2>. HIDE DEF v
  <2>1. U \in SUBSET Nat /\ U # {}
    BY <1>1
  <2>. HIDE DEF U
  <2>. QED BY <2>1, Least
<1>3. u \in S
  <2> SUFFICES ASSUME u \notin S PROVE FALSE
    OBVIOUS
  <2>1. u \in Nat
    BY <1>2
  <2>2. \A x \in S : x \in Nat /\ x < u
    BY <1>2
  <2>3. u # 0
    <3>1. PICK y \in S : y \in Nat /\ y < u
      BY <2>2
    <3>. QED BY <2>1, <3>1
  <2>4. u - 1 \in Nat /\ u - 1 < u
    BY <2>1, <2>3
  <2>5. \A x \in S : x <= u - 1
    BY <2>1, <2>2
  <2>. QED BY <1>2, <2>4, <2>5
<1>4. \E x \in S : \A y \in S : x >= y
  BY <1>2, <1>3
<1>5. Max(S) \in S /\ \A y \in S : Max(S) >= y
  BY <1>4, Zenon DEF Max
<1>6. PICK m \in S : m = Max(S)
  BY <1>5
<1>. QED BY <1>5, <1>6

\* The revision of a corpus, and the part of it that counts.
LEMMA RevisionType ==
  ASSUME NEW rows \in [Ingests -> Row]
  PROVE  /\ Revision(rows) \in Triple
         /\ Revision(rows)[2] = Total(rows) /\ Total(rows) \in Nat
<1> DEFINE A == ActiveIn(rows)
           times == {rows[i].updated : i \in A}
           latest == IF A = {} THEN 0 ELSE Max(times)
<1>1. A \in SUBSET Ingests /\ IsFiniteSet(A)
  BY RetrievalAssumption, FS_Subset DEF ActiveIn
<1>2. Revision(rows) = <<Cardinality(A), MapThenSumSet(LAMBDA i : rows[i].version, A), latest>>
  BY DEF Revision, ActiveIn
<1>3. MapThenSumSet(LAMBDA i : rows[i].version, A) = Total(rows)
  BY <1>1, VersionsAdd DEF Total
<1>4. Total(rows) \in Nat
  <2>1. \A i \in A : Versions(rows)[i] \in Nat
    BY <1>1 DEF Versions, Row
  <2>. HIDE DEF A
  <2>2. Sum(Versions(rows), A) \in Nat
    BY <1>1, <2>1, SumType
  <2>. QED BY <2>2 DEF Total, A
<1>5. Cardinality(A) \in Nat
  BY <1>1, FS_CardinalityType
<1>6. latest \in Nat
  <2>1. CASE A = {}
    BY <2>1
  <2>2. CASE A # {}
    <3> DEFINE f == [i \in A |-> rows[i].updated]
    <3>1. f \in Surjection(A, times)
      BY DEF Surjection
    <3>2. IsFiniteSet(times)
      <4>. HIDE DEF A, times, f
      <4>. QED BY <1>1, <3>1, FS_Surjection
    <3>3. times \in SUBSET Nat /\ times # {}
      BY <1>1, <2>2 DEF Row
    <3>4. Max(times) \in times
      <4>. HIDE DEF times
      <4>. QED BY <3>2, <3>3, Greatest
    <3>. QED BY <2>2, <3>3, <3>4
  <2>. QED BY <2>1, <2>2
<1>. HIDE DEF A, latest
<1>. QED BY <1>2, <1>3, <1>4, <1>5, <1>6 DEF Triple

----------------------------------------------------------------------------
(* A commit *)

\* Ingest i has replaced document cur, or the first of its title, in commit n.
Replaced(rows, next, i, cur, n) ==
  /\ rows \in [Ingests -> Row] /\ next \in [Ingests -> Row] /\ i \in Ingests
  /\ rows[i].status = "none" /\ next[i].status = "ACTIVE"
  /\ next[i].died = 0 /\ next[i].born = n /\ next[i].title \in Titles
  /\ \A j \in Ingests \ {i, cur} : next[j] = rows[j]
  /\ \A j \in ActiveIn(rows) : rows[j].title = next[i].title => j = cur
  /\ \/ cur = "none" /\ next[i].version = 1
     \/ /\ cur \in ActiveIn(rows) /\ rows[cur].title = next[i].title
        /\ next[i].version = rows[cur].version + 1
        /\ next[cur].status = "SUPERSEDED" /\ next[cur].title = rows[cur].title
        /\ next[cur].profile = rows[cur].profile /\ next[cur].died = n

\* The new document takes the place of the old one.
LEMMA ActiveAfter ==
  ASSUME NEW rows, NEW next, NEW i, NEW cur, NEW n, Replaced(rows, next, i, cur, n)
  PROVE  /\ ActiveIn(next) = (ActiveIn(rows) \ {cur}) \cup {i}
         /\ i \notin ActiveIn(rows) /\ i # cur
<1>1. i \notin ActiveIn(rows) /\ i # cur
  BY RetrievalAssumption DEF Replaced, ActiveIn
<1>2. ASSUME NEW j \in Ingests, j # i, j # cur PROVE next[j] = rows[j]
  BY <1>2 DEF Replaced
<1>3. cur \notin ActiveIn(next)
  BY RetrievalAssumption DEF Replaced, ActiveIn
<1>4. i \in ActiveIn(next)
  BY DEF Replaced, ActiveIn
<1>. QED BY <1>1, <1>2, <1>3, <1>4 DEF ActiveIn

\* The sum of the versions grows by one with every commit.
LEMMA TotalAfter ==
  ASSUME NEW rows, NEW next, NEW i, NEW cur, NEW n, Replaced(rows, next, i, cur, n)
  PROVE  Total(next) = Total(rows) + 1
<1> DEFINE A == ActiveIn(rows)
           B == A \ {cur}
           v == Versions(rows)
           w == Versions(next)
<1>1. A \in SUBSET Ingests /\ IsFiniteSet(A) /\ B \in SUBSET Ingests /\ IsFiniteSet(B)
  BY RetrievalAssumption, FS_Subset DEF ActiveIn
<1>2. ActiveIn(next) = B \cup {i} /\ i \notin B /\ i \in Ingests
  BY ActiveAfter DEF Replaced
<1>3. \A j \in Ingests : v[j] = rows[j].version /\ w[j] = next[j].version
  BY DEF Versions
<1>4. \A j \in Ingests : v[j] \in Nat /\ w[j] \in Nat
  BY DEF Versions, Replaced, Row
<1>5. \A j \in B : v[j] = w[j]
  BY <1>1, <1>2, <1>3 DEF Replaced
<1>. HIDE DEF v, w
<1>6. Sum(w, B \cup {i}) = Sum(w, B) + w[i]
  <2>1. \A y \in B \cup {i} : w[y] \in Int
    BY <1>1, <1>2, <1>4
  <2>. HIDE DEF B
  <2>. QED BY <1>1, <1>2, <2>1, SumAdd
<1>7. Sum(v, B) = Sum(w, B)
  <2>. HIDE DEF B
  <2>. QED BY <1>1, <1>5, SumSame, Zenon
<1>8. Sum(v, B) \in Nat
  <2>1. \A y \in B : v[y] \in Nat
    BY <1>1, <1>4
  <2>. HIDE DEF B
  <2>. QED BY <1>1, <2>1, SumType
<1>9. Total(next) = Sum(v, B) + w[i]
  BY <1>2, <1>6, <1>7 DEF Total, w
<1>10. CASE cur = "none"
  <2>1. B = A
    BY <1>1, <1>10, RetrievalAssumption
  <2>2. w[i] = 1
    <3>1. cur \notin A
      BY <1>1, <1>10, RetrievalAssumption
    <3>2. next[i].version = 1
      BY <3>1 DEF Replaced
    <3>. QED BY <1>2, <1>3, <3>2
  <2>3. Total(rows) = Sum(v, B)
    BY <2>1 DEF Total, v
  <2>. QED BY <1>9, <2>2, <2>3
<1>11. CASE cur # "none"
  <2>1. cur \in A /\ cur \in Ingests /\ next[i].version = rows[cur].version + 1
    BY <1>1, <1>11 DEF Replaced
  <2>2. \A y \in A : v[y] \in Int
    BY <1>1, <1>4
  <2>3. Sum(v, A) = v[cur] + Sum(v, B)
    <3>. HIDE DEF A
    <3>. QED BY <1>1, <2>1, <2>2, SumRemove
  <2>4. w[i] = v[cur] + 1
    BY <1>2, <1>3, <2>1
  <2>5. PICK a \in Nat, b \in Nat : a = v[cur] /\ b = Sum(v, B)
    BY <1>4, <1>8, <2>1
  <2>6. b + (a + 1) = (a + b) + 1
    OBVIOUS
  <2>7. Total(rows) = a + b
    BY <2>3, <2>5 DEF Total, v
  <2>8. Total(next) = b + (a + 1)
    BY <1>9, <2>4, <2>5
  <2>. QED BY <2>6, <2>7, <2>8
<1>. QED BY <1>10, <1>11

\* A document that is stored stays stored, under its title and its profile.
LEMMA StoredAfter ==
  ASSUME NEW rows, NEW next, NEW i, NEW cur, NEW n, Replaced(rows, next, i, cur, n),
         NEW j \in Ingests, rows[j].status # "none"
  PROVE  /\ next[j].status # "none" /\ next[j].title = rows[j].title
         /\ next[j].profile = rows[j].profile
         /\ next[j].died = rows[j].died \/ next[j].died = n
<1>1. j # i
  BY DEF Replaced
<1>2. CASE j = cur
  BY <1>2, RetrievalAssumption DEF Replaced
<1>3. CASE j # cur
  BY <1>1, <1>3 DEF Replaced
<1>. QED BY <1>2, <1>3

\* A commit keeps one current document per title.
LEMMA SingleAfter ==
  ASSUME NEW rows, NEW next, NEW i, NEW cur, NEW n, Replaced(rows, next, i, cur, n), Single(rows)
  PROVE  Single(next)
<1>1. /\ ActiveIn(next) = (ActiveIn(rows) \ {cur}) \cup {i}
      /\ i \notin ActiveIn(rows) /\ i # cur
  BY ActiveAfter
<1>2. \A j \in ActiveIn(rows) \ {cur} : next[j] = rows[j]
  BY <1>1 DEF Replaced, ActiveIn
<1>3. \A j \in ActiveIn(rows) \ {cur} : next[j].title # next[i].title
  BY <1>2 DEF Replaced
<1>. QED BY <1>1, <1>2, <1>3 DEF Single

----------------------------------------------------------------------------
(* The ingests *)

\* A step of one call that changes no row.
LEMMA CallMoves ==
  ASSUME Locks, UNCHANGED doc, NEW i \in Ingests, NEW c \in Call, NEW l \in Ingests \cup {"none"},
         ing' = [ing EXCEPT ![i] = c],
         lock' = [lock EXCEPT ![i] = l] \/ (UNCHANGED lock /\ lock[i] = l),
         Holds(doc, i, c, l),
         l # "none" => ~Locked(l)
  PROVE  Locks'
<1>1. lock' \in [Ingests -> Ingests \cup {"none"}] /\ lock'[i] = l
  BY DEF Locks
<1>2. \A j \in Ingests : j # i => lock'[j] = lock[j] /\ ing'[j] = ing[j]
  BY DEF Locks
<1>3. ing' \in [Ingests -> Call] /\ ing'[i] = c
  BY DEF Locks
<1>4. \A j \in Ingests : Holds(doc, j, ing'[j], lock'[j])
  BY <1>1, <1>2, <1>3 DEF Locks
<1>5. ASSUME NEW j \in Ingests, NEW k \in Ingests, lock'[j] # "none", lock'[j] = lock'[k] PROVE j = k
  BY <1>1, <1>2, <1>5 DEF Locks, Locked
<1>. QED BY <1>1, <1>3, <1>4, <1>5 DEF Locks

\* The end of a call leaves nothing locked.
LEMMA CallEnds ==
  ASSUME Locks, UNCHANGED doc, NEW i \in Ingests, NEW reply \in Replies, EndIngest(i, reply),
         lock' = Released(i) \/ (UNCHANGED lock /\ lock[i] = "none")
  PROVE  Locks'
<1> DEFINE c == [NoIngest EXCEPT !.pc = "done", !.reply = reply]
<1>1. c \in Call
  BY DEF NoIngest, Call
<1>2. c.pc = "done"
  BY DEF NoIngest
<1>3. ing' = [ing EXCEPT ![i] = c]
  BY DEF EndIngest
<1>. HIDE DEF c
<1>4. Holds(doc, i, c, "none")
  BY <1>2 DEF Holds
<1>. QED BY <1>1, <1>3, <1>4, CallMoves DEF Released

\* ingest, up to its transaction.
LEMMA IngestMoves ==
  ASSUME Locks, NEW i \in Ingests, NEW t \in Titles, Ingest(i, t)
  PROVE  Locks'
<1>1. UNCHANGED <<doc, lock>> /\ ing[i].pc = "idle" /\ lock[i] = "none" /\ doc[i].status = "none"
  BY DEF Ingest, IngestAt, store, Locks, Holds
<1>2. CASE EndIngest(i, "refused")
  BY <1>1, <1>2, CallEnds DEF Replies
<1>3. CASE ~EndIngest(i, "refused")
  <2>1. PICK now \in Times :
          ing' = [ing EXCEPT ![i] = [NoIngest EXCEPT !.pc = "select", !.title = t, !.now = now]]
    BY <1>3 DEF Ingest
  <2> DEFINE c == [NoIngest EXCEPT !.pc = "select", !.title = t, !.now = now]
  <2>2. c \in Call
    BY RetrievalAssumption DEF NoIngest, Call, Replies
  <2>3. c.pc = "select" /\ c.title = t /\ c.current = "none"
    BY DEF NoIngest
  <2>4. ing' = [ing EXCEPT ![i] = c]
    BY <2>1
  <2>. HIDE DEF c
  <2>5. Holds(doc, i, c, "none")
    BY <1>1, <2>3 DEF Holds
  <2>. QED BY <1>1, <2>2, <2>4, <2>5, CallMoves
<1>. QED BY <1>2, <1>3

\* SELECT ... FOR UPDATE.
LEMMA SelectMoves ==
  ASSUME Locks, NEW i \in Ingests, SelectCurrent(i)
  PROVE  Locks'
<1>1. /\ UNCHANGED doc /\ ing[i].pc = "select" /\ lock[i] = "none" /\ doc[i].status = "none"
      /\ ing[i] \in Call /\ ing[i].title \in Titles /\ ing[i].current = "none"
  BY DEF SelectCurrent, IngestAt, store, Locks, Holds
<1>2. CASE ing' = [ing EXCEPT ![i].pc = "write"] /\ UNCHANGED lock
  <2> DEFINE c == [ing[i] EXCEPT !.pc = "write"]
  <2>1. c \in Call /\ c.pc = "write" /\ c.title = ing[i].title /\ c.current = "none"
    BY <1>1 DEF Call
  <2>2. ing' = [ing EXCEPT ![i] = c]
    BY <1>2
  <2>. HIDE DEF c
  <2>3. Holds(doc, i, c, "none")
    BY <1>1, <2>1 DEF Holds
  <2>. QED BY <1>1, <1>2, <2>1, <2>2, <2>3, CallMoves
<1>3. ASSUME NEW row \in Titled(ing[i].title),
             ing' = [ing EXCEPT ![i] = [@ EXCEPT !.pc = IF Locked(row) THEN "wait" ELSE "write",
                                                 !.current = row]],
             lock' = IF Locked(row) THEN lock ELSE [lock EXCEPT ![i] = row]
      PROVE  Locks'
  <2> DEFINE c == [ing[i] EXCEPT !.pc = IF Locked(row) THEN "wait" ELSE "write", !.current = row]
             l == IF Locked(row) THEN "none" ELSE row
  <2>1. row \in Ingests /\ row \in ActiveIn(doc) /\ doc[row].title = ing[i].title /\ doc[row].status # "none"
    BY DEF Titled, Active, ActiveIn
  <2>2. /\ c \in Call /\ c.title = ing[i].title /\ c.current = row
        /\ c.pc = IF Locked(row) THEN "wait" ELSE "write"
    BY <1>1, <2>1 DEF Call
  <2>3. ing' = [ing EXCEPT ![i] = c]
    BY <1>3
  <2>4. lock' = [lock EXCEPT ![i] = l] \/ (UNCHANGED lock /\ lock[i] = l)
    BY <1>1, <1>3
  <2>5. l \in Ingests \cup {"none"} /\ (l # "none" => ~Locked(l))
    BY <2>1
  <2>. HIDE DEF c
  <2>6. Holds(doc, i, c, l)
    BY <1>1, <2>1, <2>2, RetrievalAssumption DEF Holds
  <2>. HIDE DEF l
  <2>. QED BY <1>1, <2>2, <2>3, <2>4, <2>5, <2>6, CallMoves
<1>. QED BY <1>2, <1>3 DEF SelectCurrent

\* The end of a wait for a lock.
LEMMA WokenMoves ==
  ASSUME Locks, NEW i \in Ingests, Woken(i)
  PROVE  Locks'
<1> DEFINE row == ing[i].current
           still == doc[row].status = "ACTIVE"
           c == [ing[i] EXCEPT !.pc = "write", !.current = IF still THEN row ELSE "none"]
           l == IF still THEN row ELSE "none"
<1>1. /\ UNCHANGED doc /\ ing[i].pc = "wait" /\ lock[i] = "none" /\ doc[i].status = "none"
      /\ ing[i] \in Call /\ ing[i].title \in Titles
      /\ row \in Ingests /\ doc[row].title = ing[i].title
  BY DEF Woken, IngestAt, store, Locks, Holds
<1>2. ~Locked(row) /\ ing' = [ing EXCEPT ![i] = c] /\ lock' = IF still THEN [lock EXCEPT ![i] = row] ELSE lock
  BY DEF Woken
<1>3. /\ c \in Call /\ c.title = ing[i].title /\ c.pc = "write" /\ c.current = l
  BY <1>1 DEF Call
<1>4. lock' = [lock EXCEPT ![i] = l] \/ (UNCHANGED lock /\ lock[i] = l)
  BY <1>1, <1>2
<1>5. l \in Ingests \cup {"none"} /\ (l # "none" => ~Locked(l))
  BY <1>1, <1>2
<1>6. l # "none" => l \in ActiveIn(doc) /\ doc[l].title = ing[i].title
  BY <1>1 DEF ActiveIn
<1>. HIDE DEF c, l
<1>7. Holds(doc, i, c, l)
  BY <1>1, <1>3, <1>6 DEF Holds
<1>. QED BY <1>1, <1>2, <1>3, <1>4, <1>5, <1>7, CallMoves

\* A restart ends the calls of its process and releases their locks.
LEMMA RestartMoves ==
  ASSUME Locks, NEW p \in Instances, NEW f \in Profiles, Restart(p, f)
  PROVE  Locks'
<1> DEFINE Lost(i) == Home[i] = p /\ ing[i].pc \notin {"idle", "done"}
           dead == [NoIngest EXCEPT !.pc = "done", !.reply = "lost"]
<1>1. /\ ing' = [i \in Ingests |-> IF Lost(i) THEN dead ELSE ing[i]]
      /\ lock' = [i \in Ingests |-> IF Home[i] = p THEN "none" ELSE lock[i]]
      /\ UNCHANGED doc
  BY DEF Restart
<1>2. dead \in Call /\ dead.pc = "done"
  BY DEF NoIngest, Call, Replies
<1>. HIDE DEF dead
<1>3. ing' \in [Ingests -> Call] /\ lock' \in [Ingests -> Ingests \cup {"none"}]
  BY <1>1, <1>2 DEF Locks
<1>4. ASSUME NEW i \in Ingests PROVE Holds(doc, i, ing'[i], lock'[i])
  <2>1. CASE Lost(i)
    <3>1. ing'[i] = dead /\ lock'[i] = "none"
      BY <1>1, <2>1
    <3>. QED BY <1>2, <3>1 DEF Holds
  <2>2. CASE ~Lost(i)
    <3>1. ing'[i] = ing[i] /\ (lock'[i] = lock[i] \/ (lock'[i] = "none" /\ ing[i].pc \in {"idle", "done"}))
      BY <1>1, <2>2
    <3>. QED BY <3>1 DEF Holds, Locks
  <2>. QED BY <2>1, <2>2
<1>5. ASSUME NEW i \in Ingests, NEW j \in Ingests, lock'[i] # "none", lock'[i] = lock'[j] PROVE i = j
  BY <1>1, <1>5 DEF Locks
<1>. QED BY <1>1, <1>3, <1>4, <1>5 DEF Locks

\* The transaction of an ingest commits ...
Commit(i) ==
  /\ IngestAt(i, "write") /\ lock' = Released(i)
  /\ ~Conflict(Superseded(ing[i].current, ing[i].now), NewRow(i))
  /\ doc' = [Superseded(ing[i].current, ing[i].now) EXCEPT ![i] = NewRow(i)]
  /\ chunks' = ChunksAfter(i)
  /\ revisions' = Append(revisions, Revision(doc'))
  /\ ing' = [ing EXCEPT ![i].pc = "stored"]

\* ... or is rolled back.
LEMMA ReplaceSplits ==
  ASSUME NEW i \in Ingests, ReplaceDocument(i)
  PROVE  Commit(i) \/ (EndIngest(i, "store_error") /\ UNCHANGED store /\ lock' = Released(i))
BY DEF ReplaceDocument, Commit

\* A commit replaces one document.
LEMMA CommitReplaces ==
  ASSUME Rows, Locks, Log, NEW i \in Ingests, Commit(i)
  PROVE  Replaced(doc, doc', i, ing[i].current, Len(revisions))
<1> DEFINE cur == ing[i].current
           n == Len(revisions)
           old == Superseded(cur, ing[i].now)
           gone == [doc[cur] EXCEPT !.status = "SUPERSEDED", !.updated = ing[i].now, !.died = n]
           new == NewRow(i)
<1>1. /\ ing[i].pc = "write" /\ ing[i] \in Call /\ doc[i].status = "none" /\ ing[i].title \in Titles
      /\ cur # "none" => cur \in ActiveIn(doc) /\ doc[cur].title = ing[i].title
      /\ cur \in Ingests \cup {"none"} /\ ing[i].now \in Nat
  BY DEF Commit, IngestAt, Locks, Holds, Call
<1>2. n \in Nat \ {0} /\ Commits + 1 = n
  BY DEF Log, Commits
<1>3. profile[Home[i]] \in Profiles
  BY RetrievalAssumption DEF Rows
<1>4. doc \in [Ingests -> Row]
  BY DEF Rows
<1>5. Version(cur) \in Nat /\ Version(cur) = IF cur = "none" THEN 1 ELSE doc[cur].version + 1
  BY <1>1, <1>4 DEF Version, Row
<1>6. new \in Row
  BY <1>1, <1>2, <1>3, <1>5 DEF NewRow, Row
<1>7. /\ new.status = "ACTIVE" /\ new.died = 0 /\ new.born = n /\ new.title = ing[i].title
      /\ new.version = Version(cur)
  BY <1>2 DEF NewRow
<1>8. ASSUME cur # "none"
      PROVE  /\ gone \in Row /\ gone.status = "SUPERSEDED" /\ gone.title = doc[cur].title
             /\ gone.profile = doc[cur].profile /\ gone.died = n
  <2>1. doc[cur] \in Row
    BY <1>1, <1>4, <1>8
  <2>. QED BY <1>1, <1>2, <2>1 DEF Row
<1>9. old = IF cur = "none" THEN doc ELSE [doc EXCEPT ![cur] = gone]
  BY <1>2 DEF Superseded
<1>10. doc' = [old EXCEPT ![i] = new]
  BY DEF Commit
<1>11. ~Conflict(old, new)
  BY DEF Commit
<1>. HIDE DEF new, gone, n
<1>12. old \in [Ingests -> Row] /\ \A j \in Ingests \ {cur} : old[j] = doc[j]
  BY <1>1, <1>4, <1>8, <1>9
<1>13. cur # "none" => cur # i /\ cur \in Ingests /\ old[cur] = gone
  BY <1>1, <1>4, <1>9, RetrievalAssumption DEF ActiveIn
<1>. HIDE DEF old
<1>14. doc' \in [Ingests -> Row] /\ doc'[i] = new /\ \A j \in Ingests \ {i} : doc'[j] = old[j]
  BY <1>6, <1>10, <1>12
<1>15. \A j \in Ingests \ {i, cur} : doc'[j] = doc[j]
  BY <1>12, <1>14
<1>16. ASSUME NEW j \in ActiveIn(doc), doc[j].title = new.title PROVE j = cur
  <2> SUFFICES ASSUME j # cur PROVE FALSE
    OBVIOUS
  <2>1. j \in Ingests /\ old[j] = doc[j] /\ doc[j].status = "ACTIVE"
    BY <1>12 DEF ActiveIn
  <2>. QED BY <1>11, <1>16, <2>1 DEF Conflict
<1>17. cur = "none" => new.version = 1
  BY <1>5, <1>7
<1>18. cur # "none" => /\ cur \in ActiveIn(doc) /\ doc[cur].title = new.title
                       /\ new.version = doc[cur].version + 1
                       /\ doc'[cur].status = "SUPERSEDED" /\ doc'[cur].title = doc[cur].title
                       /\ doc'[cur].profile = doc[cur].profile /\ doc'[cur].died = n
  BY <1>1, <1>5, <1>7, <1>8, <1>13, <1>14
<1>. QED BY <1>1, <1>4, <1>7, <1>14, <1>15, <1>16, <1>17, <1>18 DEF Replaced, n

\* The rows after a commit.
LEMMA CommitRows ==
  ASSUME Rows, Locks, Log, NEW i \in Ingests, Commit(i), UNCHANGED profile
  PROVE  Rows'
<1> DEFINE cur == ing[i].current
           n == Len(revisions)
<1>1. Replaced(doc, doc', i, cur, n)
  BY CommitReplaces
<1>2. ActiveIn(doc') = (ActiveIn(doc) \ {cur}) \cup {i}
  BY <1>1, ActiveAfter
<1>3. Active = ActiveIn(doc) /\ Active' = ActiveIn(doc')
  BY DEF Active, ActiveIn
<1>4. chunks' = Active'
  BY <1>2, <1>3 DEF Commit, ChunksAfter, Rows
<1>5. Single(doc')
  BY <1>1, SingleAfter DEF Rows
<1>6. ASSUME NEW j \in Ingests, doc'[j].status = "ACTIVE" PROVE doc'[j].title \in Titles /\ doc'[j].died = 0
  <2>1. j \in ActiveIn(doc')
    BY <1>6 DEF ActiveIn
  <2>2. CASE j = i
    BY <1>1, <2>2 DEF Replaced
  <2>3. CASE j # i
    <3>1. j \in ActiveIn(doc) /\ j # cur
      BY <1>2, <2>1, <2>3
    <3>2. doc'[j] = doc[j]
      BY <1>1, <2>3, <3>1 DEF Replaced
    <3>. QED BY <1>6, <3>2 DEF Rows
  <2>. QED BY <2>2, <2>3
<1>7. doc' \in [Ingests -> Row]
  BY <1>1 DEF Replaced
<1>. QED BY <1>4, <1>5, <1>6, <1>7 DEF Rows

\* The other calls after a commit: what they hold has not been replaced.
LEMMA CommitLocks ==
  ASSUME Rows, Locks, Log, NEW i \in Ingests, Commit(i)
  PROVE  Locks'
<1> DEFINE cur == ing[i].current
           n == Len(revisions)
           c == [ing[i] EXCEPT !.pc = "stored"]
<1>1. Replaced(doc, doc', i, cur, n)
  BY CommitReplaces
<1>2. c \in Call /\ c.pc = "stored"
  BY DEF Locks, Call
<1>3. ing' = [ing EXCEPT ![i] = c] /\ lock' = [lock EXCEPT ![i] = "none"]
  BY DEF Commit, Released
<1>. HIDE DEF c
<1>4. ing' \in [Ingests -> Call] /\ lock' \in [Ingests -> Ingests \cup {"none"}]
  BY <1>2, <1>3 DEF Locks
<1>5. ing'[i] = c /\ lock'[i] = "none" /\ \A j \in Ingests \ {i} : ing'[j] = ing[j] /\ lock'[j] = lock[j]
  BY <1>2, <1>3 DEF Locks
<1>6. cur # "none" => lock[i] = cur
  BY DEF Commit, IngestAt, Locks, Holds
<1>7. \A j \in Ingests : doc[j].status # "none" => doc'[j].status # "none" /\ doc'[j].title = doc[j].title
  BY <1>1, StoredAfter
<1>8. \A j \in Ingests \ {i, cur} : doc'[j] = doc[j]
  BY <1>1 DEF Replaced
<1>9. ASSUME NEW j \in Ingests PROVE Holds(doc', j, ing'[j], lock'[j])
  <2>1. CASE j = i
    BY <1>2, <1>5, <2>1 DEF Holds
  <2>2. CASE j # i
    <3>0. ing'[j] = ing[j] /\ lock'[j] = lock[j] /\ Holds(doc, j, ing[j], lock[j])
      BY <1>5, <2>2 DEF Locks
    <3>1. doc'[j].status # "none" => doc[j].status # "none"
      BY <1>1, <1>8, <2>2, RetrievalAssumption DEF Replaced, ActiveIn
    <3>2. ing[j].pc = "wait" => /\ ing[j].current \in Ingests
                                /\ doc'[ing[j].current].status # "none"
                                /\ doc'[ing[j].current].title = ing[j].title
      BY <1>7, <3>0 DEF Holds
    <3>3. ASSUME ing[j].pc = "write", ing[j].current # "none"
          PROVE  /\ lock[j] = ing[j].current /\ ing[j].current \in ActiveIn(doc')
                 /\ doc'[ing[j].current].title = ing[j].title
      <4>1. /\ lock[j] = ing[j].current /\ ing[j].current \in ActiveIn(doc)
            /\ doc[ing[j].current].title = ing[j].title
        BY <3>0, <3>3 DEF Holds
      <4>2. ing[j].current \in Ingests /\ ing[j].current # i
        BY <1>1, <4>1 DEF Replaced, ActiveIn
      <4>3. ing[j].current # cur
        BY <1>6, <2>2, <3>3, <4>1 DEF Locks
      <4>4. doc'[ing[j].current] = doc[ing[j].current]
        BY <1>8, <4>2, <4>3
      <4>. QED BY <4>1, <4>2, <4>4 DEF ActiveIn
    <3>. QED BY <3>0, <3>1, <3>2, <3>3 DEF Holds
  <2>. QED BY <2>1, <2>2
<1>10. ASSUME NEW j \in Ingests, NEW k \in Ingests, lock'[j] # "none", lock'[j] = lock'[k] PROVE j = k
  BY <1>5, <1>10 DEF Locks
<1>. QED BY <1>4, <1>9, <1>10 DEF Locks

\* The revisions after a commit.
LEMMA CommitLog ==
  ASSUME Rows, Locks, Log, NEW i \in Ingests, Commit(i)
  PROVE  Log' /\ Len(revisions') = Len(revisions) + 1
         /\ \A k \in 1..Len(revisions) : revisions'[k] = revisions[k]
<1> DEFINE n == Len(revisions)
           r == Revision(doc')
<1>1. Replaced(doc, doc', i, ing[i].current, n)
  BY CommitReplaces
<1>2. /\ r \in Triple /\ r[2] = Total(doc') /\ Total(doc') \in Nat
  BY <1>1, RevisionType DEF Replaced
<1>3. Total(doc') = Total(doc) + 1
  BY <1>1, TotalAfter
<1>4. Total(doc) \in Nat
  BY RevisionType DEF Rows
<1>5. revisions' = Append(revisions, r) /\ revisions \in Seq(Triple) /\ n \in Nat \ {0}
  BY DEF Commit, Log
<1>. HIDE DEF r
<1>6. /\ revisions' \in Seq(Triple) /\ Len(revisions') = n + 1 /\ revisions'[n + 1] = r
      /\ \A k \in 1..n : revisions'[k] = revisions[k]
  BY <1>2, <1>5, AppendProperties
<1>7. ASSUME NEW k \in 1..(n + 1) PROVE revisions'[k][2] + (n + 1) = Total(doc') + k
  <2>1. CASE k = n + 1
    BY <1>2, <1>6, <2>1
  <2>2. CASE k # n + 1
    <3>1. k \in 1..n /\ n \in Nat
      BY <1>5, <2>2
    <3>2. revisions[k][2] + n = Total(doc) + k
      BY <3>1 DEF Log
    <3>3. revisions[k] \in Triple
      BY <1>5, <3>1, ElementOfSeq
    <3>4. PICK a \in Nat, b \in Nat : a = revisions[k][2] /\ b = Total(doc)
      BY <1>4, <3>3 DEF Triple
    <3>5. a + n = b + k => a + (n + 1) = (b + 1) + k
      BY <3>1
    <3>6. revisions'[k] = revisions[k]
      BY <1>6, <3>1
    <3>. QED BY <1>3, <3>2, <3>4, <3>5, <3>6
  <2>. QED BY <2>1, <2>2
<1>8. Log'
  BY <1>5, <1>6, <1>7 DEF Log, r
<1>. QED BY <1>6, <1>8

\* A step commits one ingest, or leaves the store as it is.
LEMMA StepCommits ==
  ASSUME Locks, [Next]_vars
  PROVE  \/ UNCHANGED store /\ Locks'
         \/ \E i \in Ingests : Commit(i) /\ UNCHANGED <<profile, ret, cache, restarts>>
<1>1. ASSUME UNCHANGED <<doc, ing, lock>> PROVE Locks'
  BY <1>1 DEF Locks
<1>2. ASSUME NEW i \in Ingests, IngestStep(i)
      PROVE  \/ UNCHANGED store /\ Locks'
             \/ Commit(i) /\ UNCHANGED <<profile, ret, cache, restarts>>
  <2>1. CASE SelectCurrent(i)
    BY <2>1, SelectMoves DEF SelectCurrent, store
  <2>2. CASE Woken(i)
    BY <2>2, WokenMoves DEF Woken, store
  <2>3. CASE ReplaceDocument(i)
    <3>1. UNCHANGED <<profile, ret, cache, restarts>>
      BY <2>3 DEF ReplaceDocument
    <3>2. CASE EndIngest(i, "store_error") /\ UNCHANGED store /\ lock' = Released(i)
      BY <3>2, CallEnds DEF store, Replies
    <3>. QED BY <2>3, <3>1, <3>2, ReplaceSplits
  <2>4. CASE Invalidate(i)
    <3>1. lock[i] = "none"
      BY <2>4 DEF Invalidate, IngestAt, Locks, Holds
    <3>. QED BY <2>4, <3>1, CallEnds DEF Invalidate, unread, store, Replies
  <2>. QED BY <1>2, <2>1, <2>2, <2>3, <2>4 DEF IngestStep
<1>3. ASSUME NEW i \in Ingests, NEW t \in Titles, Ingest(i, t) PROVE UNCHANGED store /\ Locks'
  BY <1>3, IngestMoves DEF Ingest, store
<1>4. ASSUME NEW q \in Retrievals, RetrieveStep(q) \/ \E m \in Modes : Retrieve(q, m)
      PROVE  UNCHANGED store /\ Locks'
  <2>1. UNCHANGED <<unread, ing>>
    BY <1>4 DEF RetrieveStep, CacheGet, LexicalSearch, ProfileCheck, VectorSearch, RankAndPut,
                RetrieveFails, Retrieve
  <2>. QED BY <1>1, <2>1 DEF unread, store
<1>5. ASSUME NEW i \in Ingests, NEW q \in Retrievals, InvalidateFails(i, q)
      PROVE  UNCHANGED store /\ Locks'
  <2>1. lock[i] = "none"
    BY <1>5 DEF InvalidateFails, IngestAt, Locks, Holds
  <2>. QED BY <1>5, <2>1, CallEnds DEF InvalidateFails, unread, store, Replies
<1>6. ASSUME NEW p \in Instances, NEW f \in Profiles, Restart(p, f) PROVE UNCHANGED store /\ Locks'
  BY <1>6, RestartMoves DEF Restart, store
<1>7. CASE UNCHANGED vars
  BY <1>1, <1>7 DEF vars, store
<1>. QED BY <1>2, <1>3, <1>4, <1>5, <1>6, <1>7 DEF Next

\* Which profile a process has.
LEMMA ProfileType ==
  ASSUME profile \in [Instances -> Profiles], [Next]_vars
  PROVE  profile' \in [Instances -> Profiles]
<1>1. CASE UNCHANGED profile
  BY <1>1
<1>2. CASE \E p \in Instances, f \in Profiles : Restart(p, f)
  BY <1>2, SMTT(30) DEF Restart
<1>3. CASE \/ \E i \in Ingests : IngestStep(i) \/ \E t \in Titles : Ingest(i, t)
           \/ \E q \in Retrievals : RetrieveStep(q) \/ \E m \in Modes : Retrieve(q, m)
           \/ \E i \in Ingests, q \in Retrievals : InvalidateFails(i, q)
  BY <1>1, <1>3, ZenonT(60) DEF IngestStep, SelectCurrent, Woken, ReplaceDocument, Invalidate, Ingest,
        RetrieveStep, CacheGet, LexicalSearch, ProfileCheck, VectorSearch, RankAndPut, RetrieveFails,
        Retrieve, InvalidateFails, unread
<1>. QED BY <1>1, <1>2, <1>3 DEF Next, vars

\* The corpus is in order at the start ...
LEMMA CorpusInit == Init => CorpusInv
<1> SUFFICES ASSUME Init PROVE CorpusInv
  OBVIOUS
<1>1. NoRow \in Row /\ NoRow.status = "none"
  BY DEF NoRow, Row
<1>2. doc \in [Ingests -> Row] /\ \A i \in Ingests : i # First => doc[i].status = "none"
  <2>1. CASE doc = [i \in Ingests |-> NoRow]
    BY <1>1, <2>1
  <2>2. CASE doc # [i \in Ingests |-> NoRow]
    <3>1. PICK t \in Titles, now \in Times : doc = [i \in Ingests |-> IF i # First THEN NoRow
            ELSE [status |-> "ACTIVE", title |-> t, version |-> 1, updated |-> now,
                  profile |-> Initially[Home[First]], born |-> 0, died |-> 0]]
      BY <2>2 DEF Init, InitialRows
    <3> DEFINE row == [status |-> "ACTIVE", title |-> t, version |-> 1, updated |-> now,
                       profile |-> Initially[Home[First]], born |-> 0, died |-> 0]
    <3>2. Initially[Home[First]] \in Profiles /\ now \in Nat
      BY RetrievalAssumption
    <3>3. row \in Row
      BY <3>2 DEF Row
    <3>4. doc = [i \in Ingests |-> IF i # First THEN NoRow ELSE row]
      BY <3>1
    <3>. HIDE DEF row
    <3>. QED BY <1>1, <3>3, <3>4
  <2>. QED BY <2>1, <2>2
<1>3. doc[First].status = "ACTIVE" => doc[First].title \in Titles /\ doc[First].died = 0
  BY RetrievalAssumption DEF Init, InitialRows, NoRow
<1>4. Rows
  <2>1. profile \in [Instances -> Profiles] /\ chunks = Active
    BY RetrievalAssumption DEF Init
  <2>2. Single(doc)
    BY <1>2 DEF Single, ActiveIn
  <2>. QED BY <1>2, <1>3, <2>1, <2>2 DEF Rows
<1>5. Locks
  <2> DEFINE done == [NoIngest EXCEPT !.pc = "done"]
  <2>1. done \in Call /\ NoIngest \in Call /\ done.pc = "done" /\ NoIngest.pc = "idle"
    BY DEF NoIngest, Call, Replies
  <2>2. ing = [i \in Ingests |-> IF i = First THEN done ELSE NoIngest] /\ lock = [i \in Ingests |-> "none"]
    BY DEF Init
  <2>. HIDE DEF done
  <2>3. ASSUME NEW i \in Ingests PROVE Holds(doc, i, ing[i], lock[i])
    <3>1. lock[i] = "none" /\ (ing[i].pc = "done" \/ (ing[i].pc = "idle" /\ i # First))
      BY <2>1, <2>2
    <3>. QED BY <1>2, <3>1 DEF Holds
  <2>. QED BY <2>1, <2>2, <2>3 DEF Locks
<1>6. Log
  <2> DEFINE r == Revision(doc)
  <2>1. r \in Triple /\ r[2] = Total(doc) /\ Total(doc) \in Nat
    BY <1>2, RevisionType
  <2>2. revisions = <<r>>
    BY DEF Init
  <2>. HIDE DEF r
  <2>3. revisions \in Seq(Triple) /\ Len(revisions) = 1 /\ revisions[1] = r
    BY <2>1, <2>2
  <2>. QED BY <2>1, <2>3 DEF Log, r
<1>. QED BY <1>4, <1>5, <1>6 DEF CorpusInv

\* ... and stays so.
LEMMA CorpusNext ==
  ASSUME CorpusInv, [Next]_vars
  PROVE  CorpusInv'
<1>1. profile' \in [Instances -> Profiles]
  BY ProfileType DEF CorpusInv, Rows
<1>2. CASE UNCHANGED store /\ Locks'
  <2>1. doc' = doc /\ chunks' = chunks /\ revisions' = revisions
    BY <1>2 DEF store
  <2>2. Rows'
    BY <1>1, <2>1 DEF CorpusInv, Rows, Active
  <2>3. Log'
    BY <2>1 DEF CorpusInv, Log
  <2>. QED BY <1>2, <2>2, <2>3 DEF CorpusInv
<1>3. ASSUME NEW i \in Ingests, Commit(i), UNCHANGED profile PROVE CorpusInv'
  BY <1>3, CommitRows, CommitLocks, CommitLog DEF CorpusInv
<1>. QED BY <1>2, <1>3, StepCommits DEF CorpusInv

\* Two commits that the log tells apart have different revisions.
LEMMA LogIdentifies ==
  ASSUME Rows, Log, NEW a \in 1..Len(revisions), NEW b \in 1..Len(revisions),
         revisions[a][2] = revisions[b][2]
  PROVE  a = b
<1>1. revisions[a] \in Triple
  BY ElementOfSeq DEF Log
<1>2. PICK x \in Nat, n \in Nat, t \in Nat : x = revisions[a][2] /\ n = Len(revisions) /\ t = Total(doc)
  BY <1>1, RevisionType DEF Triple, Log, Rows
<1>3. x + n = t + a /\ x + n = t + b
  BY <1>2 DEF Log
<1>. QED BY <1>2, <1>3

\* For every number of processes and ingests, no two states of the corpus have the same
\* revision, whatever times their documents carry (corpus_revision).
THEOREM RevisionsDiffer == Spec => []RevisionIdentifiesCorpus
<1>1. CorpusInv => RevisionIdentifiesCorpus
  <2> SUFFICES ASSUME CorpusInv, NEW a \in DOMAIN revisions, NEW b \in DOMAIN revisions,
                      revisions[a] = revisions[b]
               PROVE  a = b
    BY DEF RevisionIdentifiesCorpus
  <2>1. DOMAIN revisions = 1..Len(revisions)
    BY LenProperties DEF CorpusInv, Log
  <2>. QED BY <2>1, LogIdentifies DEF CorpusInv
<1>. QED BY <1>1, CorpusInit, CorpusNext, PTL DEF Spec

----------------------------------------------------------------------------
(* The promised store *)

\* The current documents and the revision, as the promised store sees them.
EntriesNow == [t \in Titles |->
                 IF Titled(t) = {} THEN [version |-> 0, document |-> "none"]
                 ELSE LET current == CHOOSE i \in Titled(t) : TRUE
                      IN [version |-> doc[current].version, document |-> current]]
RevisionNow == MapThenSumSet(LAMBDA i : doc[i].version, Active)

\* The entry of a title.
TitledIn(rows, t) == {i \in ActiveIn(rows) : rows[i].title = t}
EntryIn(rows, t) ==
  IF TitledIn(rows, t) = {} THEN [version |-> 0, document |-> "none"]
  ELSE [version |-> rows[Pick(TitledIn(rows, t))].version, document |-> Pick(TitledIn(rows, t))]

\* What the promised store sees, in terms of the rows.
LEMMA NowIs == /\ EntriesNow = [t \in Titles |-> EntryIn(doc, t)] /\ RevisionNow = Total(doc)
               /\ EntriesNow' = [t \in Titles |-> EntryIn(doc', t)] /\ RevisionNow' = Total(doc')
<1>1. Active = ActiveIn(doc) /\ Active' = ActiveIn(doc')
  BY DEF Active, ActiveIn
<1>2. \A t : Titled(t) = TitledIn(doc, t) /\ Titled(t)' = TitledIn(doc', t)
  BY <1>1 DEF Titled, TitledIn
<1>3. EntriesNow = [t \in Titles |-> EntryIn(doc, t)]
  BY <1>2 DEF EntriesNow, EntryIn, Pick
<1>4. EntriesNow' = [t \in Titles |-> EntryIn(doc', t)]
  BY <1>2 DEF EntriesNow, EntryIn, Pick
<1>5. ActiveIn(doc) \in SUBSET Ingests /\ ActiveIn(doc') \in SUBSET Ingests
  BY DEF ActiveIn
<1>6. RevisionNow = Total(doc)
  BY <1>1, <1>5, VersionsAdd DEF RevisionNow, Total
<1>7. RevisionNow' = Total(doc')
  <2>1. RevisionNow' = MapThenSumSet(LAMBDA i : doc'[i].version, ActiveIn(doc'))
    BY <1>1, Zenon DEF RevisionNow, MapThenSumSet, MapThenFoldSet
  <2>2. MapThenSumSet(LAMBDA i : doc'[i].version, ActiveIn(doc')) = Total(doc')
    BY <1>5, VersionsAdd DEF Total
  <2>. QED BY <2>1, <2>2
<1>. QED BY <1>3, <1>4, <1>6, <1>7

\* A commit gives its title the next version, and leaves the other titles alone.
LEMMA EntryAfter ==
  ASSUME NEW rows, NEW next, NEW i, NEW cur, NEW n, Replaced(rows, next, i, cur, n), NEW t \in Titles
  PROVE  EntryIn(next, t) = IF t = next[i].title
                            THEN [version |-> EntryIn(rows, t).version + 1, document |-> i]
                            ELSE EntryIn(rows, t)
<1>1. /\ ActiveIn(next) = (ActiveIn(rows) \ {cur}) \cup {i}
      /\ i \notin ActiveIn(rows) /\ i # cur
  BY ActiveAfter
<1>2. \A j \in ActiveIn(rows) \ {cur} : next[j] = rows[j]
  BY <1>1 DEF Replaced, ActiveIn
<1>3. CASE t = next[i].title
  <2>1. TitledIn(next, t) = {i}
    BY <1>1, <1>2, <1>3 DEF TitledIn, Replaced
  <2>2. Pick(TitledIn(next, t)) = i
    BY <2>1, PickIn
  <2>3. EntryIn(next, t) = [version |-> next[i].version, document |-> i]
    BY <2>1, <2>2 DEF EntryIn
  <2>4. CASE cur = "none"
    <3>1. cur \notin ActiveIn(rows)
      BY <2>4, RetrievalAssumption DEF ActiveIn
    <3>2. TitledIn(rows, t) = {} /\ next[i].version = 1
      BY <1>3, <3>1 DEF TitledIn, Replaced
    <3>. QED BY <1>3, <2>3, <3>2 DEF EntryIn
  <2>5. CASE cur # "none"
    <3>1. TitledIn(rows, t) = {cur} /\ next[i].version = rows[cur].version + 1
      BY <1>3, <2>5 DEF TitledIn, Replaced
    <3>2. Pick(TitledIn(rows, t)) = cur
      BY <3>1, PickIn
    <3>3. EntryIn(rows, t).version = rows[cur].version
      BY <3>1, <3>2 DEF EntryIn
    <3>. QED BY <1>3, <2>3, <3>1, <3>3
  <2>. QED BY <2>4, <2>5
<1>4. CASE t # next[i].title
  <2>1. cur \in ActiveIn(rows) => rows[cur].title # t
    BY <1>4, RetrievalAssumption DEF Replaced, ActiveIn
  <2>2. TitledIn(next, t) = TitledIn(rows, t)
    BY <1>1, <1>2, <1>4, <2>1 DEF TitledIn
  <2>3. ASSUME TitledIn(rows, t) # {}
        PROVE  next[Pick(TitledIn(rows, t))] = rows[Pick(TitledIn(rows, t))]
    <3>1. Pick(TitledIn(rows, t)) \in TitledIn(rows, t)
      BY <2>3, PickIn
    <3>. QED BY <1>2, <2>1, <3>1 DEF TitledIn
  <2>. QED BY <1>4, <2>2, <2>3 DEF EntryIn
<1>. QED BY <1>3, <1>4

\* Replacing a document is one indivisible step of the promised store, however many
\* ingests of one title wait for each other, are rolled back or die with their process
\* (replace_document).
THEOREM ReplacementsAreAtomic == Spec => ImplementsStore
<1>1. Init => Current!Init
  <2> SUFFICES ASSUME Init
               PROVE  /\ \A t \in Titles :
                           \/ EntriesNow[t] = [version |-> 0, document |-> "none"]
                           \/ /\ EntriesNow[t].version \in Nat \ {0}
                              /\ EntriesNow[t].document \in Ingests
                      /\ RevisionNow \in Nat
    BY DEF Current!Init, EntriesNow, RevisionNow
  <2>1. doc \in [Ingests -> Row]
    BY CorpusInit DEF CorpusInv, Rows
  <2>2. RevisionNow \in Nat
    BY <2>1, NowIs, RevisionType
  <2>3. \A i \in ActiveIn(doc) : i \in Ingests /\ doc[i].version = 1
    BY DEF Init, InitialRows, NoRow, ActiveIn
  <2>4. ASSUME NEW t \in Titles
        PROVE  \/ EntryIn(doc, t) = [version |-> 0, document |-> "none"]
               \/ EntryIn(doc, t).version \in Nat \ {0} /\ EntryIn(doc, t).document \in Ingests
    <3>1. TitledIn(doc, t) # {} => Pick(TitledIn(doc, t)) \in ActiveIn(doc)
      BY PickIn DEF TitledIn
    <3>. QED BY <2>3, <3>1 DEF EntryIn
  <2>. QED BY <2>2, <2>4, NowIs
<1>2. CorpusInv /\ [Next]_vars => [Current!Next]_<<EntriesNow, RevisionNow>>
  <2> SUFFICES ASSUME CorpusInv, [Next]_vars PROVE [Current!Next]_<<EntriesNow, RevisionNow>>
    OBVIOUS
  <2>1. CASE UNCHANGED store
    <3>1. doc' = doc
      BY <2>1 DEF store
    <3>. QED BY <3>1, NowIs
  <2>2. ASSUME NEW i \in Ingests, Commit(i) PROVE Current!Next
    <3>1. Replaced(doc, doc', i, ing[i].current, Len(revisions))
      BY <2>2, CommitReplaces DEF CorpusInv
    <3>2. PICK t \in Titles : t = doc'[i].title
      BY <3>1 DEF Replaced
    <3>3. RevisionNow' = RevisionNow + 1
      BY <3>1, TotalAfter, NowIs
    <3>4. \A u \in Titles : EntryIn(doc', u) = IF u = t THEN [version |-> EntryIn(doc, u).version + 1, document |-> i]
                                               ELSE EntryIn(doc, u)
      BY <3>1, <3>2, EntryAfter
    <3>5. EntriesNow' = [EntriesNow EXCEPT ![t] = [version |-> EntriesNow[t].version + 1, document |-> i]]
      BY <3>4, NowIs
    <3>. QED BY <3>3, <3>5 DEF Current!Next, Current!replace_document, EntriesNow, RevisionNow
  <2>. QED BY <2>1, <2>2, StepCommits DEF CorpusInv
<1>. QED BY <1>1, <1>2, CorpusInit, CorpusNext, PTL
         DEF Spec, ImplementsStore, Current!Spec, EntriesNow, RevisionNow

----------------------------------------------------------------------------
(* The retrievals *)

\* A commit leaves an answer as fresh as it was ...
LEMMA FreshAfter ==
  ASSUME NEW rows, NEW next, NEW i, NEW cur, NEW n \in Nat, Replaced(rows, next, i, cur, n),
         NEW a, NEW s \in Nat, s < n, Fresh(rows, a, s)
  PROVE  Fresh(next, a, s)
<1> SUFFICES ASSUME NEW j \in a.lexical \cup a.vector
             PROVE  /\ j \in Ingests /\ next[j].status # "none"
                    /\ next[j].died = 0 \/ next[j].died > s
  BY DEF Fresh
<1>1. j \in Ingests /\ rows[j].status # "none" /\ (rows[j].died = 0 \/ rows[j].died > s)
  BY DEF Fresh
<1>2. next[j].status # "none" /\ (next[j].died = rows[j].died \/ next[j].died = n)
  BY <1>1, StoredAfter
<1>. QED BY <1>1, <1>2

\* ... and as complete ...
LEMMA WholeAfter ==
  ASSUME NEW rows, NEW next, NEW i, NEW cur, NEW n \in Nat, Replaced(rows, next, i, cur, n),
         NEW m, NEW a, NEW s \in Nat, s < n, Whole(rows, m, a, s)
  PROVE  Whole(next, m, a, s)
<1> SUFFICES ASSUME Lexical(m), NEW j \in ActiveIn(next), next[j].born <= s PROVE j \in a.lexical
  BY DEF Whole
<1>1. j # i
  BY DEF Replaced
<1>2. j \in ActiveIn(rows) /\ j # cur
  BY <1>1, ActiveAfter
<1>3. next[j] = rows[j]
  BY <1>1, <1>2 DEF Replaced, ActiveIn
<1>. QED BY <1>2, <1>3 DEF Whole

\* ... and its vectors under their profile.
LEMMA OwnAfter ==
  ASSUME NEW rows, NEW next, NEW i, NEW cur, NEW n, Replaced(rows, next, i, cur, n),
         NEW a, NEW s, Fresh(rows, a, s), NEW f, Own(rows, a, f)
  PROVE  Own(next, a, f)
<1> SUFFICES ASSUME NEW j \in a.vector PROVE next[j].profile = f
  BY DEF Own
<1>1. j \in Ingests /\ rows[j].status # "none" /\ rows[j].profile = f
  BY DEF Fresh, Own
<1>. QED BY <1>1, StoredAfter

\* A commit disturbs no retrieval and no cache.
LEMMA CommitServes ==
  ASSUME RetrievalInv, NEW i \in Ingests, Commit(i), UNCHANGED <<profile, ret, cache, restarts>>
  PROVE  Callers' /\ Caches' /\ Bounded'
<1> DEFINE cur == ing[i].current
<1>1. PICK n \in Nat : n = Len(revisions)
  BY DEF RetrievalInv, CorpusInv, Log
<1>2. Replaced(doc, doc', i, cur, n)
  BY <1>1, CommitReplaces DEF RetrievalInv, CorpusInv
<1>3. Len(revisions') = n + 1 /\ \A k \in 1..n : revisions'[k] = revisions[k]
  BY <1>1, CommitLog DEF RetrievalInv, CorpusInv
<1>. HIDE DEF cur
<1>4. ASSUME NEW q \in Retrievals PROVE Serves(doc', revisions', ret[q], profile[Home[q]])
  <2>1. PICK c \in Query : c = ret[q]
    BY DEF RetrievalInv, Callers
  <2>2. PICK f : f = profile[Home[q]]
    OBVIOUS
  <2>3. Serves(doc, revisions, c, f)
    BY <2>1, <2>2 DEF RetrievalInv, Callers
  <2>4. PICK s \in Nat : s = c.since
    BY DEF Query
  <2>5. s < n /\ s < n + 1 /\ s + 1 \in 1..n
    BY <1>1, <2>3, <2>4 DEF Serves
  <2>6. Fresh(doc', c.answer, s)
    BY <1>2, <2>3, <2>4, <2>5, FreshAfter DEF Serves
  <2>7. Own(doc', c.answer, c.profile)
    BY <1>2, <2>3, OwnAfter DEF Serves
  <2>8. Whole(doc, c.mode, c.answer, s) => Whole(doc', c.mode, c.answer, s)
    BY <1>2, <2>5, WholeAfter
  <2>9. revisions'[s + 1] = revisions[s + 1]
    BY <1>3, <2>5
  <2>10. Serves(doc', revisions', c, f)
    BY <1>3, <2>3, <2>4, <2>5, <2>6, <2>7, <2>8, <2>9 DEF Serves
  <2>. QED BY <2>1, <2>2, <2>10
<1>5. ASSUME NEW p \in Instances, NEW e \in cache[p] PROVE Answering(doc', revisions', e, profile[p])
  <2>1. Answering(doc, revisions, e, profile[p])
    BY DEF RetrievalInv, Caches
  <2>2. PICK k \in 1..n : /\ e.key[2] = revisions[k] /\ Fresh(doc, e.answer, k - 1)
                          /\ Whole(doc, e.key[1], e.answer, k - 1)
    BY <1>1, <2>1 DEF Answering
  <2>3. PICK s \in Nat : s = k - 1 /\ s < n /\ k \in 1..(n + 1)
    OBVIOUS
  <2>4. Fresh(doc', e.answer, s) /\ Whole(doc', e.key[1], e.answer, s)
    BY <1>2, <2>2, <2>3, FreshAfter, WholeAfter
  <2>5. Own(doc', e.answer, profile[p])
    BY <1>2, <2>1, <2>2, OwnAfter DEF Answering
  <2>. QED BY <1>3, <2>2, <2>3, <2>4, <2>5 DEF Answering
<1>. QED BY <1>4, <1>5 DEF RetrievalInv, Callers, Caches, Bounded

\* A step of one retrieval.
LEMMA CallerMoves ==
  ASSUME Callers, UNCHANGED <<doc, revisions, profile>>, NEW q \in Retrievals, NEW c \in Query,
         ret' = [ret EXCEPT ![q] = c], Serves(doc, revisions, c, profile[Home[q]])
  PROVE  Callers'
<1>1. ret' \in [Retrievals -> Query] /\ ret'[q] = c /\ \A r \in Retrievals : r # q => ret'[r] = ret[r]
  BY DEF Callers
<1>2. ASSUME NEW r \in Retrievals PROVE Serves(doc, revisions, ret'[r], profile[Home[r]])
  BY <1>1 DEF Callers
<1>. QED BY <1>1, <1>2 DEF Callers

\* The retrieval has ended with an error: it holds no answer.
LEMMA FailedServes ==
  ASSUME Log, NEW f, NEW reply \in {"reindex", "error", "lost"}
  PROVE  LET c == [NoRetrieval EXCEPT !.pc = "done", !.reply = reply]
         IN c \in Query /\ Serves(doc, revisions, c, f)
<1> DEFINE c == [NoRetrieval EXCEPT !.pc = "done", !.reply = reply]
<1>1. NoAnswer \in Answers /\ NoAnswer.lexical = {} /\ NoAnswer.vector = {}
  BY DEF NoAnswer, Answers
<1>2. c \in Query
  BY <1>1 DEF NoRetrieval, Query
<1>3. c.pc = "done" /\ c.reply # "ok" /\ c.since = 0 /\ c.answer = NoAnswer
  BY DEF NoRetrieval
<1>4. 0 < Len(revisions)
  BY DEF Log
<1>. HIDE DEF c
<1>5. Serves(doc, revisions, c, f)
  BY <1>1, <1>3, <1>4 DEF Serves, Fresh, Own
<1>. QED BY <1>2, <1>5 DEF c

\* A retrieval fails.
LEMMA CallerFails ==
  ASSUME Log, Callers, UNCHANGED <<doc, revisions, profile>>, NEW q \in Retrievals,
         NEW reply \in {"reindex", "error", "lost"}, Failed(q, reply)
  PROVE  Callers'
<1> DEFINE c == [NoRetrieval EXCEPT !.pc = "done", !.reply = reply]
<1>1. c \in Query /\ Serves(doc, revisions, c, profile[Home[q]])
  BY FailedServes
<1>2. ret' = [ret EXCEPT ![q] = c]
  BY DEF Failed
<1>. HIDE DEF c
<1>. QED BY <1>1, <1>2, CallerMoves

\* retrieve begins.
LEMMA RetrieveServes ==
  ASSUME RetrievalInv, NEW q \in Retrievals, NEW m \in Modes, Retrieve(q, m)
  PROVE  Callers'
<1> DEFINE c == [NoRetrieval EXCEPT !.pc = "cache", !.mode = m, !.revision = Revision(doc),
                                    !.profile = profile[Home[q]], !.since = Commits]
<1>0. UNCHANGED <<doc, revisions, profile>> /\ Log /\ Callers
  BY DEF Retrieve, unread, RetrievalInv, CorpusInv
<1>1. CASE Failed(q, "error")
  BY <1>0, <1>1, CallerFails
<1>2. CASE ret' = [ret EXCEPT ![q] = c]
  <2>1. PICK n \in Nat : n = Len(revisions) /\ n # 0
    BY <1>0 DEF Log
  <2>2. PICK s \in Nat : s = Commits /\ s < Len(revisions) /\ s + 1 = Len(revisions)
    BY <2>1 DEF Commits
  <2>3. Revision(doc) \in Triple /\ m \in AllModes /\ profile[Home[q]] \in Profiles
    BY RevisionType, RetrievalAssumption DEF RetrievalInv, CorpusInv, Rows, AllModes
  <2>4. NoAnswer \in Answers /\ NoAnswer.lexical = {} /\ NoAnswer.vector = {}
    BY DEF NoAnswer, Answers
  <2>5. c \in Query
    BY <2>2, <2>3, <2>4 DEF NoRetrieval, Query
  <2>6. /\ c.pc = "cache" /\ c.reply = "none" /\ c.since = s /\ c.answer = NoAnswer /\ c.mode = m
        /\ c.revision = Revision(doc) /\ c.profile = profile[Home[q]]
    BY <2>2 DEF NoRetrieval
  <2>7. Revision(doc) = revisions[s + 1]
    BY <1>0, <2>2 DEF Log
  <2>. HIDE DEF c
  <2>8. Serves(doc, revisions, c, profile[Home[q]])
    BY <2>2, <2>3, <2>4, <2>6, <2>7 DEF Serves, Fresh, Own
  <2>. QED BY <1>0, <1>2, <2>5, <2>8, CallerMoves
<1>. QED BY <1>1, <1>2 DEF Retrieve

\* A retrieval goes on with the answer it has.
LEMMA CallerGoesOn ==
  ASSUME RetrievalInv, UNCHANGED <<doc, revisions, profile>>, NEW q \in Retrievals,
         ret[q].pc \notin {"idle", "done"},
         NEW pc \in {"lexical", "profile", "vector", "rank"}, ret' = [ret EXCEPT ![q].pc = pc],
         pc = "lexical" \/ Whole(doc, ret[q].mode, ret[q].answer, ret[q].since)
  PROVE  Callers'
<1> DEFINE c == [ret[q] EXCEPT !.pc = pc]
<1>1. ret[q] \in Query /\ Serves(doc, revisions, ret[q], profile[Home[q]]) /\ Callers
  BY DEF RetrievalInv, Callers
<1>2. /\ c \in Query /\ c.pc = pc /\ c.reply = ret[q].reply /\ c.since = ret[q].since
      /\ c.answer = ret[q].answer /\ c.mode = ret[q].mode /\ c.revision = ret[q].revision
      /\ c.profile = ret[q].profile
  BY <1>1 DEF Query
<1>3. ret' = [ret EXCEPT ![q] = c]
  OBVIOUS
<1>. HIDE DEF c
<1>4. Serves(doc, revisions, c, profile[Home[q]])
  BY <1>1, <1>2 DEF Serves
<1>. QED BY <1>1, <1>2, <1>3, <1>4, CallerMoves

\* A retrieval answers.
LEMMA CallerAnswers ==
  ASSUME RetrievalInv, UNCHANGED <<doc, revisions, profile>>, NEW q \in Retrievals,
         NEW a \in Answers, Answered(q, a),
         Fresh(doc, a, ret[q].since), Whole(doc, ret[q].mode, a, ret[q].since),
         Own(doc, a, ret[q].profile)
  PROVE  Callers'
<1> DEFINE c == [ret[q] EXCEPT !.pc = "done", !.revision = <<>>, !.answer = a, !.reply = "ok"]
<1>1. ret[q] \in Query /\ Serves(doc, revisions, ret[q], profile[Home[q]]) /\ Callers
  BY DEF RetrievalInv, Callers
<1>2. /\ c \in Query /\ c.pc = "done" /\ c.reply = "ok" /\ c.since = ret[q].since
      /\ c.answer = a /\ c.mode = ret[q].mode /\ c.profile = ret[q].profile
  BY <1>1 DEF Query
<1>3. ret' = [ret EXCEPT ![q] = c]
  BY DEF Answered
<1>. HIDE DEF c
<1>4. Serves(doc, revisions, c, profile[Home[q]])
  BY <1>1, <1>2 DEF Serves
<1>. QED BY <1>1, <1>2, <1>3, <1>4, CallerMoves

\* A retrieval at the end of its searches answers with what it found.
LEMMA RankAnswers ==
  ASSUME RetrievalInv, UNCHANGED <<doc, revisions, profile>>, NEW q \in Retrievals,
         RetrieveAt(q, "rank"), Answered(q, ret[q].answer)
  PROVE  Callers'
<1>1. ret[q] \in Query /\ Serves(doc, revisions, ret[q], profile[Home[q]]) /\ ret[q].pc = "rank"
  BY DEF RetrievalInv, Callers, RetrieveAt
<1>2. ret[q].answer \in Answers
  BY <1>1 DEF Query
<1>3. /\ Fresh(doc, ret[q].answer, ret[q].since) /\ Own(doc, ret[q].answer, ret[q].profile)
      /\ Whole(doc, ret[q].mode, ret[q].answer, ret[q].since)
  BY <1>1 DEF Serves
<1>. QED BY <1>2, <1>3, CallerAnswers

\* What the cache holds for the revision a retrieval has read is an answer to it.
LEMMA CacheGetServes ==
  ASSUME RetrievalInv, NEW q \in Retrievals, CacheGet(q)
  PROVE  Callers'
<1> DEFINE p == Home[q]
<1>0. UNCHANGED <<doc, revisions, profile>> /\ ret[q].pc = "cache" /\ p \in Instances
  BY RetrievalAssumption DEF CacheGet, RetrieveAt, unread
<1>1. ret[q] \in Query /\ Serves(doc, revisions, ret[q], profile[p])
  BY DEF RetrievalInv, Callers
<1>2. ASSUME NEW e \in cache[p], e.key = Key(q), Answered(q, e.answer) PROVE Callers'
  <2>1. e \in Entry /\ Answering(doc, revisions, e, profile[p])
    BY <1>0 DEF RetrievalInv, Caches
  <2>2. PICK k \in 1..Len(revisions) : /\ e.key[2] = revisions[k] /\ Fresh(doc, e.answer, k - 1)
                                       /\ Whole(doc, e.key[1], e.answer, k - 1)
    BY <2>1 DEF Answering
  <2>3. e.key[1] = ret[q].mode /\ e.key[2] = ret[q].revision
    BY <1>2 DEF Key
  <2>4. PICK s \in Nat : s = ret[q].since /\ s < Len(revisions)
    BY <1>1 DEF Query, Serves
  <2>5. s + 1 \in 1..Len(revisions)
    BY <2>4 DEF RetrievalInv, CorpusInv, Log
  <2>6. ret[q].revision = revisions[s + 1] /\ ret[q].profile = profile[p]
    BY <1>0, <1>1, <2>4 DEF Serves
  <2>7. k = s + 1
    BY <2>2, <2>3, <2>5, <2>6, LogIdentifies DEF RetrievalInv, CorpusInv
  <2>8. k - 1 = s
    BY <2>4, <2>7
  <2>9. /\ Fresh(doc, e.answer, ret[q].since) /\ Own(doc, e.answer, ret[q].profile)
        /\ Whole(doc, ret[q].mode, e.answer, ret[q].since)
    BY <2>1, <2>2, <2>3, <2>4, <2>6, <2>8 DEF Answering
  <2>10. e.answer \in Answers
    BY <2>1 DEF Entry
  <2>. QED BY <1>0, <1>2, <2>9, <2>10, CallerAnswers
<1>3. ASSUME ret' = [ret EXCEPT ![q].pc = IF Lexical(ret[q].mode) THEN "lexical" ELSE "profile"]
      PROVE  Callers'
  <2>1. PICK pc \in {"lexical", "profile", "vector", "rank"} :
          pc = IF Lexical(ret[q].mode) THEN "lexical" ELSE "profile"
    OBVIOUS
  <2>2. pc = "lexical" \/ Whole(doc, ret[q].mode, ret[q].answer, ret[q].since)
    BY <2>1 DEF Whole
  <2>3. ret' = [ret EXCEPT ![q].pc = pc]
    BY <1>3, <2>1
  <2>. QED BY <1>0, <2>2, <2>3, CallerGoesOn
<1>. QED BY <1>2, <1>3 DEF CacheGet

\* lexical_search finds every current document.
LEMMA LexicalServes ==
  ASSUME RetrievalInv, NEW q \in Retrievals, LexicalSearch(q)
  PROVE  Callers'
<1> DEFINE found == chunks \cap Active
           a == [ret[q].answer EXCEPT !.lexical = found]
           c == [ret[q] EXCEPT !.pc = AfterLexical(ret[q].mode), !.answer = a]
<1>0. UNCHANGED <<doc, revisions, profile>> /\ ret[q].pc = "lexical"
  BY DEF LexicalSearch, RetrieveAt, unread
<1>1. ret[q] \in Query /\ Serves(doc, revisions, ret[q], profile[Home[q]]) /\ Callers
  BY DEF RetrievalInv, Callers
<1>2. found = ActiveIn(doc) /\ found \in SUBSET Ingests
  BY DEF RetrievalInv, CorpusInv, Rows, Active, ActiveIn
<1>3. ret' = [ret EXCEPT ![q] = c]
  BY DEF LexicalSearch
<1>. HIDE DEF found
<1>4. ret[q].answer \in Answers
  BY <1>1 DEF Query
<1>5. a \in Answers /\ a.lexical = found /\ a.vector = ret[q].answer.vector
  BY <1>2, <1>4 DEF Answers
<1>. HIDE DEF a
<1>6. AfterLexical(ret[q].mode) \in {"profile", "rank"}
  BY DEF AfterLexical
<1>7. /\ c \in Query /\ c.pc \in {"profile", "rank"} /\ c.reply = ret[q].reply /\ c.since = ret[q].since
      /\ c.answer = a /\ c.mode = ret[q].mode /\ c.revision = ret[q].revision
      /\ c.profile = ret[q].profile
  BY <1>1, <1>5, <1>6 DEF Query
<1>. HIDE DEF c
<1>8. \A j \in found : j \in Ingests /\ doc[j].status # "none" /\ doc[j].died = 0
  BY <1>2 DEF ActiveIn, RetrievalInv, CorpusInv, Rows
<1>9. Fresh(doc, a, ret[q].since)
  BY <1>1, <1>5, <1>8 DEF Serves, Fresh
<1>10. Own(doc, a, ret[q].profile)
  BY <1>1, <1>5 DEF Serves, Own
<1>11. Whole(doc, ret[q].mode, a, ret[q].since)
  BY <1>2, <1>5 DEF Whole
<1>12. Serves(doc, revisions, c, profile[Home[q]])
  BY <1>0, <1>1, <1>7, <1>9, <1>10, <1>11 DEF Serves
<1>. QED BY <1>0, <1>1, <1>3, <1>7, <1>12, CallerMoves

\* vector_search finds documents of the profile of its process.
LEMMA VectorServes ==
  ASSUME RetrievalInv, NEW q \in Retrievals, VectorSearch(q)
  PROVE  Callers'
<1> DEFINE found == {i \in chunks \cap Active : doc[i].profile = ret[q].profile}
           a == [ret[q].answer EXCEPT !.vector = found]
           c == [ret[q] EXCEPT !.pc = "rank", !.answer = a]
<1>0. UNCHANGED <<doc, revisions, profile>> /\ ret[q].pc = "vector"
  BY DEF VectorSearch, RetrieveAt, unread
<1>1. ret[q] \in Query /\ Serves(doc, revisions, ret[q], profile[Home[q]]) /\ Callers
  BY DEF RetrievalInv, Callers
<1>2. found \in SUBSET Ingests
  BY DEF Active
<1>3. ret' = [ret EXCEPT ![q] = c]
  BY DEF VectorSearch
<1>8. \A j \in found : /\ j \in Ingests /\ doc[j].status # "none" /\ doc[j].died = 0
                       /\ doc[j].profile = ret[q].profile
  BY DEF Active, RetrievalInv, CorpusInv, Rows
<1>. HIDE DEF found
<1>4. ret[q].answer \in Answers
  BY <1>1 DEF Query
<1>5. a \in Answers /\ a.vector = found /\ a.lexical = ret[q].answer.lexical
  BY <1>2, <1>4 DEF Answers
<1>. HIDE DEF a
<1>7. /\ c \in Query /\ c.pc = "rank" /\ c.reply = ret[q].reply /\ c.since = ret[q].since
      /\ c.answer = a /\ c.mode = ret[q].mode /\ c.revision = ret[q].revision
      /\ c.profile = ret[q].profile
  BY <1>1, <1>5 DEF Query
<1>. HIDE DEF c
<1>9. Fresh(doc, a, ret[q].since)
  BY <1>1, <1>5, <1>8 DEF Serves, Fresh
<1>10. Own(doc, a, ret[q].profile)
  BY <1>5, <1>8 DEF Own
<1>11. Whole(doc, ret[q].mode, a, ret[q].since)
  BY <1>0, <1>1, <1>5 DEF Serves, Whole
<1>12. Serves(doc, revisions, c, profile[Home[q]])
  BY <1>0, <1>1, <1>7, <1>9, <1>10, <1>11 DEF Serves
<1>. QED BY <1>0, <1>1, <1>3, <1>7, <1>12, CallerMoves

\* The check for other profiles.
LEMMA ProfileServes ==
  ASSUME RetrievalInv, NEW q \in Retrievals, ProfileCheck(q)
  PROVE  Callers'
<1>0. UNCHANGED <<doc, revisions, profile>> /\ ret[q].pc = "profile"
  BY DEF ProfileCheck, RetrieveAt, unread
<1>1. CASE Failed(q, "reindex")
  BY <1>0, <1>1, CallerFails DEF RetrievalInv, CorpusInv
<1>2. CASE ret' = [ret EXCEPT ![q].pc = "vector"]
  <2>1. Whole(doc, ret[q].mode, ret[q].answer, ret[q].since)
    BY <1>0 DEF RetrievalInv, Callers, Serves
  <2>. QED BY <1>0, <1>2, <2>1, CallerGoesOn
<1>. QED BY <1>1, <1>2 DEF ProfileCheck

\* A restart ends the calls of its process; the others keep their profile.
LEMMA RestartServes ==
  ASSUME RetrievalInv, NEW p \in Instances, NEW f \in Profiles, Restart(p, f)
  PROVE  Callers'
<1> DEFINE Lost(q) == Home[q] = p /\ ret[q].pc \notin {"idle", "done"}
           dead == [NoRetrieval EXCEPT !.pc = "done", !.reply = "lost"]
<1>0. Callers /\ Log /\ profile \in [Instances -> Profiles]
  BY DEF RetrievalInv, CorpusInv, Rows
<1>1. /\ ret' = [q \in Retrievals |-> IF Lost(q) THEN dead ELSE ret[q]]
      /\ profile' = [profile EXCEPT ![p] = f]
      /\ UNCHANGED <<doc, revisions>>
  BY DEF Restart
<1>2. dead \in Query /\ \A g : Serves(doc, revisions, dead, g)
  BY <1>0, FailedServes
<1>. HIDE DEF dead
<1>3. ret' \in [Retrievals -> Query]
  BY <1>0, <1>1, <1>2 DEF Callers
<1>4. ASSUME NEW q \in Retrievals PROVE Serves(doc, revisions, ret'[q], profile'[Home[q]])
  <2>1. CASE Lost(q)
    BY <1>1, <1>2, <2>1
  <2>2. CASE ~Lost(q)
    <3>1. ret'[q] = ret[q] /\ Serves(doc, revisions, ret[q], profile[Home[q]])
      BY <1>0, <1>1, <2>2 DEF Callers
    <3>2. profile'[Home[q]] = profile[Home[q]] \/ ret[q].pc \in {"idle", "done"}
      BY <1>0, <1>1, <2>2, RetrievalAssumption
    <3>. QED BY <3>1, <3>2 DEF Serves
  <2>. QED BY <2>1, <2>2
<1>. QED BY <1>1, <1>3, <1>4 DEF Callers

\* The cache of one process changes.
LEMMA CacheMoves ==
  ASSUME Caches, UNCHANGED <<doc, revisions>>, NEW p \in Instances, NEW S \in SUBSET Entry,
         cache' = [cache EXCEPT ![p] = S],
         \A e \in S : Answering(doc, revisions, e, profile'[p]),
         \A r \in Instances : r # p => profile'[r] = profile[r]
  PROVE  Caches'
<1>1. cache' \in [Instances -> SUBSET Entry]
  BY DEF Caches
<1>2. ASSUME NEW r \in Instances, NEW e \in cache'[r] PROVE Answering(doc, revisions, e, profile'[r])
  <2>1. CASE r = p
    BY <1>2, <2>1 DEF Caches
  <2>2. CASE r # p
    BY <1>2, <2>2 DEF Caches
  <2>. QED BY <2>1, <2>2
<1>. QED BY <1>1, <1>2 DEF Caches

\* The cache of a process is emptied.
LEMMA CacheCleared ==
  ASSUME Caches, UNCHANGED <<doc, revisions>>, NEW p \in Instances,
         cache' = [cache EXCEPT ![p] = {}], \A r \in Instances : r # p => profile'[r] = profile[r]
  PROVE  Caches'
<1>1. {} \in SUBSET Entry /\ \A e \in {} : Answering(doc, revisions, e, profile'[p])
  OBVIOUS
<1>. QED BY <1>1, CacheMoves

\* What a retrieval puts into the cache is an answer to calls that read its revision.
LEMMA CachePut ==
  ASSUME RetrievalInv, UNCHANGED <<doc, revisions, profile>>, NEW q \in Retrievals,
         RetrieveAt(q, "rank"), cache' = [cache EXCEPT ![Home[q]] = Put(q)]
  PROVE  Caches'
<1> DEFINE p == Home[q]
           e == [key |-> Key(q), answer |-> ret[q].answer]
<1>0. p \in Instances /\ Caches
  BY RetrievalAssumption DEF RetrievalInv
<1>1. ret[q] \in Query /\ Serves(doc, revisions, ret[q], profile[p]) /\ ret[q].pc = "rank"
  BY DEF RetrievalInv, Callers, RetrieveAt
<1>2. PICK s \in Nat : s = ret[q].since /\ s < Len(revisions)
  BY <1>1 DEF Query, Serves
<1>3. PICK k \in 1..Len(revisions) : k = s + 1 /\ k - 1 = s
  BY <1>2 DEF RetrievalInv, CorpusInv, Log
<1>4. /\ ret[q].revision = revisions[k] /\ ret[q].profile = profile[p] /\ ret[q].mode \in AllModes
      /\ Fresh(doc, ret[q].answer, s) /\ Own(doc, ret[q].answer, profile[p])
      /\ Whole(doc, ret[q].mode, ret[q].answer, s)
  BY <1>1, <1>2, <1>3 DEF Serves
<1>5. revisions[k] \in Triple /\ ret[q].answer \in Answers
  BY <1>1, <1>3, ElementOfSeq DEF Query, RetrievalInv, CorpusInv, Log
<1>6. e \in Entry /\ e.answer = ret[q].answer /\ e.key[1] = ret[q].mode /\ e.key[2] = ret[q].revision
  BY <1>4, <1>5 DEF Entry, Key
<1>7. Put(q) \in SUBSET (cache[p] \cup {e})
  BY DEF Put
<1>. HIDE DEF e
<1>8. Answering(doc, revisions, e, profile[p])
  BY <1>3, <1>4, <1>6 DEF Answering
<1>9. Put(q) \in SUBSET Entry /\ \A x \in Put(q) : Answering(doc, revisions, x, profile[p])
  BY <1>0, <1>6, <1>7, <1>8 DEF Caches
<1>. HIDE DEF p
<1>10. cache' = [cache EXCEPT ![p] = Put(q)]
  BY DEF p
<1>. QED BY <1>0, <1>9, <1>10, CacheMoves

\* An entry that has expired is removed.
LEMMA CacheGetKeeps ==
  ASSUME RetrievalInv, NEW q \in Retrievals, CacheGet(q)
  PROVE  Caches'
<1> DEFINE p == Home[q]
           found == {e \in cache[p] : e.key = Key(q)}
<1>0. UNCHANGED <<doc, revisions, profile>> /\ p \in Instances /\ Caches
  BY RetrievalAssumption DEF CacheGet, unread, RetrievalInv
<1>1. CASE UNCHANGED cache
  BY <1>0, <1>1 DEF Caches
<1>2. CASE cache' = [cache EXCEPT ![p] = @ \ found]
  <2>1. cache[p] \ found \in SUBSET Entry
    BY <1>0 DEF Caches
  <2>2. \A e \in cache[p] \ found : Answering(doc, revisions, e, profile[p])
    BY <1>0 DEF Caches
  <2>. HIDE DEF found, p
  <2>3. cache' = [cache EXCEPT ![p] = cache[p] \ found]
    BY <1>2
  <2>. QED BY <1>0, <2>1, <2>2, <2>3, CacheMoves
<1>. QED BY <1>1, <1>2 DEF CacheGet

\* The whole invariant is inductive.
LEMMA RetrievalNext ==
  ASSUME RetrievalInv, [Next]_vars
  PROVE  RetrievalInv'
<1>0. CorpusInv'
  BY CorpusNext DEF RetrievalInv
<1>1. ASSUME UNCHANGED <<doc, revisions, profile, ret>> PROVE Callers'
  BY <1>1 DEF RetrievalInv, Callers
<1>2. ASSUME UNCHANGED <<doc, revisions, profile, cache>> PROVE Caches'
  BY <1>2 DEF RetrievalInv, Caches
<1>3. ASSUME UNCHANGED restarts PROVE Bounded'
  BY <1>3 DEF RetrievalInv, Bounded
<1>4. ASSUME NEW i \in Ingests, IngestStep(i) PROVE Callers' /\ Caches' /\ Bounded'
  <2>1. CASE SelectCurrent(i)
    BY <1>1, <1>2, <1>3, <2>1 DEF SelectCurrent, store
  <2>2. CASE Woken(i)
    BY <1>1, <1>2, <1>3, <2>2 DEF Woken, store
  <2>3. CASE ReplaceDocument(i)
    <3>1. UNCHANGED <<profile, ret, cache, restarts>>
      BY <2>3 DEF ReplaceDocument
    <3>2. CASE Commit(i)
      BY <3>1, <3>2, CommitServes
    <3>3. CASE UNCHANGED store
      BY <1>1, <1>2, <1>3, <3>1, <3>3 DEF store
    <3>. QED BY <2>3, <3>2, <3>3, ReplaceSplits
  <2>4. CASE Invalidate(i)
    <3>1. /\ UNCHANGED <<doc, revisions, profile, ret, restarts>> /\ Home[i] \in Instances
          /\ cache' = [cache EXCEPT ![Home[i]] = {}] /\ Caches
      BY <2>4, RetrievalAssumption DEF Invalidate, unread, RetrievalInv
    <3>2. Caches'
      BY <3>1, CacheCleared
    <3>. QED BY <1>1, <1>3, <3>1, <3>2
  <2>. QED BY <1>4, <2>1, <2>2, <2>3, <2>4 DEF IngestStep
<1>5. ASSUME NEW i \in Ingests, NEW t \in Titles, Ingest(i, t) PROVE Callers' /\ Caches' /\ Bounded'
  BY <1>1, <1>2, <1>3, <1>5 DEF Ingest, store
<1>6. ASSUME NEW q \in Retrievals, RetrieveStep(q) PROVE Callers' /\ Caches' /\ Bounded'
  <2>0. UNCHANGED <<doc, revisions, profile, restarts>>
    BY <1>6 DEF RetrieveStep, CacheGet, LexicalSearch, ProfileCheck, VectorSearch, RankAndPut,
                RetrieveFails, unread
  <2>1. CASE CacheGet(q)
    BY <1>3, <2>0, <2>1, CacheGetServes, CacheGetKeeps
  <2>2. CASE LexicalSearch(q)
    BY <1>2, <1>3, <2>0, <2>2, LexicalServes DEF LexicalSearch
  <2>3. CASE ProfileCheck(q)
    BY <1>2, <1>3, <2>0, <2>3, ProfileServes, SMTT(30) DEF ProfileCheck
  <2>4. CASE VectorSearch(q)
    BY <1>2, <1>3, <2>0, <2>4, VectorServes, ZenonT(60) DEF VectorSearch
  <2>5. CASE RankAndPut(q)
    BY <1>3, <2>0, <2>5, RankAnswers, CachePut DEF RankAndPut
  <2>6. CASE RetrieveFails(q)
    BY <1>2, <1>3, <2>0, <2>6, CallerFails DEF RetrieveFails, RetrievalInv, CorpusInv
  <2>. QED BY <1>6, <2>1, <2>2, <2>3, <2>4, <2>5, <2>6 DEF RetrieveStep
<1>7. ASSUME NEW q \in Retrievals, NEW m \in Modes, Retrieve(q, m) PROVE Callers' /\ Caches' /\ Bounded'
  BY <1>2, <1>3, <1>7, RetrieveServes DEF Retrieve, unread
<1>8. ASSUME NEW i \in Ingests, NEW q \in Retrievals, InvalidateFails(i, q)
      PROVE  Callers' /\ Caches' /\ Bounded'
  BY <1>3, <1>8, RankAnswers, CachePut DEF InvalidateFails, unread
<1>9. ASSUME NEW p \in Instances, NEW f \in Profiles, Restart(p, f) PROVE Callers' /\ Caches' /\ Bounded'
  <2>1. /\ UNCHANGED <<doc, revisions>> /\ cache' = [cache EXCEPT ![p] = {}] /\ Caches
        /\ \A r \in Instances : r # p => profile'[r] = profile[r]
    BY <1>9 DEF Restart, RetrievalInv, CorpusInv, Rows
  <2>2. Caches'
    BY <2>1, CacheCleared
  <2>3. Bounded'
    BY <1>9, RetrievalAssumption DEF Restart, RetrievalInv, Bounded
  <2>. QED BY <1>9, <2>2, <2>3, RestartServes
<1>10. CASE UNCHANGED vars
  BY <1>0, <1>1, <1>2, <1>3, <1>10 DEF vars, RetrievalInv
<1>. QED BY <1>0, <1>4, <1>5, <1>6, <1>7, <1>8, <1>9, <1>10 DEF Next, RetrievalInv

\* It holds at the start ...
LEMMA RetrievalInit == Init => RetrievalInv
<1> SUFFICES ASSUME Init PROVE RetrievalInv
  OBVIOUS
<1>1. CorpusInv
  BY CorpusInit
<1>2. NoAnswer \in Answers /\ NoAnswer.lexical = {} /\ NoAnswer.vector = {}
  BY DEF NoAnswer, Answers
<1>3. /\ NoRetrieval \in Query /\ NoRetrieval.pc = "idle" /\ NoRetrieval.reply = "none"
      /\ NoRetrieval.since = 0 /\ NoRetrieval.answer = NoAnswer
  BY <1>2 DEF NoRetrieval, Query
<1>4. 0 < Len(revisions)
  BY <1>1 DEF CorpusInv, Log
<1>5. \A f : Serves(doc, revisions, NoRetrieval, f)
  BY <1>2, <1>3, <1>4 DEF Serves, Fresh, Own
<1>6. ret = [q \in Retrievals |-> NoRetrieval] /\ cache = [p \in Instances |-> {}] /\ restarts = 0
  BY DEF Init
<1>7. Callers
  BY <1>3, <1>5, <1>6 DEF Callers
<1>8. Caches
  BY <1>6 DEF Caches
<1>9. Bounded
  <2>1. PICK n \in Nat : n = MaxRestarts
    BY RetrievalAssumption
  <2>. QED BY <1>6, <2>1 DEF Bounded
<1>. QED BY <1>1, <1>7, <1>8, <1>9 DEF RetrievalInv

\* ... and for ever.
LEMMA RetrievalInductive == Spec => []RetrievalInv
BY RetrievalInit, RetrievalNext, PTL DEF Spec

\* The chunks that are stored are always those of the current documents, and every call
\* is where the code can be, for every number of processes, ingests and retrievals
\* (replace_document deletes the chunks of the document it supersedes).
THEOREM RetrievalIsWellFormed == Spec => []TypeOK
<1>1. RetrievalInv => TypeOK
  <2> SUFFICES ASSUME RetrievalInv PROVE TypeOK
    OBVIOUS
  <2>1. /\ profile \in [Instances -> Profiles] /\ doc \in [Ingests -> Row] /\ chunks = Active
        /\ lock \in [Ingests -> Ingests \cup {"none"}] /\ ing \in [Ingests -> Call]
        /\ ret \in [Retrievals -> Query] /\ cache \in [Instances -> SUBSET Entry]
        /\ restarts \in 0..MaxRestarts
    BY DEF RetrievalInv, CorpusInv, Rows, Locks, Callers, Caches, Bounded
  <2>2. \A i \in Ingests : doc[i].status \in {"none", "ACTIVE", "SUPERSEDED"} /\ doc[i].version \in Nat
    BY <2>1 DEF Row
  <2>3. chunks \subseteq Ingests
    BY <2>1 DEF Active
  <2>4. \A i \in Ingests :
          /\ ing[i].pc \in {"idle", "select", "wait", "write", "stored", "done"}
          /\ ing[i].reply \in {"none", "refused", "store_error", "ok", "error", "lost"}
    BY <2>1 DEF Call, Replies
  <2>5. \A q \in Retrievals :
          /\ ret[q].pc \in {"idle", "cache", "lexical", "profile", "vector", "rank", "done"}
          /\ ret[q].reply \in {"none", "ok", "reindex", "error", "lost"}
    BY <2>1 DEF Query
  <2>6. \A p \in Instances : \A e \in cache[p] : DOMAIN e = {"key", "answer"}
    BY <2>1 DEF Entry
  <2>. QED BY <2>1, <2>2, <2>3, <2>4, <2>5, <2>6 DEF TypeOK
<1>. QED BY <1>1, RetrievalInductive, PTL

\* What retrieve answers is never older than the question, also when it comes from a
\* cache that no ingest of another process ever clears (retrieve, RetrievalCache).
THEOREM AnswersStayFresh == Spec => []AnswersAreFresh
<1>1. RetrievalInv => AnswersAreFresh
  <2> SUFFICES ASSUME RetrievalInv, NEW q \in Retrievals, ret[q].reply = "ok"
               PROVE  /\ \A i \in ret[q].answer.lexical \cup ret[q].answer.vector :
                           doc[i].died = 0 \/ doc[i].died > ret[q].since
                      /\ Lexical(ret[q].mode) =>
                           \A i \in Active : doc[i].born <= ret[q].since => i \in ret[q].answer.lexical
    BY DEF AnswersAreFresh
  <2>1. /\ Fresh(doc, ret[q].answer, ret[q].since)
        /\ Whole(doc, ret[q].mode, ret[q].answer, ret[q].since)
    BY DEF RetrievalInv, Callers, Serves
  <2>. QED BY <2>1 DEF Fresh, Whole, Active, ActiveIn
<1>. QED BY <1>1, RetrievalInductive, PTL

\* A query vector is only compared with chunks of its own profile, whatever is stored or
\* cached between the check and the search and whichever process is restarted with
\* another profile (vector_search).
THEOREM VectorsKeepTheirProfile == Spec => []ComparesOwnProfile
<1>1. RetrievalInv => ComparesOwnProfile
  BY DEF RetrievalInv, Callers, Serves, Own, ComparesOwnProfile
<1>. QED BY <1>1, RetrievalInductive, PTL
=============================================================================
