-------------------------- MODULE Algorithms_proofs --------------------------
(***************************************************************************)
(* What the pure functions promise, for inputs of every size.  A loop of   *)
(* the code is a fold: its steps are shown to be those of an operator here *)
(* (Take, ReadLine, EmbedBatch), and what holds after each of them follows *)
(* by UpTo.  A sort is a ranking, of which RankedIs says what it lists.    *)
(***************************************************************************)
EXTENDS Algorithms, Folds_proofs, SequenceTheorems

\* Each call is of the function its input is for.
LEMMA CallsDiffer ==
  /\ Uploads => call.fn = "parse"
  /\ Contents => call.fn = "chunk"
  /\ Embeds => call.fn = "embed"
  /\ Reranks => call.fn = "rerank"
  /\ Searches => call.fn = "rank"
  /\ Statements => call.fn = "describe"
  /\ Catalogues => call.fn = "graph"
<1>1. Uploads => call.fn = "parse"
  <2>1. Uploads => \E doc : call = [fn |-> "parse", doc |-> doc]
    BY Zenon DEF Uploads
  <2>. QED BY <2>1
<1>2. Contents => call.fn = "chunk"
  <2>1. Contents => \E text, max, overlap : call = [fn |-> "chunk", text |-> text, max |-> max, overlap |-> overlap]
    BY Zenon DEF Contents
  <2>. QED BY <2>1
<1>3. Embeds => call.fn = "embed"
  BY DEF Embeds
<1>4. Reranks => call.fn = "rerank"
  BY DEF Reranks
<1>5. Searches => call.fn = "rank"
  BY DEF Searches
<1>6. Statements => call.fn = "describe"
  BY DEF Statements
<1>7. Catalogues => call.fn = "graph"
  BY DEF Catalogues
<1>. QED BY <1>1, <1>2, <1>3, <1>4, <1>5, <1>6, <1>7

\* Sorted lists every number of a finite set once, from the least to the greatest.
LEMMA SortedIs ==
  ASSUME NEW S \in SUBSET Int, IsFiniteSet(S)
  PROVE  /\ Cardinality(S) \in Nat
         /\ Sorted(S) \in [1..Cardinality(S) -> S]
         /\ \A x \in S : \E i \in 1..Cardinality(S) : Sorted(S)[i] = x
         /\ \A i, j \in 1..Cardinality(S) : i < j <=> Sorted(S)[i] < Sorted(S)[j]
         /\ \A i, j \in 1..Cardinality(S) : Sorted(S)[i] = Sorted(S)[j] => i = j
<1> DEFINE R == {p \in S \X S : p[1] < p[2]}
           n == Cardinality(S)
           f == Sorted(S)
<1>0. \A x, y \in S : <<x, y>> \in R <=> x < y
  OBVIOUS
<1>. HIDE DEF R
<1>1. Orders(R, S)
  BY <1>0 DEF Orders
<1>2. ASSUME NEW x \in S PROVE {y \in S : <<y, x>> \in R} = {y \in S : y < x}
  BY <1>0
<1>3. f = [k \in 1..n |-> CHOOSE x \in S : Cardinality({y \in S : y < x}) = k - 1]
  BY Zenon DEF Sorted, Ranked
<1>. HIDE DEF f
<1>5. ASSUME NEW k \in 1..n, \E x \in S : Cardinality({y \in S : <<y, x>> \in R}) = k - 1
      PROVE  f[k] \in S /\ Cardinality({y \in S : <<y, f[k]>> \in R}) = k - 1
  <2>1. \E x \in S : Cardinality({y \in S : y < x}) = k - 1
    BY <1>2, <1>5
  <2>2. f[k] \in S /\ Cardinality({y \in S : y < f[k]}) = k - 1
    BY <1>3, <2>1
  <2>. QED BY <1>2, <2>2
<1>6. /\ n \in Nat /\ \A i \in 1..n : f[i] \in S
      /\ \A x \in S : \E i \in 1..n : f[i] = x
      /\ \A i, j \in 1..n : i < j <=> <<f[i], f[j]>> \in R
      /\ \A i, j \in 1..n : f[i] = f[j] => i = j
  <2>1. Ranks(f, S, R)
    BY <1>5 DEF Ranks
  <2>. QED BY <1>1, <2>1, RankedIs
<1>7. \A i, j \in 1..n : i < j <=> f[i] < f[j]
  BY <1>0, <1>6
<1>8. f \in [1..n -> S]
  BY <1>3, <1>6
<1>. QED BY <1>6, <1>7, <1>8 DEF f

----------------------------------------------------------------------------
(* The graph of a catalogue *)

\* The input: columns of tables.
Catalogued == call.fn = "graph" => call.columns \in SUBSET (Tables \X Columns)

\* Initially it is one.
LEMMA InitCatalogued == Init => Catalogued
<1>1. Catalogues => Catalogued
  BY DEF Catalogues, Catalogued
<1>. QED BY <1>1, CallsDiffer DEF Init, Catalogued

\* A snapshot of n tables, with names and columns that differ.
Snapshot(sn, n) ==
  /\ DOMAIN sn = 1..n
  /\ \A i, j \in 1..n : sn[i].name = sn[j].name => i = j
  /\ \A i \in 1..n : \A j, k \in DOMAIN sn[i].columns : sn[i].columns[j] = sn[i].columns[k] => j = k

\* build_snapshot makes such a snapshot, with the keys of each table.
LEMMA SnapshotIs ==
  ASSUME NEW columns \in SUBSET (Tables \X Columns), NEW keys
  PROVE  LET sn == BuildSnapshot(columns, keys)
         IN \E n \in Nat : Snapshot(sn, n) /\ \A i \in 1..n : sn[i].keys = {k \in keys : k.table = sn[i].name}
<1> DEFINE T == {c[1] : c \in columns}
           C(t) == {c[2] : c \in {d \in columns : d[1] = t}}
           n == Cardinality(T)
           sn == BuildSnapshot(columns, keys)
<1>1. T \in SUBSET Int /\ IsFiniteSet(T)
  <2>1. T \in SUBSET Tables
    OBVIOUS
  <2>2. Tables \subseteq Int /\ IsFiniteSet(Tables)
    BY AlgorithmsAssumption
  <2>. HIDE DEF T
  <2>. QED BY <2>1, <2>2, FS_Subset
<1>2. ASSUME NEW t PROVE C(t) \in SUBSET Int /\ IsFiniteSet(C(t))
  <2>1. C(t) \in SUBSET Columns
    OBVIOUS
  <2>2. Columns \subseteq Int /\ IsFiniteSet(Columns)
    BY AlgorithmsAssumption
  <2>. HIDE DEF C
  <2>. QED BY <2>1, <2>2, FS_Subset
<1>. HIDE DEF T, C
<1>3. /\ n \in Nat /\ Sorted(T) \in [1..n -> T]
      /\ \A i, j \in 1..n : Sorted(T)[i] = Sorted(T)[j] => i = j
  BY <1>1, SortedIs
<1>4. ASSUME NEW t
      PROVE  \A j, k \in DOMAIN Sorted(C(t)) : Sorted(C(t))[j] = Sorted(C(t))[k] => j = k
  <2>1. /\ Sorted(C(t)) \in [1..Cardinality(C(t)) -> C(t)]
        /\ \A i, j \in 1..Cardinality(C(t)) : Sorted(C(t))[i] = Sorted(C(t))[j] => i = j
    BY <1>2, SortedIs
  <2>. QED BY <2>1
<1>5. sn = [i \in DOMAIN Sorted(T) |->
              [name |-> Sorted(T)[i], columns |-> Sorted(C(Sorted(T)[i])),
               keys |-> {k \in keys : k.table = Sorted(T)[i]}]]
  BY DEF BuildSnapshot, T, C
<1>. HIDE DEF sn, n
<1>6. DOMAIN sn = 1..n
  BY <1>3, <1>5
<1>7. \A i \in 1..n : /\ sn[i].name = Sorted(T)[i] /\ sn[i].columns = Sorted(C(Sorted(T)[i]))
                      /\ sn[i].keys = {k \in keys : k.table = Sorted(T)[i]}
  BY <1>3, <1>5
<1>8. Snapshot(sn, n)
  BY <1>3, <1>4, <1>6, <1>7 DEF Snapshot
<1>9. \A i \in 1..n : sn[i].keys = {k \in keys : k.table = sn[i].name}
  BY <1>7
<1>10. \E m \in Nat : Snapshot(sn, m) /\ \A i \in 1..m : sn[i].keys = {k \in keys : k.table = sn[i].name}
  BY <1>3, <1>8, <1>9
<1>. QED BY <1>10 DEF sn

SourceEntity == [id |-> <<"source">>, kind |-> "DataSource", name |-> <<>>]
TableEntity(sn, i) == [id |-> <<"table", i>>, kind |-> "Table", name |-> <<sn[i].name>>]
ColumnEntity(sn, i, j) == [id |-> <<"column", i, j>>, kind |-> "Column", name |-> <<sn[i].name, sn[i].columns[j]>>]

\* The entities by their kinds.
LEMMA EntityKinds ==
  ASSUME NEW sn, NEW n, Snapshot(sn, n)
  PROVE  /\ \A e \in Entities(sn) :
              \/ e = SourceEntity
              \/ \E i \in 1..n : e = TableEntity(sn, i)
              \/ \E i \in 1..n : \E j \in DOMAIN sn[i].columns : e = ColumnEntity(sn, i, j)
         /\ SourceEntity \in Entities(sn)
         /\ \A i \in 1..n : TableEntity(sn, i) \in Entities(sn)
         /\ \A i \in 1..n : \A j \in DOMAIN sn[i].columns : ColumnEntity(sn, i, j) \in Entities(sn)
<1> USE DEF Snapshot
<1>1. ASSUME NEW e \in Entities(sn)
      PROVE  \/ e = SourceEntity
             \/ \E i \in 1..n : e = TableEntity(sn, i)
             \/ \E i \in 1..n : \E j \in DOMAIN sn[i].columns : e = ColumnEntity(sn, i, j)
  BY DEF Entities, SourceEntity, TableEntity, ColumnEntity
<1>2. SourceEntity \in Entities(sn)
  BY DEF Entities, SourceEntity
<1>3. ASSUME NEW i \in 1..n PROVE TableEntity(sn, i) \in Entities(sn)
  BY DEF Entities, TableEntity
<1>4. ASSUME NEW i \in 1..n, NEW j \in DOMAIN sn[i].columns PROVE ColumnEntity(sn, i, j) \in Entities(sn)
  <2> DEFINE D(k) == {ColumnEntity(sn, k, l) : l \in DOMAIN sn[k].columns}
  <2>1. ColumnEntity(sn, i, j) \in D(i) /\ D(i) \in {D(k) : k \in DOMAIN sn}
    OBVIOUS
  <2>2. ColumnEntity(sn, i, j) \in UNION {D(k) : k \in DOMAIN sn}
    BY <2>1
  <2>. QED BY <2>2 DEF Entities, ColumnEntity
<1>. QED BY <1>1, <1>2, <1>3, <1>4

\* No two entities share an id, or a kind and a name.
LEMMA EntitiesDiffer ==
  ASSUME NEW sn, NEW n, Snapshot(sn, n), NEW d \in Entities(sn), NEW e \in Entities(sn),
         d.id = e.id \/ (d.kind = e.kind /\ d.name = e.name)
  PROVE  d = e
<1>1. ASSUME NEW x \in Entities(sn)
      PROVE  /\ x.id[1] \in {"source", "table", "column"}
             /\ x.id[1] = "source" => x.kind = "DataSource"
             /\ x.id[1] = "table" => x.kind = "Table"
             /\ x.id[1] = "column" => x.kind = "Column"
             /\ x.kind = "DataSource" => x = SourceEntity
             /\ x.kind = "Table" => \E i \in 1..n : x = TableEntity(sn, i)
             /\ x.kind = "Column" => \E i \in 1..n : \E j \in DOMAIN sn[i].columns : x = ColumnEntity(sn, i, j)
  <2>1. CASE x = SourceEntity
    BY <2>1 DEF SourceEntity
  <2>2. CASE \E i \in 1..n : x = TableEntity(sn, i)
    BY <2>2 DEF TableEntity
  <2>3. CASE \E i \in 1..n : \E j \in DOMAIN sn[i].columns : x = ColumnEntity(sn, i, j)
    BY <2>3 DEF ColumnEntity
  <2>. QED BY <2>1, <2>2, <2>3, EntityKinds
<1>2. d.kind = e.kind
  <2>1. CASE d.id = e.id
    <3>1. d.id[1] = e.id[1]
      BY <2>1
    <3>. QED BY <1>1, <3>1
  <2>. QED BY <2>1
<1>3. CASE d.kind = "DataSource"
  BY <1>1, <1>2, <1>3
<1>4. CASE d.kind = "Table"
  <2>1. PICK i \in 1..n : d = TableEntity(sn, i)
    BY <1>1, <1>4
  <2>2. PICK k \in 1..n : e = TableEntity(sn, k)
    BY <1>1, <1>2, <1>4
  <2>3. <<"table", i>> = <<"table", k>> \/ <<sn[i].name>> = <<sn[k].name>>
    BY <2>1, <2>2 DEF TableEntity
  <2>4. i = k
    BY <2>3 DEF Snapshot
  <2>. QED BY <2>1, <2>2, <2>4
<1>5. CASE d.kind = "Column"
  <2>1. PICK i \in 1..n : \E j \in DOMAIN sn[i].columns : d = ColumnEntity(sn, i, j)
    BY <1>1, <1>5
  <2>2. PICK j \in DOMAIN sn[i].columns : d = ColumnEntity(sn, i, j)
    BY <2>1
  <2>3. PICK k \in 1..n : \E m \in DOMAIN sn[k].columns : e = ColumnEntity(sn, k, m)
    BY <1>1, <1>2, <1>5
  <2>4. PICK m \in DOMAIN sn[k].columns : e = ColumnEntity(sn, k, m)
    BY <2>3
  <2>5. \/ <<"column", i, j>> = <<"column", k, m>>
        \/ <<sn[i].name, sn[i].columns[j]>> = <<sn[k].name, sn[k].columns[m]>>
    BY <2>2, <2>4 DEF ColumnEntity
  <2>6. i = k
    BY <2>5 DEF Snapshot
  <2>7. j = m
    BY <2>5, <2>6 DEF Snapshot
  <2>. QED BY <2>2, <2>4, <2>6, <2>7
<1>. QED BY <1>1, <1>3, <1>4, <1>5

\* The id of a table is that of its entity.
LEMMA TableIdIs ==
  ASSUME NEW sn, NEW n, Snapshot(sn, n), NEW i \in 1..n
  PROVE  TableId(sn, sn[i].name) = <<"table", i>>
<1> DEFINE c == CHOOSE k \in DOMAIN sn : sn[k].name = sn[i].name
<1>1. c \in 1..n /\ sn[c].name = sn[i].name
  BY DEF Snapshot
<1>2. c = i
  BY <1>1 DEF Snapshot
<1>. QED BY <1>2 DEF TableId

\* Where relations go, and which there are.
LEMMA RelationsAre ==
  ASSUME NEW sn, NEW n, Snapshot(sn, n)
  PROVE  /\ \A r \in Relations(sn) : \E x, y \in Entities(sn) : r.source = x.id /\ r.target = y.id
         /\ \A i \in 1..n : \A j \in DOMAIN sn[i].columns :
              [source |-> <<"column", i, j>>, target |-> <<"table", i>>, kind |-> "BELONGS_TO"] \in Relations(sn)
         /\ \A i, k \in 1..n : (\E key \in sn[i].keys : key.refs = sn[k].name) =>
              [source |-> <<"table", i>>, target |-> <<"table", k>>, kind |-> "JOINS_WITH"] \in Relations(sn)
<1>0. \A i \in 1..n : i \in DOMAIN sn
  BY DEF Snapshot
<1>1. ASSUME NEW r \in Relations(sn)
      PROVE  \E x, y \in Entities(sn) : r.source = x.id /\ r.target = y.id
  <2>1. PICK i \in 1..n :
          \/ r = [source |-> <<"table", i>>, target |-> <<"source">>, kind |-> "BELONGS_TO"]
          \/ \E j \in DOMAIN sn[i].columns :
               r = [source |-> <<"column", i, j>>, target |-> <<"table", i>>, kind |-> "BELONGS_TO"]
          \/ r \in Joins(sn, sn[i])
    BY DEF Relations, Snapshot
  <2>2. TableEntity(sn, i) \in Entities(sn) /\ TableEntity(sn, i).id = <<"table", i>>
    BY EntityKinds DEF TableEntity
  <2>3. CASE r = [source |-> <<"table", i>>, target |-> <<"source">>, kind |-> "BELONGS_TO"]
    <3>1. SourceEntity \in Entities(sn) /\ SourceEntity.id = <<"source">>
      BY EntityKinds DEF SourceEntity
    <3>2. r.source = <<"table", i>> /\ r.target = <<"source">>
      BY <2>3
    <3>. QED BY <2>2, <3>1, <3>2
  <2>4. ASSUME NEW j \in DOMAIN sn[i].columns,
               r = [source |-> <<"column", i, j>>, target |-> <<"table", i>>, kind |-> "BELONGS_TO"]
        PROVE  \E x, y \in Entities(sn) : r.source = x.id /\ r.target = y.id
    <3>1. ColumnEntity(sn, i, j) \in Entities(sn) /\ ColumnEntity(sn, i, j).id = <<"column", i, j>>
      BY EntityKinds DEF ColumnEntity
    <3>2. r.source = <<"column", i, j>> /\ r.target = <<"table", i>>
      BY <2>4
    <3>. QED BY <2>2, <3>1, <3>2
  <2>5. CASE r \in Joins(sn, sn[i])
    <3>1. PICK k \in {key \in sn[i].keys : key.refs \in TableIds(sn)} :
            r = [source |-> TableId(sn, sn[i].name), target |-> TableId(sn, k.refs), kind |-> "JOINS_WITH"]
      BY <2>5 DEF Joins
    <3>2. PICK m \in 1..n : sn[m].name = k.refs
      BY <3>1 DEF TableIds, Snapshot
    <3>3. TableId(sn, sn[i].name) = <<"table", i>> /\ TableId(sn, k.refs) = <<"table", m>>
      BY <3>2, TableIdIs
    <3>4. r.source = <<"table", i>> /\ r.target = <<"table", m>>
      BY <3>1, <3>3
    <3>5. TableEntity(sn, m) \in Entities(sn) /\ TableEntity(sn, m).id = <<"table", m>>
      BY EntityKinds DEF TableEntity
    <3>. QED BY <2>2, <3>4, <3>5
  <2>. QED BY <2>1, <2>3, <2>4, <2>5
<1>2. ASSUME NEW i \in 1..n, NEW j \in DOMAIN sn[i].columns
      PROVE  [source |-> <<"column", i, j>>, target |-> <<"table", i>>, kind |-> "BELONGS_TO"] \in Relations(sn)
  BY <1>0 DEF Relations
<1>3. ASSUME NEW i \in 1..n, NEW k \in 1..n, NEW key \in sn[i].keys, key.refs = sn[k].name
      PROVE  [source |-> <<"table", i>>, target |-> <<"table", k>>, kind |-> "JOINS_WITH"] \in Relations(sn)
  <2> DEFINE r == [source |-> <<"table", i>>, target |-> <<"table", k>>, kind |-> "JOINS_WITH"]
  <2>1. key.refs \in TableIds(sn)
    BY <1>0, <1>3 DEF TableIds
  <2>2. TableId(sn, sn[i].name) = <<"table", i>> /\ TableId(sn, key.refs) = <<"table", k>>
    BY <1>3, TableIdIs
  <2>3. r \in Joins(sn, sn[i])
    BY <2>1, <2>2 DEF Joins
  <2>. HIDE DEF r
  <2>4. r \in Relations(sn)
    BY <1>0, <2>3 DEF Relations
  <2>. QED BY <2>4 DEF r
<1>. QED BY <1>1, <1>2, <1>3

\* What is imported is valid.
LEMMA CatalogueIsValid ==
  ASSUME Catalogued, Import
  PROVE  CatalogGraphIsValid'
<1> DEFINE sn == BuildSnapshot(call.columns, call.keys)
<1>1. PICK n \in Nat : Snapshot(sn, n) /\ \A i \in 1..n : sn[i].keys = {k \in call.keys : k.table = sn[i].name}
  BY SnapshotIs DEF Import, Returns, Catalogued
<1>2. call' = call /\ out' = MetadataExtraction(sn, call.alike, call.size, GraphLimits)
  BY DEF Import, Returns
<1>. HIDE DEF sn
<1> DEFINE tables(E, t) == {e.id : e \in {x \in E : x.kind = "Table" /\ x.name = <<t>>}}
           Good(E, R) ==
             /\ \A d, e \in E : d.id = e.id \/ (d.kind = e.kind /\ d.name = e.name) => d = e
             /\ \A r \in R : r.source \in {e.id : e \in E} /\ r.target \in {e.id : e \in E}
             /\ \A e \in E : e.kind = "Column" =>
                  \E r \in R : r.source = e.id /\ r.kind = "BELONGS_TO" /\ r.target \in tables(E, e.name[1])
             /\ \A key \in call.keys :
                  key.schema = "own" =>
                    \A s \in tables(E, key.table), t \in tables(E, key.refs) :
                      [source |-> s, target |-> t, kind |-> "JOINS_WITH"] \in R
<1>3. SUFFICES ASSUME ~out'.refused PROVE Good(out'.entities, out'.relations)
  BY <1>2, Zenon DEF CatalogGraphIsValid
<1>4. out'.entities = Entities(sn) /\ out'.relations = Relations(sn)
  BY <1>2, <1>3 DEF MetadataExtraction
<1> DEFINE table(t) == tables(Entities(sn), t)
<1>5. \A d, e \in Entities(sn) : d.id = e.id \/ (d.kind = e.kind /\ d.name = e.name) => d = e
  BY <1>1, EntitiesDiffer
<1>6. \A r \in Relations(sn) : r.source \in {e.id : e \in Entities(sn)} /\ r.target \in {e.id : e \in Entities(sn)}
  BY <1>1, RelationsAre
<1>7. ASSUME NEW i \in 1..n PROVE <<"table", i>> \in table(sn[i].name)
  <2>1. TableEntity(sn, i) \in Entities(sn)
    BY <1>1, EntityKinds
  <2>2. TableEntity(sn, i).kind = "Table" /\ TableEntity(sn, i).name = <<sn[i].name>> /\ TableEntity(sn, i).id = <<"table", i>>
    BY DEF TableEntity
  <2>. QED BY <2>1, <2>2
<1>8. ASSUME NEW t, NEW s \in table(t) PROVE \E i \in 1..n : s = <<"table", i>> /\ sn[i].name = t
  <2>1. PICK e \in Entities(sn) : e.kind = "Table" /\ e.name = <<t>> /\ s = e.id
    BY <1>8
  <2>2. e # SourceEntity /\ \A i \in 1..n : \A j \in DOMAIN sn[i].columns : e # ColumnEntity(sn, i, j)
    BY <2>1 DEF SourceEntity, ColumnEntity
  <2>3. PICK i \in 1..n : e = TableEntity(sn, i)
    BY <1>1, <2>2, EntityKinds
  <2>4. e.id = <<"table", i>> /\ e.name = <<sn[i].name>>
    BY <2>3 DEF TableEntity
  <2>5. sn[i].name = t
    BY <2>1, <2>4
  <2>. QED BY <2>1, <2>4, <2>5
<1>. HIDE DEF table
<1>9. ASSUME NEW e \in Entities(sn), e.kind = "Column"
      PROVE  \E r \in Relations(sn) : r.source = e.id /\ r.kind = "BELONGS_TO" /\ r.target \in table(e.name[1])
  <2>1. e # SourceEntity /\ \A i \in 1..n : e # TableEntity(sn, i)
    BY <1>9 DEF SourceEntity, TableEntity
  <2>2. PICK i \in 1..n : \E j \in DOMAIN sn[i].columns : e = ColumnEntity(sn, i, j)
    BY <1>1, <2>1, EntityKinds
  <2>3. PICK j \in DOMAIN sn[i].columns : e = ColumnEntity(sn, i, j)
    BY <2>2
  <2> DEFINE r == [source |-> <<"column", i, j>>, target |-> <<"table", i>>, kind |-> "BELONGS_TO"]
  <2>4. r \in Relations(sn)
    BY <1>1, RelationsAre
  <2>5. e.id = <<"column", i, j>> /\ e.name[1] = sn[i].name
    BY <2>3 DEF ColumnEntity
  <2>6. r.source = e.id /\ r.kind = "BELONGS_TO" /\ r.target = <<"table", i>>
    BY <2>5
  <2>. HIDE DEF r
  <2>. QED BY <1>7, <2>4, <2>5, <2>6
<1>10. ASSUME NEW key \in call.keys, NEW s \in table(key.table), NEW t \in table(key.refs)
       PROVE  [source |-> s, target |-> t, kind |-> "JOINS_WITH"] \in Relations(sn)
  <2>1. PICK i \in 1..n : s = <<"table", i>> /\ sn[i].name = key.table
    BY <1>8
  <2>2. PICK k \in 1..n : t = <<"table", k>> /\ sn[k].name = key.refs
    BY <1>8
  <2>3. key \in sn[i].keys /\ key.refs = sn[k].name
    BY <1>1, <2>1, <2>2
  <2>. QED BY <1>1, <2>1, <2>2, <2>3, RelationsAre
<1>11. Good(Entities(sn), Relations(sn))
  BY <1>5, <1>6, <1>9, <1>10 DEF table
<1>. HIDE DEF Good
<1>. QED BY <1>4, <1>11

\* The graph of a catalogue can be stored: ids and names are unique, both ends of every
\* relation are there, every column belongs to its table and every key between two tables
\* joins them, for all columns and keys, whatever the two statements saw, and all limits,
\* unless the catalogue is refused.  (build_snapshot, metadata_extraction)
THEOREM CataloguesAreValid == Spec => []CatalogGraphIsValid
<1> DEFINE Inv == (at = "called" => Catalogued) /\ CatalogGraphIsValid
<1>1. Init => Inv
  BY InitCatalogued DEF CatalogGraphIsValid, Returned, Init
<1>2. Inv /\ [Next]_vars => Inv'
  <2> SUFFICES ASSUME Inv, [Next]_vars PROVE Inv'
    OBVIOUS
  <2>1. CASE UNCHANGED vars
    BY <2>1 DEF vars, Catalogued, CatalogGraphIsValid, Returned
  <2>2. CASE Import
    BY <2>2, CatalogueIsValid DEF Import, Returns
  <2>3. CASE Parse \/ Chunk \/ EmbedTexts \/ RerankHits \/ Rank \/ DescribeResult
    BY <2>3 DEF Parse, Chunk, EmbedTexts, RerankHits, Rank, DescribeResult, Returns, CatalogGraphIsValid, Returned
  <2>. QED BY <2>1, <2>2, <2>3 DEF Next
<1>3. Inv => CatalogGraphIsValid
  OBVIOUS
<1>. HIDE DEF Inv
<1>. QED BY <1>1, <1>2, <1>3, PTL DEF Spec

----------------------------------------------------------------------------
(* The description of a result *)

\* Rows as a statement has them.
Rows == [period : Nat, numeric : BOOLEAN, value : Int, size : Nat]

\* The first rows of some.
LEMMA Prefix ==
  ASSUME NEW S, NEW rows \in Seq(S), NEW k \in 0..Len(rows)
  PROVE  /\ SubSeq(rows, 1, k) \in Seq(S) /\ Len(SubSeq(rows, 1, k)) = k
         /\ SubSeq(rows, 1, k) = <<>> <=> k = 0
         /\ \A i \in 1..k : SubSeq(rows, 1, k)[i] = rows[i]
         /\ \A j \in 0..k : SubSeq(SubSeq(rows, 1, k), 1, j) = SubSeq(rows, 1, j)
         /\ k < Len(rows) => Append(SubSeq(rows, 1, k), rows[k + 1]) = SubSeq(rows, 1, k + 1)
<1> DEFINE p == SubSeq(rows, 1, k)
<1>0. k \in Int /\ Len(rows) \in Nat /\ \A i \in 1..Len(rows) : rows[i] \in S
  BY LenProperties, ElementOfSeq
<1>1. ASSUME NEW j \in 0..Len(rows)
      PROVE  /\ SubSeq(rows, 1, j) \in Seq(S) /\ Len(SubSeq(rows, 1, j)) = j
             /\ \A i \in 1..j : SubSeq(rows, 1, j)[i] = rows[i]
  <2>1. j \in Int /\ (\A i \in 1..j : rows[i] \in S) /\ j - 1 + 1 = j
    BY <1>0
  <2>2. /\ SubSeq(rows, 1, j) \in Seq(S) /\ Len(SubSeq(rows, 1, j)) = IF 1 <= j THEN j - 1 + 1 ELSE 0
        /\ \A i \in 1..(j - 1 + 1) : SubSeq(rows, 1, j)[i] = rows[1 + i - 1]
    BY <2>1, SubSeqProperties
  <2>. QED BY <2>1, <2>2
<1>2. p \in Seq(S) /\ Len(p) = k /\ \A i \in 1..k : p[i] = rows[i]
  BY <1>1
<1>3. ASSUME NEW j \in 0..k PROVE SubSeq(p, 1, j) = SubSeq(rows, 1, j)
  <2>1. j \in 0..Len(rows) /\ j \in Int /\ (\A i \in 1..j : p[i] \in S) /\ j - 1 + 1 = j
    BY <1>0, <1>2
  <2>2. /\ SubSeq(p, 1, j) \in Seq(S) /\ Len(SubSeq(p, 1, j)) = IF 1 <= j THEN j - 1 + 1 ELSE 0
        /\ \A i \in 1..(j - 1 + 1) : SubSeq(p, 1, j)[i] = p[1 + i - 1]
    BY <2>1, SubSeqProperties
  <2>3. Len(SubSeq(p, 1, j)) = j /\ \A i \in 1..j : SubSeq(p, 1, j)[i] = rows[i]
    BY <1>2, <2>1, <2>2
  <2>. QED BY <1>1, <2>1, <2>2, <2>3, SeqEqual
<1>4. ASSUME k < Len(rows) PROVE Append(p, rows[k + 1]) = SubSeq(rows, 1, k + 1)
  <2> DEFINE q == SubSeq(rows, 1, k + 1)
  <2>1. k + 1 \in 0..Len(rows)
    BY <1>0, <1>4
  <2>2. q \in Seq(S) /\ Len(q) = k + 1 /\ \A i \in 1..(k + 1) : q[i] = rows[i]
    BY <1>1, <2>1
  <2>3. rows[k + 1] \in S
    BY <1>0, <1>4
  <2>. HIDE DEF p, q
  <2>4. /\ Append(p, rows[k + 1]) \in Seq(S) /\ Len(Append(p, rows[k + 1])) = k + 1
        /\ \A i \in 1..(k + 1) : Append(p, rows[k + 1])[i] = rows[i]
    BY <1>0, <1>2, <2>3
  <2>5. Append(p, rows[k + 1]) = q
    BY <2>2, <2>4, SeqEqual
  <2>. QED BY <2>5 DEF p, q
<1>. HIDE DEF p
<1>5. p = <<>> <=> k = 0
  BY <1>2, EmptySeq
<1>. QED BY <1>2, <1>3, <1>4, <1>5 DEF p

\* The bytes of rows, one after the other.
LEMMA BytesSteps ==
  ASSUME NEW rows \in Seq(Rows)
  PROVE  \E h : /\ h[0] = 0 /\ h[Len(rows)] = Bytes(rows)
                /\ \A k \in 1..Len(rows) : h[k] = h[k - 1] + rows[k].size
<1> DEFINE n == Len(rows)
           step == [p \in Nat \X (1..n) |-> p[1] + rows[p[2]].size]
           Is(f) == f = [s \in SUBSET (1..n) |-> IF s = {} THEN 0 ELSE f[s \ {Max(s)}] + rows[Max(s)].size]
<1>0. n \in Nat /\ DOMAIN rows = 1..n /\ \A i \in 1..n : rows[i].size \in Nat
  <2>1. n \in Nat /\ DOMAIN rows = 1..n /\ \A i \in 1..n : rows[i] \in Rows
    BY LenProperties, ElementOfSeq
  <2>. QED BY <2>1 DEF Rows
<1>. HIDE DEF n
<1>1. \A a \in Nat, i \in 1..n : step[<<a, i>>] = a + rows[i].size /\ step[<<a, i>>] \in Nat
  BY <1>0
<1>. HIDE DEF step
<1>2. PICK f : Folds(n, 0, step, f) /\ \A s \in SUBSET (1..n) : f[s] \in Nat
  <2>1. (\A a \in Nat, i \in 1..n : step[<<a, i>>] \in Nat) /\ 0 \in Nat
    BY <1>1
  <2>. QED BY <1>0, <2>1, FoldExists
<1>3. Is(f)
  <2>1. ASSUME NEW s \in SUBSET (1..n), s # {}
        PROVE  step[<<f[s \ {Max(s)}], Max(s)>>] = f[s \ {Max(s)}] + rows[Max(s)].size
    <3>1. s \in SUBSET Nat /\ \A y \in s : y <= n
      BY <1>0
    <3>2. Max(s) \in 1..n
      BY <1>0, <2>1, <3>1, MaxIs
    <3>3. f[s \ {Max(s)}] \in Nat
      BY <1>2
    <3>. QED BY <1>1, <3>2, <3>3
  <2>. QED BY <1>2, <2>1 DEF Folds
<1> DEFINE g == CHOOSE f_1 : Is(f_1)
<1>4. Is(g)
  BY <1>3
<1>5. Bytes(rows) = g[1..n]
  BY <1>0, Zenon DEF Bytes, FoldLeft, MapThenFoldSet
<1>. HIDE DEF g
<1>6. g[1..0] = 0
  <2>1. 1..0 = {} /\ {} \in SUBSET (1..n)
    OBVIOUS
  <2>. QED BY <1>4, <2>1
<1>7. ASSUME NEW k \in 1..n PROVE g[1..k] = g[1..(k - 1)] + rows[k].size
  <2>0. k \in Nat \ {0} /\ 1..k \in SUBSET (1..n)
    BY <1>0
  <2>1. 1..k # {} /\ Max(1..k) = k /\ (1..k) \ {k} = 1..(k - 1)
    BY <2>0, LastOf
  <2>. QED BY <1>4, <2>0, <2>1
<1> DEFINE h == [k \in 0..n |-> g[1..k]]
<1>8. h[0] = 0 /\ (\A k \in 1..n : h[k] = h[k - 1] + rows[k].size) /\ h[n] = Bytes(rows)
  BY <1>0, <1>5, <1>6, <1>7
<1>. HIDE DEF h
<1>. QED BY <1>8 DEF n

\* The bytes of the first rows.
LEMMA BytesAre ==
  ASSUME NEW rows \in Seq(Rows)
  PROVE  /\ Bytes(SubSeq(rows, 1, 0)) = 0
         /\ \A k \in 0..Len(rows) : Bytes(SubSeq(rows, 1, k)) \in Nat
         /\ \A k \in 1..Len(rows) : Bytes(SubSeq(rows, 1, k)) = Bytes(SubSeq(rows, 1, k - 1)) + rows[k].size
<1> DEFINE n == Len(rows)
<1>0. n \in Nat /\ \A i \in 1..n : rows[i].size \in Nat
  <2>1. n \in Nat /\ \A i \in 1..n : rows[i] \in Rows
    BY LenProperties, ElementOfSeq
  <2>. QED BY <2>1 DEF Rows
<1>1. PICK h : h[0] = 0 /\ h[n] = Bytes(rows) /\ \A k \in 1..n : h[k] = h[k - 1] + rows[k].size
  BY BytesSteps
<1>. HIDE DEF n
<1>2. ASSUME NEW k \in 0..n PROVE Bytes(SubSeq(rows, 1, k)) = h[k] /\ h[k] \in Nat
  <2> DEFINE p == SubSeq(rows, 1, k)
  <2>1. p \in Seq(Rows) /\ Len(p) = k /\ \A i \in 1..k : p[i] = rows[i]
    BY Prefix DEF n
  <2>. HIDE DEF p
  <2>2. PICK m : m[0] = 0 /\ m[Len(p)] = Bytes(p) /\ \A i \in 1..Len(p) : m[i] = m[i - 1] + p[i].size
    BY <2>1, BytesSteps
  <2> DEFINE G == {i \in 0..k : m[i] = h[i] /\ h[i] \in Nat}
  <2>3. 0 \in G
    BY <1>1, <2>2
  <2>4. ASSUME NEW i \in 0..(k - 1), i \in G PROVE i + 1 \in G
    <3>1. i + 1 \in 1..k /\ i + 1 \in 1..n /\ i + 1 \in 0..k /\ (i + 1) - 1 = i
      BY <1>0
    <3>2. m[i + 1] = m[i] + rows[i + 1].size /\ h[i + 1] = h[i] + rows[i + 1].size /\ rows[i + 1].size \in Nat
      BY <1>0, <1>1, <2>1, <2>2, <3>1
    <3>. QED BY <2>4, <3>1, <3>2
  <2>. HIDE DEF G
  <2>5. k \in Nat
    BY <1>0
  <2>6. k \in G
    <3>1. 0..k \subseteq G
      BY <2>3, <2>4, <2>5, UpTo
    <3>. QED BY <2>5, <3>1
  <2>7. m[k] = h[k] /\ h[k] \in Nat
    BY <2>6 DEF G
  <2>8. Bytes(p) = h[k]
    BY <2>1, <2>2, <2>7
  <2>. QED BY <2>7, <2>8 DEF p
<1>3. Bytes(SubSeq(rows, 1, 0)) = 0
  BY <1>0, <1>1, <1>2
<1>4. ASSUME NEW k \in 1..n PROVE Bytes(SubSeq(rows, 1, k)) = Bytes(SubSeq(rows, 1, k - 1)) + rows[k].size
  <2>1. k \in 0..n /\ k - 1 \in 0..n
    BY <1>0
  <2>. QED BY <1>1, <1>2, <2>1
<1>5. \A k \in 0..n : Bytes(SubSeq(rows, 1, k)) \in Nat
  BY <1>2
<1>. QED BY <1>3, <1>4, <1>5 DEF n

\* What _bounded_result does with a row, and what it starts with.
Take(acc, row, maxBytes) ==
  LET added == row.size + (IF acc.rows = <<>> THEN 0 ELSE 1)
  IN IF acc.full THEN acc
     ELSE IF acc.bytes + added > maxBytes THEN [acc EXCEPT !.full = TRUE, !.truncated = TRUE]
     ELSE [acc EXCEPT !.rows = Append(@, row), !.bytes = @ + added]
NoneTaken(base, truncated, maxBytes) ==
  [rows |-> <<>>, bytes |-> base, truncated |-> truncated, full |-> base > maxBytes, refused |-> base > maxBytes]

\* h[k] is what it has after k of m rows.
Takes(h, m, base, rows, maxRows, maxBytes) ==
  /\ h[0] = NoneTaken(base, Len(rows) > maxRows, maxBytes)
  /\ h[m] = BoundedResult(base, rows, maxRows, maxBytes)
  /\ \A k \in 1..m : h[k] = Take(h[k - 1], rows[k], maxBytes)

\* _bounded_result takes one row after the other.
LEMMA BoundedResultSteps ==
  ASSUME NEW base \in Nat, NEW rows \in Seq(Rows), NEW maxRows \in Nat, NEW maxBytes \in Nat,
         NEW m, m = IF Len(rows) <= maxRows THEN Len(rows) ELSE maxRows
  PROVE  \E h : Takes(h, m, base, rows, maxRows, maxBytes)
<1> DEFINE n == Len(rows)
           none == NoneTaken(base, n > maxRows, maxBytes)
           A == [rows : Seq(Rows), bytes : Nat, truncated : BOOLEAN, full : BOOLEAN, refused : BOOLEAN]
           raw == Fetched(rows, maxRows)
           s == SubSeq(raw, 1, Min({Len(raw), maxRows}))
           step == [p \in A \X (1..m) |-> Take(p[1], rows[p[2]], maxBytes)]
           Is(f) == f = [t \in SUBSET (1..m) |-> IF t = {} THEN none ELSE Take(f[t \ {Max(t)}], rows[Max(t)], maxBytes)]
<1>0. n \in Nat /\ m \in Nat /\ m \in 0..n /\ \A i \in 1..n : rows[i] \in Rows
  BY LenProperties, ElementOfSeq
<1>z. m = IF n <= maxRows THEN n ELSE maxRows
  OBVIOUS
<1>. HIDE DEF n
<1>1. /\ s \in Seq(Rows) /\ Len(s) = m /\ DOMAIN s = 1..m /\ \A i \in 1..m : s[i] = rows[i]
      /\ Len(raw) > maxRows <=> n > maxRows
  <2> DEFINE r == IF n <= maxRows + 1 THEN n ELSE maxRows + 1
  <2>1. Min({n, maxRows + 1}) = r /\ r \in 0..n /\ r \in Nat
    BY <1>0, MinOfTwo
  <2>2. raw = SubSeq(rows, 1, r)
    BY <2>1 DEF Fetched, n
  <2>3. raw \in Seq(Rows) /\ Len(raw) = r /\ \A i \in 1..r : raw[i] = rows[i]
    BY <2>1, <2>2, Prefix DEF n
  <2>4. Min({r, maxRows}) = m /\ m \in 0..r /\ (r > maxRows <=> n > maxRows)
    BY <1>0, <1>z, <2>1, MinOfTwo
  <2>. HIDE DEF raw, r
  <2>5. s = SubSeq(raw, 1, m) /\ m \in 0..Len(raw)
    BY <2>3, <2>4
  <2>. HIDE DEF s
  <2>6. s \in Seq(Rows) /\ Len(s) = m /\ \A i \in 1..m : s[i] = raw[i]
    BY <2>3, <2>5, Prefix
  <2>7. DOMAIN s = 1..m
    BY <2>6, LenProperties
  <2>. QED BY <2>1, <2>3, <2>4, <2>6, <2>7
<1>. HIDE DEF s, raw
<1>2. ASSUME NEW a \in A, NEW i \in 1..m
      PROVE  step[<<a, i>>] = Take(a, rows[i], maxBytes) /\ step[<<a, i>>] \in A
  <2>0. i \in 1..n
    BY <1>0
  <2>a. rows[i] \in Rows
    BY <1>0, <2>0
  <2>1. rows[i] \in Rows /\ rows[i].size \in Nat
    BY <2>a DEF Rows
  <2> DEFINE z == rows[i].size + (IF a.rows = <<>> THEN 0 ELSE 1)
             r == Append(a.rows, rows[i])
  <2>2. z \in Nat
    BY <2>1
  <2>3. r \in Seq(Rows) /\ a.bytes + z \in Nat
    BY <2>1, <2>2
  <2>4. Take(a, rows[i], maxBytes) = IF a.full THEN a
                           ELSE IF a.bytes + z > maxBytes THEN [a EXCEPT !.full = TRUE, !.truncated = TRUE]
                           ELSE [a EXCEPT !.rows = r, !.bytes = a.bytes + z]
    BY DEF Take
  <2>. HIDE DEF z, r
  <2>5. Take(a, rows[i], maxBytes) \in A
    BY <2>3, <2>4
  <2>. QED BY <2>5
<1>3. none \in A
  BY <1>0 DEF NoneTaken
<1>. HIDE DEF step, A, none
<1>a. \A a \in A, i \in 1..m : step[<<a, i>>] \in A
  BY <1>2
<1>4. PICK f : Folds(m, none, step, f) /\ \A t \in SUBSET (1..m) : f[t] \in A
  BY <1>0, <1>3, <1>a, FoldExists
<1>5. Is(f)
  <2>1. ASSUME NEW t \in SUBSET (1..m), t # {}
        PROVE  step[<<f[t \ {Max(t)}], Max(t)>>] = Take(f[t \ {Max(t)}], rows[Max(t)], maxBytes)
    <3>1. t \in SUBSET Nat /\ \A y \in t : y <= m
      BY <1>0
    <3>2. Max(t) \in 1..m
      BY <1>0, <2>1, <3>1, MaxIs
    <3>3. f[t \ {Max(t)}] \in A
      BY <1>4
    <3>. QED BY <1>2, <3>2, <3>3
  <2>. QED BY <1>4, <2>1 DEF Folds
<1> DEFINE On(f_1, q) == f_1 = [t \in SUBSET (1..m) |-> IF t = {} THEN none ELSE Take(f_1[t \ {Max(t)}], q[Max(t)], maxBytes)]
           g == CHOOSE f_1 : On(f_1, s)
<1>6. On(f, s)
  <2>1. ASSUME NEW t \in SUBSET (1..m), t # {} PROVE s[Max(t)] = rows[Max(t)]
    <3>1. t \in SUBSET Nat /\ \A y \in t : y <= m
      BY <1>0
    <3>2. Max(t) \in 1..m
      BY <1>0, <2>1, <3>1, MaxIs
    <3>. QED BY <1>1, <3>2
  <2>. QED BY <1>5, <2>1
<1>7. On(g, s)
  BY <1>6
<1>8. BoundedResult(base, rows, maxRows, maxBytes) = g[1..m]
  <2> DEFINE take(acc, row) == Take(acc, row, maxBytes)
  <2>1. NoneTaken(base, Len(raw) > maxRows, maxBytes) = none
    BY <1>1 DEF none
  <2>2. BoundedResult(base, rows, maxRows, maxBytes) = FoldLeft(take, NoneTaken(base, Len(raw) > maxRows, maxBytes), s)
    BY Zenon DEF BoundedResult, NoneTaken, raw, s, Take, FoldLeft, MapThenFoldSet
  <2>3. DOMAIN s = 1..m
    BY <1>1
  <2>4. FoldLeft(take, none, s) = g[1..m]
    BY <2>3, Zenon DEF FoldLeft, MapThenFoldSet
  <2>. QED BY <2>1, <2>2, <2>4, Zenon
<1>. HIDE DEF g
<1>9. g[1..0] = none
  <2>1. 1..0 = {} /\ {} \in SUBSET (1..m)
    OBVIOUS
  <2>. QED BY <1>7, <2>1
<1>10. ASSUME NEW k \in 1..m PROVE g[1..k] = Take(g[1..(k - 1)], rows[k], maxBytes)
  <2>0. k \in Nat \ {0} /\ 1..k \in SUBSET (1..m)
    BY <1>0
  <2>1. 1..k # {} /\ Max(1..k) = k /\ (1..k) \ {k} = 1..(k - 1)
    BY <2>0, LastOf
  <2>. QED BY <1>1, <1>7, <2>0, <2>1
<1> DEFINE h == [k \in 0..m |-> g[1..k]]
<1>11. /\ h[0] = none /\ h[m] = BoundedResult(base, rows, maxRows, maxBytes)
       /\ \A k \in 1..m : h[k] = Take(h[k - 1], rows[k], maxBytes)
  BY <1>0, <1>8, <1>9, <1>10
<1>. HIDE DEF h
<1>12. Takes(h, m, base, rows, maxRows, maxBytes)
  BY <1>11, Zenon DEF n, none, Takes
<1>. QED BY <1>12

\* What the first k rows take.
Cost(base, rows, k) == base + Bytes(SubSeq(rows, 1, k)) + (IF k > 1 THEN k - 1 ELSE 0)

\* What a row more takes.
LEMMA CostGrows ==
  ASSUME NEW base \in Nat, NEW rows \in Seq(Rows)
  PROVE  /\ Cost(base, rows, 0) = base
         /\ \A k \in 0..Len(rows) : Cost(base, rows, k) \in Nat
         /\ \A k \in 0..(Len(rows) - 1) :
              /\ rows[k + 1].size \in Nat
              /\ Cost(base, rows, k + 1) = Cost(base, rows, k) + (rows[k + 1].size + (IF k = 0 THEN 0 ELSE 1))
<1>0. Len(rows) \in Nat /\ \A i \in 1..Len(rows) : rows[i].size \in Nat
  <2>1. Len(rows) \in Nat /\ \A i \in 1..Len(rows) : rows[i] \in Rows
    BY LenProperties, ElementOfSeq
  <2>. QED BY <2>1 DEF Rows
<1> DEFINE n == Len(rows)
           B(k) == Bytes(SubSeq(rows, 1, k))
<1>1. B(0) = 0 /\ (\A k \in 0..n : B(k) \in Nat) /\ \A k \in 1..n : B(k) = B(k - 1) + rows[k].size
  BY BytesAre
<1>. HIDE DEF B, n
<1>2. ASSUME NEW k \in 0..(n - 1)
      PROVE  /\ rows[k + 1].size \in Nat
             /\ Cost(base, rows, k + 1) = Cost(base, rows, k) + (rows[k + 1].size + (IF k = 0 THEN 0 ELSE 1))
  <2>1. n \in Nat /\ k + 1 \in 1..n /\ k \in 0..n /\ (k + 1) - 1 = k
    BY <1>0 DEF n
  <2>2. B(k + 1) = B(k) + rows[k + 1].size /\ B(k) \in Nat
    BY <1>1, <2>1
  <2>3. rows[k + 1].size \in Nat
    BY <1>0, <2>1 DEF n
  <2>4. Cost(base, rows, k) = base + B(k) + (IF k > 1 THEN k - 1 ELSE 0)
    BY DEF Cost, B
  <2>5. Cost(base, rows, k + 1) = base + B(k + 1) + (IF k + 1 > 1 THEN (k + 1) - 1 ELSE 0)
    BY DEF Cost, B
  <2>. QED BY <2>1, <2>2, <2>3, <2>4, <2>5
<1>3. ASSUME NEW k \in 0..n PROVE Cost(base, rows, k) \in Nat
  <2>1. Cost(base, rows, k) = base + B(k) + (IF k > 1 THEN k - 1 ELSE 0)
    BY DEF Cost, B
  <2>2. n \in Nat /\ B(k) \in Nat
    BY <1>0, <1>1 DEF n
  <2>. QED BY <2>1, <2>2
<1>4. Cost(base, rows, 0) = base
  <2>1. Cost(base, rows, 0) = base + B(0) + (IF 0 > 1 THEN 0 - 1 ELSE 0)
    BY DEF Cost, B
  <2>. QED BY <1>1, <2>1
<1>. QED BY <1>2, <1>3, <1>4 DEF n

\* The rows kept are the longest prefix that fits.
LEMMA BoundedResultIs ==
  ASSUME NEW base \in Nat, NEW rows \in Seq(Rows), NEW maxRows \in Nat, NEW maxBytes \in Nat,
         ~BoundedResult(base, rows, maxRows, maxBytes).refused
  PROVE  LET result == BoundedResult(base, rows, maxRows, maxBytes)
         IN \E j \in 0..Len(rows) :
              /\ result.rows = SubSeq(rows, 1, j)
              /\ result.bytes = Cost(base, rows, j) /\ Cost(base, rows, j) <= maxBytes
              /\ result.truncated <=> j < Len(rows)
              /\ j < maxRows /\ j < Len(rows) => Cost(base, rows, j + 1) > maxBytes
<1> DEFINE n == Len(rows)
           m == IF n <= maxRows THEN n ELSE maxRows
           C(k) == Cost(base, rows, k)
           P(k) == SubSeq(rows, 1, k)
           result == BoundedResult(base, rows, maxRows, maxBytes)
<1>0. n \in Nat /\ m \in Nat /\ m <= n /\ m <= maxRows /\ (m < maxRows => m = n) /\ (n > maxRows => m = maxRows)
  BY LenProperties
<1>z. m = IF Len(rows) <= maxRows THEN Len(rows) ELSE maxRows
  OBVIOUS
<1>. HIDE DEF n, m, result
<1>a. PICK h : Takes(h, m, base, rows, maxRows, maxBytes)
  BY <1>z, BoundedResultSteps
<1>1. /\ h[0] = NoneTaken(base, n > maxRows, maxBytes) /\ h[m] = result
      /\ \A k \in 1..m : h[k] = Take(h[k - 1], rows[k], maxBytes)
  BY <1>a, Zenon DEF n, result, Takes
<1>2. /\ C(0) = base /\ \A k \in 0..n : C(k) \in Nat
      /\ \A k \in 0..(n - 1) : /\ rows[k + 1].size \in Nat
                               /\ C(k + 1) = C(k) + (rows[k + 1].size + (IF k = 0 THEN 0 ELSE 1))
  BY CostGrows DEF n
<1>3. /\ P(0) = <<>> /\ \A k \in 0..n : P(k) = <<>> <=> k = 0
      /\ \A k \in 0..(n - 1) : Append(P(k), rows[k + 1]) = P(k + 1)
  <2>1. 0 \in 0..Len(rows) /\ n = Len(rows) /\ \A k \in 0..(n - 1) : k \in 0..Len(rows) /\ k < Len(rows)
    BY <1>0 DEF n
  <2>. QED BY <2>1, Prefix, ZenonT(60)
<1>. HIDE DEF C, P
<1> DEFINE Open(k) == ~h[k].full /\ h[k].rows = P(k) /\ h[k].bytes = C(k) /\ (h[k].truncated <=> n > maxRows)
           Shut(k) == h[k].full /\ h[k].truncated
                      /\ \E j \in 0..(k - 1) : h[k].rows = P(j) /\ h[k].bytes = C(j) /\ C(j + 1) > maxBytes
           G == {k \in 0..m : /\ h[k].refused <=> base > maxBytes
                              /\ DOMAIN h[k] = DOMAIN h[0]
                              /\ base <= maxBytes => h[k].bytes <= maxBytes /\ (Open(k) \/ Shut(k))}
<1>4. 0 \in G
  <2>1. /\ h[0].rows = <<>> /\ h[0].bytes = base /\ (h[0].truncated <=> n > maxRows)
        /\ (h[0].full <=> base > maxBytes) /\ (h[0].refused <=> base > maxBytes)
    <3> DEFINE x == NoneTaken(base, n > maxRows, maxBytes)
    <3>1. x.rows = <<>> /\ x.bytes = base
      BY DEF NoneTaken
    <3>2. (x.truncated <=> n > maxRows) /\ (x.full <=> base > maxBytes) /\ (x.refused <=> base > maxBytes)
      BY Zenon DEF NoneTaken
    <3>. QED BY <1>1, <3>1, <3>2, Zenon
  <2>. QED BY <1>0, <1>2, <1>3, <2>1
<1>5. ASSUME NEW k \in 0..(m - 1), k \in G PROVE k + 1 \in G
  <2> DEFINE x == h[k]
             z == rows[k + 1].size + (IF x.rows = <<>> THEN 0 ELSE 1)
             r == Append(x.rows, rows[k + 1])
  <2>0. k + 1 \in 1..m /\ k + 1 \in 0..m /\ (k + 1) - 1 = k /\ k \in 0..n /\ k \in 0..(n - 1) /\ k \in Nat
    BY <1>0
  <2>1. h[k + 1] = IF x.full THEN x ELSE IF x.bytes + z > maxBytes THEN [x EXCEPT !.full = TRUE, !.truncated = TRUE]
                   ELSE [x EXCEPT !.rows = r, !.bytes = x.bytes + z]
    BY <1>1, <2>0 DEF Take
  <2>2. DOMAIN x = {"rows", "bytes", "truncated", "full", "refused"}
    <3>1. DOMAIN h[0] = {"rows", "bytes", "truncated", "full", "refused"}
      BY <1>1 DEF NoneTaken
    <3>. QED BY <1>5, <3>1
  <2>3. /\ DOMAIN x = DOMAIN h[0] /\ (x.refused <=> base > maxBytes)
        /\ base <= maxBytes => x.bytes <= maxBytes /\ (Open(k) \/ Shut(k))
    BY <1>5
  <2>4. Open(k) => z = rows[k + 1].size + (IF k = 0 THEN 0 ELSE 1) /\ r = P(k + 1) /\ x.bytes + z = C(k + 1)
    BY <1>2, <1>3, <2>0
  <2>. HIDE DEF z, r
  <2>5. CASE x.full
    <3>1. h[k + 1] = x
      BY <2>1, <2>5
    <3>2. Shut(k) => Shut(k + 1)
      <4>1. \A j \in 0..(k - 1) : j \in 0..((k + 1) - 1)
        BY <2>0
      <4>. QED BY <3>1, <4>1
    <3>. QED BY <2>0, <2>3, <2>5, <3>1, <3>2
  <2>6. CASE ~x.full /\ x.bytes + z > maxBytes
    <3>1. h[k + 1] = [x EXCEPT !.full = TRUE, !.truncated = TRUE]
      BY <2>1, <2>6
    <3> DEFINE y == h[k + 1]
    <3>2. y.full /\ y.truncated /\ y.rows = x.rows /\ y.bytes = x.bytes /\ y.refused = x.refused /\ DOMAIN y = DOMAIN x
      BY <2>2, <3>1
    <3>. HIDE DEF y
    <3>3. Open(k) => \E j \in 0..((k + 1) - 1) : y.rows = P(j) /\ y.bytes = C(j) /\ C(j + 1) > maxBytes
      BY <2>0, <2>4, <2>6, <3>2
    <3>4. base <= maxBytes => y.bytes <= maxBytes /\ Shut(k + 1)
      BY <2>3, <2>6, <3>2, <3>3 DEF y
    <3>. QED BY <2>0, <2>3, <3>2, <3>4 DEF y
  <2>7. CASE ~x.full /\ ~(x.bytes + z > maxBytes)
    <3>1. h[k + 1] = [x EXCEPT !.rows = r, !.bytes = x.bytes + z]
      BY <2>1, <2>7
    <3> DEFINE y == h[k + 1]
    <3>2. /\ ~y.full /\ y.truncated = x.truncated /\ y.rows = r /\ y.bytes = x.bytes + z
          /\ y.refused = x.refused /\ DOMAIN y = DOMAIN x
      BY <2>2, <2>7, <3>1
    <3>. HIDE DEF y
    <3>3. C(k + 1) \in Nat
      BY <1>0, <1>2, <2>0
    <3>4. base <= maxBytes => y.bytes <= maxBytes /\ Open(k + 1)
      BY <2>3, <2>4, <2>7, <3>2, <3>3 DEF y
    <3>. QED BY <2>0, <2>3, <3>2, <3>4 DEF y
  <2>. QED BY <2>5, <2>6, <2>7
<1>. HIDE DEF G
<1>6. m \in G
  <2>1. 0..m \subseteq G
    BY <1>0, <1>4, <1>5, UpTo
  <2>. QED BY <1>0, <2>1
<1>7. (result.refused <=> base > maxBytes) /\ (base <= maxBytes => result.bytes <= maxBytes /\ (Open(m) \/ Shut(m)))
  BY <1>1, <1>6 DEF G
<1>8. result.bytes <= maxBytes /\ (Open(m) \/ Shut(m))
  BY <1>7 DEF result
<1> DEFINE Goal(j) == /\ result.rows = P(j) /\ result.bytes = C(j) /\ C(j) <= maxBytes
                      /\ result.truncated <=> j < n
                      /\ j < maxRows /\ j < n => C(j + 1) > maxBytes
<1>9. CASE Open(m)
  <2>1. result.rows = P(m) /\ result.bytes = C(m) /\ (result.truncated <=> n > maxRows)
    BY <1>1, <1>9
  <2>2. Goal(m)
    BY <1>0, <1>8, <2>1
  <2>. QED BY <1>0, <2>2 DEF n, result, C, P
<1>10. CASE Shut(m)
  <2>1. PICK j \in 0..(m - 1) : h[m].rows = P(j) /\ h[m].bytes = C(j) /\ C(j + 1) > maxBytes
    BY <1>10
  <2>2. j \in 0..n /\ j < n
    BY <1>0
  <2>3. Goal(j)
    BY <1>1, <1>8, <1>10, <2>1, <2>2
  <2>. QED BY <2>2, <2>3 DEF n, result, C, P
<1>. QED BY <1>8, <1>9, <1>10

\* The input: rows and limits.
Stated == call.fn = "describe" =>
  call.rows \in Seq(Rows) /\ call.base \in Nat /\ call.maxRows \in Nat /\ call.maxBytes \in Nat

\* Initially it is one.
LEMMA InitStated == Init => Stated
<1>1. ASSUME Statements PROVE Stated
  <2>1. PICK rows \in Results, base \in EmptySizes, maxRows \in RowLimits, maxBytes \in ByteLimits :
          call = [fn |-> "describe", base |-> base, rows |-> rows, maxRows |-> maxRows, maxBytes |-> maxBytes]
    BY <1>1 DEF Statements
  <2>2. rows \in Seq(Rows)
    BY AlgorithmsAssumption DEF Rows
  <2>3. base \in Nat /\ maxRows \in Nat /\ maxBytes \in Nat
    BY AlgorithmsAssumption
  <2>. QED BY <2>1, <2>2, <2>3 DEF Stated
<1>. QED BY <1>1, CallsDiffer DEF Init, Stated

\* Of two numbers with equally many digits, the one whose string is not greater is not
\* greater.
LEMMA StringsOrder ==
  ASSUME NEW a \in Nat, NEW b \in Nat, Width(a) = Width(b), StringLeq(a, b)
  PROVE  a <= b
BY DEF StringLeq

\* A change is told from an earlier period to a later one.
LEMMA ChangeIsForward ==
  ASSUME NEW rows \in Seq(Rows), Len(rows) > 1, PeriodChange(rows) # "none",
         \A i, j \in 1..Len(rows) : Width(rows[i].period) = Width(rows[j].period)
  PROVE  rows[1].period < rows[Len(rows)].period
<1> DEFINE n == Len(rows)
           G == {i \in 0..n : i >= 1 => rows[1].period <= rows[i].period}
<1>0. n \in Nat /\ n > 1 /\ \A i \in 1..n : rows[i].period \in Nat
  <2>1. n \in Nat /\ \A i \in 1..n : rows[i] \in Rows
    BY LenProperties, ElementOfSeq
  <2>. QED BY <2>1 DEF Rows
<1>1. /\ \A i \in 1..(n - 1) : StringLeq(rows[i].period, rows[i + 1].period)
      /\ rows[1].period # rows[n].period
      /\ \A i, j \in 1..n : Width(rows[i].period) = Width(rows[j].period)
  BY DEF PeriodChange
<1>. HIDE DEF n
<1>2. 0 \in G
  BY <1>0
<1>3. ASSUME NEW i \in 0..(n - 1), i \in G PROVE i + 1 \in G
  <2>1. CASE i = 0
    BY <1>0, <2>1
  <2>2. CASE i >= 1
    <3>1. i \in 1..(n - 1) /\ i \in 1..n /\ i + 1 \in 1..n /\ i + 1 \in 0..n
      BY <1>0, <2>2
    <3>2. rows[i].period <= rows[i + 1].period
      BY <1>0, <1>1, <3>1, StringsOrder
    <3>3. rows[1].period <= rows[i].period /\ 1 \in 1..n
      BY <1>0, <1>3, <2>2
    <3>. QED BY <1>0, <3>1, <3>2, <3>3
  <2>. QED BY <1>0, <2>1, <2>2
<1>. HIDE DEF G
<1>4. n \in G
  <2>1. 0..n \subseteq G
    BY <1>0, <1>2, <1>3, UpTo
  <2>. QED BY <1>0, <2>1
<1>5. rows[1].period <= rows[n].period /\ 1 \in 1..n /\ n \in 1..n
  BY <1>0, <1>4 DEF G
<1>6. rows[1].period < rows[n].period
  BY <1>0, <1>1, <1>5
<1>. QED BY <1>6 DEF n

\* What is said of rows: that some are missing, that there are none, and how they change.
LEMMA DescribeSays ==
  ASSUME NEW rows, NEW truncated
  PROVE  LET said == Describe(rows, truncated)
         IN /\ said.told = truncated
            /\ said.kind = "no_data" => rows = <<>> /\ ~truncated
            /\ said.change # "none" => Len(rows) > 1 /\ PeriodChange(rows) # "none"
BY DEF Describe

\* What is said of a result is true of it.
LEMMA ResultIsDescribed ==
  ASSUME Stated, DescribeResult
  PROVE  DescriptionIsGrounded'
<1> DEFINE rows == call.rows
           n == Len(rows)
           result == BoundedResult(call.base, rows, call.maxRows, call.maxBytes)
           said == Describe(result.rows, result.truncated)
<1>1. /\ call' = call /\ out'.result = result /\ out'.said = said
      /\ rows \in Seq(Rows) /\ call.base \in Nat /\ call.maxRows \in Nat /\ call.maxBytes \in Nat
  BY DEF DescribeResult, Returns, Stated
<1> DEFINE C(k) == Cost(call.base, rows, k)
           Good(res, say) ==
             LET kept == Len(res.rows)
             IN /\ say.told <=> kept < n
                /\ res.rows = SubSeq(rows, 1, kept)
                /\ res.bytes = C(kept) /\ C(kept) <= call.maxBytes
                /\ kept < Min({call.maxRows, n}) => C(kept + 1) > call.maxBytes
                /\ say.kind = "no_data" => rows = <<>>
                /\ say.change # "none" /\ (\A i, k \in 1..kept : Width(res.rows[i].period) = Width(res.rows[k].period))
                     => res.rows[1].period < res.rows[kept].period
<1>2. SUFFICES ASSUME ~result.refused PROVE Good(result, said)
  <2>1. ~out'.result.refused => Good(out'.result, out'.said)
    BY <1>1, <1>2, Zenon
  <2>. QED BY <1>1, <2>1, Zenon DEF DescriptionIsGrounded, Cost
<1>. HIDE DEF result, said, C
<1>3. PICK j \in 0..n : /\ result.rows = SubSeq(rows, 1, j)
                        /\ result.bytes = C(j) /\ C(j) <= call.maxBytes
                        /\ result.truncated <=> j < n
                        /\ j < call.maxRows /\ j < n => C(j + 1) > call.maxBytes
  BY <1>1, <1>2, BoundedResultIs DEF result, C
<1>4. n \in Nat /\ result.rows \in Seq(Rows) /\ Len(result.rows) = j /\ (result.rows = <<>> <=> j = 0)
  BY <1>1, <1>3, Prefix, LenProperties
<1>5. /\ said.told = result.truncated
      /\ said.kind = "no_data" => result.rows = <<>> /\ ~result.truncated
      /\ said.change # "none" => Len(result.rows) > 1 /\ PeriodChange(result.rows) # "none"
  BY DescribeSays DEF said
<1>6. j < Min({call.maxRows, n}) => j < call.maxRows /\ j < n
  BY <1>1, <1>4, MinOfTwo
<1>7. said.kind = "no_data" => rows = <<>>
  BY <1>1, <1>3, <1>4, <1>5, EmptySeq
<1>8. said.change # "none" /\ (\A i, k \in 1..j : Width(result.rows[i].period) = Width(result.rows[k].period))
        => result.rows[1].period < result.rows[j].period
  BY <1>4, <1>5, ChangeIsForward
<1>. HIDE DEF rows, n
<1>. QED BY <1>3, <1>4, <1>5, <1>6, <1>7, <1>8

\* What the user is told of a result is true of the statement, for every sequence of rows
\* and all limits: rows are reported missing exactly if some are, the rows kept are the
\* longest prefix that fits, "no data" means that there is none, and a change is told
\* from the earlier period to the later one if the periods of the rows kept are written
\* with equally many digits.  (row_fetch_limit, _bounded_result, describe_sql_result)
THEOREM DescriptionsAreGrounded == Spec => []DescriptionIsGrounded
<1> DEFINE Inv == (at = "called" => Stated) /\ DescriptionIsGrounded
<1>1. Init => Inv
  BY InitStated DEF DescriptionIsGrounded, Returned, Init
<1>2. Inv /\ [Next]_vars => Inv'
  <2> SUFFICES ASSUME Inv, [Next]_vars PROVE Inv'
    OBVIOUS
  <2>1. CASE UNCHANGED vars
    BY <2>1 DEF vars, Stated, DescriptionIsGrounded, Returned
  <2>2. CASE DescribeResult
    BY <2>2, ResultIsDescribed DEF DescribeResult, Returns
  <2>3. CASE Parse \/ Chunk \/ EmbedTexts \/ RerankHits \/ Rank \/ Import
    BY <2>3 DEF Parse, Chunk, EmbedTexts, RerankHits, Rank, Import, Returns, DescriptionIsGrounded, Returned
  <2>. QED BY <2>1, <2>2, <2>3 DEF Next
<1>3. Inv => DescriptionIsGrounded
  OBVIOUS
<1>. HIDE DEF Inv
<1>. QED BY <1>1, <1>2, <1>3, PTL DEF Spec

----------------------------------------------------------------------------
(* The fusion of two rankings *)

Fractions == [num : Nat, den : Nat \ {0}]

\* Multiplication keeps an order, and loses none.
LEMMA Multiplied ==
  ASSUME NEW a \in Nat, NEW b \in Nat, NEW c \in Nat \ {0}
  PROVE  a * c \in Nat /\ b * c \in Nat /\ (a < b <=> a * c < b * c)
<1>1. a * c \in Nat /\ b * c \in Nat
  OBVIOUS
<1>2. ASSUME a < b PROVE a * c < b * c
  <2>1. b = a + (b - a) /\ b - a \in Nat \ {0}
    BY <1>2
  <2>2. PICK d \in Nat \ {0} : b = a + d
    BY <2>1
  <2>3. b * c = a * c + d * c /\ d * c \in Nat /\ d * c > 0
    BY <2>2
  <2>. QED BY <1>1, <2>3
<1>3. ASSUME ~(a < b) PROVE ~(a * c < b * c)
  <2>1. a = b + (a - b) /\ a - b \in Nat
    BY <1>3
  <2>2. PICK d \in Nat : a = b + d
    BY <2>1
  <2>3. a * c = b * c + d * c /\ d * c \in Nat
    BY <2>2
  <2>. QED BY <1>1, <2>3
<1>. QED BY <1>1, <1>2, <1>3

\* If p is not above q and q not above r, p is not above r; strictly if one is strict.
LEMMA LessIsTransitive ==
  ASSUME NEW p \in Fractions, NEW q \in Fractions, NEW r \in Fractions, ~Less(q, p), ~Less(r, q)
  PROVE  ~Less(r, p) /\ (Less(p, q) \/ Less(q, r) => Less(p, r))
<1> DEFINE a == p.num
           b == p.den
           c == q.num
           d == q.den
           e == r.num
           f == r.den
<1>1. a \in Nat /\ c \in Nat /\ e \in Nat /\ b \in Nat \ {0} /\ d \in Nat \ {0} /\ f \in Nat \ {0}
  BY DEF Fractions
<1>2. ~(c * b < a * d) /\ ~(e * d < c * f)
  BY DEF Less
<1>3. /\ Less(r, p) <=> e * b < a * f
      /\ Less(p, q) <=> a * d < c * b
      /\ Less(q, r) <=> c * f < e * d
      /\ Less(p, r) <=> a * f < e * b
  BY DEF Less
<1>. HIDE DEF a, b, c, d, e, f
<1>4. a * d \in Nat /\ c * b \in Nat /\ c * f \in Nat /\ e * d \in Nat /\ a * f \in Nat /\ e * b \in Nat
  BY <1>1
<1>5. /\ ~((c * b) * f < (a * d) * f) /\ ~((e * d) * b < (c * f) * b)
      /\ a * d < c * b => (a * d) * f < (c * b) * f
      /\ c * f < e * d => (c * f) * b < (e * d) * b
  BY <1>1, <1>2, <1>4, Multiplied
<1>6. (a * d) * f = (a * f) * d /\ (c * b) * f = (c * f) * b /\ (e * d) * b = (e * b) * d
  BY <1>1
<1>7. (a * f) * d \in Nat /\ (c * f) * b \in Nat /\ (e * b) * d \in Nat
  BY <1>1, <1>4
<1>8. ~((e * b) * d < (a * f) * d) /\ (a * d < c * b \/ c * f < e * d => (a * f) * d < (e * b) * d)
  BY <1>5, <1>6, <1>7
<1>9. ~(e * b < a * f) /\ (a * d < c * b \/ c * f < e * d => a * f < e * b)
  BY <1>1, <1>4, <1>8, Multiplied
<1>. QED BY <1>3, <1>9

\* A sum of fractions is one, and greater if both are greater.
LEMMA SumsOrder ==
  ASSUME NEW p \in Fractions, NEW q \in Fractions, NEW r \in Fractions, NEW s \in Fractions
  PROVE  /\ Add(p, q) \in Fractions
         /\ Less(p, r) /\ Less(q, s) => Less(Add(p, q), Add(r, s))
<1> DEFINE a == p.num
           b == p.den
           c == q.num
           d == q.den
           e == r.num
           f == r.den
           g == s.num
           h == s.den
<1>1. /\ a \in Nat /\ c \in Nat /\ e \in Nat /\ g \in Nat
      /\ b \in Nat \ {0} /\ d \in Nat \ {0} /\ f \in Nat \ {0} /\ h \in Nat \ {0}
  BY DEF Fractions
<1>2. /\ Add(p, q) = [num |-> a * d + c * b, den |-> b * d]
      /\ Less(p, r) <=> a * f < e * b
      /\ Less(q, s) <=> c * h < g * d
      /\ Less(Add(p, q), Add(r, s)) <=> (a * d + c * b) * (f * h) < (e * h + g * f) * (b * d)
  BY DEF Add, Less
<1>. HIDE DEF a, b, c, d, e, f, g, h
<1>3. Add(p, q) \in Fractions
  <2>1. a * d + c * b \in Nat /\ b * d \in Nat \ {0}
    BY <1>1
  <2>. QED BY <1>2, <2>1 DEF Fractions
<1>4. ASSUME a * f < e * b, c * h < g * d
      PROVE  (a * d + c * b) * (f * h) < (e * h + g * f) * (b * d)
  <2>1. a * f \in Nat /\ e * b \in Nat /\ c * h \in Nat /\ g * d \in Nat /\ d * h \in Nat \ {0} /\ b * f \in Nat \ {0}
    BY <1>1
  <2>2. (a * f) * (d * h) < (e * b) * (d * h) /\ (c * h) * (b * f) < (g * d) * (b * f)
    BY <1>4, <2>1, Multiplied
  <2>3. /\ (a * f) * (d * h) \in Nat /\ (e * b) * (d * h) \in Nat
        /\ (c * h) * (b * f) \in Nat /\ (g * d) * (b * f) \in Nat
    BY <2>1
  <2>4. (a * d + c * b) * (f * h) = (a * f) * (d * h) + (c * h) * (b * f)
    BY <1>1
  <2>5. (e * h + g * f) * (b * d) = (e * b) * (d * h) + (g * d) * (b * f)
    BY <1>1
  <2>. QED BY <2>2, <2>3, <2>4, <2>5
<1>. QED BY <1>2, <1>3, <1>4

\* What a search has found: each candidate once.
Found(list) ==
  /\ list \in Seq([id : 1..MaxHits, score : Nat]) /\ Len(list) <= MaxHits
  /\ \A i, j \in 1..Len(list) : list[i].id = list[j].id => i = j

\* Where a candidate is in what was found.
LEMMA RankIs ==
  ASSUME NEW list, Found(list)
  PROVE  /\ Len(list) \in Nat /\ DOMAIN list = 1..Len(list)
         /\ Ids(list) \subseteq 1..MaxHits /\ IsFiniteSet(Ids(list))
         /\ \A i \in 1..Len(list) : list[i].id \in Ids(list) /\ RankOf(list, list[i].id) = i
         /\ \A id \in Ids(list) : /\ RankOf(list, id) \in 1..Len(list) /\ list[RankOf(list, id)].id = id
                                  /\ ScoreOf(list, id) \in Nat
         /\ \A id : id \notin Ids(list) => ScoreOf(list, id) = NoScore
<1>0. Len(list) \in Nat /\ DOMAIN list = 1..Len(list) /\ \A i \in 1..Len(list) : list[i] \in [id : 1..MaxHits, score : Nat]
  BY LenProperties, ElementOfSeq DEF Found
<1>1. Ids(list) \subseteq 1..MaxHits
  BY <1>0 DEF Ids
<1>2. IsFiniteSet(Ids(list))
  <2>1. MaxHits \in Nat /\ 1 \in Int /\ MaxHits \in Int
    BY AlgorithmsAssumption
  <2>2. IsFiniteSet(1..MaxHits)
    BY <2>1, FS_Interval
  <2>. QED BY <1>1, <2>2, FS_Subset
<1>3. ASSUME NEW id \in Ids(list)
      PROVE  RankOf(list, id) \in 1..Len(list) /\ list[RankOf(list, id)].id = id
  <2>1. \E i \in DOMAIN list : list[i].id = id
    BY DEF Ids
  <2>. QED BY <1>0, <2>1 DEF RankOf
<1>4. ASSUME NEW i \in 1..Len(list) PROVE list[i].id \in Ids(list) /\ RankOf(list, list[i].id) = i
  <2>1. list[i].id \in Ids(list)
    BY <1>0 DEF Ids
  <2>. QED BY <1>3, <2>1 DEF Found
<1>5. \A id \in Ids(list) : ScoreOf(list, id) \in Nat
  BY <1>0, <1>3 DEF ScoreOf
<1>6. \A id : id \notin Ids(list) => ScoreOf(list, id) = NoScore
  BY DEF ScoreOf
<1>. QED BY <1>0, <1>1, <1>2, <1>3, <1>4, <1>5, <1>6

\* What a search gives a candidate is a fraction, the greater the earlier it is found.
LEMMA PartIs ==
  ASSUME NEW list, Found(list), NEW k \in Nat \ {0}, NEW weight \in Nat \ {0}
  PROVE  /\ \A id : Part(list, id, k, weight) \in Fractions
         /\ \A a, b : Before(list, b, a) => Less(Part(list, a, k, weight), Part(list, b, k, weight))
<1>1. ASSUME NEW id \in Ids(list)
      PROVE  /\ RankOf(list, id) \in Nat \ {0}
             /\ Part(list, id, k, weight) = [num |-> weight, den |-> k + RankOf(list, id)]
  <2>1. RankOf(list, id) \in 1..Len(list) /\ Len(list) \in Nat
    BY RankIs
  <2>. QED BY <2>1 DEF Part
<1>2. ASSUME NEW id, id \notin Ids(list) PROVE Part(list, id, k, weight) = [num |-> 0, den |-> 1]
  BY <1>2 DEF Part
<1>3. ASSUME NEW id PROVE Part(list, id, k, weight) \in Fractions
  <2>1. CASE id \in Ids(list)
    <3>1. k + RankOf(list, id) \in Nat \ {0}
      BY <1>1, <2>1
    <3>. QED BY <1>1, <2>1, <3>1 DEF Fractions
  <2>. QED BY <1>2, <2>1 DEF Fractions
<1>4. ASSUME NEW a, NEW b, Before(list, b, a) PROVE Less(Part(list, a, k, weight), Part(list, b, k, weight))
  <2>1. b \in Ids(list) /\ (a \notin Ids(list) \/ RankOf(list, b) < RankOf(list, a))
    BY <1>4 DEF Before
  <2>2. PICK r \in Nat \ {0} : r = RankOf(list, b)
    BY <1>1, <2>1
  <2>3. Part(list, b, k, weight) = [num |-> weight, den |-> k + r]
    BY <1>1, <2>1, <2>2
  <2>4. CASE a \notin Ids(list)
    <3>1. 0 * (k + r) < weight * 1
      BY <2>2
    <3>. QED BY <1>2, <2>3, <2>4, <3>1 DEF Less
  <2>5. CASE a \in Ids(list)
    <3>1. PICK s \in Nat \ {0} : s = RankOf(list, a)
      BY <1>1, <2>5
    <3>2. Part(list, a, k, weight) = [num |-> weight, den |-> k + s]
      BY <1>1, <2>5, <3>1
    <3>3. k + r \in Nat /\ k + s \in Nat /\ k + r < k + s
      BY <2>1, <2>2, <2>5, <3>1
    <3>4. (k + r) * weight < (k + s) * weight
      BY <3>3, Multiplied
    <3>5. weight * (k + r) < weight * (k + s)
      BY <3>3, <3>4
    <3>. QED BY <2>3, <3>2, <3>5 DEF Less
  <2>. QED BY <2>4, <2>5
<1>. QED BY <1>3, <1>4

\* a may come before b in the fusion.
Fair(lexical, vector, a, b) ==
  /\ ~(Before(lexical, b, a) /\ Before(vector, b, a))
  /\ b \in Ids(lexical) => a \in Ids(lexical)

\* A candidate that does not have the smaller fused score may come first.
LEMMA FusedIsFair ==
  ASSUME NEW lexical, NEW vector, Found(lexical), Found(vector), NEW k \in RrfK,
         NEW a \in Ids(lexical) \cup Ids(vector), NEW b \in Ids(lexical) \cup Ids(vector),
         ~Less(Fused(lexical, vector, a, k), Fused(lexical, vector, b, k))
  PROVE  Fair(lexical, vector, a, b)
<1>0. k \in Nat \ {0} /\ LexicalWeight \in Nat \ {0} /\ VectorWeight \in Nat \ {0} /\ MaxHits \in Nat
  BY AlgorithmsAssumption, FusionAssumption
<1> DEFINE P(id) == Part(lexical, id, k, LexicalWeight)
           Q(id) == Part(vector, id, k, VectorWeight)
<1>1. \A id : P(id) \in Fractions /\ Q(id) \in Fractions
  BY <1>0, PartIs
<1>2. ~Less(Add(P(a), Q(a)), Add(P(b), Q(b)))
  BY DEF Fused
<1>3. ~(Before(lexical, b, a) /\ Before(vector, b, a))
  <2>1. SUFFICES ASSUME Before(lexical, b, a), Before(vector, b, a) PROVE FALSE
    OBVIOUS
  <2>2. Less(P(a), P(b)) /\ Less(Q(a), Q(b))
    BY <1>0, <2>1, PartIs
  <2>. HIDE DEF P, Q
  <2>. QED BY <1>1, <1>2, <2>2, SumsOrder
<1>4. ASSUME b \in Ids(lexical), a \notin Ids(lexical) PROVE FALSE
  <2>1. PICK r \in 1..MaxHits : r = RankOf(lexical, b)
    <3>1. RankOf(lexical, b) \in 1..Len(lexical) /\ Len(lexical) \in Nat /\ Len(lexical) <= MaxHits
      BY <1>4, RankIs DEF Found
    <3>. QED BY <1>0, <3>1
  <2>2. PICK s \in Nat \ {0} : s = RankOf(vector, a)
    <3>1. RankOf(vector, a) \in 1..Len(vector) /\ Len(vector) \in Nat
      BY <1>4, RankIs
    <3>. QED BY <3>1
  <2>3. PICK c \in Nat, d \in Nat \ {0} : Q(b) = [num |-> c, den |-> d]
    <3>1. Q(b) = [num |-> Q(b).num, den |-> Q(b).den] /\ Q(b).num \in Nat /\ Q(b).den \in Nat \ {0}
      BY <1>1 DEF Fractions
    <3>. QED BY <3>1
  <2>4. /\ P(a) = [num |-> 0, den |-> 1] /\ Q(a) = [num |-> VectorWeight, den |-> k + s]
        /\ P(b) = [num |-> LexicalWeight, den |-> k + r]
    BY <1>4, <2>1, <2>2 DEF Part
  <2> DEFINE u == LexicalWeight
             v == VectorWeight
             x == k + r
             y == k + s
  <2>5. ~((0 * y + v * 1) * (x * d) < (u * d + c * x) * (1 * y))
    BY <1>2, <2>3, <2>4 DEF Add, Less
  <2>6. v * x < u * y
    <3>1. u * (k + 1) > v * (k + MaxHits)
      BY AlgorithmsAssumption
    <3>2. x \in Nat \ {0} /\ y \in Nat \ {0} /\ x <= k + MaxHits /\ k + 1 <= y /\ k + 1 \in Nat /\ k + MaxHits \in Nat
      BY <1>0, <2>1, <2>2
    <3>. HIDE DEF x, y
    <3>3. PICK m \in Nat : m = k + MaxHits
      BY <3>2
    <3>4. PICK l \in Nat : l = k + 1
      BY <3>2
    <3>5. x * v \in Nat /\ m * v \in Nat /\ ~(m * v < x * v)
      BY <1>0, <3>2, <3>3, Multiplied
    <3>6. y * u \in Nat /\ l * u \in Nat /\ ~(y * u < l * u)
      BY <1>0, <3>2, <3>4, Multiplied
    <3>7. l * u > m * v
      <4>1. u * l > v * m
        BY <3>1, <3>3, <3>4
      <4>. QED BY <1>0, <4>1
    <3>8. x * v < y * u
      BY <3>5, <3>6, <3>7
    <3>. QED BY <1>0, <3>2, <3>8
  <2>7. x \in Nat /\ y \in Nat /\ u \in Nat /\ v \in Nat /\ v * x \in Nat /\ u * y \in Nat /\ c * x \in Nat
    BY <1>0, <2>1
  <2>. HIDE DEF x, y, u, v
  <2>8. (v * x) * d < (u * y) * d /\ (v * x) * d \in Nat /\ (u * y) * d \in Nat
    BY <2>6, <2>7, Multiplied
  <2>9. (0 * y + v * 1) * (x * d) = (v * x) * d
    BY <2>3, <2>7
  <2>10. (u * d + c * x) * (1 * y) = (u * y) * d + (c * x) * y
    BY <2>3, <2>7
  <2>11. (c * x) * y \in Nat
    BY <2>7
  <2>. QED BY <2>5, <2>8, <2>9, <2>10, <2>11
<1>. QED BY <1>3, <1>4 DEF Fair

\* a comes before b: it has the greater fused score, or an equal one and the smaller name.
Precedes(lexical, vector, k, a, b) ==
  \/ Less(Fused(lexical, vector, b, k), Fused(lexical, vector, a, k))
  \/ ~Less(Fused(lexical, vector, a, k), Fused(lexical, vector, b, k)) /\ a < b

\* This is an order.
LEMMA PrecedesOrders ==
  ASSUME NEW lexical, NEW vector, Found(lexical), Found(vector), NEW k \in RrfK, NEW S \in SUBSET Int, NEW R,
         \A a, b \in S : <<a, b>> \in R <=> Precedes(lexical, vector, k, a, b)
  PROVE  Orders(R, S)
<1> DEFINE F(id) == Fused(lexical, vector, id, k)
<1>1. ASSUME NEW id PROVE F(id) \in Fractions
  <2>1. k \in Nat \ {0} /\ LexicalWeight \in Nat \ {0} /\ VectorWeight \in Nat \ {0}
    BY AlgorithmsAssumption, FusionAssumption
  <2>2. Part(lexical, id, k, LexicalWeight) \in Fractions /\ Part(vector, id, k, VectorWeight) \in Fractions
    BY <2>1, PartIs
  <2>. QED BY <2>2, SumsOrder DEF Fused
<1>2. \A a, b \in S : <<a, b>> \in R <=> Less(F(b), F(a)) \/ (~Less(F(a), F(b)) /\ a < b)
  BY DEF Precedes
<1>. HIDE DEF F
<1>3. \A p, q \in Fractions : ~Less(p, p) /\ ~(Less(p, q) /\ Less(q, p))
  BY DEF Less, Fractions
<1>4. \A a \in S : <<a, a>> \notin R
  BY <1>1, <1>2, <1>3
<1>5. ASSUME NEW a \in S, NEW b \in S PROVE a = b \/ <<a, b>> \in R \/ <<b, a>> \in R
  <2>1. a = b \/ a < b \/ b < a
    OBVIOUS
  <2>. QED BY <1>2, <2>1
<1>6. ASSUME NEW a \in S, NEW b \in S, NEW c \in S, <<a, b>> \in R, <<b, c>> \in R PROVE <<a, c>> \in R
  <2>1. ~Less(F(a), F(b)) /\ ~Less(F(b), F(c))
    BY <1>1, <1>2, <1>3, <1>6
  <2>2. ~Less(F(a), F(c)) /\ (Less(F(c), F(b)) \/ Less(F(b), F(a)) => Less(F(c), F(a)))
    BY <1>1, <2>1, LessIsTransitive
  <2>. QED BY <1>2, <1>6, <2>2
<1>. QED BY <1>4, <1>5, <1>6 DEF Orders

\* f lists the n elements of S, each once.
Enumerates(f, n, S) ==
  /\ n \in Nat /\ f \in [1..n -> S]
  /\ \A x \in S : \E i \in 1..n : f[i] = x
  /\ \A i, j \in 1..n : f[i] = f[j] => i = j

\* There are as many as it lists.
LEMMA Counted ==
  ASSUME NEW S, NEW n, NEW f, Enumerates(f, n, S)
  PROVE  Cardinality(S) = n
<1>1. n \in Nat /\ ExistsBijection(1..n, S)
  BY DEF Enumerates, ExistsBijection, Bijection, Injection, Surjection, IsInjective
<1>. QED BY <1>1, FS_CountingElements

\* order lists every id of S once, and what comes first may come first.
Lists(order, S, n, lexical, vector) ==
  /\ n = Cardinality(S) /\ Enumerates(order, n, S)
  /\ \A i, j \in 1..n : i < j => Fair(lexical, vector, order[i], order[j])

\* The ids of what one search found, as it found them.
InOrder(list) == [i \in DOMAIN list |-> list[i].id]

\* They list what was found.
LEMMA ListIs ==
  ASSUME NEW list, Found(list)
  PROVE  Enumerates(InOrder(list), Len(list), Ids(list)) /\ Len(list) = Cardinality(Ids(list))
<1>1. /\ Len(list) \in Nat /\ DOMAIN list = 1..Len(list)
      /\ \A i \in 1..Len(list) : list[i].id \in Ids(list)
      /\ \A id \in Ids(list) : RankOf(list, id) \in 1..Len(list) /\ list[RankOf(list, id)].id = id
  BY RankIs
<1>2. Enumerates(InOrder(list), Len(list), Ids(list))
  BY <1>1 DEF Found, InOrder, Enumerates
<1>. QED BY <1>2, Counted

\* The order of the ids.
LEMMA OrderIs ==
  ASSUME NEW lexical, NEW vector, Found(lexical), Found(vector), NEW k \in RrfK,
         NEW mode \in {"lexical", "vector", "hybrid"},
         mode = "lexical" => vector = <<>>, mode = "vector" => lexical = <<>>
  PROVE  \E n : Lists(Order(lexical, vector, mode, k), Ids(lexical) \cup Ids(vector), n, lexical, vector)
<1> DEFINE S == Ids(lexical) \cup Ids(vector)
           order == Order(lexical, vector, mode, k)
<1>0. Ids(<<>>) = {}
  BY DEF Ids
<1>1. CASE mode = "lexical"
  <2>1. S = Ids(lexical) /\ order = InOrder(lexical)
    BY <1>0, <1>1 DEF Order, InOrder
  <2>2. \A a, b \in S : Fair(lexical, vector, a, b)
    BY <1>0, <1>1, <2>1 DEF Fair, Before
  <2>. HIDE DEF S, order
  <2>3. Len(lexical) = Cardinality(S) /\ Enumerates(order, Len(lexical), S)
    BY <2>1, ListIs
  <2>4. Lists(order, S, Len(lexical), lexical, vector)
    BY <2>2, <2>3 DEF Lists, Enumerates
  <2>. QED BY <2>4 DEF S, order
<1>2. CASE mode = "vector"
  <2>1. S = Ids(vector) /\ order = InOrder(vector)
    BY <1>0, <1>2 DEF Order, InOrder
  <2>2. \A a, b \in S : Fair(lexical, vector, a, b)
    BY <1>0, <1>2, <2>1 DEF Fair, Before
  <2>. HIDE DEF S, order
  <2>3. Len(vector) = Cardinality(S) /\ Enumerates(order, Len(vector), S)
    BY <2>1, ListIs
  <2>4. Lists(order, S, Len(vector), lexical, vector)
    BY <2>2, <2>3 DEF Lists, Enumerates
  <2>. QED BY <2>4 DEF S, order
<1>3. CASE mode = "hybrid"
  <2> DEFINE n == Cardinality(S)
             R == {p \in S \X S : Precedes(lexical, vector, k, p[1], p[2])}
  <2>1. S \in SUBSET Int /\ IsFiniteSet(S)
    <3>1. /\ Ids(lexical) \subseteq 1..MaxHits /\ IsFiniteSet(Ids(lexical))
          /\ Ids(vector) \subseteq 1..MaxHits /\ IsFiniteSet(Ids(vector))
      BY RankIs
    <3>2. IsFiniteSet(S)
      BY <3>1, FS_Union
    <3>. QED BY <3>1, <3>2
  <2>2. order = [i \in 1..n |-> CHOOSE x \in S : Cardinality({y \in S : Precedes(lexical, vector, k, y, x)}) = i - 1]
    <3>1. order = Ranked(S, LAMBDA a, b : Precedes(lexical, vector, k, a, b))
      BY <1>3 DEF Order, Precedes
    <3>. QED BY <3>1, Zenon DEF Ranked
  <2>3. \A a, b \in S : <<a, b>> \in R <=> Precedes(lexical, vector, k, a, b)
    OBVIOUS
  <2>a. \A a, b \in S : Precedes(lexical, vector, k, a, b) => Fair(lexical, vector, a, b)
    <3>1. SUFFICES ASSUME NEW a \in S, NEW b \in S, Precedes(lexical, vector, k, a, b) PROVE Fair(lexical, vector, a, b)
      OBVIOUS
    <3>2. k \in Nat \ {0} /\ LexicalWeight \in Nat \ {0} /\ VectorWeight \in Nat \ {0}
      BY AlgorithmsAssumption, FusionAssumption
    <3>3. \A id : Fused(lexical, vector, id, k) \in Fractions
      BY <3>2, PartIs, SumsOrder DEF Fused
    <3>4. \A p, q \in Fractions : ~(Less(p, q) /\ Less(q, p))
      BY DEF Less, Fractions
    <3>5. ~Less(Fused(lexical, vector, a, k), Fused(lexical, vector, b, k))
      BY <3>1, <3>3, <3>4 DEF Precedes
    <3>. QED BY <3>5, FusedIsFair
  <2>. HIDE DEF S, order, R
  <2>4. Orders(R, S)
    BY <2>1, <2>3, PrecedesOrders
  <2>5. ASSUME NEW x \in S PROVE {y \in S : <<y, x>> \in R} = {y \in S : Precedes(lexical, vector, k, y, x)}
    BY <2>3
  <2>6. Ranks(order, S, R)
    <3>1. ASSUME NEW i \in 1..n, NEW x \in S, Cardinality({y \in S : <<y, x>> \in R}) = i - 1
          PROVE  order[i] \in S /\ Cardinality({y \in S : <<y, order[i]>> \in R}) = i - 1
      <4>1. \E z \in S : Cardinality({y \in S : Precedes(lexical, vector, k, y, z)}) = i - 1
        BY <2>5, <3>1
      <4>2. order[i] \in S /\ Cardinality({y \in S : Precedes(lexical, vector, k, y, order[i])}) = i - 1
        BY <2>2, <4>1
      <4>. QED BY <2>5, <4>2
    <3>. QED BY <3>1 DEF Ranks
  <2>7. /\ n \in Nat /\ \A i \in 1..n : order[i] \in S
        /\ \A x \in S : \E i \in 1..n : order[i] = x
        /\ \A i, j \in 1..n : i < j <=> <<order[i], order[j]>> \in R
        /\ \A i, j \in 1..n : order[i] = order[j] => i = j
    BY <2>1, <2>4, <2>6, RankedIs
  <2>8. order \in [1..n -> S]
    BY <2>2, <2>7
  <2>9. \A i, j \in 1..n : i < j => Fair(lexical, vector, order[i], order[j])
    BY <2>3, <2>7, <2>a
  <2>10. Lists(order, S, n, lexical, vector)
    BY <2>7, <2>8, <2>9 DEF Lists, Enumerates
  <2>. QED BY <2>10 DEF S, order
<1>. QED BY <1>1, <1>2, <1>3

\* The input: what two searches found.
Searched == call.fn = "rank" =>
  /\ Found(call.lexical) /\ Found(call.vector) /\ call.k \in RrfK /\ call.limit \in Nat
  /\ call.mode \in {"lexical", "vector", "hybrid"}
  /\ call.mode = "lexical" => call.vector = <<>>
  /\ call.mode = "vector" => call.lexical = <<>>

\* Initially it is one.
LEMMA InitSearched == Init => Searched
<1>1. ASSUME NEW list \in Candidates PROVE Found(list)
  <2>1. PICK n \in 0..MaxHits : list \in [1..n -> [id : 1..MaxHits, score : Scores]]
    BY DEF Candidates
  <2>2. \A i, j \in DOMAIN list : i < j => list[i].id # list[j].id
    BY DEF Candidates
  <2>3. n \in Nat /\ n <= MaxHits /\ Scores \subseteq Nat
    BY AlgorithmsAssumption
  <2> DEFINE C == [id : 1..MaxHits, score : Nat]
  <2>a. list \in [1..n -> C]
    BY <2>1, <2>3
  <2>. HIDE DEF C
  <2>4. list \in Seq(C) /\ Len(list) = n /\ DOMAIN list = 1..n
    BY <2>3, <2>a
  <2>5. ASSUME NEW i \in 1..n, NEW j \in 1..n, list[i].id = list[j].id PROVE i = j
    BY <2>2, <2>3, <2>4, <2>5
  <2>. QED BY <2>3, <2>4, <2>5 DEF Found, C
<1>2. ASSUME Searches PROVE Searched
  <2>1. PICK lexical \in Candidates, vector \in Candidates, k \in RrfK, limit \in 1..MaxHits,
             mode \in {"lexical", "vector", "hybrid"} :
          /\ mode = "lexical" => vector = <<>>
          /\ mode = "vector" => lexical = <<>>
          /\ call = [fn |-> "rank", lexical |-> lexical, vector |-> vector, k |-> k, limit |-> limit, mode |-> mode]
    BY <1>2, Zenon DEF Searches
  <2>2. limit \in Nat /\ Found(lexical) /\ Found(vector)
    BY <1>1, AlgorithmsAssumption
  <2>. QED BY <2>1, <2>2 DEF Searched
<1>. QED BY <1>2, CallsDiffer DEF Init, Searched

Shown(hits) == {hits[i].id : i \in DOMAIN hits}

\* The hits: as many as there may be, none twice, each before those it may come before.
LEMMA HitsAre ==
  ASSUME NEW lexical, NEW vector, NEW order, NEW S, NEW n, Lists(order, S, n, lexical, vector),
         NEW m \in Nat, m <= n, NEW hits, DOMAIN hits = 1..m, \A i \in 1..m : hits[i].id = order[i]
  PROVE  /\ Cardinality(Shown(hits)) = m
         /\ Shown(hits) \subseteq S
         /\ \A i, j \in DOMAIN hits : i < j => Fair(lexical, vector, hits[i].id, hits[j].id)
         /\ \A a \in Shown(hits), b \in S \ Shown(hits) : Fair(lexical, vector, a, b)
<1> DEFINE shown == Shown(hits)
<1>0. /\ n \in Nat /\ order \in [1..n -> S]
      /\ \A x \in S : \E i \in 1..n : order[i] = x
      /\ \A i, j \in 1..n : order[i] = order[j] => i = j
      /\ \A i, j \in 1..n : i < j => Fair(lexical, vector, order[i], order[j])
  BY DEF Lists, Enumerates
<1>1. \A i \in 1..m : i \in 1..n
  BY <1>0
<1>2. shown = {order[i] : i \in 1..m}
  BY DEF Shown
<1>. HIDE DEF shown
<1>3. Cardinality(shown) = m
  <2> DEFINE f == [i \in 1..m |-> order[i]]
  <2>1. Enumerates(f, m, shown)
    BY <1>0, <1>1, <1>2 DEF Enumerates
  <2>. QED BY <2>1, Counted
<1>4. shown \subseteq S
  BY <1>0, <1>1, <1>2
<1>a. \A i, j \in DOMAIN hits : i < j => Fair(lexical, vector, hits[i].id, hits[j].id)
  BY <1>0, <1>1
<1>5. ASSUME NEW a \in shown, NEW b \in S \ shown PROVE Fair(lexical, vector, a, b)
  <2>1. PICK i \in 1..m : a = order[i]
    BY <1>2
  <2>2. PICK j \in 1..n : b = order[j]
    BY <1>0
  <2>3. ~(j <= m)
    <3>1. j \notin 1..m
      BY <1>2, <2>2
    <3>. QED BY <1>0, <1>1, <3>1
  <2>4. i \in 1..n /\ i < j
    BY <1>0, <1>1, <2>3
  <2>. QED BY <1>0, <2>1, <2>2, <2>4
<1>. QED BY <1>3, <1>4, <1>5, <1>a DEF shown

\* There is evidence if a hit reaches a threshold of a search that was made.
LEMMA EvidenceIs ==
  ASSUME NEW lexical, NEW vector, Found(lexical), Found(vector),
         NEW mode \in {"lexical", "vector", "hybrid"},
         mode = "lexical" => vector = <<>>, mode = "vector" => lexical = <<>>,
         NEW hits,
         \A i \in DOMAIN hits : hits[i].lexical = ScoreOf(lexical, hits[i].id) /\ hits[i].vector = ScoreOf(vector, hits[i].id)
  PROVE  HasEvidence(hits, mode) <=>
           \E id \in Shown(hits) : \/ ScoreOf(lexical, id) >= MinLexical
                                  \/ ScoreOf(vector, id) >= MinVector
<1>0. MinLexical \in Nat \ {0} /\ MinVector \in Nat \ {0} /\ NoScore = -9
  BY FusionAssumption DEF NoScore
<1>1. Ids(<<>>) = {}
  BY DEF Ids
<1>2. ASSUME NEW i \in DOMAIN hits
      PROVE  /\ mode # "vector" /\ Or(hits[i].lexical, 0) >= MinLexical <=> ScoreOf(lexical, hits[i].id) >= MinLexical
             /\ mode # "lexical" /\ Or(hits[i].vector, -1) >= MinVector <=> ScoreOf(vector, hits[i].id) >= MinVector
  <2> DEFINE x == ScoreOf(lexical, hits[i].id)
             y == ScoreOf(vector, hits[i].id)
  <2>1. x \in Nat \cup {-9} /\ y \in Nat \cup {-9}
    BY <1>0, RankIs
  <2>2. (mode = "vector" => x = -9) /\ (mode = "lexical" => y = -9)
    BY <1>0, <1>1, RankIs
  <2>3. hits[i].lexical = x /\ hits[i].vector = y
    OBVIOUS
  <2>. HIDE DEF x, y
  <2>4. (Or(x, 0) >= MinLexical <=> x >= MinLexical) /\ (Or(y, -1) >= MinVector <=> y >= MinVector)
    BY <1>0, <2>1 DEF Or
  <2>5. ~(-9 >= MinLexical) /\ ~(-9 >= MinVector)
    BY <1>0
  <2>6. /\ mode # "vector" /\ Or(x, 0) >= MinLexical <=> x >= MinLexical
        /\ mode # "lexical" /\ Or(y, -1) >= MinVector <=> y >= MinVector
    BY <2>2, <2>4, <2>5
  <2>. QED BY <2>3, <2>6 DEF x, y
<1>. QED BY <1>2 DEF HasEvidence, Shown

\* The hits of a search are ranked fairly.
LEMMA HitsAreFair ==
  ASSUME Searched, Rank
  PROVE  FusionIsFair'
<1> DEFINE lexical == call.lexical
           vector == call.vector
           order == Order(lexical, vector, call.mode, call.k)
           hits == Hits(lexical, vector, call.mode, call.k, call.limit)
           found == Ids(lexical) \cup Ids(vector)
<1>1. /\ Found(lexical) /\ Found(vector) /\ call.k \in RrfK /\ call.limit \in Nat
      /\ call.mode \in {"lexical", "vector", "hybrid"}
      /\ call.mode = "lexical" => vector = <<>>
      /\ call.mode = "vector" => lexical = <<>>
  BY DEF Rank, Returns, Searched
<1>2. call' = call /\ out'.hits = hits /\ out'.answer = HasEvidence(hits, call.mode)
  BY DEF Rank, Returns
<1> DEFINE ahead(h, a, b) == \/ \E i, j \in DOMAIN h : i < j /\ h[i].id = a /\ h[j].id = b
                             \/ a \in Shown(h) /\ b \notin Shown(h)
           Good(h, answer) ==
             /\ Cardinality(Shown(h)) = Len(h) /\ Len(h) = Min({call.limit, Cardinality(found)})
             /\ \A a, b \in found :
                  ahead(h, a, b) => /\ ~(Before(lexical, b, a) /\ Before(vector, b, a))
                                    /\ b \in Ids(lexical) => a \in Ids(lexical)
             /\ answer <=> \E id \in Shown(h) : \/ ScoreOf(lexical, id) >= MinLexical
                                                \/ ScoreOf(vector, id) >= MinVector
<1>3. SUFFICES Good(hits, HasEvidence(hits, call.mode))
  <2>1. Good(out'.hits, out'.answer)
    <3>. HIDE DEF Good, hits
    <3>. QED BY <1>2, <1>3, Zenon
  <2>. QED BY <1>2, <2>1, Zenon DEF FusionIsFair, Shown
<1>. HIDE DEF order
<1>4. PICK n : Lists(order, found, n, lexical, vector)
  BY <1>1, OrderIs DEF order
<1>5. n \in Nat /\ n = Cardinality(found) /\ Len(order) = n
  BY <1>4 DEF Lists, Enumerates
<1> DEFINE m == Min({call.limit, n})
<1>6. m \in Nat /\ m <= n
  <2>1. call.limit \in Int /\ n \in Int
    BY <1>1, <1>5
  <2>2. m = IF call.limit <= n THEN call.limit ELSE n
    BY <2>1, MinOfTwo
  <2>. QED BY <1>1, <1>5, <2>2
<1>. HIDE DEF m
<1>7. hits = [i \in 1..m |-> [id |-> order[i], lexical |-> ScoreOf(lexical, order[i]), vector |-> ScoreOf(vector, order[i])]]
  BY <1>5 DEF Hits, order, m
<1>. HIDE DEF hits, found
<1>8. DOMAIN hits = 1..m /\ Len(hits) = m
  BY <1>6, <1>7
<1>9. /\ \A i \in 1..m : hits[i].id = order[i]
      /\ \A i \in DOMAIN hits : hits[i].lexical = ScoreOf(lexical, hits[i].id) /\ hits[i].vector = ScoreOf(vector, hits[i].id)
  BY <1>7
<1>10. /\ Cardinality(Shown(hits)) = m
       /\ Shown(hits) \subseteq found
       /\ \A i, j \in DOMAIN hits : i < j => Fair(lexical, vector, hits[i].id, hits[j].id)
       /\ \A a \in Shown(hits), b \in found \ Shown(hits) : Fair(lexical, vector, a, b)
  BY <1>4, <1>6, <1>8, <1>9, HitsAre
<1>11. HasEvidence(hits, call.mode) <=> \E id \in Shown(hits) : \/ ScoreOf(lexical, id) >= MinLexical
                                                               \/ ScoreOf(vector, id) >= MinVector
  BY <1>1, <1>9, EvidenceIs
<1>12. ASSUME NEW a \in found, NEW b \in found, ahead(hits, a, b) PROVE Fair(lexical, vector, a, b)
  BY <1>10, <1>12
<1>. QED BY <1>5, <1>8, <1>10, <1>11, <1>12 DEF Fair, m

\* The fusion keeps to the two rankings, for lists of every length the weights allow:
\* no hit is returned twice or left out under the limit, none comes before one that
\* both searches put ahead of it, none that only the vectors found before a lexical hit,
\* and the answer is held back exactly if no hit reaches a threshold.
\* (_rank, _has_evidence)
THEOREM FusionsAreFair == Spec => []FusionIsFair
<1> DEFINE Inv == (at = "called" => Searched) /\ FusionIsFair
<1>1. Init => Inv
  BY InitSearched DEF FusionIsFair, Returned, Init
<1>2. Inv /\ [Next]_vars => Inv'
  <2> SUFFICES ASSUME Inv, [Next]_vars PROVE Inv'
    OBVIOUS
  <2>1. CASE UNCHANGED vars
    BY <2>1 DEF vars, Searched, FusionIsFair, Returned
  <2>2. CASE Rank
    BY <2>2, HitsAreFair DEF Rank, Returns
  <2>3. CASE Parse \/ Chunk \/ EmbedTexts \/ RerankHits \/ DescribeResult \/ Import
    BY <2>3 DEF Parse, Chunk, EmbedTexts, RerankHits, DescribeResult, Import, Returns, FusionIsFair, Returned
  <2>. QED BY <2>1, <2>2, <2>3 DEF Next
<1>3. Inv => FusionIsFair
  OBVIOUS
<1>. HIDE DEF Inv
<1>. QED BY <1>1, <1>2, <1>3, PTL DEF Spec

----------------------------------------------------------------------------
(* The chunks of a section *)

\* Where a chunk ends: after its start, not after the text and not beyond the limit; and
\* one that ends before the text does is longer than half the limit.
LEMMA ChunkEndIs ==
  ASSUME NEW text, Len(text) \in Nat, NEW max \in Nat \ {0}, NEW s \in 0..Len(text)
  PROVE  LET e == ChunkEnd(text, s, max)
         IN /\ e \in Nat /\ s <= e /\ e <= Len(text) /\ e <= s + max
            /\ s < Len(text) => s < e
            /\ e < Len(text) => e = s + max \/ e > s + max \div 2 + 1
<1> DEFINE end == Min({Len(text), s + max})
           b == Boundary(text, s, end)
           found == {i \in s..(end - 1) : \/ text[i + 1] \in {"\n", "o"}
                                          \/ i + 1 < end /\ text[i + 1] = "." /\ text[i + 2] = " "}
<1>0. s \in Nat /\ Len(text) \in Nat /\ s <= Len(text) /\ s + max \in Nat /\ max > 0
  OBVIOUS
<1>1. end = IF Len(text) <= s + max THEN Len(text) ELSE s + max
  BY <1>0, MinOfTwo
<1>2. end \in Nat /\ s <= end /\ end <= Len(text) /\ end <= s + max /\ (s < Len(text) => s < end) /\ (end < Len(text) => end = s + max)
  BY <1>0, <1>1
<1>3. b = IF found = {} THEN 0 ELSE Max(found) + 1
  BY Zenon DEF Boundary
<1>4. ChunkEnd(text, s, max) = IF end < Len(text) /\ b > s + max \div 2 + 1 THEN b ELSE end
  BY DEF ChunkEnd
<1>. HIDE DEF end
<1>5. b \in Nat /\ (b = 0 \/ b <= end)
  <2>1. CASE found = {}
    <3>. HIDE DEF found, b
    <3>. QED BY <1>3, <2>1
  <2>2. CASE found # {}
    <3>0. found \in SUBSET (s..(end - 1))
      OBVIOUS
    <3>. HIDE DEF found, b
    <3>1. found \in SUBSET Nat /\ \A y \in found : y <= end /\ y + 1 <= end
      BY <1>0, <1>2, <3>0
    <3>2. Max(found) \in found
      BY <1>2, <2>2, <3>1, MaxIs
    <3>3. Max(found) \in Nat /\ Max(found) + 1 <= end
      BY <3>1, <3>2
    <3>. QED BY <1>2, <1>3, <2>2, <3>3
  <2>. QED BY <2>1, <2>2
<1>. HIDE DEF b
<1>6. max \div 2 \in Nat
  OBVIOUS
<1>7. PICK h \in Nat : h = max \div 2
  BY <1>6
<1>. QED BY <1>0, <1>2, <1>4, <1>5, <1>7

\* rs are the ranges the loop goes through from s on.
Walk(rs, s, text, max, overlap) ==
  /\ rs \in Seq(Nat \X Nat) /\ Len(rs) \in Nat \ {0} /\ rs[1][1] = s
  /\ \A r \in 1..Len(rs) : rs[r][1] \in 0..Len(text) /\ rs[r][2] = ChunkEnd(text, rs[r][1], max)
  /\ \A r \in 1..(Len(rs) - 1) : /\ rs[r][2] < Len(text)
                                 /\ rs[r + 1][1] = Max({rs[r][1] + 1, rs[r][2] - overlap})
  /\ rs[Len(rs)][2] = Len(text)

\* The loop ends with the text, and goes on before it does.
LEMMA WalkStep ==
  ASSUME NEW text, Len(text) \in Nat, NEW max \in Nat \ {0}, NEW overlap \in Nat, NEW s \in 0..Len(text)
  PROVE  LET e == ChunkEnd(text, s, max)
             t == Max({s + 1, e - overlap})
         IN /\ e >= Len(text) => Walk(<<<<s, e>>>>, s, text, max, overlap)
            /\ ~(e >= Len(text)) =>
                 /\ t \in (s + 1)..Len(text) /\ t <= e
                 /\ \A w : Walk(w, t, text, max, overlap) => Walk(<<<<s, e>>>> \o w, s, text, max, overlap)
<1> DEFINE e == ChunkEnd(text, s, max)
           t == Max({s + 1, e - overlap})
           P == Nat \X Nat
           p == <<s, e>>
<1>1. e \in Nat /\ s \in Nat /\ s <= e /\ e <= Len(text) /\ (s < Len(text) => s < e)
  BY ChunkEndIs
<1>0. ChunkEnd(text, s, max) = e
  OBVIOUS
<1>. HIDE DEF e
<1>2. p \in P /\ p[1] = s /\ p[2] = e
  BY <1>1
<1>3. <<p>> \in Seq(P) /\ Len(<<p>>) = 1 /\ <<p>>[1] = p
  BY <1>2
<1>. HIDE DEF p, P
<1>4. ASSUME e >= Len(text) PROVE Walk(<<p>>, s, text, max, overlap)
  <2>1. e = Len(text)
    BY <1>1, <1>4
  <2>2. \A r \in 1..1 : r = 1
    OBVIOUS
  <2>3. 1..(1 - 1) = {}
    OBVIOUS
  <2>. QED BY <1>0, <1>2, <1>3, <2>1, <2>2, <2>3 DEF Walk, P
<1>5. ASSUME ~(e >= Len(text)) PROVE t \in (s + 1)..Len(text) /\ t <= e
  <2>1. s + 1 \in Int /\ e - overlap \in Int /\ s < Len(text) /\ s < e /\ e < Len(text)
    BY <1>1, <1>5
  <2>2. t = IF s + 1 >= e - overlap THEN s + 1 ELSE e - overlap
    BY <2>1, MaxOfTwo
  <2>. QED BY <1>1, <2>1, <2>2
<1>6. ASSUME ~(e >= Len(text)), NEW w, Walk(w, t, text, max, overlap) PROVE Walk(<<p>> \o w, s, text, max, overlap)
  <2> DEFINE v == <<p>> \o w
             n == Len(w)
  <2>1. w \in Seq(P) /\ n \in Nat \ {0} /\ w[1][1] = t /\ w[n][2] = Len(text)
    BY <1>6 DEF Walk, P
  <2>2. /\ v \in Seq(P) /\ Len(v) = 1 + n
        /\ \A i \in 1..(1 + n) : v[i] = IF i <= 1 THEN <<p>>[i] ELSE w[i - 1]
    BY <1>3, <2>1, ConcatProperties
  <2>. HIDE DEF v, n
  <2>3. v[1] = p /\ \A i \in 2..(1 + n) : v[i] = w[i - 1]
    BY <1>3, <2>1, <2>2
  <2>4. ASSUME NEW r \in 1..(1 + n)
        PROVE  v[r][1] \in 0..Len(text) /\ v[r][2] = ChunkEnd(text, v[r][1], max)
    <3>1. CASE r = 1
      BY <1>0, <1>2, <2>3, <3>1
    <3>2. CASE r # 1
      <4>1. r \in 2..(1 + n) /\ r - 1 \in 1..n
        BY <2>1, <3>2
      <4>. QED BY <1>6, <2>3, <4>1 DEF Walk, n
    <3>. QED BY <3>1, <3>2
  <2>5. ASSUME NEW r \in 1..((1 + n) - 1)
        PROVE  v[r][2] < Len(text) /\ v[r + 1][1] = Max({v[r][1] + 1, v[r][2] - overlap})
    <3>1. CASE r = 1
      <4>1. v[r + 1] = w[1]
        BY <2>1, <2>3, <3>1
      <4>2. v[r][1] = s /\ v[r][2] = e
        BY <1>2, <2>3, <3>1
      <4>. QED BY <1>1, <1>6, <2>1, <4>1, <4>2
    <3>2. CASE r # 1
      <4>1. r \in 2..(1 + n) /\ r + 1 \in 2..(1 + n) /\ r - 1 \in 1..(n - 1) /\ (r + 1) - 1 = (r - 1) + 1
        BY <2>1, <3>2
      <4>2. v[r] = w[r - 1] /\ v[r + 1] = w[(r - 1) + 1]
        BY <2>3, <4>1
      <4>. QED BY <1>6, <4>1, <4>2 DEF Walk, n
    <3>. QED BY <3>1, <3>2
  <2>6. v[1 + n] = w[n] /\ 1 + n \in Nat \ {0}
    BY <2>1, <2>3
  <2>7. Walk(v, s, text, max, overlap)
    BY <1>2, <2>1, <2>2, <2>3, <2>4, <2>5, <2>6 DEF Walk, P
  <2>. QED BY <2>7 DEF v
<1>. QED BY <1>4, <1>5, <1>6 DEF e, p

\* The ranges are those of the loop.
LEMMA RangesWalk ==
  ASSUME NEW text, Len(text) \in Nat, NEW max \in Nat \ {0}, NEW overlap \in Nat
  PROVE  Walk(Ranges(text, max, overlap), 0, text, max, overlap)
<1> DEFINE L == Len(text)
           E(s) == ChunkEnd(text, s, max)
           N(s) == Max({s + 1, E(s) - overlap})
           Body(f, s) == IF E(s) >= L THEN <<<<s, E(s)>>>> ELSE <<<<s, E(s)>>>> \o f[N(s)]
           W(w, s) == Walk(w, s, text, max, overlap)
           Is(f, m) == f = [s \in (L - m)..L |-> Body(f, s)] /\ \A s \in (L - m)..L : W(f[s], s)
           G == {m \in 0..L : \E f : Is(f, m)}
<1>1. ASSUME NEW s \in 0..L
      PROVE  /\ E(s) >= L => W(<<<<s, E(s)>>>>, s)
             /\ ~(E(s) >= L) => N(s) \in (s + 1)..L /\ \A w : W(w, N(s)) => W(<<<<s, E(s)>>>> \o w, s)
  BY WalkStep
<1>. HIDE DEF L, E, N, W
<1>0. L \in Nat
  BY DEF L
<1>2. ASSUME NEW f, NEW s \in 0..L, \A t \in (s + 1)..L : W(f[t], t) PROVE W(Body(f, s), s)
  BY <1>1, <1>2
<1>3. ASSUME NEW f, NEW g, NEW s \in 0..L, \A t \in (s + 1)..L : f[t] = g[t] PROVE Body(f, s) = Body(g, s)
  BY <1>1, <1>3
<1>4. 0 \in G
  <2> DEFINE f == [s \in L..L |-> Body(<<>>, s)]
  <2>1. (L - 0)..L = L..L /\ (\A s \in L..L : s = L /\ s \in 0..L) /\ (L + 1)..L = {}
    BY <1>0
  <2>2. \A s \in L..L : (s + 1)..L = {}
    BY <1>0
  <2>3. \A s \in L..L : Body(<<>>, s) = Body(f, s) /\ W(Body(<<>>, s), s)
    BY <1>2, <1>3, <2>1, <2>2
  <2>. HIDE DEF Body
  <2>4. f = [s \in (L - 0)..L |-> Body(f, s)]
    BY <2>1, <2>3
  <2>5. \A s \in (L - 0)..L : W(f[s], s)
    BY <2>1, <2>3
  <2>6. Is(f, 0)
    BY <2>4, <2>5
  <2>7. 0 \in 0..L
    BY <1>0
  <2>. HIDE DEF Is, f
  <2>. QED BY <2>6, <2>7
<1>. HIDE DEF Body
<1>5. ASSUME NEW m \in 0..(L - 1), m \in G PROVE m + 1 \in G
  <2>1. PICK f : Is(f, m)
    BY <1>5
  <2> DEFINE a == L - (m + 1)
             g == [s \in a..L |-> IF s = a THEN Body(f, s) ELSE f[s]]
  <2>2. a \in 0..L /\ a + 1 = L - m /\ m + 1 \in 0..L /\ \A s \in a..L : s \in 0..L /\ (s = a \/ s \in (L - m)..L)
    BY <1>0
  <2>3. \A s \in (L - m)..L : s \in a..L /\ s # a
    BY <1>0
  <2>. HIDE DEF a
  <2>4. \A s \in (L - m)..L : g[s] = f[s] /\ f[s] = Body(f, s) /\ W(f[s], s)
    BY <2>1, <2>3
  <2>5. ASSUME NEW s \in a..L PROVE g[s] = Body(g, s) /\ W(g[s], s)
    <3>0. \A t \in (s + 1)..L : t \in (L - m)..L
      BY <1>0, <2>2
    <3>1. \A t \in (s + 1)..L : f[t] = g[t] /\ W(f[t], t)
      BY <2>4, <3>0
    <3>2. Body(f, s) = Body(g, s) /\ W(Body(f, s), s)
      <4>. HIDE DEF g
      <4>1. s \in 0..L
        BY <2>2
      <4>2. Body(f, s) = Body(g, s)
        BY <1>3, <3>1, <4>1
      <4>. QED BY <1>2, <3>1, <4>1, <4>2
    <3>3. g[s] = Body(f, s)
      <4>1. CASE s = a
        BY <4>1
      <4>2. CASE s # a
        BY <2>2, <2>4, <4>2
      <4>. QED BY <4>1, <4>2
    <3>. QED BY <3>2, <3>3
  <2>6. g = [s \in a..L |-> Body(g, s)]
    BY <2>5
  <2>7. Is(g, m + 1)
    <3>. HIDE DEF g
    <3>. QED BY <2>5, <2>6 DEF a
  <2>. QED BY <2>2, <2>7
<1>6. \E f : Is(f, L)
  <2>. HIDE DEF G
  <2>1. 0..L \subseteq G
    BY <1>0, <1>4, <1>5, UpTo
  <2>2. L \in G
    BY <1>0, <2>1
  <2>. QED BY <2>2 DEF G
<1> DEFINE Fix(f) == f = [s \in 0..L |-> Body(f, s)]
           from == CHOOSE f : Fix(f)
<1>7. \E f : Fix(f)
  <2>1. (L - L)..L = 0..L
    BY <1>0
  <2>. QED BY <1>6, <2>1
<1>8. Fix(from)
  BY <1>7
<1>9. Ranges(text, max, overlap) = from[0]
  BY Zenon DEF Ranges, L, E, N, Body
<1>. HIDE DEF from
\* Every such function goes through the loop.
<1> DEFINE H == {m \in 0..L : \A s \in (L - m)..L : W(from[s], s)}
<1>10. 0 \in H
  <2>1. \A s \in (L - 0)..L : s \in 0..L /\ (s + 1)..L = {}
    BY <1>0
  <2>2. \A s \in (L - 0)..L : from[s] = Body(from, s) /\ W(Body(from, s), s)
    BY <1>2, <1>8, <2>1
  <2>. QED BY <1>0, <2>2
<1>11. ASSUME NEW m \in 0..(L - 1), m \in H PROVE m + 1 \in H
  <2>1. ASSUME NEW s \in (L - (m + 1))..L PROVE W(from[s], s)
    <3>1. s \in 0..L /\ \A t \in (s + 1)..L : t \in (L - m)..L
      BY <1>0
    <3>2. \A t \in (s + 1)..L : W(from[t], t)
      BY <1>11, <3>1
    <3>. QED BY <1>2, <1>8, <3>1, <3>2
  <2>2. m + 1 \in 0..L
    BY <1>0
  <2>. QED BY <2>1, <2>2
<1>12. W(from[0], 0)
  <2>. HIDE DEF H
  <2>1. 0..L \subseteq H
    BY <1>0, <1>10, <1>11, UpTo
  <2>2. L \in H /\ 0 \in (L - L)..L
    BY <1>0, <2>1
  <2>. QED BY <2>2 DEF H
<1>. QED BY <1>9, <1>12 DEF W

\* The ranges go forward, leave no gap and, if they overlap by no more than half, none
\* ends before the one before it; together they hold every position.
LEMMA RangesCover ==
  ASSUME NEW text, Len(text) \in Nat, NEW max \in Nat \ {0}, NEW overlap \in 0..(max - 1),
         NEW rs, Walk(rs, 0, text, max, overlap)
  PROVE  /\ \A r \in 1..Len(rs) : /\ rs[r][1] \in Nat /\ rs[r][2] \in Nat /\ rs[r][1] <= rs[r][2]
                                  /\ rs[r][2] <= rs[r][1] + max
         /\ \A r \in 1..(Len(rs) - 1) :
              /\ rs[r][1] < rs[r + 1][1] /\ rs[r + 1][1] <= rs[r][2]
              /\ overlap <= max \div 2 + 1 => rs[r][2] < rs[r + 1][2]
         /\ \A i \in 0..(Len(text) - 1) : \E r \in 1..Len(rs) : rs[r][1] <= i /\ i < rs[r][2]
<1> DEFINE n == Len(rs)
           L == Len(text)
<1>0. n \in Nat \ {0} /\ L \in Nat /\ overlap \in Nat /\ overlap < max /\ rs[1][1] = 0 /\ rs[n][2] = L
  BY DEF Walk
<1>1. ASSUME NEW r \in 1..n
      PROVE  /\ rs[r][1] \in Nat /\ rs[r][1] <= L /\ rs[r][2] \in Nat /\ rs[r][1] <= rs[r][2] /\ rs[r][2] <= L
             /\ rs[r][2] <= rs[r][1] + max
             /\ rs[r][1] < L => rs[r][1] < rs[r][2]
             /\ rs[r][2] < L => rs[r][2] = rs[r][1] + max \/ rs[r][2] > rs[r][1] + max \div 2 + 1
  <2>1. rs[r][1] \in 0..Len(text) /\ rs[r][2] = ChunkEnd(text, rs[r][1], max)
    BY DEF Walk
  <2>2. PICK s \in 0..Len(text) : s = rs[r][1]
    BY <2>1
  <2> DEFINE e == ChunkEnd(text, s, max)
  <2>3. /\ e \in Nat /\ s <= e /\ e <= Len(text) /\ e <= s + max
        /\ s < Len(text) => s < e
        /\ e < Len(text) => e = s + max \/ e > s + max \div 2 + 1
    BY ChunkEndIs
  <2>. QED BY <2>1, <2>2, <2>3
<1>2. ASSUME NEW r \in 1..(n - 1)
      PROVE  rs[r][2] < L /\ rs[r + 1][1] = Max({rs[r][1] + 1, rs[r][2] - overlap})
  BY DEF Walk
<1>. HIDE DEF n, L
<1>3. ASSUME NEW r \in 1..(n - 1)
      PROVE  /\ rs[r][1] < rs[r + 1][1] /\ rs[r + 1][1] <= rs[r][2]
             /\ overlap <= max \div 2 + 1 => rs[r][2] < rs[r + 1][2]
  <2> DEFINE s == rs[r][1]
             e == rs[r][2]
             t == rs[r + 1][1]
             f == rs[r + 1][2]
  <2>1. r \in 1..n /\ r + 1 \in 1..n
    BY <1>0
  <2>2. s \in Nat /\ e \in Nat /\ t \in Nat /\ f \in Nat
    BY <1>1, <2>1
  <2>3. s <= L /\ s <= e /\ (s < L => s < e) /\ e < L /\ t = Max({s + 1, e - overlap})
    BY <1>1, <1>2, <2>1
  <2>4. f <= L /\ (f < L => f = t + max \/ f > t + max \div 2 + 1)
    BY <1>1, <2>1
  <2>. HIDE DEF s, e, t, f
  <2>5. t = IF s + 1 >= e - overlap THEN s + 1 ELSE e - overlap
    <3>1. s + 1 \in Int /\ e - overlap \in Int
      BY <1>0, <2>2
    <3>. QED BY <2>3, <3>1, MaxOfTwo
  <2>6. s < t /\ t <= e /\ t >= e - overlap
    BY <1>0, <2>2, <2>3, <2>5
  <2>7. PICK h \in Nat : h = max \div 2
    OBVIOUS
  <2>8. overlap <= h + 1 => e < f
    BY <1>0, <2>2, <2>3, <2>4, <2>6, <2>7
  <2>. QED BY <2>6, <2>7, <2>8 DEF s, e, t, f
<1>4. ASSUME NEW i \in 0..(L - 1) PROVE \E r \in 1..n : rs[r][1] <= i /\ i < rs[r][2]
  <2> DEFINE T == {r \in 1..n : rs[r][1] <= i}
             m == Max(T)
  <2>1. T \in SUBSET Nat /\ (\A y \in T : y <= n) /\ T # {}
    <3>1. 1 \in T
      BY <1>0
    <3>. QED BY <1>0, <3>1
  <2>. HIDE DEF T
  <2>2. m \in T /\ \A y \in T : y <= m
    BY <1>0, <2>1, MaxIs
  <2>. HIDE DEF m
  <2>3. m \in 1..n /\ rs[m][1] <= i
    BY <2>2 DEF T
  <2>4. CASE m = n
    BY <1>0, <2>3, <2>4
  <2>5. CASE m # n
    <3>1. m \in 1..(n - 1) /\ m + 1 \in 1..n /\ ~(m + 1 <= m)
      BY <1>0, <2>3, <2>5
    <3>2. ~(rs[m + 1][1] <= i)
      BY <2>2, <3>1 DEF T
    <3>3. rs[m + 1][1] <= rs[m][2] /\ rs[m + 1][1] \in Nat /\ rs[m][2] \in Nat
      BY <1>1, <1>3, <2>3, <3>1
    <3>. QED BY <1>0, <2>3, <3>2, <3>3
  <2>. QED BY <2>4, <2>5
<1>. QED BY <1>1, <1>3, <1>4 DEF n, L

\* A chunk holds what is not blank in its range, and no more than the limit.
LEMMA StripIs ==
  ASSUME NEW text, NEW range, NEW max \in Nat, range[1] \in Nat, range[2] \in Nat, range[2] <= range[1] + max
  PROVE  /\ \A i \in Nat : range[1] <= i /\ i < range[2] /\ ~Blank(text[i + 1]) => i \in Strip(text, range)
         /\ Cardinality(Strip(text, range)) <= max
<1> DEFINE a == range[1]
           b == range[2]
           letters == {i \in a..(b - 1) : ~Blank(text[i + 1])}
           s == Strip(text, range)
<1>0. a \in Nat /\ b \in Nat /\ b <= a + max
  OBVIOUS
<1>1. s = IF letters = {} THEN {} ELSE Min(letters)..Max(letters)
  BY Zenon DEF Strip
<1>2. letters \in SUBSET (a..(b - 1))
  OBVIOUS
<1>3. \A i \in Nat : a <= i /\ i < b /\ ~Blank(text[i + 1]) => i \in letters
  BY <1>0
<1>. HIDE DEF letters, s, a, b
<1>4. CASE letters = {}
  <2>1. s = {} /\ Cardinality(s) = 0
    BY <1>1, <1>4, FS_EmptySet
  <2>. QED BY <1>3, <1>4, <2>1 DEF a, b, s
<1>5. CASE letters # {}
  <2>1. letters \in SUBSET Nat /\ \A y \in letters : y <= b /\ a <= y /\ y <= b - 1
    BY <1>0, <1>2
  <2>2. Min(letters) \in letters /\ \A y \in letters : Min(letters) <= y
    BY <1>5, <2>1, MinIs
  <2>3. Max(letters) \in letters /\ \A y \in letters : y <= Max(letters)
    BY <1>0, <1>5, <2>1, MaxIs
  <2>4. PICK l \in Nat : l = Min(letters)
    BY <2>1, <2>2
  <2>5. PICK h \in Nat : h = Max(letters)
    BY <2>1, <2>3
  <2>6. s = l..h /\ l <= h /\ a <= l /\ h <= b - 1
    BY <1>1, <1>5, <2>1, <2>2, <2>3, <2>4, <2>5
  <2>7. Cardinality(l..h) = h - l + 1
    <3>1. l \in Int /\ h \in Int /\ ~(l > h)
      BY <2>6
    <3>. QED BY <3>1, FS_Interval
  <2>8. Cardinality(s) <= max
    BY <1>0, <2>6, <2>7
  <2>9. \A i \in letters : i \in s
    BY <2>1, <2>2, <2>3, <2>4, <2>5, <2>6
  <2>. QED BY <1>3, <2>8, <2>9 DEF a, b, s
<1>. QED BY <1>4, <1>5

\* The chunks are the ranges that hold something.
Keeps(chunks, rs, text) ==
  /\ \A c \in DOMAIN chunks : \E r \in 1..Len(rs) : chunks[c] = Strip(text, rs[r]) /\ chunks[c] # {}
  /\ \A r \in 1..Len(rs) : Strip(text, rs[r]) # {} => \E c \in DOMAIN chunks : chunks[c] = Strip(text, rs[r])

\* So they are.
LEMMA ChunksAre ==
  ASSUME NEW text, NEW max, NEW overlap, NEW rs, rs = Ranges(text, max, overlap),
         Len(rs) \in Nat, DOMAIN rs = 1..Len(rs)
  PROVE  Keeps(Chunks(text, max, overlap), rs, text)
<1> DEFINE K == {i \in DOMAIN rs : Strip(text, rs[i]) # {}}
           kept == Sorted(K)
           chunks == Chunks(text, max, overlap)
<1>1. chunks = [k \in DOMAIN kept |-> Strip(text, rs[kept[k]])]
  BY Zenon DEF Chunks, Sorted
<1>2. K \in SUBSET Int /\ IsFiniteSet(K)
  <2>1. IsFiniteSet(1..Len(rs))
    BY FS_Interval
  <2>2. K \in SUBSET (1..Len(rs))
    OBVIOUS
  <2>. HIDE DEF K
  <2>3. IsFiniteSet(K)
    BY <2>1, <2>2, FS_Subset
  <2>. QED BY <2>2, <2>3
<1>3. \A r \in 1..Len(rs) : r \in K <=> Strip(text, rs[r]) # {}
  OBVIOUS
<1>4. K \subseteq 1..Len(rs)
  OBVIOUS
<1>. HIDE DEF K, chunks
<1>5. /\ kept \in [1..Cardinality(K) -> K]
      /\ \A x \in K : \E i \in 1..Cardinality(K) : kept[i] = x
  BY <1>2, SortedIs
<1>. HIDE DEF kept
<1>6. ASSUME NEW c \in DOMAIN chunks
      PROVE  \E r \in 1..Len(rs) : chunks[c] = Strip(text, rs[r]) /\ chunks[c] # {}
  <2>1. chunks[c] = Strip(text, rs[kept[c]]) /\ kept[c] \in K
    BY <1>1, <1>5
  <2>. QED BY <1>3, <1>4, <2>1
<1>7. ASSUME NEW r \in 1..Len(rs), Strip(text, rs[r]) # {}
      PROVE  \E c \in DOMAIN chunks : chunks[c] = Strip(text, rs[r])
  <2>1. PICK i \in 1..Cardinality(K) : kept[i] = r
    BY <1>3, <1>5, <1>7
  <2>. QED BY <1>1, <1>5, <2>1
<1>. QED BY <1>6, <1>7 DEF chunks, Keeps

\* The input: the content of a section, and how it is cut.
Sectioned == call.fn = "chunk" =>
  Len(call.text) \in Nat /\ call.max \in Nat \ {0} /\ call.overlap \in 0..(call.max - 1)

\* Initially it is one.
LEMMA InitSectioned == Init => Sectioned
<1>1. ASSUME Contents PROVE Sectioned
  <2>1. \E n \in 1..MaxText, max \in 1..MaxChunk : \E S : \E text \in [1..n -> S], overlap \in 0..(max - 1) :
          call = [fn |-> "chunk", text |-> text, max |-> max, overlap |-> overlap]
    BY <1>1, Zenon DEF Contents
  <2>a. PICK n \in 1..MaxText, max \in 1..MaxChunk : \E S : \E text \in [1..n -> S], overlap \in 0..(max - 1) :
          call = [fn |-> "chunk", text |-> text, max |-> max, overlap |-> overlap]
    BY <2>1
  <2>2. PICK S : \E text \in [1..n -> S], overlap \in 0..(max - 1) :
          call = [fn |-> "chunk", text |-> text, max |-> max, overlap |-> overlap]
    BY <2>a
  <2>b. PICK text \in [1..n -> S], overlap \in 0..(max - 1) :
          call = [fn |-> "chunk", text |-> text, max |-> max, overlap |-> overlap]
    BY <2>2
  <2>0. MaxText \in Nat /\ MaxChunk \in Nat
    BY AlgorithmsAssumption
  <2>3. n \in Nat /\ max \in Nat \ {0}
    BY <2>0
  <2>4. Len(text) \in Nat
    BY <2>3
  <2>. QED BY <2>b, <2>3, <2>4 DEF Sectioned
<1>. QED BY <1>1, CallsDiffer DEF Init, Sectioned

\* The chunks of a section hold what is not blank in it.
LEMMA SectionIsCovered ==
  ASSUME Sectioned, Chunk
  PROVE  ChunksCoverSection'
<1> DEFINE text == call.text
           max == call.max
           overlap == call.overlap
           rs == Ranges(text, max, overlap)
           cs == Chunks(text, max, overlap)
<1>1. /\ Len(text) \in Nat /\ max \in Nat \ {0} /\ overlap \in 0..(max - 1) /\ overlap \in Nat
      /\ call' = call /\ out'.ranges = rs /\ out'.chunks = cs
  BY DEF Chunk, Returns, Sectioned
<1> DEFINE Good(ranges, chunks) ==
             /\ \A i \in 0..(Len(text) - 1) : ~Blank(text[i + 1]) => \E c \in DOMAIN chunks : i \in chunks[c]
             /\ \A c \in DOMAIN chunks : chunks[c] # {} /\ Cardinality(chunks[c]) <= max
             /\ \A r \in 1..(Len(ranges) - 1) :
                  /\ ranges[r][1] < ranges[r + 1][1] /\ ranges[r + 1][1] <= ranges[r][2]
                  /\ overlap <= max \div 2 + 1 => ranges[r][2] < ranges[r + 1][2]
<1>2. SUFFICES Good(rs, cs)
  <2>1. Good(out'.ranges, out'.chunks)
    <3>. HIDE DEF Good, rs, cs
    <3>. QED BY <1>1, <1>2, Zenon
  <2>. QED BY <1>1, <2>1, Zenon DEF ChunksCoverSection
<1>3. Walk(rs, 0, text, max, overlap)
  BY <1>1, RangesWalk
<1>. HIDE DEF rs, cs, text, max, overlap
<1>4. Len(rs) \in Nat /\ DOMAIN rs = 1..Len(rs)
  BY <1>3, LenProperties DEF Walk
<1>5. /\ \A r \in 1..Len(rs) : /\ rs[r][1] \in Nat /\ rs[r][2] \in Nat /\ rs[r][1] <= rs[r][2]
                               /\ rs[r][2] <= rs[r][1] + max
      /\ \A r \in 1..(Len(rs) - 1) :
           /\ rs[r][1] < rs[r + 1][1] /\ rs[r + 1][1] <= rs[r][2]
           /\ overlap <= max \div 2 + 1 => rs[r][2] < rs[r + 1][2]
      /\ \A i \in 0..(Len(text) - 1) : \E r \in 1..Len(rs) : rs[r][1] <= i /\ i < rs[r][2]
  BY <1>1, <1>3, RangesCover
<1>6. Keeps(cs, rs, text)
  BY <1>4, ChunksAre DEF rs, cs
<1>7. ASSUME NEW r \in 1..Len(rs)
      PROVE  /\ \A i \in Nat : rs[r][1] <= i /\ i < rs[r][2] /\ ~Blank(text[i + 1]) => i \in Strip(text, rs[r])
             /\ Cardinality(Strip(text, rs[r])) <= max
  <2>1. rs[r][1] \in Nat /\ rs[r][2] \in Nat /\ rs[r][2] <= rs[r][1] + max /\ max \in Nat
    BY <1>1, <1>5
  <2>. QED BY <2>1, StripIs
<1>8. ASSUME NEW i \in 0..(Len(text) - 1), ~Blank(text[i + 1]) PROVE \E c \in DOMAIN cs : i \in cs[c]
  <2>1. PICK r \in 1..Len(rs) : rs[r][1] <= i /\ i < rs[r][2]
    BY <1>5
  <2>2. i \in Strip(text, rs[r])
    BY <1>1, <1>7, <1>8, <2>1
  <2>. QED BY <1>6, <2>2 DEF Keeps
<1>9. ASSUME NEW c \in DOMAIN cs PROVE cs[c] # {} /\ Cardinality(cs[c]) <= max
  BY <1>6, <1>7 DEF Keeps
<1>. QED BY <1>5, <1>8, <1>9

\* Nothing of a section is lost when it is cut: every character that is not blank is in a
\* chunk, none is longer than the limit, the ranges go forward without a gap, and none is
\* inside the one before it; for texts, limits and overlaps of every size.
\* (chunk_sections)
THEOREM ChunksCoverSections == Spec => []ChunksCoverSection
<1> DEFINE Inv == (at = "called" => Sectioned) /\ ChunksCoverSection
<1>1. Init => Inv
  BY InitSectioned DEF ChunksCoverSection, Returned, Init
<1>2. Inv /\ [Next]_vars => Inv'
  <2> SUFFICES ASSUME Inv, [Next]_vars PROVE Inv'
    OBVIOUS
  <2>1. CASE UNCHANGED vars
    BY <2>1 DEF vars, Sectioned, ChunksCoverSection, Returned
  <2>2. CASE Chunk
    BY <2>2, SectionIsCovered DEF Chunk, Returns
  <2>3. CASE Parse \/ EmbedTexts \/ RerankHits \/ Rank \/ DescribeResult \/ Import
    BY <2>3 DEF Parse, EmbedTexts, RerankHits, Rank, DescribeResult, Import, Returns, ChunksCoverSection, Returned
  <2>. QED BY <2>1, <2>2, <2>3 DEF Next
<1>3. Inv => ChunksCoverSection
  OBVIOUS
<1>. HIDE DEF Inv
<1>. QED BY <1>1, <1>2, <1>3, PTL DEF Spec

----------------------------------------------------------------------------
(* The sections of a document *)

\* What sections may be made of n lines.
Titles(lines, n) == {lines[i] : i \in 1..n} \cup {"default"}
Sections(lines, n) == [title : Titles(lines, n), first : Nat, last : Nat, content : SUBSET Nat]

\* The sections hold the text of the lines before b, where they say, under its heading.
Located(ss, lines, b) ==
  /\ \A i \in 1..Len(ss) : /\ ss[i].last < b
                           /\ \A j \in ss[i].content : /\ ss[i].first <= j /\ j <= ss[i].last
                                                       /\ ss[i].title = Above(lines, j)
  /\ \A i, j \in 1..Len(ss) : i < j => ss[i].last < ss[j].first
  /\ \A j \in 1..(b - 1) : lines[j] = "text" => \E i \in 1..Len(ss) : j \in ss[i].content

\* What flush makes of the lines since the last heading.
LEMMA FlushIs ==
  ASSUME NEW lines, NEW n \in Nat, NEW acc, NEW end \in Nat,
         acc.sections \in Seq(Sections(lines, n)), acc.heading \in Titles(lines, n),
         acc.from \in Nat, acc.body \in SUBSET Nat
  PROVE  /\ Flush(lines, acc, end) \in Seq(Sections(lines, n))
         /\ /\ acc.from > 0 /\ acc.from <= end + 1 /\ Located(acc.sections, lines, acc.from)
            /\ acc.body = {j \in acc.from..end : ~IsHeading(lines[j])}
            /\ \A j \in acc.body : Above(lines, j) = acc.heading
            => Located(Flush(lines, acc, end), lines, end + 1)
<1> DEFINE content == {j \in acc.body : lines[j] = "text"}
           last == Max({acc.from, end})
           s == [title |-> acc.heading, first |-> acc.from, last |-> last, content |-> content]
           old == acc.sections
           new == Flush(lines, acc, end)
           S == Sections(lines, n)
<1>1. new = IF content = {} THEN old ELSE Append(old, s)
  BY Zenon DEF Flush
<1>2. last = (IF acc.from >= end THEN acc.from ELSE end) /\ last \in Nat
  BY MaxOfTwo
<1>3. content \in SUBSET Nat
  OBVIOUS
<1>a. \A j \in acc.body : lines[j] = "text" <=> j \in content
  OBVIOUS
<1>b. content \subseteq acc.body
  OBVIOUS
<1>. HIDE DEF content, last
<1>4. s \in S
  BY <1>2, <1>3 DEF Sections
<1>5. s.title = acc.heading /\ s.first = acc.from /\ s.last = last /\ s.content = content
  OBVIOUS
<1>. HIDE DEF s, S, new, old
<1>0. old \in Seq(S)
  BY DEF old, S
<1>6. new \in Seq(S)
  BY <1>0, <1>1, <1>4
<1>7. ASSUME acc.from > 0, acc.from <= end + 1, Located(old, lines, acc.from),
             acc.body = {j \in acc.from..end : ~IsHeading(lines[j])},
             \A j \in acc.body : Above(lines, j) = acc.heading
      PROVE  Located(new, lines, end + 1)
  <2> DEFINE m == Len(old)
  <2>0. m \in Nat /\ \A i \in 1..m : old[i].last \in Nat /\ old[i].first \in Nat
    <3>1. m \in Nat /\ \A i \in 1..m : old[i] \in S
      BY <1>0, LenProperties, ElementOfSeq
    <3>. QED BY <3>1 DEF S, Sections
  <2>1. \A j \in acc.from..end : lines[j] = "text" => j \in content
    <3>1. \A j \in acc.from..end : lines[j] = "text" => j \in acc.body
      BY <1>7 DEF IsHeading
    <3>. QED BY <1>a, <3>1
  <2>2. \A j \in content : acc.from <= j /\ j <= end /\ Above(lines, j) = acc.heading
    BY <1>7, <1>b
  <2>3. /\ \A i \in 1..m : /\ old[i].last < acc.from
                           /\ \A j \in old[i].content : /\ old[i].first <= j /\ j <= old[i].last
                                                        /\ old[i].title = Above(lines, j)
        /\ \A i, j \in 1..m : i < j => old[i].last < old[j].first
        /\ \A j \in 1..(acc.from - 1) : lines[j] = "text" => \E i \in 1..m : j \in old[i].content
    BY <1>7 DEF Located
  <2>. HIDE DEF m
  <2>4. \A i \in 1..m : old[i].last < end + 1
    BY <1>7, <2>0, <2>3
  <2>5. \A j \in 1..end : j \in 1..(acc.from - 1) \/ j \in acc.from..end
    BY <1>7
  <2>6. CASE content = {}
    <3>1. \A j \in 1..((end + 1) - 1) : lines[j] = "text" => \E i \in 1..m : j \in old[i].content
      BY <2>1, <2>3, <2>5, <2>6
    <3>. QED BY <1>1, <2>3, <2>4, <2>6, <3>1 DEF Located, m
  <2>7. CASE content # {}
    <3>0. new = Append(old, s)
      BY <1>1, <2>7
    <3>1. /\ Len(new) = m + 1 /\ new[m + 1] = s /\ \A i \in 1..m : new[i] = old[i]
      BY <1>0, <1>4, <3>0 DEF m
    <3>2. last = end
      <4>1. PICK j \in content : TRUE
        BY <2>7
      <4>. QED BY <1>2, <1>3, <2>2, <4>1
    <3>3. \A i \in 1..(m + 1) : i = m + 1 \/ i \in 1..m
      BY <2>0
    <3>4. ASSUME NEW i \in 1..(m + 1)
          PROVE  /\ new[i].last < end + 1
                 /\ \A j \in new[i].content : /\ new[i].first <= j /\ j <= new[i].last
                                              /\ new[i].title = Above(lines, j)
      <4>1. CASE i = m + 1
        BY <1>5, <2>2, <3>1, <3>2, <4>1
      <4>2. CASE i \in 1..m
        BY <2>3, <2>4, <3>1, <4>2
      <4>. QED BY <3>3, <4>1, <4>2
    <3>5. ASSUME NEW i \in 1..(m + 1), NEW j \in 1..(m + 1), i < j PROVE new[i].last < new[j].first
      <4>0. i \in 1..m
        BY <2>0, <3>5
      <4>1. CASE j = m + 1
        BY <1>5, <2>3, <3>1, <4>0, <4>1
      <4>2. CASE j \in 1..m
        BY <2>3, <3>1, <3>5, <4>0, <4>2
      <4>. QED BY <3>3, <4>1, <4>2
    <3>6. ASSUME NEW j \in 1..((end + 1) - 1), lines[j] = "text" PROVE \E i \in 1..(m + 1) : j \in new[i].content
      <4>0. m + 1 \in 1..(m + 1) /\ \A i \in 1..m : i \in 1..(m + 1)
        BY <2>0
      <4>1. CASE j \in acc.from..end
        BY <1>5, <2>1, <3>1, <3>6, <4>0, <4>1
      <4>2. CASE j \in 1..(acc.from - 1)
        BY <2>3, <3>1, <3>6, <4>0, <4>2
      <4>3. j \in 1..end
        OBVIOUS
      <4>. QED BY <2>5, <4>1, <4>2, <4>3
    <3>. QED BY <3>1, <3>4, <3>5, <3>6 DEF Located
  <2>. QED BY <2>6, <2>7
<1>. QED BY <1>6, <1>7 DEF new, old, S

\* What _parse_markdown does with a line, and what it starts with.
ReadLine(acc, k, lines) ==
  IF IsHeading(lines[k])
  THEN [sections |-> Flush(lines, acc, k - 1), heading |-> lines[k], from |-> k, body |-> {}]
  ELSE [acc EXCEPT !.body = @ \cup {k}]
NoneRead == [sections |-> <<>>, heading |-> "default", from |-> 1, body |-> {}]

\* _parse_markdown reads one line after the other, and flushes at the end.
LEMMA ParseMarkdownSteps ==
  ASSUME NEW n \in Nat, NEW S, NEW lines \in [1..n -> S]
  PROVE  \E h : /\ h[0] = NoneRead
                /\ ParseMarkdown(lines) = Flush(lines, h[n], n)
                /\ \A k \in 1..n : h[k] = ReadLine(h[k - 1], k, lines)
                /\ \A k \in 0..n : /\ h[k].sections \in Seq(Sections(lines, n)) /\ h[k].heading \in Titles(lines, n)
                                   /\ h[k].from \in Nat /\ h[k].body \in SUBSET Nat
<1> DEFINE A == [sections : Seq(Sections(lines, n)), heading : Titles(lines, n), from : Nat, body : SUBSET Nat]
           step == [p \in A \X (1..n) |-> ReadLine(p[1], p[2], lines)]
           s == [i \in DOMAIN lines |-> i]
           On(f_1, q) == f_1 = [t \in SUBSET (1..n) |-> IF t = {} THEN NoneRead ELSE ReadLine(f_1[t \ {Max(t)}], q[Max(t)], lines)]
<1>0. n \in Nat /\ DOMAIN lines = 1..n /\ Len(lines) = n /\ lines \in Seq(S)
  OBVIOUS
<1>1. DOMAIN s = 1..n /\ \A i \in 1..n : s[i] = i
  OBVIOUS
<1>2. ASSUME NEW a \in A, NEW i \in 1..n
      PROVE  step[<<a, i>>] = ReadLine(a, i, lines) /\ step[<<a, i>>] \in A
  <2>1. /\ a.sections \in Seq(Sections(lines, n)) /\ a.heading \in Titles(lines, n)
        /\ a.from \in Nat /\ a.body \in SUBSET Nat
    OBVIOUS
  <2>2. i - 1 \in Nat /\ i \in Nat
    OBVIOUS
  <2>3. Flush(lines, a, i - 1) \in Seq(Sections(lines, n))
    BY <2>1, <2>2, FlushIs
  <2>4. lines[i] \in Titles(lines, n)
    BY DEF Titles
  <2>5. ReadLine(a, i, lines) \in A
    <3> DEFINE x == Flush(lines, a, i - 1)
               y == lines[i]
               z == a.body \cup {i}
    <3>1. z \in SUBSET Nat
      BY <2>1, <2>2
    <3>2. ReadLine(a, i, lines) = IF IsHeading(y) THEN [sections |-> x, heading |-> y, from |-> i, body |-> {}]
                                  ELSE [a EXCEPT !.body = z]
      BY Zenon DEF ReadLine
    <3>. HIDE DEF x, y, z
    <3>3. x \in Seq(Sections(lines, n)) /\ y \in Titles(lines, n)
      BY <2>3, <2>4 DEF x, y
    <3>. QED BY <2>2, <3>1, <3>2, <3>3
  <2>. QED BY <2>5
<1>3. NoneRead \in A
  <2>1. <<>> \in Seq(Sections(lines, n)) /\ "default" \in Titles(lines, n) /\ {} \in SUBSET Nat
    BY DEF Titles
  <2>. QED BY <2>1 DEF NoneRead
<1>. HIDE DEF step, s
<1>a. \A a \in A, i \in 1..n : step[<<a, i>>] \in A
  BY <1>2
<1>b. \A a \in A : /\ a.sections \in Seq(Sections(lines, n)) /\ a.heading \in Titles(lines, n)
                   /\ a.from \in Nat /\ a.body \in SUBSET Nat
  OBVIOUS
<1>. HIDE DEF A
<1>4. PICK f : Folds(n, NoneRead, step, f) /\ \A t \in SUBSET (1..n) : f[t] \in A
  BY <1>3, <1>a, FoldExists
<1>5. ASSUME NEW t \in SUBSET (1..n), t # {}
      PROVE  /\ step[<<f[t \ {Max(t)}], Max(t)>>] = ReadLine(f[t \ {Max(t)}], s[Max(t)], lines)
  <2>1. t \in SUBSET Nat /\ \A y \in t : y <= n
    OBVIOUS
  <2>2. Max(t) \in 1..n
    BY <1>5, <2>1, MaxIs
  <2>3. f[t \ {Max(t)}] \in A
    BY <1>4
  <2>. QED BY <1>1, <1>2, <2>2, <2>3
<1>6. On(f, s)
  BY <1>4, <1>5 DEF Folds
<1> DEFINE g == CHOOSE f_1 : On(f_1, s)
<1>7. On(g, s)
  BY <1>6
<1>8. ParseMarkdown(lines) = Flush(lines, g[1..n], n)
  <2> DEFINE read(acc, k) == ReadLine(acc, k, lines)
  <2>1. ParseMarkdown(lines) = Flush(lines, FoldLeft(read, NoneRead, s), Len(lines))
    BY Zenon DEF ParseMarkdown, FoldLeftDomain, NoneRead, ReadLine, s, FoldLeft, MapThenFoldSet
  <2>2. FoldLeft(read, NoneRead, s) = g[1..n]
    BY <1>1, Zenon DEF FoldLeft, MapThenFoldSet
  <2>. QED BY <1>0, <2>1, <2>2, Zenon
<1>. HIDE DEF g
<1>9. g[1..0] = NoneRead
  <2>1. 1..0 = {} /\ {} \in SUBSET (1..n)
    OBVIOUS
  <2>. QED BY <1>7, <2>1
<1>10. ASSUME NEW k \in 1..n PROVE g[1..k] = ReadLine(g[1..(k - 1)], k, lines)
  <2>0. k \in Nat \ {0} /\ 1..k \in SUBSET (1..n)
    OBVIOUS
  <2>1. 1..k # {} /\ Max(1..k) = k /\ (1..k) \ {k} = 1..(k - 1)
    BY <2>0, LastOf
  <2>2. \A t \in SUBSET (1..n) : g[t] = IF t = {} THEN NoneRead ELSE ReadLine(g[t \ {Max(t)}], s[Max(t)], lines)
    BY <1>7
  <2>3. g[1..k] = ReadLine(g[(1..k) \ {Max(1..k)}], s[Max(1..k)], lines)
    BY <2>0, <2>1, <2>2
  <2>. QED BY <1>1, <2>1, <2>3
<1> DEFINE h == [k \in 0..n |-> g[1..k]]
           G == {k \in 0..n : h[k] \in A}
<1>11. h[0] = NoneRead /\ h[n] = g[1..n] /\ \A k \in 1..n : h[k] = ReadLine(h[k - 1], k, lines)
  BY <1>9, <1>10
<1>. HIDE DEF h
<1>12. 0..n \subseteq G
  <2>1. 0 \in G
    BY <1>3, <1>11
  <2>2. ASSUME NEW i \in 0..(n - 1), i \in G PROVE i + 1 \in G
    <3>1. i + 1 \in 1..n /\ i + 1 \in 0..n /\ (i + 1) - 1 = i /\ h[i] \in A
      BY <2>2
    <3>2. h[i + 1] = ReadLine(h[i], i + 1, lines)
      BY <1>11, <3>1
    <3>3. h[i + 1] \in A
      BY <1>2, <3>1, <3>2
    <3>. QED BY <3>1, <3>3
  <2>. QED BY <2>1, <2>2, UpTo
<1>13. \A k \in 0..n : h[k] \in A
  BY <1>12
<1>14. ParseMarkdown(lines) = Flush(lines, h[n], n)
  BY <1>8, <1>11
<1>15. \A k \in 0..n : /\ h[k].sections \in Seq(Sections(lines, n)) /\ h[k].heading \in Titles(lines, n)
                       /\ h[k].from \in Nat /\ h[k].body \in SUBSET Nat
  BY <1>13, <1>b
<1>. QED BY <1>11, <1>14, <1>15, Zenon

\* The heading above the line after a heading, and after any other line.
LEMMA AboveIs ==
  ASSUME NEW lines, NEW k \in Nat \ {0}
  PROVE  /\ IsHeading(lines[k]) => Above(lines, k + 1) = lines[k]
         /\ ~IsHeading(lines[k]) => Above(lines, k + 1) = Above(lines, k)
<1> DEFINE hs(j) == {h \in 1..(j - 1) : IsHeading(lines[h])}
<1>0. \A j : Above(lines, j) = IF hs(j) = {} THEN "default" ELSE lines[Max(hs(j))]
  BY Zenon DEF Above
<1>1. \A j \in 1..((k + 1) - 1) : j = k \/ j \in 1..(k - 1)
  OBVIOUS
<1>2. k \in 1..((k + 1) - 1) /\ \A j \in 1..(k - 1) : j \in 1..((k + 1) - 1)
  OBVIOUS
<1>3. CASE ~IsHeading(lines[k])
  <2>1. hs(k + 1) = hs(k)
    BY <1>1, <1>2, <1>3
  <2>. HIDE DEF hs
  <2>. QED BY <1>0, <1>3, <2>1
<1>4. CASE IsHeading(lines[k])
  <2>1. k \in hs(k + 1) /\ hs(k + 1) \in SUBSET Nat /\ \A y \in hs(k + 1) : y <= k
    BY <1>1, <1>2, <1>4
  <2>. HIDE DEF hs
  <2>2. Max(hs(k + 1)) \in hs(k + 1) /\ \A y \in hs(k + 1) : y <= Max(hs(k + 1))
    BY <2>1, MaxIs
  <2>3. Max(hs(k + 1)) = k
    BY <2>1, <2>2
  <2>. QED BY <1>0, <1>4, <2>1, <2>3
<1>. QED BY <1>3, <1>4

\* What _parse_markdown has after the first k lines.
Reads(acc, lines, k) ==
  /\ acc.from > 0 /\ acc.from <= k + 1 /\ Located(acc.sections, lines, acc.from)
  /\ acc.body = {j \in acc.from..k : ~IsHeading(lines[j])}
  /\ \A j \in acc.body : Above(lines, j) = acc.heading
  /\ acc.heading = Above(lines, k + 1)

\* A line more keeps it.
LEMMA ReadLineIs ==
  ASSUME NEW lines, NEW n \in Nat, NEW k \in 1..n, NEW acc,
         acc.sections \in Seq(Sections(lines, n)), acc.heading \in Titles(lines, n),
         acc.from \in Nat, acc.body \in SUBSET Nat, Reads(acc, lines, k - 1),
         NEW new, new = ReadLine(acc, k, lines)
  PROVE  Reads(new, lines, k)
<1>0. k \in Nat \ {0} /\ k - 1 \in Nat /\ (k - 1) + 1 = k
  OBVIOUS
<1>1. /\ acc.from > 0 /\ acc.from <= (k - 1) + 1 /\ Located(acc.sections, lines, acc.from)
      /\ acc.body = {j \in acc.from..(k - 1) : ~IsHeading(lines[j])}
      /\ \A j \in acc.body : Above(lines, j) = acc.heading
      /\ acc.heading = Above(lines, (k - 1) + 1)
  BY DEF Reads
<1>2. CASE IsHeading(lines[k])
  <2> DEFINE ss == Flush(lines, acc, k - 1)
  <2>1. Located(ss, lines, (k - 1) + 1)
    BY <1>0, <1>1, FlushIs
  <2>2. new = [sections |-> ss, heading |-> lines[k], from |-> k, body |-> {}]
    BY <1>2, Zenon DEF ReadLine
  <2>. HIDE DEF ss
  <2>3. new.sections = ss /\ new.heading = lines[k] /\ new.from = k /\ new.body = {}
    BY <2>2
  <2>4. Above(lines, k + 1) = lines[k]
    BY <1>0, <1>2, AboveIs
  <2>5. \A j \in k..k : IsHeading(lines[j])
    BY <1>0, <1>2
  <2>. QED BY <1>0, <2>1, <2>3, <2>4, <2>5 DEF Reads
<1>3. CASE ~IsHeading(lines[k])
  <2>1. new = [acc EXCEPT !.body = acc.body \cup {k}]
    BY <1>3, Zenon DEF ReadLine
  <2>2. new.sections = acc.sections /\ new.heading = acc.heading /\ new.from = acc.from
    BY <2>1
  <2>3. new.body = acc.body \cup {k}
    BY <2>1
  <2>4. Above(lines, k + 1) = Above(lines, k)
    BY <1>0, <1>3, AboveIs
  <2>5. \A j \in acc.from..k : j = k \/ j \in acc.from..(k - 1)
    BY <1>0
  <2>6. k \in acc.from..k /\ \A j \in acc.from..(k - 1) : j \in acc.from..k
    BY <1>0, <1>1
  <2>7. new.body = {j \in acc.from..k : ~IsHeading(lines[j])}
    BY <1>1, <1>3, <2>3, <2>5, <2>6
  <2>8. Above(lines, (k - 1) + 1) = Above(lines, k)
    BY <1>0
  <2>9. \A j \in new.body : Above(lines, j) = acc.heading
    BY <1>1, <2>3, <2>8
  <2>10. acc.from <= k + 1
    BY <1>0, <1>1
  <2>. QED BY <1>1, <2>2, <2>4, <2>7, <2>8, <2>9, <2>10 DEF Reads
<1>. QED BY <1>2, <1>3

\* The sections of a markdown text hold its text, where they say.
LEMMA MarkdownIsLocated ==
  ASSUME NEW n \in Nat, NEW S, NEW lines \in [1..n -> S]
  PROVE  /\ ParseMarkdown(lines) \in Seq(Sections(lines, n))
         /\ Located(ParseMarkdown(lines), lines, n + 1)
<1>1. PICK h : /\ h[0] = NoneRead
               /\ ParseMarkdown(lines) = Flush(lines, h[n], n)
               /\ \A k \in 1..n : h[k] = ReadLine(h[k - 1], k, lines)
               /\ \A k \in 0..n : /\ h[k].sections \in Seq(Sections(lines, n)) /\ h[k].heading \in Titles(lines, n)
                                  /\ h[k].from \in Nat /\ h[k].body \in SUBSET Nat
  BY ParseMarkdownSteps
<1> DEFINE G == {k \in 0..n : Reads(h[k], lines, k)}
<1>2. 0 \in G
  <2>1. h[0].sections = <<>> /\ h[0].heading = "default" /\ h[0].from = 1 /\ h[0].body = {}
    BY <1>1 DEF NoneRead
  <2>2. Above(lines, 0 + 1) = "default"
    <3>1. {h_1 \in 1..((0 + 1) - 1) : IsHeading(lines[h_1])} = {}
      OBVIOUS
    <3>. QED BY <3>1, Zenon DEF Above
  <2>3. Located(<<>>, lines, 1)
    BY DEF Located
  <2>4. 1..0 = {}
    OBVIOUS
  <2>5. Reads(h[0], lines, 0)
    BY <2>1, <2>2, <2>3, <2>4 DEF Reads
  <2>. QED BY <2>5
<1>3. ASSUME NEW i \in 0..(n - 1), i \in G PROVE i + 1 \in G
  <2>1. i + 1 \in 1..n /\ i + 1 \in 0..n /\ (i + 1) - 1 = i /\ i \in 0..n
    OBVIOUS
  <2>2. h[i + 1] = ReadLine(h[i], i + 1, lines) /\ Reads(h[i], lines, (i + 1) - 1)
    BY <1>1, <1>3, <2>1
  <2>3. /\ h[i].sections \in Seq(Sections(lines, n)) /\ h[i].heading \in Titles(lines, n)
        /\ h[i].from \in Nat /\ h[i].body \in SUBSET Nat
    BY <1>1, <2>1
  <2>4. Reads(h[i + 1], lines, i + 1)
    BY <2>1, <2>2, <2>3, ReadLineIs
  <2>. QED BY <2>1, <2>4
<1>4. 0..n \subseteq G
  BY <1>2, <1>3, UpTo
<1>5. PICK acc : acc = h[n]
  OBVIOUS
<1>6. /\ acc.sections \in Seq(Sections(lines, n)) /\ acc.heading \in Titles(lines, n)
      /\ acc.from \in Nat /\ acc.body \in SUBSET Nat
  BY <1>1, <1>5
<1>7. /\ acc.from > 0 /\ acc.from <= n + 1 /\ Located(acc.sections, lines, acc.from)
      /\ acc.body = {j \in acc.from..n : ~IsHeading(lines[j])}
      /\ \A j \in acc.body : Above(lines, j) = acc.heading
  BY <1>4, <1>5 DEF Reads
<1>8. /\ Flush(lines, acc, n) \in Seq(Sections(lines, n))
      /\ Located(Flush(lines, acc, n), lines, n + 1)
  BY <1>6, <1>7, FlushIs
<1>. QED BY <1>1, <1>5, <1>8, Zenon

\* Every line of text is in one section, and the sections do not overlap.
Placed(ss, lines, titled) ==
  /\ \A n \in {k \in DOMAIN lines : lines[k] = "text"} : \E i \in DOMAIN ss :
       /\ {j \in DOMAIN ss : n \in ss[j].content} = {i}
       /\ n \in ss[i].first..ss[i].last
       /\ titled => ss[i].title = Above(lines, n)
  /\ \A i, j \in DOMAIN ss : i < j => ss[i].last < ss[j].first
  /\ \A i \in DOMAIN ss : ss[i].last <= Len(lines)

\* The sections of a markdown text are such sections.
LEMMA MarkdownIsPlaced ==
  ASSUME NEW n \in Nat, NEW S, NEW lines \in [1..n -> S]
  PROVE  Placed(ParseMarkdown(lines), lines, TRUE)
<1> DEFINE ss == ParseMarkdown(lines)
<1>1. ss \in Seq(Sections(lines, n)) /\ Located(ss, lines, n + 1)
  BY MarkdownIsLocated
<1>. HIDE DEF ss
<1>2. Len(ss) \in Nat /\ DOMAIN ss = 1..Len(ss) /\ Len(lines) = n /\ DOMAIN lines = 1..n
  BY <1>1, LenProperties
<1>3. ASSUME NEW i \in 1..Len(ss)
      PROVE  ss[i].first \in Nat /\ ss[i].last \in Nat /\ ss[i].content \in SUBSET Nat
  <2>1. ss[i] \in Sections(lines, n)
    BY <1>1, <1>2, ElementOfSeq
  <2>. QED BY <2>1 DEF Sections
<1>4. /\ \A i \in 1..Len(ss) : /\ ss[i].last < n + 1
                               /\ \A j \in ss[i].content : /\ ss[i].first <= j /\ j <= ss[i].last
                                                           /\ ss[i].title = Above(lines, j)
      /\ \A i, j \in 1..Len(ss) : i < j => ss[i].last < ss[j].first
      /\ \A j \in 1..((n + 1) - 1) : lines[j] = "text" => \E i \in 1..Len(ss) : j \in ss[i].content
  BY <1>1 DEF Located
<1>5. ASSUME NEW k \in 1..n, lines[k] = "text"
      PROVE  \E i \in 1..Len(ss) : /\ {j \in 1..Len(ss) : k \in ss[j].content} = {i}
                                   /\ k \in ss[i].first..ss[i].last
                                   /\ ss[i].title = Above(lines, k)
  <2>1. PICK i \in 1..Len(ss) : k \in ss[i].content
    BY <1>4, <1>5
  <2>2. ASSUME NEW j \in 1..Len(ss), k \in ss[j].content PROVE j = i
    <3>1. /\ ss[i].first <= k /\ k <= ss[i].last /\ ss[j].first <= k /\ k <= ss[j].last
      BY <1>4, <2>1, <2>2
    <3>2. /\ ss[i].first \in Nat /\ ss[i].last \in Nat /\ ss[j].first \in Nat /\ ss[j].last \in Nat
      BY <1>3
    <3>3. ~(i < j) /\ ~(j < i)
      BY <1>4, <3>1, <3>2
    <3>. QED BY <1>2, <3>3
  <2>3. {j \in 1..Len(ss) : k \in ss[j].content} = {i}
    BY <2>1, <2>2
  <2>4. k \in ss[i].first..ss[i].last /\ ss[i].title = Above(lines, k)
    BY <1>3, <1>4, <2>1
  <2>. QED BY <2>3, <2>4
<1>6. \A i \in 1..Len(ss) : ss[i].last <= n
  BY <1>3, <1>4
<1>. QED BY <1>2, <1>4, <1>5, <1>6 DEF Placed, ss

\* The sections of the pages of a PDF are such sections.
LEMMA PagesArePlaced ==
  ASSUME NEW n \in Nat, NEW S, NEW pages \in [1..n -> S]
  PROVE  Placed(ParsePdf(pages), pages, FALSE)
<1> DEFINE K == {i \in DOMAIN pages : pages[i] # "blank"}
           numbers == Sorted(K)
           ss == ParsePdf(pages)
<1>1. ss = [j \in DOMAIN numbers |-> [title |-> "page", first |-> numbers[j], last |-> numbers[j],
                                      content |-> {numbers[j]}]]
  BY Zenon DEF ParsePdf, Sorted
<1>2. DOMAIN pages = 1..n /\ Len(pages) = n /\ K \in SUBSET (1..n) /\ K \in SUBSET Int
  OBVIOUS
<1>3. IsFiniteSet(K)
  <2>1. IsFiniteSet(1..n)
    BY FS_Interval
  <2>. HIDE DEF K
  <2>. QED BY <1>2, <2>1, FS_Subset
<1>4. \A k \in 1..n : pages[k] = "text" => k \in K
  OBVIOUS
<1>. HIDE DEF K, ss
<1>5. /\ numbers \in [1..Cardinality(K) -> K] /\ Cardinality(K) \in Nat
      /\ \A x \in K : \E i \in 1..Cardinality(K) : numbers[i] = x
      /\ \A i, j \in 1..Cardinality(K) : i < j <=> numbers[i] < numbers[j]
      /\ \A i, j \in 1..Cardinality(K) : numbers[i] = numbers[j] => i = j
  BY <1>2, <1>3, SortedIs
<1>. HIDE DEF numbers
<1> DEFINE m == Cardinality(K)
<1>6. /\ DOMAIN ss = 1..m
      /\ \A i \in 1..m : /\ ss[i].first = numbers[i] /\ ss[i].last = numbers[i] /\ ss[i].content = {numbers[i]}
                         /\ numbers[i] \in 1..n
  BY <1>1, <1>2, <1>5
<1>7. ASSUME NEW k \in 1..n, pages[k] = "text"
      PROVE  \E i \in 1..m : {j \in 1..m : k \in ss[j].content} = {i} /\ k \in ss[i].first..ss[i].last
  <2>1. PICK i \in 1..m : numbers[i] = k
    BY <1>4, <1>5, <1>7
  <2>2. {j \in 1..m : k \in ss[j].content} = {i}
    BY <1>5, <1>6, <2>1
  <2>3. k \in ss[i].first..ss[i].last
    BY <1>6, <2>1
  <2>. QED BY <2>2, <2>3
<1>8. \A i, j \in 1..m : i < j => ss[i].last < ss[j].first
  BY <1>5, <1>6
<1>9. \A i \in 1..m : ss[i].last <= n
  BY <1>6
<1>. QED BY <1>2, <1>6, <1>7, <1>8, <1>9 DEF Placed, ss

\* The input: a document of some lines, none if it is empty.
Uploaded == call.fn = "parse" =>
  \E n \in Nat : \E S : /\ call.doc.lines \in [1..n -> S]
                        /\ call.doc.size \in Nat /\ (call.doc.size = 0 => n = 0)

\* Initially it is one.
LEMMA InitUploaded == Init => Uploaded
<1>1. ASSUME Uploads PROVE Uploaded
  <2>1. \E type : \E size \in DocumentSizes : \E n \in 0..MaxLines : \E S : \E lines \in [1..n -> S] :
          (size = 0 => n = 0) /\ call = [fn |-> "parse", doc |-> [type |-> type, size |-> size, lines |-> lines]]
    BY <1>1, Zenon DEF Uploads
  <2>2. PICK type : \E size \in DocumentSizes : \E n \in 0..MaxLines : \E S : \E lines \in [1..n -> S] :
          (size = 0 => n = 0) /\ call = [fn |-> "parse", doc |-> [type |-> type, size |-> size, lines |-> lines]]
    BY <2>1
  <2>3. PICK size \in DocumentSizes : \E n \in 0..MaxLines : \E S : \E lines \in [1..n -> S] :
          (size = 0 => n = 0) /\ call = [fn |-> "parse", doc |-> [type |-> type, size |-> size, lines |-> lines]]
    BY <2>2
  <2>4. PICK n \in 0..MaxLines : \E S : \E lines \in [1..n -> S] :
          (size = 0 => n = 0) /\ call = [fn |-> "parse", doc |-> [type |-> type, size |-> size, lines |-> lines]]
    BY <2>3
  <2>5. PICK S : \E lines \in [1..n -> S] :
          (size = 0 => n = 0) /\ call = [fn |-> "parse", doc |-> [type |-> type, size |-> size, lines |-> lines]]
    BY <2>4
  <2>6. PICK lines \in [1..n -> S] :
          (size = 0 => n = 0) /\ call = [fn |-> "parse", doc |-> [type |-> type, size |-> size, lines |-> lines]]
    BY <2>5
  <2>7. n \in Nat /\ size \in Nat
    BY AlgorithmsAssumption
  <2>8. call.doc.lines = lines /\ call.doc.size = size
    BY <2>6
  <2>. QED BY <2>6, <2>7, <2>8 DEF Uploaded
<1>. QED BY <1>1, CallsDiffer DEF Init, Uploaded

\* When a document is refused, and what is returned if it is not.
LEMMA ParseDocumentIs ==
  ASSUME NEW doc, doc.size \in Nat, NEW result, result = ParseDocument(doc, Limits), NEW ss,
         ss = IF doc.type = "MARKDOWN" THEN ParseMarkdown(doc.lines) ELSE ParsePdf(doc.lines)
  PROVE  /\ result.error = "none" => result.sections = ss
         /\ result.error # "none" => \/ doc.size = 0 \/ ss = <<>> \/ doc.type \notin {"MARKDOWN", "PDF"}
                                     \/ doc.size > (IF doc.type = "MARKDOWN" THEN MaxMarkdown ELSE MaxPdf)
                                     \/ doc.type = "PDF" /\ Len(doc.lines) > MaxPages
<1> DEFINE size == doc.size
           type == doc.type
           large == size > MaxMarkdown
           larger == size > MaxPdf
           long == Len(doc.lines) > MaxPages
           error == CASE size = 0 -> "parse"
                      [] size > 0 /\ type \in {"MARKDOWN", "binary"} /\ large -> "limit"
                      [] size > 0 /\ type \in {"PDF", "encrypted"} /\ larger -> "limit"
                      [] OTHER -> IF type \in {"binary", "encrypted", "other"} THEN "parse"
                                  ELSE IF type = "PDF" /\ long THEN "limit"
                                  ELSE IF ss = <<>> THEN "parse" ELSE "none"
<1>1. Limits.markdown = MaxMarkdown /\ Limits.pdf = MaxPdf /\ Limits.pages = MaxPages
  BY DEF Limits
<1>2. result = [error |-> error, sections |-> IF error = "none" THEN ss ELSE <<>>]
  BY <1>1 DEF ParseDocument
<1>3. \/ size = 0 \/ ss = <<>> \/ type \notin {"MARKDOWN", "PDF"}
      \/ (IF type = "MARKDOWN" THEN large ELSE larger) \/ (type = "PDF" /\ long) \/ error = "none"
  <2>. HIDE DEF long, large, larger
  <2>. QED OBVIOUS
<1>. HIDE DEF error, long, large, larger
<1>4. result.error = error /\ (error = "none" => result.sections = ss)
  BY <1>2
<1>. QED BY <1>3, <1>4 DEF long, large, larger

\* The sections of a document hold its text, where they say.
LEMMA DocumentIsLocated ==
  ASSUME Uploaded, Parse
  PROVE  SectionsLocateText'
<1> DEFINE doc == call.doc
           lines == call.doc.lines
           ss == IF doc.type = "MARKDOWN" THEN ParseMarkdown(lines) ELSE ParsePdf(lines)
           r == ParseDocument(doc, Limits)
           text == {n \in DOMAIN lines : lines[n] = "text"}
           refusable == \/ doc.type \notin {"MARKDOWN", "PDF"}
                        \/ doc.size > (IF doc.type = "MARKDOWN" THEN MaxMarkdown ELSE MaxPdf)
                        \/ doc.type = "PDF" /\ Len(lines) > MaxPages
<1>1. call' = call /\ out' = r /\ call.fn = "parse"
  BY DEF Parse, Returns
<1>2. PICK n \in Nat : \E S : lines \in [1..n -> S] /\ doc.size \in Nat /\ (doc.size = 0 => n = 0)
  BY <1>1 DEF Uploaded
<1>3. PICK S : lines \in [1..n -> S] /\ doc.size \in Nat /\ (doc.size = 0 => n = 0)
  BY <1>2
<1>4. Placed(ss, lines, doc.type = "MARKDOWN")
  <2>1. CASE doc.type = "MARKDOWN"
    <3>1. Placed(ParseMarkdown(lines), lines, TRUE)
      BY <1>3, MarkdownIsPlaced
    <3>. QED BY <2>1, <3>1 DEF Placed
  <2>2. CASE doc.type # "MARKDOWN"
    <3>1. Placed(ParsePdf(lines), lines, FALSE)
      BY <1>3, PagesArePlaced
    <3>. QED BY <2>2, <3>1 DEF Placed
  <2>. QED BY <2>1, <2>2
<1>5. /\ r.error = "none" => r.sections = ss
      /\ r.error # "none" => doc.size = 0 \/ ss = <<>> \/ refusable
  BY <1>3, ParseDocumentIs
<1>6. ss = <<>> \/ doc.size = 0 => text = {}
  <2>1. CASE ss = <<>>
    <3>1. DOMAIN ss = {}
      BY <2>1
    <3>. HIDE DEF ss
    <3>. QED BY <1>4, <3>1 DEF Placed
  <2>2. CASE doc.size = 0
    BY <1>3, <2>2
  <2>. QED BY <2>1, <2>2
<1> DEFINE Good(error, sections) ==
             IF error = "none" THEN Placed(sections, lines, doc.type = "MARKDOWN")
             ELSE text = {} \/ refusable
<1>7. Good(r.error, r.sections)
  <2>. HIDE DEF ss, r, text, refusable
  <2>. QED BY <1>4, <1>5, <1>6
<1>8. Good(out'.error, out'.sections)
  <2>. HIDE DEF Good, r
  <2>. QED BY <1>1, <1>7, Zenon
<1>. QED BY <1>1, <1>8, Zenon DEF SectionsLocateText, Placed

\* What a citation points to is where the text is: every line or page of text is in
\* exactly one section, under its nearest heading and inside the lines the section names,
\* and no two sections share a line; for documents and limits of every size.  Only a document
\* without text, or over a limit, is refused.  (_parse_markdown, flush, _parse_pdf)
THEOREM SectionsAreLocated == Spec => []SectionsLocateText
<1> DEFINE Inv == (at = "called" => Uploaded) /\ SectionsLocateText
<1>1. Init => Inv
  BY InitUploaded DEF SectionsLocateText, Returned, Init
<1>2. Inv /\ [Next]_vars => Inv'
  <2> SUFFICES ASSUME Inv, [Next]_vars PROVE Inv'
    OBVIOUS
  <2>1. CASE UNCHANGED vars
    BY <2>1 DEF vars, Uploaded, SectionsLocateText, Returned
  <2>2. CASE Parse
    BY <2>2, DocumentIsLocated DEF Parse, Returns
  <2>3. CASE Chunk \/ EmbedTexts \/ RerankHits \/ Rank \/ DescribeResult \/ Import
    BY <2>3 DEF Chunk, EmbedTexts, RerankHits, Rank, DescribeResult, Import, Returns, SectionsLocateText, Returned
  <2>. QED BY <2>1, <2>2, <2>3 DEF Next
<1>3. Inv => SectionsLocateText
  OBVIOUS
<1>. HIDE DEF Inv
<1>. QED BY <1>1, <1>2, <1>3, PTL DEF Spec

----------------------------------------------------------------------------
(* The order of what a provider returns *)

\* An item of a provider's answer, and the answers to a request that is tried again.
Item == [index : Nat, score : Nat]
Replied(replies) == \A i \in 1..Attempts : \E m \in Nat : replies[i].data \in [1..m -> Item]

\* post_json stops at the first answer that is not transient.
LEMMA PostIs ==
  ASSUME NEW replies, NEW post, post = PostJson(replies, Attempts)
  PROVE  /\ post.sent \in 1..Attempts /\ post.sent \in Nat
         /\ post.reply = replies[post.sent] /\ RetriesTransient(replies, post.sent)
<1> DEFINE T == {i \in 1..Attempts : i = Attempts \/ ~Transient(replies[i])}
           sent == Min(T)
<1>0. Attempts \in Nat \ {0}
  BY AlgorithmsAssumption
<1>1. post = [sent |-> sent, reply |-> replies[sent]]
  BY Zenon DEF PostJson
<1>2. T \in SUBSET Nat /\ Attempts \in T
  BY <1>0
<1>3. /\ \A i \in T : i \in 1..Attempts /\ (i = Attempts \/ ~Transient(replies[i]))
      /\ \A i \in 1..Attempts : ~Transient(replies[i]) => i \in T
  OBVIOUS
<1>. HIDE DEF T
<1>4. sent \in T /\ \A y \in T : sent <= y
  BY <1>2, MinIs
<1>. HIDE DEF sent
<1>5. ASSUME NEW i \in 1..(sent - 1) PROVE Transient(replies[i])
  <2>1. i \in 1..Attempts /\ ~(sent <= i)
    BY <1>0, <1>3, <1>4
  <2>. QED BY <1>3, <1>4, <2>1
<1>. QED BY <1>0, <1>1, <1>3, <1>4, <1>5 DEF RetriesTransient

\* n numbers below n that increase are 0, 1, 2 and so on.
LEMMA Increasing ==
  ASSUME NEW n \in Nat, NEW f, \A i \in 1..n : f[i] \in 0..(n - 1),
         \A i, j \in 1..n : i < j => f[i] < f[j]
  PROVE  \A k \in 1..n : f[k] = k - 1
<1> DEFINE U == {k \in 0..n : k = 0 \/ f[k] >= k - 1}
           D == {k \in 0..n : k = n \/ f[n - k] <= n - k - 1}
<1>1. 0..n \subseteq U
  <2>1. 0 \in U
    OBVIOUS
  <2>2. ASSUME NEW i \in 0..(n - 1), i \in U PROVE i + 1 \in U
    <3>0. i + 1 \in 1..n /\ i + 1 \in 0..n /\ f[i + 1] \in 0..(n - 1)
      OBVIOUS
    <3>1. CASE i = 0
      BY <3>0, <3>1
    <3>2. CASE i # 0
      <4>1. i \in 1..n /\ f[i] \in 0..(n - 1) /\ f[i] >= i - 1 /\ f[i] < f[i + 1]
        BY <2>2, <3>0, <3>2
      <4>2. f[i + 1] >= (i + 1) - 1
        BY <3>0, <4>1
      <4>. QED BY <3>0, <4>2
    <3>. QED BY <3>1, <3>2
  <2>. HIDE DEF U
  <2>. QED BY <2>1, <2>2, UpTo
<1>2. 0..n \subseteq D
  <2>1. 0 \in D
    <3>1. CASE n = 0
      BY <3>1
    <3>2. CASE n # 0
      <4>1. n \in 1..n /\ f[n] \in 0..(n - 1) /\ n - 0 = n
        BY <3>2
      <4>. QED BY <4>1
    <3>. QED BY <3>1, <3>2
  <2>2. ASSUME NEW i \in 0..(n - 1), i \in D PROVE i + 1 \in D
    <3>1. CASE i + 1 = n
      BY <3>1
    <3>2. CASE i + 1 # n
      <4>1. PICK a \in 1..n : a = n - i
        OBVIOUS
      <4>2. PICK b \in 1..n : b = n - (i + 1)
        BY <3>2
      <4>3. f[a] <= n - i - 1 /\ f[b] < f[a] /\ f[a] \in 0..(n - 1) /\ f[b] \in 0..(n - 1)
        BY <2>2, <4>1, <4>2
      <4>4. f[b] <= n - (i + 1) - 1
        BY <4>3
      <4>. QED BY <4>2, <4>4
    <3>. QED BY <3>1, <3>2
  <2>. HIDE DEF D
  <2>. QED BY <2>1, <2>2, UpTo
<1>3. ASSUME NEW k \in 1..n PROVE f[k] = k - 1
  <2>1. k \in U
    BY <1>1
  <2>2. n - k \in D
    BY <1>2
  <2>3. f[k] >= k - 1
    BY <2>1
  <2>4. n - (n - k) = k /\ n - k # n
    OBVIOUS
  <2>5. f[k] <= k - 1
    BY <2>2, <2>4
  <2>6. f[k] \in 0..(n - 1)
    OBVIOUS
  <2>. QED BY <2>3, <2>5, <2>6
<1>. QED BY <1>3

\* A complete answer sorted by index has the item of each input at its place.
LEMMA ByIndexIs ==
  ASSUME NEW m \in Nat, NEW data \in [1..m -> Item], NEW n \in Nat, Complete(data, n)
  PROVE  /\ DOMAIN ByIndex(data) = 1..n
         /\ \A k \in 1..n : ByIndex(data)[k].index = k - 1
<1> DEFINE S == DOMAIN data
           less(i, j) == data[i].index < data[j].index \/ (data[i].index = data[j].index /\ i < j)
           R == {p \in S \X S : less(p[1], p[2])}
           f == [k \in 1..Cardinality(S) |-> CHOOSE x \in S : Cardinality({y \in S : less(y, x)}) = k - 1]
<1>0. /\ Len(data) = m /\ S = 1..n /\ m = n
      /\ {data[i].index : i \in S} = 0..(n - 1)
  BY DEF Complete, Indexes
<1>1. IsFiniteSet(S) /\ Cardinality(S) = n
  BY <1>0, FS_Interval
<1>2. \A x, y \in S : <<x, y>> \in R <=> less(x, y)
  OBVIOUS
<1>3. \A i \in S : data[i].index \in Nat
  BY <1>0 DEF Item
<1>4. Orders(R, S)
  BY <1>0, <1>2, <1>3 DEF Orders
<1>5. ByIndex(data) = [k \in DOMAIN f |-> data[f[k]]]
  BY Zenon DEF ByIndex, Ranked
<1>6. Ranks(f, S, R)
  <2>1. ASSUME NEW x \in S PROVE {y \in S : <<y, x>> \in R} = {y \in S : less(y, x)}
    BY <1>2
  <2>. HIDE DEF S, R, less
  <2>2. ASSUME NEW k \in 1..Cardinality(S), \E x \in S : Cardinality({y \in S : <<y, x>> \in R}) = k - 1
        PROVE  f[k] \in S /\ Cardinality({y \in S : <<y, f[k]>> \in R}) = k - 1
    <3>1. \E x \in S : Cardinality({y \in S : less(y, x)}) = k - 1
      BY <2>1, <2>2
    <3>2. f[k] \in S /\ Cardinality({y \in S : less(y, f[k])}) = k - 1
      BY <3>1
    <3>. QED BY <2>1, <3>2
  <2>. HIDE DEF f
  <2>. QED BY <2>2 DEF Ranks
<1>7. DOMAIN f = 1..n
  BY <1>1
<1>. HIDE DEF f, R
<1>8. /\ \A i \in 1..n : f[i] \in S
      /\ \A i, j \in 1..n : i < j <=> <<f[i], f[j]>> \in R
      /\ \A i, j \in 1..n : f[i] = f[j] => i = j
  BY <1>1, <1>4, <1>6, RankedIs
<1>9. \A i, j \in S : data[i].index = data[j].index => i = j
  <2> DEFINE g == [i \in S |-> data[i].index]
  <2>1. g \in Surjection(S, 0..(n - 1))
    <3>1. g \in [S -> 0..(n - 1)]
      BY <1>0
    <3>2. \A x \in 0..(n - 1) : \E i \in S : g[i] = x
      BY <1>0
    <3>. QED BY <3>1, <3>2 DEF Surjection
  <2>2. IsFiniteSet(0..(n - 1)) /\ Cardinality(0..(n - 1)) = n
    <3>1. 0 \in Int /\ n - 1 \in Int
      OBVIOUS
    <3>2. IsFiniteSet(0..(n - 1)) /\ Cardinality(0..(n - 1)) = IF 0 > n - 1 THEN 0 ELSE n - 1 - 0 + 1
      BY <3>1, FS_Interval
    <3>. QED BY <3>2
  <2>. HIDE DEF g, S
  <2>3. g \in Injection(S, 0..(n - 1))
    BY <1>1, <2>1, <2>2, FS_Surjection
  <2>. QED BY <2>3 DEF Injection, IsInjective, g
<1> DEFINE h == [k \in 1..n |-> data[f[k]].index]
<1>10. \A i \in 1..n : h[i] = data[f[i]].index /\ h[i] \in 0..(n - 1)
  BY <1>0, <1>8
<1>11. ASSUME NEW i \in 1..n, NEW j \in 1..n, i < j PROVE h[i] < h[j]
  <2>1. f[i] \in S /\ f[j] \in S /\ <<f[i], f[j]>> \in R
    BY <1>8, <1>11
  <2>a. f[i] # f[j]
    <3>1. i # j
      BY <1>11
    <3>. QED BY <1>8, <3>1
  <2>b. less(f[i], f[j])
    BY <1>2, <2>1, Zenon
  <2>2. data[f[i]].index < data[f[j]].index
    BY <1>9, <2>1, <2>a, <2>b
  <2>. QED BY <1>10, <2>2
<1>. HIDE DEF h
<1>12. \A k \in 1..n : h[k] = k - 1
  BY <1>10, <1>11, Increasing
<1>. QED BY <1>5, <1>7, <1>10, <1>12

\* Every batch but the last is full, none is empty, and together they hold all texts.
LEMMA BatchesAre ==
  ASSUME NEW texts \in Nat \ {0}, NEW size \in Nat \ {0}, NEW m, m = (texts + size - 1) \div size
  PROVE  /\ m \in Nat /\ m * size \in Nat /\ texts <= m * size
         /\ \A b \in 1..m : /\ (b - 1) * size \in Nat /\ (b - 1) * size < texts
                            /\ b * size = (b - 1) * size + size
<1>1. PICK x \in Nat : x = texts + size - 1
  OBVIOUS
<1>2. m = x \div size
  BY <1>1
<1>3. m \in Nat /\ size * m <= x /\ size * m > x - size
  BY <1>2
<1>4. PICK p \in Nat : p = m * size /\ p = size * m
  BY <1>3
<1>5. texts <= p
  BY <1>1, <1>3, <1>4
<1>6. ASSUME NEW b \in 1..m
      PROVE  (b - 1) * size \in Nat /\ (b - 1) * size < texts /\ b * size = (b - 1) * size + size
  <2>1. PICK c \in Nat : c = b - 1 /\ b = c + 1 /\ c < m
    BY <1>3
  <2>2. b * size = c * size + size /\ c * size \in Nat
    BY <2>1
  <2>3. PICK d \in Nat : m = c + 1 + d
    <3>1. m - c - 1 \in Nat /\ m = c + 1 + (m - c - 1)
      BY <1>3, <2>1
    <3>. QED BY <3>1
  <2>4. m * size = c * size + size + d * size /\ d * size \in Nat
    BY <2>3
  <2>5. c * size < texts
    BY <1>1, <1>3, <1>4, <2>2, <2>4
  <2>. QED BY <2>1, <2>2, <2>5
<1>. QED BY <1>3, <1>4, <1>5, <1>6

\* What embed does with a batch, and what it starts with.
EmbedBatch(acc, b, texts, replies) ==
  LET first == (b - 1) * Batch
      n     == Min({Batch, texts - first})
      post  == PostJson(replies[b], Attempts)
      ok    == post.reply.status = "ok" /\ Complete(post.reply.data, n)
      items == ByIndex(post.reply.data)
  IN IF ~acc.ok THEN acc
     ELSE [ok |-> ok, sent |-> Append(acc.sent, post.sent),
           vectors |-> IF ok THEN acc.vectors \o [i \in DOMAIN items |-> first + items[i].index + 1]
                       ELSE <<>>]
NoneEmbedded == [ok |-> TRUE, sent |-> <<>>, vectors |-> <<>>]
Embeddings == [ok : BOOLEAN, sent : Seq(Nat), vectors : Seq(Nat)]

\* How many texts the first k batches hold.
Held(k, texts) == IF k * Batch <= texts THEN k * Batch ELSE texts

\* What embed has after k batches: an answer to each, and the vectors of their texts.
Embedded(acc, k, texts, replies) ==
  /\ Len(acc.sent) <= k
  /\ \A c \in 1..Len(acc.sent) : RetriesTransient(replies[c], acc.sent[c])
  /\ \A c \in 1..Len(acc.sent) : c < Len(acc.sent) \/ acc.ok => replies[c][acc.sent[c]].status = "ok"
  /\ acc.ok => Len(acc.sent) = k /\ acc.vectors = [i \in 1..Held(k, texts) |-> i]

\* The batch that is next either fails, or adds the vectors of its texts.
LEMMA EmbedBatchIs ==
  ASSUME NEW texts \in Nat \ {0}, NEW replies, NEW m, m = (texts + Batch - 1) \div Batch,
         NEW b \in 1..m, Replied(replies[b]), NEW acc \in Embeddings,
         NEW new, new = EmbedBatch(acc, b, texts, replies)
  PROVE  /\ new \in Embeddings
         /\ Embedded(acc, b - 1, texts, replies) => Embedded(new, b, texts, replies)
<1> DEFINE first == (b - 1) * Batch
           n     == Min({Batch, texts - first})
           post  == PostJson(replies[b], Attempts)
           data  == post.reply.data
           ok    == post.reply.status = "ok" /\ Complete(data, n)
           items == ByIndex(data)
           added == [i \in DOMAIN items |-> first + items[i].index + 1]
<1>0. Batch \in Nat \ {0}
  BY AlgorithmsAssumption
<1>1. m \in Nat /\ first \in Nat /\ first < texts /\ b * Batch = first + Batch /\ b \in Nat
  <2>1. /\ m \in Nat
        /\ \A c \in 1..m : /\ (c - 1) * Batch \in Nat /\ (c - 1) * Batch < texts
                           /\ c * Batch = (c - 1) * Batch + Batch
    <3>. HIDE DEF first
    <3>. QED BY <1>0, BatchesAre
  <2>2. first \in Nat /\ first < texts /\ b * Batch = first + Batch
    BY <2>1, Zenon
  <2>. QED BY <2>1, <2>2
<1>2. n \in Nat /\ n > 0 /\ first + n = Held(b, texts) /\ Held(b - 1, texts) = first
  <2>1. n = IF Batch <= texts - first THEN Batch ELSE texts - first
    BY <1>0, <1>1, MinOfTwo
  <2>2. PICK q \in Nat : q = first
    BY <1>1
  <2>3. PICK r \in Nat : r = b * Batch /\ r = q + Batch
    BY <1>0, <1>1, <2>2
  <2>4. Held(b, texts) = (IF r <= texts THEN r ELSE texts) /\ Held(b - 1, texts) = IF q <= texts THEN q ELSE texts
    BY <2>2, <2>3 DEF Held
  <2>. HIDE DEF first
  <2>. QED BY <1>0, <1>1, <2>1, <2>2, <2>3, <2>4
<1>3. new = IF ~acc.ok THEN acc
            ELSE [ok |-> ok, sent |-> Append(acc.sent, post.sent),
                  vectors |-> IF ok THEN acc.vectors \o added ELSE <<>>]
  BY Zenon DEF EmbedBatch
<1>4. /\ post.sent \in 1..Attempts /\ post.sent \in Nat
      /\ post.reply = replies[b][post.sent] /\ RetriesTransient(replies[b], post.sent)
  BY PostIs
<1>5. \E k \in Nat : data \in [1..k -> Item]
  BY <1>4 DEF Replied
<1>6. ok => added = [i \in 1..n |-> first + i]
  <2>1. SUFFICES ASSUME ok PROVE added = [i \in 1..n |-> first + i]
    OBVIOUS
  <2>2. PICK k \in Nat : data \in [1..k -> Item]
    BY <1>5
  <2>3. DOMAIN items = 1..n /\ \A i \in 1..n : items[i].index = i - 1
    <3>1. Complete(data, n)
      BY <2>1
    <3>. HIDE DEF data, n
    <3>. QED BY <1>2, <2>2, <3>1, ByIndexIs
  <2>. HIDE DEF items, first, n
  <2>4. \A i \in 1..n : first + items[i].index + 1 = first + i
    BY <1>1, <1>2, <2>3
  <2>. QED BY <2>3, <2>4
<1>7. ok \in BOOLEAN
  OBVIOUS
<1>a. ok => post.reply.status = "ok"
  OBVIOUS
<1>. HIDE DEF ok, added, n, first
<1> DEFINE sent == Append(acc.sent, post.sent)
           vs == IF ok THEN acc.vectors \o added ELSE <<>>
<1>8. acc.ok \in BOOLEAN /\ acc.sent \in Seq(Nat) /\ acc.vectors \in Seq(Nat)
  BY DEF Embeddings
<1>9. sent \in Seq(Nat) /\ Len(sent) = Len(acc.sent) + 1 /\ sent[Len(acc.sent) + 1] = post.sent
      /\ \A c \in 1..Len(acc.sent) : sent[c] = acc.sent[c]
  BY <1>4, <1>8
<1>10. ok => added \in Seq(Nat) /\ Len(added) = n
  <2>1. [i \in 1..n |-> first + i] \in Seq(Nat) /\ Len([i \in 1..n |-> first + i]) = n
    BY <1>1, <1>2
  <2>. QED BY <1>6, <2>1
<1>11. vs \in Seq(Nat)
  BY <1>8, <1>10
<1>. HIDE DEF vs, sent, post
<1>12. new = IF ~acc.ok THEN acc ELSE [ok |-> ok, sent |-> sent, vectors |-> vs]
  BY <1>3, Zenon DEF sent, vs
<1>13. new \in Embeddings
  BY <1>7, <1>9, <1>11, <1>12 DEF Embeddings
<1>14. CASE ~acc.ok
  <2>1. new = acc
    BY <1>12, <1>14
  <2>. QED BY <1>1, <1>13, <1>14, <2>1, <1>8 DEF Embedded
<1>15. CASE acc.ok
  <2>1. new = [ok |-> ok, sent |-> sent, vectors |-> vs]
    BY <1>12, <1>15
  <2>2. (new.ok <=> ok) /\ new.sent = sent /\ new.vectors = vs
    <3>1. new.ok = ok /\ new.sent = sent /\ new.vectors = vs
      BY <2>1
    <3>. QED BY <3>1, Zenon
  <2>3. SUFFICES ASSUME Embedded(acc, b - 1, texts, replies) PROVE Embedded(new, b, texts, replies)
    BY <1>13
  <2>4. /\ Len(acc.sent) = b - 1 /\ acc.vectors = [i \in 1..first |-> i]
        /\ \A c \in 1..Len(acc.sent) : RetriesTransient(replies[c], acc.sent[c])
        /\ \A c \in 1..Len(acc.sent) : replies[c][acc.sent[c]].status = "ok"
    BY <1>2, <1>15, <2>3 DEF Embedded
  <2>5. /\ Len(sent) = b /\ sent[b] = post.sent /\ \A c \in 1..b : c = b \/ (c \in 1..Len(acc.sent) /\ sent[c] = acc.sent[c])
    BY <1>1, <1>9, <2>4
  <2>6. \A c \in 1..b : RetriesTransient(replies[c], sent[c])
    BY <1>4, <2>4, <2>5
  <2>7. ASSUME NEW c \in 1..b, c < b \/ ok PROVE replies[c][sent[c]].status = "ok"
    <3>1. CASE c = b
      BY <1>1, <1>4, <1>a, <2>5, <2>7, <3>1
    <3>2. CASE c # b
      BY <2>4, <2>5, <3>2
    <3>. QED BY <3>1, <3>2
  <2>8. ASSUME ok PROVE vs = [i \in 1..Held(b, texts) |-> i]
    <3>1. vs = [i \in 1..first |-> i] \o [i \in 1..n |-> first + i]
      BY <1>6, <2>4, <2>8 DEF vs
    <3>2. [i \in 1..first |-> i] \o [i \in 1..n |-> first + i] = [i \in 1..(first + n) |-> i]
      BY <1>1, <1>2
    <3>. QED BY <1>2, <3>1, <3>2
  <2>. QED BY <1>1, <2>2, <2>5, <2>6, <2>7, <2>8 DEF Embedded
<1>. QED BY <1>13, <1>14, <1>15

\* embed sends one batch after the other.
LEMMA EmbedIs ==
  ASSUME NEW texts \in Nat \ {0}, NEW replies, NEW m, m = (texts + Batch - 1) \div Batch,
         \A b \in 1..m : Replied(replies[b])
  PROVE  /\ Embed(texts, Batch, Attempts, replies) \in Embeddings
         /\ Embedded(Embed(texts, Batch, Attempts, replies), m, texts, replies)
<1> DEFINE A == Embeddings
           step == [p \in A \X (1..m) |-> EmbedBatch(p[1], p[2], texts, replies)]
           s == [b \in 1..m |-> b]
           On(f_1, q) == f_1 = [t \in SUBSET (1..m) |->
                                  IF t = {} THEN NoneEmbedded ELSE EmbedBatch(f_1[t \ {Max(t)}], q[Max(t)], texts, replies)]
<1>0. m \in Nat
  <2>1. Batch \in Nat \ {0}
    BY AlgorithmsAssumption
  <2>. QED BY <2>1, BatchesAre
<1>1. DOMAIN s = 1..m /\ \A i \in 1..m : s[i] = i
  OBVIOUS
<1>2. ASSUME NEW a \in A, NEW i \in 1..m
      PROVE  step[<<a, i>>] = EmbedBatch(a, i, texts, replies) /\ EmbedBatch(a, i, texts, replies) \in A
  BY EmbedBatchIs
<1>3. NoneEmbedded \in A
  BY DEF NoneEmbedded, Embeddings
<1>. HIDE DEF step, s
<1>a. \A a \in A, i \in 1..m : step[<<a, i>>] \in A
  BY <1>2
<1>. HIDE DEF A
<1>4. PICK f : Folds(m, NoneEmbedded, step, f) /\ \A t \in SUBSET (1..m) : f[t] \in A
  BY <1>0, <1>3, <1>a, FoldExists
<1>5. ASSUME NEW t \in SUBSET (1..m), t # {}
      PROVE  step[<<f[t \ {Max(t)}], Max(t)>>] = EmbedBatch(f[t \ {Max(t)}], s[Max(t)], texts, replies)
  <2>1. t \in SUBSET Nat /\ \A y \in t : y <= m
    BY <1>0
  <2>2. Max(t) \in 1..m
    BY <1>0, <1>5, <2>1, MaxIs
  <2>3. f[t \ {Max(t)}] \in A
    BY <1>4
  <2>. QED BY <1>1, <1>2, <2>2, <2>3
<1>6. On(f, s)
  BY <1>4, <1>5 DEF Folds
<1> DEFINE g == CHOOSE f_1 : On(f_1, s)
<1>7. On(g, s)
  BY <1>6
<1>8. Embed(texts, Batch, Attempts, replies) = g[1..m]
  <2> DEFINE embed(acc, b) == EmbedBatch(acc, b, texts, replies)
  <2>0. Embed(texts, Batch, Attempts, replies)
          = FoldLeft(embed, NoneEmbedded, [b \in 1..((texts + Batch - 1) \div Batch) |-> b])
    BY Zenon DEF Embed, NoneEmbedded, EmbedBatch, FoldLeft, MapThenFoldSet
  <2>1. Embed(texts, Batch, Attempts, replies) = FoldLeft(embed, NoneEmbedded, s)
    <3>1. s = [b \in 1..((texts + Batch - 1) \div Batch) |-> b]
      BY DEF s
    <3>. HIDE DEF embed
    <3>. QED BY <2>0, <3>1, Zenon
  <2>2. FoldLeft(embed, NoneEmbedded, s) = g[1..m]
    BY <1>1, Zenon DEF FoldLeft, MapThenFoldSet
  <2>. QED BY <2>1, <2>2, Zenon
<1>. HIDE DEF g
<1>9. g[1..0] = NoneEmbedded
  <2>1. 1..0 = {} /\ {} \in SUBSET (1..m)
    OBVIOUS
  <2>. QED BY <1>7, <2>1
<1>10. ASSUME NEW k \in 1..m PROVE g[1..k] = EmbedBatch(g[1..(k - 1)], k, texts, replies)
  <2>0. k \in Nat \ {0} /\ 1..k \in SUBSET (1..m)
    BY <1>0
  <2>1. 1..k # {} /\ Max(1..k) = k /\ (1..k) \ {k} = 1..(k - 1)
    BY <2>0, LastOf
  <2>2. \A t \in SUBSET (1..m) :
          g[t] = IF t = {} THEN NoneEmbedded ELSE EmbedBatch(g[t \ {Max(t)}], s[Max(t)], texts, replies)
    BY <1>7
  <2>3. g[1..k] = EmbedBatch(g[(1..k) \ {Max(1..k)}], s[Max(1..k)], texts, replies)
    BY <2>0, <2>1, <2>2
  <2>. QED BY <1>1, <2>1, <2>3
<1> DEFINE G == {k \in 0..m : g[1..k] \in Embeddings /\ Embedded(g[1..k], k, texts, replies)}
<1>11. 0..m \subseteq G
  <2>1. 0 \in G
    <3>1. NoneEmbedded.ok = TRUE /\ NoneEmbedded.sent = <<>> /\ NoneEmbedded.vectors = <<>>
      BY DEF NoneEmbedded
    <3>2. Held(0, texts) = 0
      <4>1. 0 * Batch = 0
        BY AlgorithmsAssumption
      <4>. QED BY <4>1 DEF Held
    <3>3. [i \in 1..Held(0, texts) |-> i] = <<>>
      BY <3>2
    <3>4. Embedded(NoneEmbedded, 0, texts, replies)
      BY <3>1, <3>3 DEF Embedded
    <3>. QED BY <1>0, <1>3, <1>9, <3>4 DEF A
  <2>2. ASSUME NEW i \in 0..(m - 1), i \in G PROVE i + 1 \in G
    <3>1. i + 1 \in 1..m /\ i + 1 \in 0..m /\ (i + 1) - 1 = i
      BY <1>0
    <3>2. PICK acc : acc = g[1..i] /\ acc \in Embeddings /\ Embedded(acc, (i + 1) - 1, texts, replies)
      BY <2>2, <3>1
    <3>3. PICK new : new = g[1..(i + 1)] /\ new = EmbedBatch(acc, i + 1, texts, replies)
      BY <1>10, <3>1, <3>2
    <3>4. Replied(replies[i + 1])
      BY <3>1
    <3>5. new \in Embeddings /\ Embedded(new, i + 1, texts, replies)
      BY <3>1, <3>2, <3>3, <3>4, EmbedBatchIs
    <3>. QED BY <3>1, <3>3, <3>5
  <2>. HIDE DEF G
  <2>. QED BY <1>0, <2>1, <2>2, UpTo
<1>12. m \in G
  BY <1>0, <1>11
<1>. QED BY <1>8, <1>12

\* rerank has every hit once, the best score first, with the score it was given.
LEMMA RerankIs ==
  ASSUME NEW hits \in Nat \ {0}, NEW replies, Replied(replies),
         NEW r, r = Rerank(hits, Attempts, replies)
  PROVE  /\ RetriesTransient(replies, r.sent)
         /\ r.ok => /\ {r.ranked[i].hit : i \in DOMAIN r.ranked} = 1..hits
                    /\ Len(r.ranked) = hits
                    /\ \A i, j \in DOMAIN r.ranked : i < j => r.ranked[i].score >= r.ranked[j].score
                    /\ \A i \in DOMAIN r.ranked :
                         [index |-> r.ranked[i].hit - 1, score |-> r.ranked[i].score] \in ToSet(replies[r.sent].data)
<1> DEFINE post == PostJson(replies, Attempts)
           data == post.reply.data
           S == DOMAIN data
           less(i, j) == data[i].score > data[j].score \/ (data[i].score = data[j].score /\ i < j)
           R == {p \in S \X S : less(p[1], p[2])}
           f == [k \in 1..Cardinality(S) |-> CHOOSE x \in S : Cardinality({y \in S : less(y, x)}) = k - 1]
           ranked == [i \in DOMAIN f |-> [hit |-> data[f[i]].index + 1, score |-> data[f[i]].score]]
           fails == post.reply.status # "ok" \/ ~Complete(data, hits)
<1>1. r = IF fails THEN [ok |-> FALSE, sent |-> post.sent, ranked |-> <<>>]
          ELSE [ok |-> TRUE, sent |-> post.sent, ranked |-> ranked]
  BY Zenon DEF Rerank, Ranked
<1>2. /\ post.sent \in 1..Attempts /\ post.reply = replies[post.sent] /\ RetriesTransient(replies, post.sent)
  BY PostIs
<1>3. \E k \in Nat : data \in [1..k -> Item]
  BY <1>2 DEF Replied
<1>4. replies[post.sent].data = data
  BY <1>2
<1>5. CASE fails
  <2>. HIDE DEF fails, post, ranked
  <2>1. r = [ok |-> FALSE, sent |-> post.sent, ranked |-> <<>>]
    BY <1>1, <1>5
  <2>2. r.ok = FALSE /\ r.sent = post.sent
    BY <2>1
  <2>. QED BY <1>2, <2>2, Zenon
<1>6. CASE ~fails
  <2>0. Complete(data, hits)
    BY <1>6
  <2>. HIDE DEF post, data
  <2>1. PICK k \in Nat : data \in [1..k -> Item]
    BY <1>3
  <2>2. k = hits /\ S = 1..hits /\ {data[i].index : i \in S} = 0..(hits - 1)
    BY <2>0, <2>1 DEF Complete, Indexes
  <2>3. IsFiniteSet(S) /\ Cardinality(S) = hits
    BY <2>2, FS_Interval
  <2>4. \A x, y \in S : <<x, y>> \in R <=> less(x, y)
    OBVIOUS
  <2>5. \A i \in S : data[i] \in Item /\ data[i].index \in Nat /\ data[i].score \in Nat
    BY <2>1, <2>2 DEF Item
  <2>6. Orders(R, S)
    BY <2>2, <2>4, <2>5 DEF Orders
  <2>7. Ranks(f, S, R)
    <3>1. ASSUME NEW x \in S PROVE {y \in S : <<y, x>> \in R} = {y \in S : less(y, x)}
      BY <2>4
    <3>. HIDE DEF S, R, less
    <3>2. ASSUME NEW q \in 1..Cardinality(S), \E x \in S : Cardinality({y \in S : <<y, x>> \in R}) = q - 1
          PROVE  f[q] \in S /\ Cardinality({y \in S : <<y, f[q]>> \in R}) = q - 1
      <4>1. \E x \in S : Cardinality({y \in S : less(y, x)}) = q - 1
        BY <3>1, <3>2
      <4>2. f[q] \in S /\ Cardinality({y \in S : less(y, f[q])}) = q - 1
        BY <4>1
      <4>. QED BY <3>1, <4>2
    <3>. HIDE DEF f
    <3>. QED BY <3>2 DEF Ranks
  <2>8. DOMAIN f = 1..hits
    BY <2>3
  <2>. HIDE DEF f, R
  <2>9. /\ \A i \in 1..hits : f[i] \in S
        /\ \A x \in S : \E i \in 1..hits : f[i] = x
        /\ \A i, j \in 1..hits : i < j <=> <<f[i], f[j]>> \in R
    BY <2>3, <2>6, <2>7, RankedIs
  <2>10. r.ok /\ r.sent = post.sent /\ r.ranked = ranked
    BY <1>1, <1>6
  <2>11. /\ DOMAIN ranked = 1..hits /\ Len(ranked) = hits
         /\ \A i \in 1..hits : ranked[i].hit = data[f[i]].index + 1 /\ ranked[i].score = data[f[i]].score
    BY <2>8
  <2>. HIDE DEF ranked
  <2>12. {ranked[i].hit : i \in 1..hits} = 1..hits
    <3>1. ASSUME NEW i \in 1..hits PROVE ranked[i].hit \in 1..hits
      <4>1. data[f[i]].index \in 0..(hits - 1)
        BY <2>2, <2>9
      <4>. QED BY <2>11, <4>1
    <3>2. ASSUME NEW x \in 1..hits PROVE \E i \in 1..hits : ranked[i].hit = x
      <4>1. x - 1 \in 0..(hits - 1)
        OBVIOUS
      <4>2. PICK j \in S : data[j].index = x - 1
        BY <2>2, <4>1
      <4>3. PICK i \in 1..hits : f[i] = j
        BY <2>9
      <4>. QED BY <2>11, <4>2, <4>3
    <3>. QED BY <3>1, <3>2
  <2>13. ASSUME NEW i \in 1..hits, NEW j \in 1..hits, i < j PROVE ranked[i].score >= ranked[j].score
    <3>1. f[i] \in S /\ f[j] \in S /\ <<f[i], f[j]>> \in R
      BY <2>9, <2>13
    <3>2. less(f[i], f[j])
      BY <2>4, <3>1, Zenon
    <3>3. data[f[i]].score \in Nat /\ data[f[j]].score \in Nat
      BY <2>5, <3>1
    <3>. QED BY <2>11, <3>2, <3>3
  <2>14. ASSUME NEW i \in 1..hits
         PROVE  [index |-> ranked[i].hit - 1, score |-> ranked[i].score] \in ToSet(data)
    <3>1. PICK d : d = data[f[i]] /\ d \in Item /\ f[i] \in S
      BY <2>5, <2>9
    <3>2. ranked[i].hit - 1 = d.index /\ ranked[i].score = d.score
      BY <2>11, <3>1 DEF Item
    <3>3. [index |-> d.index, score |-> d.score] = d
      BY <3>1 DEF Item
    <3>4. d \in ToSet(data)
      BY <3>1 DEF ToSet
    <3>. QED BY <3>2, <3>3, <3>4
  <2>. HIDE DEF fails
  <2>. QED BY <1>2, <1>4, <2>10, <2>11, <2>12, <2>13, <2>14
<1>. QED BY <1>5, <1>6

\* The input: what a provider answers to the requests of a call.
Provided ==
  /\ call.fn = "embed" => /\ call.texts \in Nat \ {0}
                          /\ \A b \in 1..((call.texts + Batch - 1) \div Batch) : Replied(call.replies[b])
  /\ call.fn = "rerank" => call.hits \in Nat /\ Replied(call.replies)

\* The data of an answer, and of a failure, are items.
LEMMA RepliesAre ==
  ASSUME NEW r \in Failures \cup Answers
  PROVE  \E m \in Nat : r.data \in [1..m -> Item]
<1>1. CASE r \in Failures
  <2>1. r.data = <<>>
    BY <1>1 DEF Failures
  <2>2. <<>> \in [1..0 -> Item]
    OBVIOUS
  <2>. QED BY <2>1, <2>2
<1>2. CASE r \in Answers
  <2>1. PICK n \in 0..Batch : r.data \in [1..n -> [index : 0..(Batch - 1), score : {0}]]
    BY <1>2 DEF Answers, Items
  <2>2. n \in Nat /\ Batch \in Nat
    BY AlgorithmsAssumption
  <2>3. [index : 0..(Batch - 1), score : {0}] \subseteq Item
    BY <2>2 DEF Item
  <2>4. r.data \in [1..n -> Item]
    BY <2>1, <2>3
  <2>. QED BY <2>2, <2>4
<1>. QED BY <1>1, <1>2

\* Initially it is one.
LEMMA InitProvided == Init => Provided
<1>0. Attempts \in Nat \ {0} /\ Batch \in Nat \ {0} /\ MaxTexts \in Nat /\ MaxHits \in Nat /\ Scores \subseteq Nat
  BY AlgorithmsAssumption
<1>1. ASSUME Embeds PROVE Provided
  <2>1. PICK n \in 1..MaxTexts :
          \E replies \in [1..((n + Batch - 1) \div Batch) -> [1..Attempts -> Failures \cup Answers]] :
            call = [fn |-> "embed", texts |-> n, replies |-> replies]
    BY <1>1 DEF Embeds
  <2>2. PICK replies \in [1..((n + Batch - 1) \div Batch) -> [1..Attempts -> Failures \cup Answers]] :
          call = [fn |-> "embed", texts |-> n, replies |-> replies]
    BY <2>1
  <2>3. call.fn = "embed" /\ call.texts = n /\ call.replies = replies /\ n \in Nat \ {0}
    BY <1>0, <2>2
  <2>4. ASSUME NEW b \in 1..((n + Batch - 1) \div Batch) PROVE Replied(replies[b])
    <3>1. \A i \in 1..Attempts : replies[b][i] \in Failures \cup Answers
      OBVIOUS
    <3>. QED BY <3>1, RepliesAre DEF Replied
  <2>. QED BY <2>3, <2>4 DEF Provided
<1>2. ASSUME Reranks PROVE Provided
  <2>1. PICK n \in 0..MaxHits, m \in 0..MaxHits :
          \E data \in [1..m -> [index : 0..(MaxHits - 1), score : Scores]], failed \in [1..(Attempts - 1) -> Failures] :
            call = [fn |-> "rerank", hits |-> n, replies |-> Append(failed, [status |-> "ok", data |-> data])]
    BY <1>2 DEF Reranks
  <2>2. PICK data \in [1..m -> [index : 0..(MaxHits - 1), score : Scores]], failed \in [1..(Attempts - 1) -> Failures] :
          call = [fn |-> "rerank", hits |-> n, replies |-> Append(failed, [status |-> "ok", data |-> data])]
    BY <2>1
  <2> DEFINE last == [status |-> "ok", data |-> data]
             replies == Append(failed, last)
  <2>3. call.fn = "rerank" /\ call.hits = n /\ call.replies = replies /\ n \in Nat /\ m \in Nat
    BY <1>0, <2>2
  <2>4. last.data = data
    OBVIOUS
  <2>5. data \in [1..m -> Item]
    <3>1. ASSUME NEW d \in [index : 0..(MaxHits - 1), score : Scores] PROVE d \in Item
      <4>1. d.index \in 0..(MaxHits - 1) /\ d.score \in Scores /\ d = [index |-> d.index, score |-> d.score]
        OBVIOUS
      <4>2. d.index \in Nat
        <5>1. 0..(MaxHits - 1) \subseteq Nat
          OBVIOUS
        <5>. QED BY <4>1, <5>1, Zenon
      <4>3. d.score \in Nat
        BY <1>0, <4>1, Zenon
      <4>. QED BY <4>1, <4>2, <4>3, Zenon DEF Item
    <3>. QED BY <3>1
  <2>. HIDE DEF last
  <2>6. failed \in Seq(Failures) /\ Len(failed) = Attempts - 1
    BY <1>0
  <2>7. replies[Attempts] = last /\ \A i \in 1..(Attempts - 1) : replies[i] \in Failures
    BY <1>0, <2>6
  <2>. HIDE DEF replies
  <2>8. ASSUME NEW i \in 1..Attempts PROVE \E k \in Nat : replies[i].data \in [1..k -> Item]
    <3>0. i = Attempts \/ i \in 1..(Attempts - 1)
      BY <1>0
    <3>1. CASE i = Attempts
      BY <2>3, <2>4, <2>5, <2>7, <3>1
    <3>2. CASE i \in 1..(Attempts - 1)
      BY <2>7, <3>2, RepliesAre
    <3>. QED BY <3>0, <3>1, <3>2
  <2>9. Replied(replies)
    BY <2>8 DEF Replied
  <2>. QED BY <2>3, <2>9 DEF Provided
<1>. QED BY <1>1, <1>2, CallsDiffer DEF Init, Provided

\* The vectors are those of the texts.
LEMMA VectorsAreInOrder ==
  ASSUME Provided, EmbedTexts
  PROVE  ProviderOrderKept'
<1> DEFINE texts == call.texts
           replies == call.replies
           m == (texts + Batch - 1) \div Batch
           r == Embed(texts, Batch, Attempts, replies)
<1>1. /\ call' = call /\ out' = r /\ call.fn = "embed"
      /\ texts \in Nat \ {0} /\ \A b \in 1..m : Replied(replies[b])
  BY DEF EmbedTexts, Returns, Provided
<1>2. r \in Embeddings /\ Embedded(r, m, texts, replies)
  BY <1>1, EmbedIs
<1>3. texts <= m * Batch /\ m * Batch \in Nat
  BY <1>1, AlgorithmsAssumption, BatchesAre
<1>4. Held(m, texts) = texts
  BY <1>1, <1>3 DEF Held
<1>. HIDE DEF r, m
<1>5. r.sent \in Seq(Nat) /\ DOMAIN r.sent = 1..Len(r.sent)
  <2>1. r.sent \in Seq(Nat)
    BY <1>2 DEF Embeddings
  <2>. QED BY <2>1, LenProperties
<1> DEFINE Good(x) == /\ x.ok => x.vectors = [i \in 1..texts |-> i]
                      /\ \A b \in DOMAIN x.sent : RetriesTransient(replies[b], x.sent[b])
                      /\ \A b \in DOMAIN x.sent : b < Len(x.sent) => replies[b][x.sent[b]].status = "ok"
<1>6. Good(r)
  BY <1>2, <1>4, <1>5 DEF Embedded
<1>7. Good(out')
  <2>. HIDE DEF Good
  <2>. QED BY <1>1, <1>6, Zenon
<1>. QED BY <1>1, <1>7, Zenon DEF ProviderOrderKept, Returned

\* The ranking is that of the scores.
LEMMA RankingIsInOrder ==
  ASSUME Provided, RerankHits
  PROVE  ProviderOrderKept'
<1> DEFINE hits == call.hits
           replies == call.replies
           r == Rerank(hits, Attempts, replies)
<1>1. call' = call /\ out' = r /\ call.fn = "rerank" /\ hits \in Nat /\ Replied(replies)
  BY DEF RerankHits, Returns, Provided
<1> DEFINE Good(x) == /\ hits > 0 => RetriesTransient(replies, x.sent)
                      /\ x.ok => /\ {x.ranked[i].hit : i \in DOMAIN x.ranked} = 1..hits
                                 /\ Len(x.ranked) = hits
                                 /\ \A i, j \in DOMAIN x.ranked : i < j => x.ranked[i].score >= x.ranked[j].score
                                 /\ \A i \in DOMAIN x.ranked :
                                      [index |-> x.ranked[i].hit - 1, score |-> x.ranked[i].score]
                                        \in ToSet(replies[x.sent].data)
<1>4. Good(r)
  <2>1. CASE hits = 0
    <3>1. r = [ok |-> TRUE, sent |-> 0, ranked |-> <<>>]
      BY <2>1, Zenon DEF Rerank
    <3>. HIDE DEF r
    <3>2. r.ranked = <<>>
      BY <3>1
    <3>3. DOMAIN r.ranked = {} /\ Len(r.ranked) = 0
      BY <3>2
    <3>4. 1..hits = {} /\ ~(hits > 0)
      BY <2>1
    <3>. QED BY <2>1, <3>3, <3>4
  <2>2. CASE hits # 0
    <3>1. hits \in Nat \ {0}
      BY <1>1, <2>2
    <3>2. PICK x : x = r
      OBVIOUS
    <3>. HIDE DEF hits, replies
    <3>3. Good(x)
      BY <1>1, <3>1, <3>2, RerankIs
    <3>. HIDE DEF Good, r
    <3>. QED BY <3>2, <3>3, Zenon
  <2>. QED BY <2>1, <2>2
<1>5. Good(out')
  <2>. HIDE DEF Good, r
  <2>. QED BY <1>1, <1>4, Zenon
<1>. QED BY <1>1, <1>5, Zenon DEF ProviderOrderKept, Returned

\* Vectors and scores end up with the texts they belong to, whatever the order in which
\* a provider lists them, over batches and retries, and only transient failures are tried
\* again; for any number of texts, hits and attempts and any size of a batch.
\* (post_json, embed, rerank)
THEOREM ProvidersKeepOrder == Spec => []ProviderOrderKept
<1> DEFINE Inv == (at = "called" => Provided) /\ ProviderOrderKept
<1>1. Init => Inv
  BY InitProvided DEF ProviderOrderKept, Returned, Init
<1>2. Inv /\ [Next]_vars => Inv'
  <2> SUFFICES ASSUME Inv, [Next]_vars PROVE Inv'
    OBVIOUS
  <2>1. CASE UNCHANGED vars
    BY <2>1 DEF vars, Provided, ProviderOrderKept, Returned
  <2>2. CASE EmbedTexts
    BY <2>2, VectorsAreInOrder DEF EmbedTexts, Returns
  <2>3. CASE RerankHits
    BY <2>3, RankingIsInOrder DEF RerankHits, Returns
  <2>4. CASE Parse \/ Chunk \/ Rank \/ DescribeResult \/ Import
    BY <2>4 DEF Parse, Chunk, Rank, DescribeResult, Import, Returns, ProviderOrderKept, Returned
  <2>. QED BY <2>1, <2>2, <2>3, <2>4 DEF Next
<1>3. Inv => ProviderOrderKept
  OBVIOUS
<1>. HIDE DEF Inv
<1>. QED BY <1>1, <1>2, <1>3, PTL DEF Spec
=============================================================================
