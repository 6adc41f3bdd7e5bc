---------------------------- MODULE CatalogGraph ----------------------------
(***************************************************************************)
(* From the catalogue of a database to a graph: inspect reads columns and  *)
(* foreign keys with one statement each, build_snapshot puts them together *)
(* and metadata_extraction makes entities and relations of the snapshot.   *)
(* The two statements may see the catalogue at two times, so any columns   *)
(* meet any keys.  A column is <<table, column>> (numbers, in the order of *)
(* their names), a key [table, schema, refs]; keys that agree in these are *)
(* one.                                                                    *)
(***************************************************************************)
EXTENDS Naturals, Sequences, FiniteSets, FiniteSetsExt, SequencesExt, Ranking

Sorted(S) == Ranked(S, LAMBDA a, b : a < b)

\* build_snapshot: the tables that have columns, by name; keys of other tables are lost.
BuildSnapshot(columns, keys) ==
  LET names == Sorted({c[1] : c \in columns})
  IN [i \in DOMAIN names |->
        [name    |-> names[i],
         columns |-> Sorted({c[2] : c \in {d \in columns : d[1] = names[i]}}),
         keys    |-> {k \in keys : k.table = names[i]}]]

TableIds(snapshot) == {snapshot[i].name : i \in DOMAIN snapshot}
TableId(snapshot, name) == <<"table", CHOOSE i \in DOMAIN snapshot : snapshot[i].name = name>>

Entities(snapshot) ==
  {[id |-> <<"source">>, kind |-> "DataSource", name |-> <<>>]}
  \cup {[id |-> <<"table", i>>, kind |-> "Table", name |-> <<snapshot[i].name>>] : i \in DOMAIN snapshot}
  \cup UNION {{[id |-> <<"column", i, j>>, kind |-> "Column", name |-> <<snapshot[i].name, snapshot[i].columns[j]>>] :
                j \in DOMAIN snapshot[i].columns} : i \in DOMAIN snapshot}

\* Mutant: keys are followed to tables that are not in the snapshot.
MutJoins(snapshot, table) ==
  {[source |-> TableId(snapshot, table.name),
    target |-> IF k.refs \in TableIds(snapshot) THEN TableId(snapshot, k.refs) ELSE <<"table", 0>>,
    kind |-> "JOINS_WITH"] : k \in table.keys}

\* A key is followed if there is a table of the name it refers to.
Joins(snapshot, table) ==
  {[source |-> TableId(snapshot, table.name), target |-> TableId(snapshot, k.refs), kind |-> "JOINS_WITH"] :
     k \in {key \in table.keys : key.refs \in TableIds(snapshot)}}

Relations(snapshot) ==
  UNION {{[source |-> <<"table", i>>, target |-> <<"source">>, kind |-> "BELONGS_TO"]}
         \cup {[source |-> <<"column", i, j>>, target |-> <<"table", i>>, kind |-> "BELONGS_TO"] :
                j \in DOMAIN snapshot[i].columns}
         \cup Joins(snapshot, snapshot[i]) : i \in DOMAIN snapshot}

\* The lengths of the two lists: each table and each column belongs to something, and
\* each key that is followed is a relation of its own.
NumberOfEntities(snapshot) == Cardinality(Entities(snapshot))
NumberOfRelations(snapshot) ==
  NumberOfEntities(snapshot) - 1
    + Cardinality(UNION {{k \in snapshot[i].keys : k.refs \in TableIds(snapshot)} : i \in DOMAIN snapshot})

\* Two tables, or two columns of a table, have names that are equal after casefold;
\* alike are the names that are.
NamesClash(snapshot, alike) ==
  \/ Cardinality(alike \cap TableIds(snapshot)) > 1
  \/ \E i \in DOMAIN snapshot : Cardinality(alike \cap ToSet(snapshot[i].columns)) > 1

\* metadata_extraction: a catalogue whose JSON is too long is refused, and a graph that
\* Extraction does not accept.
MetadataExtraction(snapshot, alike, size, limits) ==
  LET refused == \/ size > limits.text
                 \/ NumberOfEntities(snapshot) > limits.entities
                 \/ NumberOfRelations(snapshot) > limits.relations
                 \/ NamesClash(snapshot, alike)
  IN [refused   |-> refused,
      entities  |-> IF refused THEN {} ELSE Entities(snapshot),
      relations |-> IF refused THEN {} ELSE Relations(snapshot)]
=============================================================================
