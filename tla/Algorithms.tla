------------------------------ MODULE Algorithms ------------------------------
(***************************************************************************)
(* The pure functions of the service, each called once on every input the  *)
(* bounds allow, and what a caller may rely on in what they return.        *)
(*   call  the function and its arguments                                  *)
(*   out   what it returned                                                *)
(* (A boundary may be where the code's is or one off, so the bounds are     *)
(* small but reach both sides of every comparison.)                        *)
(***************************************************************************)
EXTENDS Documents, Providers, RankFusion, QueryResults, CatalogGraph

CONSTANTS
  MaxLines,        \* of a document
  DocumentSizes,   \* bytes of a document
  MaxMarkdown, MaxPdf, MaxPages,  \* the limits on documents
  MaxText,         \* characters of a section
  MaxChunk,        \* max_characters
  Attempts,        \* of a request to a provider
  Batch,           \* texts in one embedding request
  MaxTexts, MaxHits,
  Scores,          \* of candidates, and of a reranker
  RrfK,            \* values of rrf_k
  Results,         \* the rows of statements
  EmptySizes,      \* bytes of a result without rows
  RowLimits, ByteLimits,  \* of a result
  Tables, Columns, \* names of tables, and of columns of a table
  MaxKeys,         \* foreign keys of a catalogue
  Alike,           \* sets of names that differ only in case
  JsonSizes,       \* of a catalogue
  GraphLimits      \* of its graph: text, entities, relations

ASSUME AlgorithmsAssumption ==
  /\ {MaxLines, MaxText, MaxChunk, MaxTexts, MaxHits, MaxKeys, MaxMarkdown, MaxPdf, MaxPages} \subseteq Nat
  /\ Attempts \in Nat \ {0} /\ Batch \in Nat \ {0}
  /\ Scores \subseteq Nat /\ RrfK \subseteq Nat \ {0} /\ DocumentSizes \subseteq Nat /\ JsonSizes \subseteq Nat
  /\ \A k \in RrfK : LexicalWeight * (k + 1) > VectorWeight * (k + MaxHits)
  /\ \A rows \in Results : rows \in Seq([period : Nat, numeric : BOOLEAN, value : Int, size : Nat])
  /\ EmptySizes \subseteq Nat /\ RowLimits \subseteq Nat /\ ByteLimits \subseteq Nat
  /\ Tables \subseteq Nat /\ IsFiniteSet(Tables) /\ Columns \subseteq Nat /\ IsFiniteSet(Columns)
  /\ GraphLimits \in [text : Nat, entities : Nat, relations : Nat]

VARIABLES at, call, out
vars == <<at, call, out>>

----------------------------------------------------------------------------
(* Inputs *)

Limits == [markdown |-> MaxMarkdown, pdf |-> MaxPdf, pages |-> MaxPages]

Uploads ==
  \E type \in {"MARKDOWN", "PDF", "binary", "encrypted", "other"}, size \in DocumentSizes :
    \E n \in 0..MaxLines :
      \E lines \in [1..n -> IF type = "MARKDOWN" THEN {"h1", "h2", "text", "blank"} ELSE {"text", "blank"}] :
        /\ size = 0 => n = 0
        /\ n = 0 => size = 0 \/ type # "MARKDOWN"
        /\ call = [fn |-> "parse", doc |-> [type |-> type, size |-> size, lines |-> lines]]

\* The content of a section neither begins nor ends with a blank.
Contents ==
  \E n \in 1..MaxText, max \in 1..MaxChunk :
    \E text \in [1..n -> {"x", "o", ".", " ", "\n"}], overlap \in 0..(max - 1) :
      /\ ~Blank(text[1]) /\ ~Blank(text[n])
      /\ call = [fn |-> "chunk", text |-> text, max |-> max, overlap |-> overlap]

Failures == {[status |-> s, data |-> <<>>] : s \in {"down", "busy", "refused", "garbage"}}
Items(n) == [1..n -> [index : 0..(Batch - 1), score : {0}]]
Answers == {[status |-> "ok", data |-> d] : d \in UNION {Items(n) : n \in 0..Batch}}

Embeds ==
  \E n \in 1..MaxTexts :
    \E replies \in [1..((n + Batch - 1) \div Batch) -> [1..Attempts -> Failures \cup Answers]] :
      call = [fn |-> "embed", texts |-> n, replies |-> replies]

Reranks ==
  \E n \in 0..MaxHits, m \in 0..MaxHits :
    \E data \in [1..m -> [index : 0..(MaxHits - 1), score : Scores]], failed \in [1..(Attempts - 1) -> Failures] :
      call = [fn |-> "rerank", hits |-> n, replies |-> Append(failed, [status |-> "ok", data |-> data])]

\* Candidates in the order of their scores, each once.
Candidates ==
  {list \in UNION {[1..n -> [id : 1..MaxHits, score : Scores]] : n \in 0..MaxHits} :
     /\ \A i, j \in DOMAIN list : i < j => list[i].id # list[j].id /\ list[i].score >= list[j].score}

Searches ==
  \E lexical \in Candidates, vector \in Candidates, k \in RrfK, limit \in 1..MaxHits,
     mode \in {"lexical", "vector", "hybrid"} :
    /\ mode = "lexical" => vector = <<>>
    /\ mode = "vector" => lexical = <<>>
    /\ call = [fn |-> "rank", lexical |-> lexical, vector |-> vector, k |-> k, limit |-> limit, mode |-> mode]

Statements ==
  \E rows \in Results, base \in EmptySizes, maxRows \in RowLimits, maxBytes \in ByteLimits :
    call = [fn |-> "describe", base |-> base, rows |-> rows, maxRows |-> maxRows, maxBytes |-> maxBytes]

Catalogues ==
  \E columns \in SUBSET (Tables \X Columns), alike \in Alike, size \in JsonSizes,
     keys \in SUBSET [table : Tables, schema : {"own", "other"}, refs : Tables] :
    /\ Cardinality(keys) <= MaxKeys
    /\ call = [fn |-> "graph", columns |-> columns, keys |-> keys, alike |-> alike, size |-> size]

----------------------------------------------------------------------------

Init == /\ at = "called"
        /\ out = <<>>
        /\ Uploads \/ Contents \/ Embeds \/ Reranks \/ Searches \/ Statements \/ Catalogues

Returns(fn, result) == at = "called" /\ call.fn = fn /\ at' = "returned" /\ out' = result /\ UNCHANGED call

Parse == Returns("parse", ParseDocument(call.doc, Limits))

Chunk == Returns("chunk", [ranges |-> Ranges(call.text, call.max, call.overlap),
                           chunks |-> Chunks(call.text, call.max, call.overlap)])

EmbedTexts == Returns("embed", Embed(call.texts, Batch, Attempts, call.replies))

RerankHits == Returns("rerank", Rerank(call.hits, Attempts, call.replies))

Rank == Returns("rank", LET hits == Hits(call.lexical, call.vector, call.mode, call.k, call.limit)
                        IN [hits |-> hits, answer |-> HasEvidence(hits, call.mode)])

\* A result that is refused is not described.
DescribeResult ==
  Returns("describe", LET result == BoundedResult(call.base, call.rows, call.maxRows, call.maxBytes)
                      IN [result |-> result, said |-> Describe(result.rows, result.truncated)])

Import == Returns("graph", MetadataExtraction(BuildSnapshot(call.columns, call.keys), call.alike, call.size, GraphLimits))

Next == Parse \/ Chunk \/ EmbedTexts \/ RerankHits \/ Rank \/ DescribeResult \/ Import

Spec == Init /\ [][Next]_vars

Returned(fn) == at = "returned" /\ call.fn = fn

----------------------------------------------------------------------------
(* Properties *)

\* The heading a line of markdown is under.
Above(lines, n) ==
  LET headings == {h \in 1..(n - 1) : IsHeading(lines[h])}
  IN IF headings = {} THEN "default" ELSE lines[Max(headings)]

\* What a citation points to is where the text is: every line (or page) of text is in
\* exactly one section, which has the title of the nearest heading above it and names a
\* range of lines that holds it, and the ranges of two sections share no line.  A
\* document is refused only for a limit or because no section is left.
\* (_parse_markdown, flush, _parse_pdf)
SectionsLocateText ==
  Returned("parse") =>
    LET doc == call.doc
        sections == out.sections
        text == {n \in DOMAIN doc.lines : doc.lines[n] = "text"}
    IN IF out.error = "none"
       THEN /\ \A n \in text : \E i \in DOMAIN sections :
                 /\ {j \in DOMAIN sections : n \in sections[j].content} = {i}
                 /\ n \in sections[i].first..sections[i].last
                 /\ doc.type = "MARKDOWN" => sections[i].title = Above(doc.lines, n)
            /\ \A i, j \in DOMAIN sections : i < j => sections[i].last < sections[j].first
            /\ \A i \in DOMAIN sections : sections[i].last <= Len(doc.lines)
       ELSE \/ text = {}
            \/ doc.type \notin {"MARKDOWN", "PDF"}
            \/ doc.size > (IF doc.type = "MARKDOWN" THEN MaxMarkdown ELSE MaxPdf)
            \/ doc.type = "PDF" /\ Len(doc.lines) > MaxPages

\* No text is lost between chunks: every character that is not blank is in a chunk, no
\* chunk is longer than the limit, each range starts after the one before and leaves no
\* gap; and as long as the overlap is at most one more than half the limit (120 of 1200
\* in the code), each range also ends after the one before, so no chunk repeats what an
\* earlier one holds.  (chunk_sections)
ChunksCoverSection ==
  Returned("chunk") =>
    LET ranges == out.ranges
        chunks == out.chunks
    IN /\ \A i \in 0..(Len(call.text) - 1) :
            ~Blank(call.text[i + 1]) => \E c \in DOMAIN chunks : i \in chunks[c]
       /\ \A c \in DOMAIN chunks : chunks[c] # {} /\ Cardinality(chunks[c]) <= call.max
       /\ \A r \in 1..(Len(ranges) - 1) :
            /\ ranges[r][1] < ranges[r + 1][1] /\ ranges[r + 1][1] <= ranges[r][2]
            /\ call.overlap <= call.max \div 2 + 1 => ranges[r][2] < ranges[r + 1][2]

\* No request follows an answer that is not transient, and every one before it was.
RetriesTransient(replies, sent) ==
  /\ \A i \in 1..(sent - 1) : Transient(replies[i])
  /\ sent = Attempts \/ ~Transient(replies[sent])

\* Vectors and scores end up with the texts they belong to, whatever the order in which
\* a provider lists them, over batches and retries: an embedding that succeeds has one
\* vector per text, in the order of the texts; a ranking holds every hit once, best
\* score first.  Only transient failures are tried again.  (post_json, embed, rerank)
ProviderOrderKept ==
  /\ Returned("embed") =>
       /\ out.ok => out.vectors = [i \in 1..call.texts |-> i]
       /\ \A b \in DOMAIN out.sent : RetriesTransient(call.replies[b], out.sent[b])
       /\ \A b \in DOMAIN out.sent : b < Len(out.sent) => call.replies[b][out.sent[b]].status = "ok"
  /\ Returned("rerank") =>
       /\ call.hits > 0 => RetriesTransient(call.replies, out.sent)
       /\ out.ok => /\ {out.ranked[i].hit : i \in DOMAIN out.ranked} = 1..call.hits
                    /\ Len(out.ranked) = call.hits
                    /\ \A i, j \in DOMAIN out.ranked : i < j => out.ranked[i].score >= out.ranked[j].score
                    /\ \A i \in DOMAIN out.ranked :
                         [index |-> out.ranked[i].hit - 1, score |-> out.ranked[i].score]
                           \in ToSet(call.replies[out.sent].data)

\* a is found before b, or b is not found at all.
Before(list, a, b) == a \in Ids(list) /\ (b \notin Ids(list) \/ RankOf(list, a) < RankOf(list, b))

\* The fusion keeps to the two rankings: no hit is returned twice, none that both
\* searches put behind another (or did not find) comes before it or takes its place
\* under the limit, and none that only the vectors found comes before a lexical hit
\* (the lists are no longer than 2k + 2).  The answer is held back exactly if no hit that
\* is returned reaches the threshold of a search that was made.  (_rank, _has_evidence)
FusionIsFair ==
  Returned("rank") =>
    LET hits == out.hits
        found == Ids(call.lexical) \cup Ids(call.vector)
        shown == {hits[i].id : i \in DOMAIN hits}
        ahead(a, b) == \/ \E i, j \in DOMAIN hits : i < j /\ hits[i].id = a /\ hits[j].id = b
                       \/ a \in shown /\ b \notin shown
    IN /\ Cardinality(shown) = Len(hits) /\ Len(hits) = Min({call.limit, Cardinality(found)})
       /\ \A a, b \in found :
            ahead(a, b) => /\ ~(Before(call.lexical, b, a) /\ Before(call.vector, b, a))
                           /\ b \in Ids(call.lexical) => a \in Ids(call.lexical)
       /\ out.answer <=> \E id \in shown : \/ ScoreOf(call.lexical, id) >= MinLexical
                                           \/ ScoreOf(call.vector, id) >= MinVector

Bytes(rows) == FoldLeft(LAMBDA n, row : n + row.size, 0, rows)

\* The user is told that rows are missing exactly if some are, at the row that meets the
\* limit and at the byte that does; "no data" is said only of a statement that has none.
\* The rows are the longest prefix that fits, and the bytes reported are theirs.
\* A change is told from the earlier period to the later one, if the periods of the rows
\* kept are written with equally many digits.  (row_fetch_limit, _bounded_result, describe_sql_result)
DescriptionIsGrounded ==
  Returned("describe") =>
    LET result == out.result
        kept == Len(result.rows)
        cost(n) == call.base + Bytes(SubSeq(call.rows, 1, n)) + (IF n > 1 THEN n - 1 ELSE 0)
    IN ~result.refused =>
         /\ out.said.told <=> kept < Len(call.rows)
         /\ result.rows = SubSeq(call.rows, 1, kept)
         /\ result.bytes = cost(kept) /\ cost(kept) <= call.maxBytes
         /\ kept < Min({call.maxRows, Len(call.rows)}) => cost(kept + 1) > call.maxBytes
         /\ out.said.kind = "no_data" => call.rows = <<>>
         /\ out.said.change # "none" /\ (\A i, j \in 1..kept : Width(result.rows[i].period) = Width(result.rows[j].period))
              => result.rows[1].period < result.rows[kept].period

\* The graph of a catalogue is one that can be stored: no two entities share an id or a
\* kind and name, both ends of every relation are entities, every column belongs to its
\* table, and two tables of the schema are joined if a key says so, whatever the two
\* statements saw of a catalogue that changes between them.  (build_snapshot,
\* metadata_extraction)
CatalogGraphIsValid ==
  Returned("graph") /\ ~out.refused =>
    LET entities == out.entities
        table(t) == {e.id : e \in {x \in entities : x.kind = "Table" /\ x.name = <<t>>}}
    IN /\ \A d, e \in entities : d.id = e.id \/ (d.kind = e.kind /\ d.name = e.name) => d = e
       /\ \A r \in out.relations : r.source \in {e.id : e \in entities} /\ r.target \in {e.id : e \in entities}
       /\ \A e \in entities : e.kind = "Column" =>
            \E r \in out.relations : r.source = e.id /\ r.kind = "BELONGS_TO" /\ r.target \in table(e.name[1])
       /\ \A key \in call.keys :
            key.schema = "own" =>
              \A s \in table(key.table), t \in table(key.refs) :
                [source |-> s, target |-> t, kind |-> "JOINS_WITH"] \in out.relations
=============================================================================
