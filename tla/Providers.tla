------------------------------ MODULE Providers ------------------------------
(***************************************************************************)
(* The HTTP adapters of retrieval: post_json with its retries, the         *)
(* embedding of texts in batches, and the reranking of hits.  A reply of a *)
(* provider is [status, data]:                                             *)
(*   status  "down" (no answer), "busy" (429 or 5xx), "refused" (another   *)
(*           4xx), "garbage" (not a JSON object, or items that hold no     *)
(*           usable vector or score) or "ok"                               *)
(*   data    a sequence of items [index, score]                            *)
(***************************************************************************)
EXTENDS Integers, Sequences, FiniteSets, FiniteSetsExt, SequencesExt, Ranking

Transient(reply) == reply.status \in {"down", "busy"}

\* post_json: the number of requests, and the last reply.
PostJson(replies, attempts) ==
  LET sent == Min({i \in 1..attempts : i = attempts \/ ~Transient(replies[i])})
  IN [sent |-> sent, reply |-> replies[sent]]

Indexes(data) == {data[i].index : i \in DOMAIN data}

\* Exactly one item for each of n inputs.
Complete(data, n) == Len(data) = n /\ Indexes(data) = 0..(n - 1)

\* Mutant: the items are taken in the order in which they came.
MutByIndex(data) == data

\* sorted by index
ByIndex(data) ==
  LET order == Ranked(DOMAIN data, LAMBDA i, j : data[i].index < data[j].index \/ (data[i].index = data[j].index /\ i < j))
  IN [k \in DOMAIN order |-> data[order[k]]]

\* embed: one request per batch; vectors[i] is the text (by its number) whose embedding
\* it is.  The first batch that fails ends the call.
Embed(texts, size, attempts, replies) ==
  LET batches == (texts + size - 1) \div size
      step(acc, b) ==
        LET first == (b - 1) * size
            n     == Min({size, texts - first})
            post  == PostJson(replies[b], attempts)
            ok    == post.reply.status = "ok" /\ Complete(post.reply.data, n)
            items == ByIndex(post.reply.data)
        IN IF ~acc.ok THEN acc
           ELSE [ok |-> ok, sent |-> Append(acc.sent, post.sent),
                 vectors |-> IF ok THEN acc.vectors \o [i \in DOMAIN items |-> first + items[i].index + 1]
                             ELSE <<>>]
  IN FoldLeft(step, [ok |-> TRUE, sent |-> <<>>, vectors |-> <<>>], [b \in 1..batches |-> b])

\* HTTPReranker.rerank: the hits (by their numbers), best score first.  Items of equal
\* score stay in the order in which they came.
Rerank(hits, attempts, replies) ==
  LET post  == PostJson(replies, attempts)
      data  == post.reply.data
      order == Ranked(DOMAIN data,
                      LAMBDA i, j : data[i].score > data[j].score \/ (data[i].score = data[j].score /\ i < j))
  IN IF hits = 0 THEN [ok |-> TRUE, sent |-> 0, ranked |-> <<>>]
     ELSE IF post.reply.status # "ok" \/ ~Complete(data, hits) THEN [ok |-> FALSE, sent |-> post.sent, ranked |-> <<>>]
     ELSE [ok |-> TRUE, sent |-> post.sent,
           ranked |-> [i \in DOMAIN order |-> [hit |-> data[order[i]].index + 1, score |-> data[order[i]].score]]]
=============================================================================
