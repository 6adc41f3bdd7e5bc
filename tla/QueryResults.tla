---------------------------- MODULE QueryResults ----------------------------
(***************************************************************************)
(* From the rows of a statement to what the user is told of them: the      *)
(* executor fetches one row more than it may return, _bounded_result keeps *)
(* what fits, and describe_sql_result says something about the rows kept.  *)
(* A row is [period, numeric, value, size]: the number in its period       *)
(* column, whether the value of its metric column is a finite number, that *)
(* number, and the bytes of the row's JSON.                                *)
(***************************************************************************)
EXTENDS Integers, Sequences, FiniteSets, FiniteSetsExt, SequencesExt

\* Mutant: no row more than may be returned is asked for.
MutFetched(rows, max) == SubSeq(rows, 1, Min({Len(rows), max}))

\* The bounded statement and fetchmany: one row more than may be returned.
Fetched(rows, max) == SubSeq(rows, 1, Min({Len(rows), max + 1}))

\* _bounded_result, for a result whose empty form takes base bytes; one that does not
\* even fit when it is empty is refused.
BoundedResult(base, rows, maxRows, maxBytes) ==
  LET raw == Fetched(rows, maxRows)
      step(acc, row) ==
        LET added == row.size + (IF acc.rows = <<>> THEN 0 ELSE 1)
        IN IF acc.full THEN acc
           ELSE IF acc.bytes + added > maxBytes THEN [acc EXCEPT !.full = TRUE, !.truncated = TRUE]
           ELSE [acc EXCEPT !.rows = Append(@, row), !.bytes = @ + added]
  IN FoldLeft(step, [rows |-> <<>>, bytes |-> base, truncated |-> Len(raw) > maxRows,
                     full |-> base > maxBytes, refused |-> base > maxBytes],
              SubSeq(raw, 1, Min({Len(raw), maxRows})))

----------------------------------------------------------------------------

\* The number of digits that str gives a number, and the order of two such strings: that
\* of their common length, the shorter one being first if it is how the longer one begins.
Width(n) == CHOOSE k \in 1..(n + 1) : n < 10^k /\ (k = 1 \/ 10^(k - 1) <= n)
StringLeq(a, b) ==
  LET x == Width(a)
      y == Width(b)
  IN IF x = y THEN a <= b
     ELSE IF x < y THEN a <= b \div 10^(y - x)
     ELSE a \div 10^(x - y) < b

Sign(n) == IF n > 0 THEN "up" ELSE IF n < 0 THEN "down" ELSE "flat"

\* _period_change: nothing is said unless the periods are sorted and differ.
PeriodChange(rows) ==
  LET last == rows[Len(rows)]
  IN IF (\E i \in 1..(Len(rows) - 1) : ~StringLeq(rows[i].period, rows[i + 1].period)) \/ rows[1].period = last.period
     THEN "none" ELSE Sign(last.value - rows[1].value)

\* max and min of rows by value: the first of them.
Highest(rows) == Min({i \in DOMAIN rows : \A j \in DOMAIN rows : rows[j].value <= rows[i].value})
Lowest(rows) == Min({i \in DOMAIN rows : \A j \in DOMAIN rows : rows[j].value >= rows[i].value})

\* _number gives a number for every row, so the metric is one.
Numeric(rows) == \A i \in DOMAIN rows : rows[i].numeric

\* describe_sql_result: which of its sentences is used, the rows it names as highest and
\* lowest, the change it tells of, and whether it tells that rows are missing.
Describe(rows, truncated) ==
  LET metric == Numeric(rows)
      kind == CASE rows = <<>> -> IF truncated THEN "size_limit" ELSE "no_data"
                [] rows # <<>> /\ ~metric -> "first_row"
                [] rows # <<>> /\ metric /\ Len(rows) <= 4 -> "each_row"
                [] OTHER -> "extremes"
  IN [kind    |-> kind,
      highest |-> IF kind = "extremes" THEN Highest(rows) ELSE 0,
      lowest  |-> IF kind = "extremes" THEN Lowest(rows) ELSE 0,
      change  |-> IF kind \in {"each_row", "extremes"} /\ Len(rows) > 1 THEN PeriodChange(rows) ELSE "none",
      told    |-> truncated]
=============================================================================
