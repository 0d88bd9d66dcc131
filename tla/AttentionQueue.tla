---------------------------- MODULE AttentionQueue ----------------------------
(***************************************************************************)
(* app/detection/attention_queue.py: a view's rows ranked by a column of    *)
(* numbers and split into tiers.  Of the columns, "amount" looks like a     *)
(* metric and "name" and "code" are labels.                                 *)
(***************************************************************************)
EXTENDS ResultRows

\* _pick_columns without names given: every amount is a number, and there is
\* something to call the rows.
AutoColumns(result) ==
  /\ "amount" \in result.columns
  /\ \A i \in DOMAIN result.rows : result.rows[i]["amount"] # Null
  /\ result.columns \cap {"name", "code"} # {}

\* The caller's columns are trusted: they only have to be there.
GivenColumns(result, value, label) == {value, label} \subseteq result.columns

Rankable(result, given) ==
  /\ result.rows # <<>>
  /\ IF given = Nothing THEN AutoColumns(result)
                        ELSE GivenColumns(result, given.value, given.label)

ValueColumn(given) == IF given = Nothing THEN "amount" ELSE given.value

\* float(None): an explicitly named column may hold nulls.
RankCrashes(result, given) ==
  \E i \in DOMAIN result.rows : result.rows[i][ValueColumn(given)] = Null

\* round(n / 3); no third of a whole number is halfway between two.
Thirds(n) == (2 * n + 3) \div 6

\* Mutant: a short list has no top tier.
HighCutRounded(n) == Thirds(n)

HighCut(n) == IF Thirds(n) >= 1 THEN Thirds(n) ELSE 1

MediumCut(n) == IF Thirds(2 * n) >= HighCut(n) THEN Thirds(2 * n) ELSE HighCut(n)

Tier(position, n) ==
  IF position <= HighCut(n) THEN "HIGH"
  ELSE IF position <= MediumCut(n) THEN "MEDIUM"
  ELSE "LOW"

\* The column added up, row by row.
Total(rows, column) ==
  LET sum[n \in 0..Len(rows)] == IF n = 0 THEN 0 ELSE sum[n - 1] + rows[n][column]
  IN sum[Len(rows)]

\* build_attention_queue for a rankable result; maxItems may be any integer.
Queue(result, given, maxItems) ==
  LET column == ValueColumn(given)
      ranked == Sorted(result.rows, column, TRUE)
      n == Len(ranked)
      shown == Slice(ranked, maxItems)
  IN [items |-> [p \in DOMAIN shown |-> [value |-> shown[p][column], tier |-> Tier(p, n)]],
      total |-> Total(ranked, column),
      truncated |-> n > maxItems]
=============================================================================
