------------------------------ MODULE ResultRows ------------------------------
(***************************************************************************)
(* The results the data paths pass around and what is done to them without  *)
(* a query: app/execution/executor.py run_view and run_sql with their row   *)
(* caps, and app/execution/refine.py.                                       *)
(*                                                                         *)
(* A row is a function from column names to numbers or Null; a name or a    *)
(* code is a number too, since only its identity and order are looked at.   *)
(* whole is history: the rows the result would have had without any cap.    *)
(***************************************************************************)
EXTENDS Integers, FiniteSets, SequencesExt

CONSTANTS
  MaxRows,    \* max_rows
  Null,       \* SQL NULL
  NoFilter,   \* run_view without filters
  Nothing     \* a field of a request that is not given

ASSUME RowsAssumption ==
  /\ MaxRows \in Nat \ {0}
  /\ Null \notin Int /\ Nothing \notin Int

AtMost(n, limit) == IF n <= limit THEN n ELSE limit

First(rows, n) == SubSeq(rows, 1, AtMost(Len(rows), n))

\* The rows that are good, in the order they have, taken in one pass.
Where(rows, good) ==
  LET taken[n \in 0..Len(rows)] ==
        IF n = 0 THEN <<>>
        ELSE IF rows[n] \in good THEN Append(taken[n - 1], rows[n])
        ELSE taken[n - 1]
  IN taken[Len(rows)]

\* ReadOnlyExecutor._execute: one row more than the cap is fetched, if the
\* statement yields it.
Execute(yielded, cap, view, source, columns, whole) ==
  [view |-> view, source |-> source, columns |-> columns,
   rows |-> First(yielded, cap), count |-> Len(First(yielded, cap)),
   truncated |-> Len(First(yielded, cap + 1)) > cap, whole |-> whole]

\* Mutant: the caller's limit wins over max_rows.
LimitWins(limit) == IF limit \in {Nothing, 0} THEN MaxRows ELSE limit

\* min(limit or self._max_rows, self._max_rows)
EffectiveCap(limit) ==
  IF limit \in {Nothing, 0} THEN MaxRows ELSE AtMost(limit, MaxRows)

\* The WHERE clause.  SQLite reads a quoted name that is no column as a string,
\* which equals no value here: no rows, and no error.
Matching(object, filter) ==
  IF filter = NoFilter THEN object.rows
  ELSE IF filter.column \notin object.columns THEN <<>>
  ELSE Where(object.rows, {r \in ToSet(object.rows) : r[filter.column] = filter.value})

\* Mutant: no row beyond the cap is asked for.
RunViewExact(view, object, filter, limit) ==
  LET found == Matching(object, filter)
      cap == EffectiveCap(limit)
  IN Execute(First(found, cap), cap, view, "view", object.columns, found)

\* run_view on an object that is there.
RunView(view, object, filter, limit) ==
  LET found == Matching(object, filter)
      cap == EffectiveCap(limit)
  IN Execute(First(found, cap + 1), cap, view, "view", object.columns, found)

\* run_view raises: no such object, or the query fails.
ViewFails(objects, view) == view \notin DOMAIN objects \/ objects[view].broken

\* run_sql of a validated statement, which carries a LIMIT of its own.
RunSql(view, object, limit) ==
  Execute(First(object.rows, limit), MaxRows, view, "generated_sql", object.columns,
          object.rows)

-----------------------------------------------------------------------------
(* Refinements *)

\* _passes
Passes(cell, op, target) ==
  \/ op = "eq" /\ cell = target
  \/ op = "ne" /\ cell # target
  \/ cell # Null /\ \/ op = "gt" /\ cell > target
                    \/ op = "gte" /\ cell >= target
                    \/ op = "lt" /\ cell < target
                    \/ op = "lte" /\ cell <= target

Kept(rows, filters) ==
  Where(rows, {r \in ToSet(rows) : \A f \in filters : Passes(r[f.column], f.op, f.value)})

\* Row j comes before row i: by value, ties and nulls in the order they had,
\* nulls last in both directions.
Precedes(rows, column, descending, j, i) ==
  LET a == rows[j][column]
      b == rows[i][column]
  IN IF a = b THEN j < i
     ELSE IF Null \in {a, b} THEN b = Null
     ELSE IF descending THEN a > b ELSE a < b

Sorted(rows, column, descending) ==
  LET place(i) == 1 + Cardinality({j \in DOMAIN rows : Precedes(rows, column, descending, j, i)})
  IN [p \in DOMAIN rows |-> rows[CHOOSE i \in DOMAIN rows : place(i) = p]]

\* rows[:limit], where a negative limit counts from the end.
Slice(rows, limit) ==
  IF limit >= 0 THEN First(rows, limit)
  ELSE SubSeq(rows, 1, Len(rows) + limit)

UnknownColumn(result, spec) ==
  \/ spec.sort # Nothing /\ spec.sort \notin result.columns
  \/ \E f \in spec.filters : f.column \notin result.columns

SortedFor(rows, spec) ==
  IF spec.sort = Nothing THEN rows ELSE Sorted(rows, spec.sort, spec.descending)

\* Mutant: the cut is made before the sort.
RefineCutFirst(result, spec) ==
  LET kept == Kept(result.rows, spec.filters)
      cut == spec.limit # Nothing /\ Len(kept) > spec.limit
  IN [result EXCEPT !.rows = SortedFor(IF cut THEN Slice(kept, spec.limit) ELSE kept, spec),
                    !.count = Len(kept),
                    !.truncated = @ \/ cut,
                    !.whole = Kept(@, spec.filters)]

\* apply_refinement with columns the result has.
Refine(result, spec) ==
  LET kept == SortedFor(Kept(result.rows, spec.filters), spec)
      cut == spec.limit # Nothing /\ Len(kept) > spec.limit
  IN [result EXCEPT !.rows = IF cut THEN Slice(kept, spec.limit) ELSE kept,
                    !.count = Len(kept),
                    !.truncated = @ \/ cut,
                    !.whole = Kept(@, spec.filters)]
=============================================================================
