------------------------------ MODULE DataPaths ------------------------------
(***************************************************************************)
(* What the paths of a turn do with one company's data between two calls of *)
(* the LLM: the view path, the generated SQL, the refinement of an earlier  *)
(* result, playbooks, the scan and detect, and the agent's run_view, over   *)
(* one result cache and one working set.  What the LLM chose is an input.   *)
(*                                                                         *)
(* db is the file the pool reads and known what discovery last found: a     *)
(* refresh replaces the first, with the cache flushed, before the second    *)
(* (CompanyRuntime has its steps), so turns in between query a new file by  *)
(* an old index.  The refresh runs on a thread of its own: it may also come *)
(* between a query and the put of its result in the cache (pending), which  *)
(* then outlives the flush.  An operation's other reads are one step: what  *)
(* it reads of known comes before its query and does not depend on db.      *)
(***************************************************************************)
EXTENDS EntityResolver, AttentionQueue, PlaybookRun, SqlGate

CONSTANTS
  Databases,    \* what a database file may hold: functions from views to objects
  Order,        \* the alphabetical order of the views
  Texts,        \* what a user may type for an entity
  Views,        \* views the router may be shown
  Statements,   \* what the SQL generator may write
  Specs,        \* refinements
  Playbooks,
  ScanViews,    \* scan_views
  ScanRows, ScanItems,       \* limit=200, scan_max_items_per_view
  DetectRows,   \* limit=500
  ItemCounts,   \* max_items a client of detect may send, which nobody checks
  GivenPairs,   \* column pairs a caller of detect may name, and Nothing
  AgentRows,    \* _OBSERVATION_ROW_CAP
  WorkingSize,  \* working_set_size
  MaxOps        \* bound: operations

\* Every row has a value or NULL for each of its object's columns, no two views
\* have one place in the order, NoFilter is not a filter and Nothing not a result.
ASSUME DataAssumption ==
  /\ \A objects \in Databases :
       /\ DOMAIN objects \subseteq STRING
       /\ \A o \in DOMAIN objects :
            /\ objects[o].columns \in SUBSET STRING
            /\ objects[o].rows \in Seq([objects[o].columns -> Int \cup {Null}])
            /\ Order[o] \in Nat
       /\ \A o, p \in DOMAIN objects : Order[o] = Order[p] => o = p
  /\ {AgentRows, ScanRows, DetectRows, StepRows, WorkingSize, MaxOps} \subseteq Nat
  /\ ScanItems \in Int /\ ItemCounts \subseteq Int
  /\ \A stmt \in Statements : stmt.limit \in Nat \cup {Nothing}
  /\ \A spec \in Specs : spec.limit \in Int \cup {Nothing}
  /\ \A playbook \in Playbooks :
       /\ playbook.steps \in Seq(ToSet(playbook.steps))
       /\ \A i \in DOMAIN playbook.steps : playbook.steps[i].column \in STRING \cup {Nothing}
  /\ NoFilter \notin [column : STRING, value : Int \cup {Null} \cup Texts]
  /\ LET rows == Seq(UNION {UNION {[objects[o].columns -> Int \cup {Null}] : o \in DOMAIN objects}
                            : objects \in Databases})
     IN Nothing \notin [view : STRING, source : {"view"}, columns : SUBSET STRING, rows : rows,
                        count : Nat, truncated : BOOLEAN, whole : rows]

VARIABLES
  db, known,
  cache,     \* ResultCache: results by key, and (history) the file they were read from
  pending,   \* the entry that is about to be put in the cache, if any
  working,   \* the session's working set, most recent first
  answer,    \* what the last operation gave, with its inputs
  ops        \* bound

vars == <<db, known, cache, pending, working, answer, ops>>

NoAnswer == [path |-> "none"]
Said(path) == [path |-> path, told |-> "message"]

\* A startup, or a refresh that has replaced the file and not yet the index.
Init ==
  /\ db \in Databases
  /\ known \in Databases
  /\ cache = <<>>
  /\ pending = <<>>
  /\ working = <<>>
  /\ answer = NoAnswer
  /\ ops = 0

Counted == ops < MaxOps /\ ops' = ops + 1

\* All operations run on the event loop, one to its end before the next.
Operation == Counted /\ pending = <<>>

-----------------------------------------------------------------------------
(* Shared helpers *)

Table == EntityTable(known, Order)

\* _cached_run and _run_cached: the kept result, or the query's, which is to be
\* kept.
Cached(key, result) ==
  IF key \in DOMAIN cache THEN cache[key] ELSE [result |-> result, file |-> db]

Keep(key, entry) ==
  pending' = IF key \in DOMAIN cache THEN <<>> ELSE [k \in {key} |-> entry]

\* ResultCache.set
Store ==
  /\ pending # <<>>
  /\ cache' = [k \in DOMAIN pending \cup DOMAIN cache |->
                 IF k \in DOMAIN pending THEN pending[k] ELSE cache[k]]
  /\ pending' = <<>>
  /\ UNCHANGED <<db, known, working, answer, ops>>

\* remember_result: not an empty one, and the oldest drops out.
Remembered(result) ==
  IF result.rows = <<>> THEN working ELSE First(<<result>> \o working, WorkingSize)

ViewKey(view, filter) == <<"view", view, filter>>

\* A view that is in the cache is not run, so it cannot fail.
Fails(key, view) == key \notin DOMAIN cache /\ ViewFails(db, view)

-----------------------------------------------------------------------------
(* The view path *)

\* The filters the router gave: the column must be the view's own.
Given(view, column, text) == text # Nothing /\ column \in known[view].columns

\* A view that needs a filter is not run without one.
AskWhich(view, column, text) ==
  /\ Operation
  /\ view \in DOMAIN known
  /\ known[view].needs /\ ~Given(view, column, text)
  /\ answer' = Said("view")
  /\ UNCHANGED <<db, known, cache, pending, working>>

Ask(view, column, text, filter) ==
  LET key == ViewKey(view, filter)
      entry == Cached(key, RunView(view, db[view], filter, Nothing))
  IN IF Fails(key, view)
       THEN /\ answer' = Said("view")
            /\ UNCHANGED <<pending, working>>
       ELSE /\ answer' = [path |-> "view", told |-> "result", result |-> entry.result,
                          file |-> entry.file, column |-> column, text |-> text,
                          filter |-> filter]
            /\ Keep(key, entry)
            /\ working' = Remembered(entry.result)

\* Without a filter, or with one whose value the entity index settles; an
\* ambiguous or unknown value is put to the user and nothing is run.
ViewPath(view, column, text) ==
  /\ Operation
  /\ view \in DOMAIN known
  /\ IF ~Given(view, column, text)
       THEN ~known[view].needs /\ Ask(view, column, text, NoFilter)
     ELSE LET outcome == Resolve(Table, column, text)
          IN IF outcome.status \in {"ambiguous", "unknown"}
               THEN /\ answer' = [path |-> "view", told |-> "clarification",
                                  column |-> column, text |-> text, outcome |-> outcome]
                    /\ UNCHANGED <<pending, working>>
               ELSE Ask(view, column, text, [column |-> column, value |-> outcome.value])
  /\ UNCHANGED <<db, known, cache>>

\* The agent's run_view: the same key, its own row cap, the text as it is.
AgentView(view, column, text) ==
  LET filter == IF Given(view, column, text)
                  THEN [column |-> column, value |-> text] ELSE NoFilter
      key == ViewKey(view, filter)
      entry == Cached(key, RunView(view, db[view], filter, AgentRows))
  IN /\ Operation
     /\ view \in DOMAIN known
     /\ IF Fails(key, view)
          THEN answer' = Said("agent") /\ UNCHANGED pending
          ELSE /\ answer' = [path |-> "agent", told |-> "result", result |-> entry.result]
               /\ Keep(key, entry)
     /\ UNCHANGED <<db, known, cache, working>>

-----------------------------------------------------------------------------
(* Generated SQL *)

Whitelist == [v \in DOMAIN known |-> known[v].columns]

\* A statement, and the generator's second attempt if the first is rejected.
SqlPath(first, second) ==
  LET stmt == IF Rejected(first, Whitelist) THEN second ELSE first
      view == CHOOSE v \in Referenced(stmt) : TRUE
      key == <<"sql", stmt>>
      entry == Cached(key, RunSql(view, db[view], GatedLimit(stmt)))
  IN /\ Operation
     /\ IF Rejected(stmt, Whitelist) \/ Fails(key, view)
          THEN /\ answer' = Said("sql")
               /\ UNCHANGED <<pending, working>>
          ELSE /\ answer' = [path |-> "sql", told |-> "result", result |-> entry.result]
               /\ Keep(key, entry)
               /\ working' = Remembered(entry.result)
     /\ UNCHANGED <<db, known, cache>>

-----------------------------------------------------------------------------
(* Refinement, playbooks, scan *)

RefinePath(target, spec) ==
  /\ Operation
  /\ IF target \notin DOMAIN working
       THEN /\ answer' = Said("refine")
            /\ UNCHANGED working
     ELSE IF UnknownColumn(working[target], spec)
       THEN /\ answer' = Said("refine")
            /\ UNCHANGED working
     ELSE LET result == Refine(working[target], spec)
          IN /\ answer' = [path |-> "refine", told |-> "result", result |-> result,
                           source |-> working[target], spec |-> spec]
             /\ working' = Remembered(result)
  /\ UNCHANGED <<db, known, cache, pending>>

\* The steps are run against the file that is there, not through the cache.
RunSteps(playbook, entity) ==
  LET run == RunPlaybook(playbook, db, DOMAIN known, entity)
  IN /\ answer' = [path |-> "playbook", told |-> IF AnyData(run) THEN "result" ELSE "nothing",
                   playbook |-> playbook, entity |-> entity, run |-> run]
     /\ working' = IF run.primary = Nothing THEN working ELSE Remembered(run.primary)

PlaybookPath(playbook, text) ==
  LET outcome == Resolve(Table, "name", text)
  IN /\ Operation
     /\ IF ~playbook.needs THEN RunSteps(playbook, text)
        ELSE IF text = Nothing THEN answer' = Said("playbook") /\ UNCHANGED working
        ELSE IF outcome.status \in {"ambiguous", "unknown"}
          THEN answer' = Said("playbook") /\ UNCHANGED working
        ELSE RunSteps(playbook, outcome.value)
     /\ UNCHANGED <<db, known, cache, pending>>

ScanResult(view) == RunView(view, db[view], NoFilter, ScanRows)

\* The views of the scan that ran and could be ranked.
Ranked == {v \in ScanViews : ~ViewFails(db, v) /\ Rankable(ScanResult(v), Nothing)}

\* _run_scan_path: a view that fails is skipped, one that cannot be ranked is
\* not mentioned.
Scan ==
  /\ Operation
  /\ answer' = IF Ranked = {} THEN Said("scan")
               ELSE [path |-> "queues", told |-> "result",
                     results |-> [v \in Ranked |-> ScanResult(v)],
                     queues |-> [v \in Ranked |-> Queue(ScanResult(v), Nothing, ScanItems)],
                     column |-> "amount",
                     skipped |-> {v \in ScanViews : ViewFails(db, v)}]
  /\ UNCHANGED <<db, known, cache, pending, working>>

\* POST /detect.  A null in a column the caller named is an error nobody
\* catches.
Detect(view, given, items) ==
  LET result == RunView(view, db[view], NoFilter, DetectRows)
  IN /\ Operation
     /\ answer' =
          IF ViewFails(db, view) THEN Said("detect")
          ELSE IF ~Rankable(result, given) THEN Said("detect")
          ELSE IF RankCrashes(result, given) THEN [path |-> "detect", told |-> "crash"]
          ELSE [path |-> "queues", told |-> "result",
                results |-> [v \in {view} |-> result],
                queues |-> [v \in {view} |-> Queue(result, given, items)],
                column |-> ValueColumn(given), skipped |-> {}]
     /\ UNCHANGED <<db, known, cache, pending, working>>

-----------------------------------------------------------------------------
(* Refresh *)

\* The file is replaced, the pool reopened and the cache flushed; a result on its
\* way to the cache is not stopped.
Swap(new) ==
  /\ Counted
  /\ db' = new
  /\ cache' = <<>>
  /\ answer' = NoAnswer
  /\ UNCHANGED <<known, pending, working>>

\* Discovery and the entity index are those of the file again.
Rediscover ==
  /\ Counted
  /\ known' = db
  /\ answer' = NoAnswer
  /\ UNCHANGED <<db, cache, pending, working>>

Next ==
  \/ \E v \in Views, c \in Kinds, t \in Texts \cup {Nothing} :
       \/ AskWhich(v, c, t)
       \/ ViewPath(v, c, t)
       \/ AgentView(v, c, t)
  \/ \E s1, s2 \in Statements : SqlPath(s1, s2)
  \/ \E i \in 1..(WorkingSize + 1), spec \in Specs : RefinePath(i, spec)
  \/ \E p \in Playbooks, t \in Texts \cup {Nothing} : PlaybookPath(p, t)
  \/ Scan
  \/ \E v \in Views, given \in GivenPairs, n \in ItemCounts : Detect(v, given, n)
  \/ Store
  \/ \E new \in Databases \ {db} : Swap(new)
  \/ Rediscover

Spec == Init /\ [][Next]_vars

-----------------------------------------------------------------------------
(* Properties *)

Answered(path) == answer.path = path /\ answer.told = "result"

\* The results an operation left or gave.
Results ==
  {cache[k].result : k \in DOMAIN cache} \cup {working[i] : i \in DOMAIN working}
  \cup (IF answer.path \in {"view", "agent", "sql", "refine"} /\ answer.told = "result"
          THEN {answer.result} ELSE {})
  \cup (IF answer.path = "queues" THEN {answer.results[v] : v \in DOMAIN answer.results} ELSE {})

IsResult(r) ==
  /\ Len(r.rows) <= MaxRows
  /\ r.count \in Len(r.rows)..MaxRows
  /\ r.truncated \in BOOLEAN
  /\ \A i \in DOMAIN r.rows : DOMAIN r.rows[i] = r.columns

DataTypeOK ==
  /\ db \in Databases /\ known \in Databases
  /\ \A r \in Results : IsResult(r)
  /\ Len(working) <= WorkingSize /\ \A i \in DOMAIN working : working[i].rows # <<>>
  /\ ops \in 0..MaxOps

\* A result of a view that lacks rows says so, whoever cut it, and goes on saying
\* so in the cache the agent and the pipeline share and through every refinement
\* of it.  (A generated statement ends in a LIMIT of max_rows, so what it cuts is
\* never noticed.)
CutIsFlagged ==
  \A r \in Results :
    r.source = "view" /\ Len(r.rows) < Len(r.whole) => r.truncated

Stored(column) == IF column = "name" THEN Names(Table) ELSE Codes(Table)

\* The names whose code looks the same as a text.
Coded(table, text) ==
  {i \in DOMAIN table : table[i].code # Null /\ Norm[table[i].code] = Norm[text]}

\* A typed name or code reaches a query only as a stored one.  A name that looks the
\* same as several is never settled as one of them, nor is a name given for a code
\* that has several codes; but of the names that carry a typed code the first is
\* taken, although entity_resolver.py:21 would have the user asked.  If the rows come
\* from the file the index was built from, there are some in the object the value was
\* taken from.  What is put to the user is a real choice, and a name is called unknown
\* only if no stored one has its form.
FiltersAreUnderstood ==
  answer.path = "view" /\ answer.told \in {"result", "clarification"} /\ Table # <<>> =>
    /\ answer.told = "result" /\ answer.filter # NoFilter =>
         /\ answer.filter.value \in Stored(answer.column)
         /\ answer.column = "name" /\ answer.text \notin Names(Table) =>
              IF answer.text \in CodeLike /\ Coded(Table, answer.text) # {}
                THEN \E i \in Coded(Table, answer.text) :
                       /\ answer.filter.value = Table[i].name
                       /\ \A j \in Coded(Table, answer.text) : i <= j
                ELSE NamesByNorm(Table, Norm[answer.text]) \subseteq {answer.filter.value}
         /\ answer.column = "code" /\ answer.text \notin Codes(Table) =>
              CodesByName(Table, Norm[answer.text]) = {answer.filter.value}
         /\ known = answer.file /\ answer.result.view = SourceOf(known, Order) =>
              answer.result.rows # <<>>
    /\ answer.told = "clarification" /\ answer.outcome.status = "ambiguous" =>
         /\ Cardinality(answer.outcome.candidates) > 1
         /\ answer.outcome.candidates \subseteq Stored(answer.column)
    /\ answer.told = "clarification" /\ answer.outcome.status = "unknown"
         /\ answer.column = "name" =>
         NamesByNorm(Table, Norm[answer.text]) \cup NamesByCore(Table, Core[answer.text]) = {}

\* Every step of a playbook is accounted for, a view that fails is not passed off
\* as one the dataset does not have, a briefing is written only over data, and the
\* rows charted for an entity are that entity's, even on a file whose views are
\* not those discovery saw.
PlaybookIsAccounted ==
  answer.path = "playbook" /\ answer.told # "message" =>
    LET run == answer.run
        steps == answer.playbook.steps
        with(statuses) == {i \in DOMAIN steps : run.statuses[i] \in statuses}
    IN /\ Len(run.statuses) = Len(steps)
       /\ Len(run.sections) = Cardinality(with({"ok", "empty"}))
       /\ with({"missing"}) = {i \in DOMAIN steps : steps[i].view \notin DOMAIN known}
       /\ Skipped(run) = Cardinality(with({"missing"}))
       /\ with({"ok"}) = {} <=> run.primary = Nothing
       /\ answer.told = "result" =>
            LET i == CHOOSE i \in with({"ok"}) : \A j \in with({"ok"}) : i <= j
            IN /\ run.primary.view = steps[i].view
               /\ steps[i].column # Nothing /\ answer.entity # Nothing =>
                    \A r \in DOMAIN run.primary.rows :
                      run.primary.rows[r][steps[i].column] = answer.entity

SumOf(rows, column) == FoldSet(LAMBDA r, sum : rows[r][column] + sum, 0, DOMAIN rows)

Height(tier) == CASE tier = "HIGH" -> 2 [] tier = "MEDIUM" -> 1 [] tier = "LOW" -> 0

\* A queue ranks all rows of its result, however many items are asked for, none or a
\* negative number included: what it shows is the largest of them in order, tiers
\* only fall, the first item is in the top tier, which is no more than a third beyond
\* it, the total counts the rows that are not shown, and it says if there are any.
QueuesAreRanked ==
  answer.path = "queues" =>
    \A v \in DOMAIN answer.queues :
      LET q == answer.queues[v]
          rows == answer.results[v].rows
          valueOf(i) == rows[i][answer.column]
          high == {i \in DOMAIN q.items : q.items[i].tier = "HIGH"}
      IN /\ q.items # <<>> => q.items[1].tier = "HIGH"
         /\ 3 * (Cardinality(high) - 1) <= Len(rows)
         /\ \A i, j \in DOMAIN q.items :
              i < j => /\ q.items[i].value >= q.items[j].value
                       /\ Height(q.items[i].tier) >= Height(q.items[j].tier)
         /\ \A i \in DOMAIN q.items :
              Cardinality({r \in DOMAIN rows : valueOf(r) > q.items[i].value}) < i
         /\ q.total = SumOf(rows, answer.column)
         /\ q.truncated <=> Len(q.items) < Len(rows)

\* A refinement shows rows of the result it refines that pass every filter, and
\* if a limit leaves some out, none that the order asked for puts before a row
\* that is shown; a row without a value never displaces one that has one.
RefineSelects ==
  Answered("refine") =>
    LET spec == answer.spec
        kept == Kept(answer.source.rows, spec.filters)
        shown == answer.result.rows
        amount(row) == row[spec.sort]
        beats(a, b) ==
          /\ amount(a) # Null
          /\ \/ amount(b) = Null
             \/ IF spec.descending THEN amount(a) > amount(b) ELSE amount(a) < amount(b)
    IN /\ ToSet(shown) \subseteq ToSet(kept)
       /\ answer.result.count = Len(kept)
       /\ Len(shown) < Len(kept) => answer.result.truncated
       /\ spec.sort # Nothing =>
            /\ \A a \in ToSet(kept) \ ToSet(shown), b \in ToSet(shown) : ~beats(a, b)
            /\ \A i, j \in DOMAIN shown : i < j => ~beats(shown[j], shown[i])
=============================================================================
