--------------------------- MODULE DataPathsProofs ---------------------------
(***************************************************************************)
(* Theorems about DataPaths, for all databases whose rows have their        *)
(* objects' columns, all filters, refinements, playbooks and limits, and    *)
(* any number of operations.  DataInv is inductive and says what is kept;   *)
(* the four properties of an answer follow from it at the step that gives   *)
(* the answer.                                                              *)
(***************************************************************************)
EXTENDS DataPaths, ResultRowsProofs

-----------------------------------------------------------------------------
(* The inductive invariant *)

\* A view's result is what run_view gives for the file it was read from, under one of
\* the two row caps.
OfView(entry, k) ==
  k[1] = "view" =>
    \E limit \in {Nothing, AgentRows} :
      entry.result = RunView(k[2], entry.file[k[2]], k[3], limit)

\* What the cache keeps, or is to keep, is sound and of its file.
Caches(kept) == \A k \in DOMAIN kept : Sound(kept[k].result) /\ OfView(kept[k], k)

\* The keys of what was read from another file than the one that is there.
Stale(kept, objects) == {k \in DOMAIN kept : kept[k].file # objects}

\* One result at most survives the flush: the one that was on its way then.
OneIsStale(kept, coming, objects) ==
  /\ \A k, l \in Stale(kept, objects) : k = l
  /\ \A k, l \in DOMAIN coming : k = l
  /\ Stale(coming, objects) # {} => Stale(kept, objects) = {}

\* What the working set holds: sound results with rows, and not too many.
Holds(w) ==
  /\ w \in Seq(ToSet(w))
  /\ Len(w) <= WorkingSize
  /\ \A i \in DOMAIN w : Sound(w[i]) /\ w[i].rows # <<>>

\* The results an answer hands on are sound.
AnswerIsSound(a) ==
  /\ a.path \in {"view", "agent", "sql", "refine"} /\ a.told = "result" => Sound(a.result)
  /\ a.path = "queues" => \A v \in DOMAIN a.results : Sound(a.results[v])

\* The inductive invariant: the files are among those there can be, all that is kept
\* or handed on is sound, and one entry at most is of an earlier file.
DataInv ==
  /\ db \in Databases /\ known \in Databases
  /\ ops \in 0..MaxOps
  /\ Caches(cache) /\ Caches(pending)
  /\ OneIsStale(cache, pending, db)
  /\ Holds(working)
  /\ AnswerIsSound(answer)

-----------------------------------------------------------------------------
(* The steps' parts *)

\* The limits and bounds are numbers.
LEMMA Limits ==
  /\ AgentRows \in Nat /\ ScanRows \in Nat /\ DetectRows \in Nat /\ StepRows \in Nat
  /\ WorkingSize \in Nat /\ MaxOps \in Nat
  /\ ScanItems \in Int /\ ItemCounts \subseteq Int
BY DataAssumption

\* The rows of an object have its columns.
LEMMA ObjectRows ==
  ASSUME NEW objects \in Databases, NEW o \in DOMAIN objects
  PROVE  objects[o].rows \in RowsOf(objects[o].columns)
BY DataAssumption DEF RowsOf, Cell

\* A view that can be run gives a sound result.
LEMMA ViewRuns ==
  ASSUME NEW objects \in Databases, NEW view, ~ViewFails(objects, view), NEW filter,
         NEW limit \in Nat \cup {Nothing}
  PROVE  Sound(RunView(view, objects[view], filter, limit))
<1>1. view \in DOMAIN objects
  BY DEF ViewFails
<1>2. objects[view].rows \in RowsOf(objects[view].columns)
  BY <1>1, ObjectRows
<1> QED
  BY <1>2, RunViewRows

\* The kept entry, or the query's, is sound, and what is to be kept of it is.
LEMMA KeepCaches ==
  ASSUME DataInv, NEW key, NEW run,
         key \notin DOMAIN cache => Sound(run),
         key \notin DOMAIN cache => OfView([result |-> run, file |-> db], key),
         Keep(key, Cached(key, run))
  PROVE  /\ Sound(Cached(key, run).result) /\ OfView(Cached(key, run), key)
         /\ Caches(pending') /\ OneIsStale(cache, pending', db)
<1> DEFINE entry == Cached(key, run)
<1>1. CASE key \in DOMAIN cache
  <2>1. entry = cache[key] /\ pending' = <<>>
    BY <1>1 DEF Cached, Keep
  <2>2. DOMAIN pending' = {}
    BY <2>1
  <2> HIDE DEF entry
  <2>3. Caches(pending') /\ Stale(pending', db) = {}
    BY <2>2 DEF Caches, Stale
  <2>4. Sound(entry.result) /\ OfView(entry, key)
    BY <1>1, <2>1 DEF DataInv, Caches
  <2>5. OneIsStale(cache, pending', db)
    BY <2>2, <2>3 DEF DataInv, OneIsStale
  <2> QED
    BY <2>3, <2>4, <2>5 DEF entry
<1>2. CASE key \notin DOMAIN cache
  <2>1. entry = [result |-> run, file |-> db] /\ pending' = [k \in {key} |-> entry]
    BY <1>2 DEF Cached, Keep
  <2>2. entry.result = run /\ entry.file = db
    BY <2>1
  <2>3. OfView(entry, key)
    BY <1>2, <2>1
  <2> HIDE DEF entry
  <2>4. DOMAIN pending' = {key} /\ pending'[key] = entry
    BY <2>1
  <2>5. Caches(pending') /\ Stale(pending', db) = {}
    BY <1>2, <2>2, <2>3, <2>4 DEF Caches, Stale
  <2>6. OneIsStale(cache, pending', db)
    BY <2>4, <2>5 DEF DataInv, OneIsStale
  <2> QED
    BY <1>2, <2>2, <2>3, <2>5, <2>6 DEF entry
<1> QED
  BY <1>1, <1>2

\* Remembering a sound result leaves a working set within its size.
LEMMA RememberedHolds ==
  ASSUME Holds(working), NEW result, Sound(result)
  PROVE  Holds(Remembered(result))
<1>1. CASE result.rows = <<>>
  BY <1>1 DEF Remembered
<1>2. CASE result.rows # <<>>
  <2> DEFINE S == ToSet(working) \cup {result}
             all == <<result>> \o working
             w == First(all, WorkingSize)
  <2>1. Remembered(result) = w /\ WorkingSize \in Nat
    BY <1>2, Limits DEF Remembered
  <2>2. <<result>> \in Seq(S) /\ working \in Seq(S)
    <3>1. working \in Seq(ToSet(working)) /\ ToSet(working) \subseteq S
      BY DEF Holds
    <3> HIDE DEF S
    <3>2. working \in Seq(S)
      BY <3>1, SeqMonotonic
    <3> QED
      BY <3>2 DEF S
  <2>3. all \in Seq(S)
    <3> HIDE DEF S
    <3> QED
      BY <2>2
  <2>4. \A r \in S : Sound(r) /\ r.rows # <<>>
    BY <1>2 DEF Holds, ToSet
  <2> HIDE DEF S, all
  <2>5. w \in Seq(S) /\ Len(w) = AtMost(Len(all), WorkingSize)
    BY <2>1, <2>3, FirstRows
  <2> HIDE DEF w
  <2>6. Len(w) <= WorkingSize
    BY <2>1, <2>3, <2>5 DEF AtMost
  <2>7. \A i \in DOMAIN w : w[i] \in S
    BY <2>5
  <2>8. w \in Seq(ToSet(w))
    BY <2>5 DEF ToSet
  <2> QED
    BY <2>1, <2>4, <2>6, <2>7, <2>8 DEF Holds
<1> QED
  BY <1>1, <1>2

\* An operation is counted.
LEMMA OperationCounts ==
  ASSUME ops \in 0..MaxOps, Operation \/ Counted
  PROVE  ops' \in 0..MaxOps
BY Limits DEF Operation, Counted

\* What an operation keeps of the invariant without the result it gives.
LEMMA OperationKeeps ==
  ASSUME DataInv, Operation, UNCHANGED <<db, known, cache>>,
         Caches(pending') /\ OneIsStale(cache, pending', db),
         Holds(working'), AnswerIsSound(answer')
  PROVE  DataInv'
<1>1. ops' \in 0..MaxOps
  BY OperationCounts DEF DataInv
<1> QED
  BY <1>1 DEF DataInv

\* And one that reads nothing through the cache.
LEMMA PassesBy ==
  ASSUME DataInv, Operation, UNCHANGED <<db, known, cache, pending>>,
         Holds(working'), AnswerIsSound(answer')
  PROVE  DataInv'
BY OperationKeeps DEF DataInv

-----------------------------------------------------------------------------
(* The invariant is inductive *)

\* It holds of an empty cache and working set.
LEMMA DataInit ==
  Init => DataInv
<1> SUFFICES ASSUME Init PROVE DataInv
  OBVIOUS
<1>1. db \in Databases /\ known \in Databases /\ ops \in 0..MaxOps
  BY Limits DEF Init
<1>2. Caches(cache) /\ Caches(pending) /\ OneIsStale(cache, pending, db)
  <2>1. DOMAIN cache = {} /\ DOMAIN pending = {}
    BY DEF Init
  <2> QED
    BY <2>1 DEF Caches, OneIsStale, Stale
<1>3. Holds(working)
  BY Limits DEF Init, Holds
<1>4. AnswerIsSound(answer)
  BY DEF Init, AnswerIsSound, NoAnswer
<1> QED
  BY <1>1, <1>2, <1>3, <1>4 DEF DataInv

\* A view that the user or the agent asks for is kept and sound.
LEMMA AskedIsSound ==
  ASSUME DataInv, NEW view, NEW filter, NEW limit \in {Nothing, AgentRows},
         ~Fails(ViewKey(view, filter), view),
         Keep(ViewKey(view, filter),
              Cached(ViewKey(view, filter), RunView(view, db[view], filter, limit)))
  PROVE  LET entry == Cached(ViewKey(view, filter), RunView(view, db[view], filter, limit))
         IN /\ Sound(entry.result) /\ OfView(entry, ViewKey(view, filter))
            /\ Caches(pending') /\ OneIsStale(cache, pending', db)
<1> DEFINE key == ViewKey(view, filter)
           run == RunView(view, db[view], filter, limit)
           new == [result |-> run, file |-> db]
<1>1. key[1] = "view" /\ key[2] = view /\ key[3] = filter
  BY DEF ViewKey
<1>2. key \notin DOMAIN cache => Sound(run)
  <2>1. limit \in Nat \cup {Nothing}
    BY Limits
  <2>2. key \notin DOMAIN cache => ~ViewFails(db, view)
    BY DEF Fails
  <2>3. db \in Databases
    BY DEF DataInv
  <2> QED
    BY <2>1, <2>2, <2>3, ViewRuns
<1>3. OfView(new, key)
  <2>1. new.result = run /\ new.file = db
    OBVIOUS
  <2>2. run = RunView(view, db[view], filter, limit)
    OBVIOUS
  <2> HIDE DEF new, key, run
  <2> QED
    BY <1>1, <2>1, <2>2 DEF OfView
<1> HIDE DEF key, run
<1>4. Keep(key, Cached(key, run))
  BY DEF key, run
<1>5. /\ Sound(Cached(key, run).result) /\ OfView(Cached(key, run), key)
      /\ Caches(pending') /\ OneIsStale(cache, pending', db)
  BY <1>2, <1>3, <1>4, KeepCaches
<1> QED
  BY <1>5 DEF key, run

\* Asking keeps the invariant.
LEMMA AskInv ==
  ASSUME DataInv, NEW view, NEW column, NEW text, NEW filter,
         Operation, Ask(view, column, text, filter), UNCHANGED <<db, known, cache>>
  PROVE  DataInv'
<1> DEFINE key == ViewKey(view, filter)
           run == RunView(view, db[view], filter, Nothing)
           entry == Cached(key, run)
<1>1. CASE Fails(key, view)
  <2>1. answer' = Said("view") /\ pending' = pending /\ working' = working
    BY <1>1 DEF Ask
  <2>2. AnswerIsSound(answer')
    BY <2>1 DEF AnswerIsSound, Said
  <2> QED
    BY <2>1, <2>2, PassesBy DEF DataInv
<1>2. CASE ~Fails(key, view)
  <2>1. /\ answer' = [path |-> "view", told |-> "result", result |-> entry.result,
                      file |-> entry.file, column |-> column, text |-> text,
                      filter |-> filter]
        /\ Keep(key, entry)
        /\ working' = Remembered(entry.result)
    BY <1>2 DEF Ask
  <2>2. Sound(entry.result) /\ Caches(pending') /\ OneIsStale(cache, pending', db)
    BY <1>2, <2>1, AskedIsSound
  <2> HIDE DEF entry
  <2>3. Holds(working')
    BY <2>1, <2>2, RememberedHolds DEF DataInv
  <2>4. AnswerIsSound(answer')
    BY <2>1, <2>2 DEF AnswerIsSound
  <2> QED
    BY <2>2, <2>3, <2>4, OperationKeeps
<1> QED
  BY <1>1, <1>2

\* The view path keeps the invariant.
LEMMA ViewPathInv ==
  ASSUME DataInv, NEW view, NEW column, NEW text,
         AskWhich(view, column, text) \/ ViewPath(view, column, text)
  PROVE  DataInv'
<1>1. CASE AskWhich(view, column, text)
  <2>1. AnswerIsSound(answer')
    BY <1>1 DEF AskWhich, AnswerIsSound, Said
  <2> QED
    BY <1>1, <2>1, PassesBy DEF DataInv, AskWhich
<1>2. CASE ViewPath(view, column, text)
  <2> DEFINE outcome == Resolve(Table, column, text)
  <2>1. Operation /\ UNCHANGED <<db, known, cache>>
    BY <1>2 DEF ViewPath
  <2>2. \/ Ask(view, column, text, NoFilter)
        \/ /\ answer' = [path |-> "view", told |-> "clarification",
                         column |-> column, text |-> text, outcome |-> outcome]
           /\ UNCHANGED <<pending, working>>
        \/ Ask(view, column, text, [column |-> column, value |-> outcome.value])
    BY <1>2 DEF ViewPath
  <2> HIDE DEF outcome
  <2>3. CASE \E filter : Ask(view, column, text, filter)
    BY <2>1, <2>3, AskInv
  <2>4. CASE /\ answer' = [path |-> "view", told |-> "clarification",
                           column |-> column, text |-> text, outcome |-> outcome]
             /\ UNCHANGED <<pending, working>>
    <3>1. AnswerIsSound(answer')
      BY <2>4 DEF AnswerIsSound
    <3> QED
      BY <2>1, <2>4, <3>1, PassesBy DEF DataInv
  <2> QED
    BY <2>2, <2>3, <2>4
<1> QED
  BY <1>1, <1>2

\* The agent's run_view keeps the invariant.
LEMMA AgentViewInv ==
  ASSUME DataInv, NEW view, NEW column, NEW text, AgentView(view, column, text)
  PROVE  DataInv'
<1> DEFINE filter == IF Given(view, column, text)
                       THEN [column |-> column, value |-> text] ELSE NoFilter
           key == ViewKey(view, filter)
           entry == Cached(key, RunView(view, db[view], filter, AgentRows))
<1>1. /\ Operation /\ UNCHANGED <<db, known, cache, working>>
      /\ \/ Fails(key, view) /\ answer' = Said("agent") /\ UNCHANGED pending
         \/ /\ ~Fails(key, view)
            /\ answer' = [path |-> "agent", told |-> "result", result |-> entry.result]
            /\ Keep(key, entry)
  BY DEF AgentView
<1>2. Holds(working')
  BY <1>1 DEF DataInv
<1> HIDE DEF filter
<1>3. CASE Fails(key, view) /\ answer' = Said("agent") /\ UNCHANGED pending
  <2>1. AnswerIsSound(answer')
    BY <1>3 DEF AnswerIsSound, Said
  <2> QED
    BY <1>1, <1>2, <1>3, <2>1, PassesBy
<1>4. CASE /\ ~Fails(key, view)
           /\ answer' = [path |-> "agent", told |-> "result", result |-> entry.result]
           /\ Keep(key, entry)
  <2>1. Sound(entry.result) /\ Caches(pending') /\ OneIsStale(cache, pending', db)
    BY <1>4, AskedIsSound
  <2> HIDE DEF entry
  <2>2. AnswerIsSound(answer')
    BY <1>4, <2>1 DEF AnswerIsSound
  <2> QED
    BY <1>1, <1>2, <2>1, <2>2, OperationKeeps
<1> QED
  BY <1>1, <1>3, <1>4

\* A generated statement's LIMIT is a number.
LEMMA GatedLimitIsNat ==
  ASSUME NEW stmt \in Statements
  PROVE  GatedLimit(stmt) \in Nat
<1>1. stmt.limit \in Nat \cup {Nothing} /\ MaxRows \in Nat
  BY DataAssumption, RowsAssumption
<1> QED
  BY <1>1 DEF GatedLimit, AtMost

\* The generated SQL's path keeps the invariant.
LEMMA SqlPathInv ==
  ASSUME DataInv, NEW first \in Statements, NEW second \in Statements, SqlPath(first, second)
  PROVE  DataInv'
<1> DEFINE stmt == IF Rejected(first, Whitelist) THEN second ELSE first
           view == CHOOSE v \in Referenced(stmt) : TRUE
           key == <<"sql", stmt>>
           run == RunSql(view, db[view], GatedLimit(stmt))
           entry == Cached(key, run)
<1>1. /\ Operation /\ UNCHANGED <<db, known, cache>>
      /\ \/ answer' = Said("sql") /\ UNCHANGED <<pending, working>>
         \/ /\ ~Fails(key, view)
            /\ answer' = [path |-> "sql", told |-> "result", result |-> entry.result]
            /\ Keep(key, entry)
            /\ working' = Remembered(entry.result)
  BY DEF SqlPath
<1>2. stmt \in Statements
  OBVIOUS
<1> HIDE DEF stmt, view
<1>3. CASE answer' = Said("sql") /\ UNCHANGED <<pending, working>>
  <2>1. AnswerIsSound(answer')
    BY <1>3 DEF AnswerIsSound, Said
  <2> QED
    BY <1>1, <1>3, <2>1, PassesBy DEF DataInv
<1>4. CASE /\ ~Fails(key, view)
           /\ answer' = [path |-> "sql", told |-> "result", result |-> entry.result]
           /\ Keep(key, entry)
           /\ working' = Remembered(entry.result)
  <2>1. key \notin DOMAIN cache => Sound(run)
    <3> SUFFICES ASSUME key \notin DOMAIN cache PROVE Sound(run)
      OBVIOUS
    <3>1. view \in DOMAIN db
      BY <1>4 DEF Fails, ViewFails
    <3>2. db[view].rows \in RowsOf(db[view].columns)
      BY <3>1, ObjectRows DEF DataInv
    <3> QED
      BY <1>2, <3>2, GatedLimitIsNat, RunSqlRows
  <2>2. OfView([result |-> run, file |-> db], key)
    <3>1. key[1] # "view"
      OBVIOUS
    <3> HIDE DEF key, run
    <3> QED
      BY <3>1 DEF OfView
  <2>3. Keep(key, Cached(key, run))
    BY <1>4
  <2> HIDE DEF key, run
  <2>4. Sound(entry.result) /\ Caches(pending') /\ OneIsStale(cache, pending', db)
    BY <2>1, <2>2, <2>3, KeepCaches
  <2> HIDE DEF entry
  <2>5. Holds(working')
    BY <1>4, <2>4, RememberedHolds DEF DataInv
  <2>6. AnswerIsSound(answer')
    BY <1>4, <2>4 DEF AnswerIsSound
  <2> QED
    BY <1>1, <2>4, <2>5, <2>6, OperationKeeps
<1> QED
  BY <1>1, <1>3, <1>4

\* A refinement that is made is one of a sound result by columns it has.
LEMMA RefineMade ==
  ASSUME DataInv, NEW target, NEW spec \in Specs, RefinePath(target, spec), answer'.told = "result"
  PROVE  LET source == working[target]
             result == Refine(source, spec)
         IN /\ target \in DOMAIN working /\ Sound(source) /\ ~UnknownColumn(source, spec)
            /\ spec.limit \in Int \cup {Nothing}
            /\ answer' = [path |-> "refine", told |-> "result", result |-> result,
                          source |-> source, spec |-> spec]
            /\ working' = Remembered(result)
<1> DEFINE source == working[target]
           result == Refine(source, spec)
<1>1. answer' # Said("refine")
  BY DEF Said
<1>2. /\ target \in DOMAIN working /\ ~UnknownColumn(source, spec)
      /\ answer' = [path |-> "refine", told |-> "result", result |-> result,
                    source |-> source, spec |-> spec]
      /\ working' = Remembered(result)
  BY <1>1 DEF RefinePath
<1>3. Sound(source)
  BY <1>2 DEF DataInv, Holds
<1>4. spec.limit \in Int \cup {Nothing}
  BY DataAssumption
<1> QED
  BY <1>2, <1>3, <1>4

\* A refinement keeps the invariant.
LEMMA RefinePathInv ==
  ASSUME DataInv, NEW target, NEW spec \in Specs, RefinePath(target, spec)
  PROVE  DataInv'
<1>1. /\ Operation /\ UNCHANGED <<db, known, cache, pending>>
      /\ \/ answer' = Said("refine") /\ UNCHANGED working
         \/ answer'.told = "result"
  BY DEF RefinePath
<1>3. CASE answer' = Said("refine") /\ UNCHANGED working
  <2>1. AnswerIsSound(answer')
    BY <1>3 DEF AnswerIsSound, Said
  <2> QED
    BY <1>1, <1>3, <2>1, PassesBy DEF DataInv
<1>4. CASE answer'.told = "result"
  <2> DEFINE source == working[target]
             result == Refine(source, spec)
  <2>1. /\ Sound(source) /\ ~UnknownColumn(source, spec) /\ spec.limit \in Int \cup {Nothing}
        /\ answer' = [path |-> "refine", told |-> "result", result |-> result,
                      source |-> source, spec |-> spec]
        /\ working' = Remembered(result)
    BY <1>4, RefineMade
  <2>2. Sound(result)
    BY <2>1, RefineRows
  <2>3. Holds(working')
    BY <2>1, <2>2, RememberedHolds DEF DataInv
  <2> HIDE DEF result
  <2>4. AnswerIsSound(answer')
    BY <2>1, <2>2 DEF AnswerIsSound
  <2> QED
    BY <1>1, <2>3, <2>4, PassesBy
<1> QED
  BY <1>1, <1>3, <1>4

\* A scan keeps the invariant.
LEMMA ScanInv ==
  ASSUME DataInv, Scan
  PROVE  DataInv'
<1>1. Operation /\ UNCHANGED <<db, known, cache, pending, working>>
  BY DEF Scan
<1>3. \A v \in Ranked : Sound(ScanResult(v))
  BY Limits, ViewRuns DEF DataInv, Ranked, ScanResult
<1>4. AnswerIsSound(answer')
  <2>1. CASE Ranked = {}
    BY <2>1 DEF Scan, AnswerIsSound, Said
  <2>2. CASE Ranked # {}
    <3>1. answer'.path = "queues" /\ answer'.results = [v \in Ranked |-> ScanResult(v)]
      BY <2>2 DEF Scan
    <3> QED
      BY <1>3, <3>1 DEF AnswerIsSound
  <2> QED
    BY <2>1, <2>2
<1> QED
  BY <1>1, <1>4, PassesBy DEF DataInv

\* POST /detect keeps the invariant.
LEMMA DetectInv ==
  ASSUME DataInv, NEW view, NEW given, NEW items, Detect(view, given, items)
  PROVE  DataInv'
<1> DEFINE result == RunView(view, db[view], NoFilter, DetectRows)
<1>1. Operation /\ UNCHANGED <<db, known, cache, pending, working>>
  BY DEF Detect
<1>3. ~ViewFails(db, view) => Sound(result)
  BY Limits, ViewRuns DEF DataInv
<1>4. \/ answer' = Said("detect")
      \/ answer' = [path |-> "detect", told |-> "crash"]
      \/ /\ ~ViewFails(db, view)
         /\ answer'.path = "queues" /\ answer'.results = [v \in {view} |-> result]
  BY DEF Detect
<1> HIDE DEF result
<1>5. AnswerIsSound(answer')
  <2>1. CASE /\ ~ViewFails(db, view)
             /\ answer'.path = "queues" /\ answer'.results = [v \in {view} |-> result]
    BY <1>3, <2>1 DEF AnswerIsSound
  <2>2. CASE answer' = Said("detect") \/ answer' = [path |-> "detect", told |-> "crash"]
    BY <2>2 DEF AnswerIsSound, Said
  <2> QED
    BY <1>4, <2>1, <2>2
<1> QED
  BY <1>1, <1>5, PassesBy DEF DataInv

\* A refresh keeps the invariant: what the cache kept of the old file is gone, and
\* what was on its way to it may be of the old file.
LEMMA RefreshInv ==
  ASSUME DataInv, (\E new \in Databases \ {db} : Swap(new)) \/ Rediscover
  PROVE  DataInv'
<1>1. CASE \E new \in Databases \ {db} : Swap(new)
  <2>1. /\ db' \in Databases /\ known' = known /\ Counted /\ cache' = <<>>
        /\ pending' = pending /\ working' = working /\ answer' = NoAnswer
    BY <1>1 DEF Swap
  <2>2. DOMAIN cache' = {}
    BY <2>1
  <2>3. Caches(cache') /\ OneIsStale(cache', pending', db')
    BY <2>1, <2>2 DEF Caches, OneIsStale, Stale, DataInv
  <2>4. AnswerIsSound(answer')
    BY <2>1 DEF AnswerIsSound, NoAnswer
  <2>5. ops' \in 0..MaxOps
    BY <2>1, OperationCounts DEF DataInv
  <2> QED
    BY <2>1, <2>3, <2>4, <2>5 DEF DataInv
<1>2. CASE Rediscover
  <2>1. AnswerIsSound(answer')
    BY <1>2 DEF Rediscover, AnswerIsSound, NoAnswer
  <2> QED
    BY <1>2, <2>1, OperationCounts DEF DataInv, Rediscover
<1> QED
  BY <1>1, <1>2

\* So does the put in the cache: of an earlier file is this entry or one that is
\* there already, not both.
LEMMA StoreInv ==
  ASSUME DataInv, Store
  PROVE  DataInv'
<1>1. /\ UNCHANGED <<db, known, working, answer, ops>> /\ pending' = <<>>
      /\ DOMAIN cache' = DOMAIN pending \cup DOMAIN cache
      /\ \A k \in DOMAIN cache' :
           cache'[k] = IF k \in DOMAIN pending THEN pending[k] ELSE cache[k]
  BY DEF Store
<1>2. DOMAIN pending' = {}
  BY <1>1
<1>3. Caches(cache') /\ Caches(pending')
  BY <1>1, <1>2 DEF Caches, DataInv
<1>4. \A k \in Stale(cache', db) : k \in Stale(pending, db) \/ k \in Stale(cache, db)
  BY <1>1 DEF Stale
<1>5. \A k, l \in Stale(cache', db) : k = l
  <2>1. \A k, l \in Stale(pending, db) : k = l
    BY DEF Stale, DataInv, OneIsStale
  <2> QED
    BY <1>4, <2>1 DEF DataInv, OneIsStale
<1>6. OneIsStale(cache', pending', db)
  BY <1>2, <1>5 DEF OneIsStale, Stale
<1> QED
  BY <1>1, <1>3, <1>6 DEF DataInv

-----------------------------------------------------------------------------
(* Playbooks *)

\* What a run of the first m steps has noted of them: st is the steps' statuses
\* and got the results of those that have rows.
Notes(run, m, st, got) ==
  /\ Len(run.statuses) = m
  /\ \A i \in 1..m : run.statuses[i] = st[i]
  /\ Len(run.sections) = Cardinality({i \in 1..m : st[i] \in {"ok", "empty"}})
  /\ (\A i \in 1..m : st[i] # "ok") <=> run.primary = Nothing
  /\ \A i \in 1..m : st[i] = "ok" /\ (\A j \in 1..(i - 1) : st[j] # "ok") => run.primary = got[i]

\* How many of the first m steps are of the kinds given.
CountOf(m, st, kinds) == Cardinality({i \in 1..m : st[i] \in kinds})

\* A step is counted once more if it is of the kind counted.
LEMMA CountOn ==
  ASSUME NEW m \in Nat \ {0}, NEW st, NEW kinds
  PROVE  CountOf(m, st, kinds) =
           IF st[m] \in kinds THEN CountOf(m - 1, st, kinds) + 1 ELSE CountOf(m - 1, st, kinds)
<1> DEFINE A == {i \in 1..m : st[i] \in kinds}
           B == {i \in 1..(m - 1) : st[i] \in kinds}
<1>1. m - 1 \in Nat /\ IsFiniteSet(1..m) /\ IsFiniteSet(1..(m - 1))
  <2>1. m \in Nat /\ m - 1 \in Nat
    OBVIOUS
  <2> QED
    BY <2>1, CountTo
<1>2. IsFiniteSet(A) /\ IsFiniteSet(B)
  <2>1. A \in SUBSET (1..m) /\ B \in SUBSET (1..(m - 1))
    OBVIOUS
  <2> HIDE DEF A, B
  <2> QED
    BY <1>1, <2>1, FS_Subset
<1>3. m \notin B /\ (IF st[m] \in kinds THEN A = B \cup {m} ELSE A = B)
  OBVIOUS
<1> HIDE DEF A, B
<1>4. Cardinality(B \cup {m}) = Cardinality(B) + 1
  BY <1>2, <1>3, FS_AddElement
<1>5. Cardinality(A) = IF st[m] \in kinds THEN Cardinality(B) + 1 ELSE Cardinality(B)
  BY <1>3, <1>4
<1> QED
  BY <1>5 DEF A, B, CountOf

\* The statuses a step can have.
Outcomes == {"missing", "error", "empty", "ok"}

\* What step m of a playbook adds to a run.
Adding(run, after, m, st, got, view) ==
  /\ after.statuses = Append(run.statuses, st[m])
  /\ after.sections = (IF st[m] \in {"ok", "empty"} THEN Append(run.sections, view)
                                                    ELSE run.sections)
  /\ after.primary = (IF st[m] = "ok" /\ run.primary = Nothing THEN got[m] ELSE run.primary)

\* The note of one more step.
LEMMA NotesOn ==
  ASSUME NEW V, NEW m \in Nat \ {0}, NEW st, NEW got,
         st[m] \in Outcomes,
         st[m] = "ok" => got[m] # Nothing,
         NEW run, run.statuses \in Seq(Outcomes), run.sections \in Seq(V),
         Notes(run, m - 1, st, got),
         NEW after, NEW view \in V, Adding(run, after, m, st, got, view)
  PROVE  Notes(after, m, st, got)
<1>0. /\ after.statuses = Append(run.statuses, st[m])
      /\ after.sections = (IF st[m] \in {"ok", "empty"} THEN Append(run.sections, view)
                                                        ELSE run.sections)
      /\ after.primary = (IF st[m] = "ok" /\ run.primary = Nothing THEN got[m] ELSE run.primary)
  BY DEF Adding
<1>1. /\ Len(after.statuses) = m
      /\ \A i \in 1..(m - 1) : after.statuses[i] = run.statuses[i]
      /\ after.statuses[m] = st[m]
  BY <1>0 DEF Notes
<1>2. \A i \in 1..m : i = m \/ i \in 1..(m - 1)
  OBVIOUS
<1>3. \A i \in 1..m : after.statuses[i] = st[i]
  BY <1>1, <1>2 DEF Notes
<1>4. Len(after.sections) = Cardinality({i \in 1..m : st[i] \in {"ok", "empty"}})
  <2> DEFINE kinds == {"ok", "empty"}
             before == CountOf(m - 1, st, kinds)
             now == CountOf(m, st, kinds)
  <2>1. now = IF st[m] \in kinds THEN before + 1 ELSE before
    <3> HIDE DEF kinds
    <3> QED
      BY CountOn
  <2>2. Len(run.sections) = before
    BY DEF Notes, CountOf
  <2> HIDE DEF kinds, before, now
  <2>3. CASE st[m] \in kinds
    <3>1. after.sections = Append(run.sections, view)
      BY <1>0, <2>3 DEF kinds
    <3>2. Len(after.sections) = Len(run.sections) + 1
      BY <3>1
    <3> QED
      BY <2>1, <2>2, <2>3, <3>2 DEF now, kinds, CountOf
  <2>4. CASE st[m] \notin kinds
    <3>1. after.sections = run.sections
      BY <1>0, <2>4 DEF kinds
    <3> QED
      BY <2>1, <2>2, <2>4, <3>1 DEF now, kinds, CountOf
  <2> QED
    BY <2>3, <2>4
<1>5. (\A i \in 1..m : st[i] # "ok") <=> after.primary = Nothing
  <2>1. (\A i \in 1..(m - 1) : st[i] # "ok") <=> run.primary = Nothing
    BY DEF Notes
  <2>2. m \in 1..m /\ \A i \in 1..(m - 1) : i \in 1..m
    OBVIOUS
  <2> QED
    BY <1>0, <1>2, <2>1, <2>2
<1>6. ASSUME NEW i \in 1..m, st[i] = "ok", \A j \in 1..(i - 1) : st[j] # "ok"
      PROVE  after.primary = got[i]
  <2>1. CASE i = m
    <3>1. run.primary = Nothing
      BY <1>6, <2>1 DEF Notes
    <3> QED
      BY <1>0, <1>6, <2>1, <3>1
  <2>2. CASE i \in 1..(m - 1)
    <3>1. run.primary = got[i] /\ run.primary # Nothing
      BY <1>6, <2>2 DEF Notes
    <3> QED
      BY <1>0, <3>1
  <2> QED
    BY <1>2, <2>1, <2>2
<1> QED
  BY <1>1, <1>3, <1>4, <1>5, <1>6 DEF Notes

\* A playbook's run notes all of its steps.
LEMMA PlaybookNotes ==
  ASSUME NEW objects, NEW names, NEW playbook, NEW entity, NEW st, NEW got,
         playbook.steps \in Seq(ToSet(playbook.steps)),
         st = [i \in 1..Len(playbook.steps) |-> Status(objects, names, playbook.steps[i], entity)],
         got = [i \in 1..Len(playbook.steps) |-> StepRun(objects, playbook.steps[i], entity)],
         \A i \in 1..Len(playbook.steps) : st[i] = "ok" => got[i] # Nothing
  PROVE  /\ Notes(RunPlaybook(playbook, objects, names, entity), Len(playbook.steps), st, got)
         /\ RunPlaybook(playbook, objects, names, entity).statuses \in Seq(Outcomes)
<1> DEFINE steps == playbook.steps
           n == Len(steps)
           V == {steps[i].view : i \in 1..n}
           P == {Nothing} \cup {got[i] : i \in 1..n}
           X == [statuses : Seq(Outcomes), sections : Seq(V), primary : P]
           add(m, x) == AfterStep(x, objects, names, steps[m], entity)
           step == [m \in 1..n |-> [x \in X |-> add(m, x)]]
           Pass(f) == [m \in 0..n |->
                         IF m = 0 THEN Before
                         ELSE AfterStep(f[m - 1], objects, names, steps[m], entity)]
           Chosen == CHOOSE h : h = Pass(h)
<1>1. n \in Nat
  OBVIOUS
<1>2. RunPlaybook(playbook, objects, names, entity) = Chosen[n]
  BY DEF RunPlaybook
<1>3. \A f : Pass(f) = [m \in 0..n |-> IF m = 0 THEN Before ELSE add(m, f[m - 1])]
  OBVIOUS
<1>4. ASSUME NEW m \in 1..n, NEW x
      PROVE  add(m, x) =
               [statuses |-> Append(x.statuses, st[m]),
                sections |-> IF st[m] \in {"ok", "empty"} THEN Append(x.sections, steps[m].view)
                                                          ELSE x.sections,
                primary |-> IF st[m] = "ok" /\ x.primary = Nothing THEN got[m] ELSE x.primary]
  <2>1. /\ st[m] = Status(objects, names, steps[m], entity)
        /\ got[m] = StepRun(objects, steps[m], entity)
    BY <1>4
  <2> QED
    BY <2>1 DEF AfterStep
<1>5. \A m \in 1..n : st[m] \in Outcomes /\ steps[m].view \in V /\ got[m] \in P
  <2> TAKE m \in 1..n
  <2>1. st[m] = Status(objects, names, steps[m], entity)
    OBVIOUS
  <2>2. st[m] \in Outcomes
    BY <2>1 DEF Status, Outcomes
  <2> QED
    BY <2>2
<1> HIDE DEF add, n, Pass, V, P
<1>6. Before \in X
  BY DEF Before, P
<1>7. ASSUME NEW m \in 1..n, NEW x \in X PROVE add(m, x) \in X
  <2> DEFINE statuses == Append(x.statuses, st[m])
             sections == IF st[m] \in {"ok", "empty"} THEN Append(x.sections, steps[m].view)
                                                      ELSE x.sections
             primary == IF st[m] = "ok" /\ x.primary = Nothing THEN got[m] ELSE x.primary
  <2>1. x.statuses \in Seq(Outcomes) /\ x.sections \in Seq(V) /\ x.primary \in P
    OBVIOUS
  <2>2. add(m, x) = [statuses |-> statuses, sections |-> sections, primary |-> primary]
    BY <1>4
  <2> HIDE DEF X
  <2>3. statuses \in Seq(Outcomes)
    BY <1>5, <2>1, AppendProperties
  <2>4. sections \in Seq(V)
    <3>1. Append(x.sections, steps[m].view) \in Seq(V)
      BY <1>5, <2>1, AppendProperties
    <3> QED
      BY <2>1, <3>1
  <2>5. primary \in P
    BY <1>5, <2>1
  <2> HIDE DEF statuses, sections, primary
  <2> QED
    BY <2>2, <2>3, <2>4, <2>5 DEF X
<1> HIDE DEF X
<1>8. step \in [1..n -> [X -> X]] /\ \A m \in 1..n, x \in X : step[m][x] = add(m, x)
  BY <1>7
<1> HIDE DEF step
<1>9. PICK f \in [0..n -> X] : f[0] = Before /\ \A m \in 1..n : f[m] = step[m][f[m - 1]]
  <2> DEFINE base == Before
  <2>1. n \in Nat /\ base \in X /\ step \in [1..n -> [X -> X]]
    BY <1>1, <1>6, <1>8
  <2> HIDE DEF base
  <2>2. \E f \in [0..n -> X] : Iterates(f, n, base, step)
    BY ONLY <2>1, Recursion
  <2> QED
    BY <2>2 DEF base, Iterates
<1>10. ASSUME NEW m \in 0..n PROVE f[m] = IF m = 0 THEN Before ELSE add(m, f[m - 1])
  <2>1. CASE m = 0
    BY <1>9, <2>1
  <2>2. CASE m # 0
    <3>1. m \in 1..n /\ m - 1 \in 0..n
      BY <1>1, <2>2
    <3>2. f[m - 1] \in X
      BY <1>9, <3>1
    <3>3. f[m] = step[m][f[m - 1]] /\ step[m][f[m - 1]] = add(m, f[m - 1])
      BY <1>8, <1>9, <3>1, <3>2
    <3> QED
      BY <2>2, <3>3
  <2> QED
    BY <2>1, <2>2
<1>11. f = [m \in 0..n |-> IF m = 0 THEN Before ELSE add(m, f[m - 1])]
  BY <1>9, <1>10
<1>12. f = Pass(f)
  BY <1>3, <1>11
<1>13. Chosen = Pass(Chosen)
  BY <1>12
<1> HIDE DEF Chosen
<1>14. \A m \in 0..n : Chosen[m] = IF m = 0 THEN Before ELSE add(m, Chosen[m - 1])
  BY <1>3, <1>13
<1> DEFINE T == {m \in 0..n : Chosen[m] \in X /\ Notes(Chosen[m], m, st, got)}
<1>15. 0 \in T
  <2>1. Chosen[0] = Before
    BY <1>1, <1>14
  <2>2. {i \in 1..0 : st[i] \in {"ok", "empty"}} = {} /\ Cardinality({}) = 0
    BY FS_EmptySet
  <2>3. Notes(Before, 0, st, got)
    BY <2>2 DEF Notes, Before
  <2> QED
    BY <1>1, <1>6, <2>1, <2>3
<1>16. ASSUME NEW m \in 1..n, m - 1 \in T PROVE m \in T
  <2> DEFINE run == Chosen[m - 1]
             after == Chosen[m]
  <2>1. run \in X /\ Notes(run, m - 1, st, got) /\ m \in 0..n /\ m # 0 /\ m \in Nat \ {0}
    BY <1>1, <1>16
  <2>2. after = add(m, run) /\ after \in X
    BY <1>7, <1>14, <2>1
  <2> HIDE DEF run, after
  <2>3. run.statuses \in Seq(Outcomes) /\ run.sections \in Seq(V)
    BY <2>1 DEF X
  <2>4. /\ after.statuses = Append(run.statuses, st[m])
        /\ after.sections = (IF st[m] \in {"ok", "empty"} THEN Append(run.sections, steps[m].view)
                                                          ELSE run.sections)
        /\ after.primary = (IF st[m] = "ok" /\ run.primary = Nothing THEN got[m] ELSE run.primary)
    <3>1. after =
            [statuses |-> Append(run.statuses, st[m]),
             sections |-> IF st[m] \in {"ok", "empty"} THEN Append(run.sections, steps[m].view)
                                                       ELSE run.sections,
             primary |-> IF st[m] = "ok" /\ run.primary = Nothing THEN got[m] ELSE run.primary]
      BY <1>4, <2>2
    <3> QED
      BY <3>1
  <2>5. (st[m] = "ok" => got[m] # Nothing) /\ Adding(run, after, m, st, got, steps[m].view)
    BY <2>4 DEF n, Adding
  <2>6. Notes(after, m, st, got)
    BY <1>5, <2>1, <2>3, <2>5, NotesOn
  <2> QED
    BY <2>1, <2>2, <2>6 DEF after
<1> HIDE DEF T
<1>17. \A m \in 0..n : m \in T
  BY ONLY <1>1, <1>15, <1>16, UpTo
<1>18. Chosen[n] \in X /\ Notes(Chosen[n], n, st, got)
  <2>1. n \in 0..n
    BY <1>1
  <2>2. n \in T
    BY <1>17, <2>1
  <2> QED
    BY <2>2 DEF T
<1> QED
  BY <1>2, <1>18 DEF X, n

\* A result is not Nothing.
LEMMA ResultIsThere ==
  ASSUME NEW objects \in Databases, NEW view \in DOMAIN objects, NEW filter,
         NEW limit \in Nat \cup {Nothing}
  PROVE  RunView(view, objects[view], filter, limit) # Nothing
<1> DEFINE r == RunView(view, objects[view], filter, limit)
           C == objects[view].columns
           All == UNION {UNION {[o[v].columns -> Int \cup {Null}] : v \in DOMAIN o}
                         : o \in Databases}
<1>1. /\ Nothing \notin [view : STRING, source : {"view"}, columns : SUBSET STRING,
                         rows : Seq(All), count : Nat, truncated : BOOLEAN, whole : Seq(All)]
      /\ view \in STRING /\ C \in SUBSET STRING
  BY DataAssumption
<1>2. /\ Sound(r)
      /\ r.view = view /\ r.source = "view" /\ r.columns = C
  BY ObjectRows, RunViewRows
<1>3. r = [view |-> r.view, source |-> r.source, columns |-> r.columns, rows |-> r.rows,
           count |-> r.count, truncated |-> r.truncated, whole |-> r.whole]
  BY DEF RunView, Execute
<1> HIDE DEF r, C
<1>4. [C -> Cell] \subseteq All
  BY DEF Cell, C
<1> HIDE DEF All
<1>5. r.rows \in Seq([C -> Cell]) /\ r.whole \in Seq([C -> Cell])
  BY <1>2 DEF Sound, RowsOf
<1>6. r.rows \in Seq(All) /\ r.whole \in Seq(All)
  <2> DEFINE S == [C -> Cell]
  <2>1. S \subseteq All /\ r.rows \in Seq(S) /\ r.whole \in Seq(S)
    BY <1>4, <1>5
  <2> HIDE DEF S
  <2> QED
    BY <2>1, SeqMonotonic
<1>7. r.count \in Nat /\ r.truncated \in BOOLEAN
  <2>1. Len(r.rows) \in Nat /\ MaxRows \in Nat
    BY <1>6, RowsAssumption
  <2> QED
    BY <1>2, <2>1 DEF Sound
<1>8. r \in [view : STRING, source : {"view"}, columns : SUBSET STRING,
             rows : Seq(All), count : Nat, truncated : BOOLEAN, whole : Seq(All)]
  <2>1. r.view \in STRING /\ r.source \in {"view"} /\ r.columns \in SUBSET STRING
    BY <1>1, <1>2
  <2> DEFINE f1 == r.view  f2 == r.source  f3 == r.columns  f4 == r.rows
             f5 == r.count  f6 == r.truncated  f7 == r.whole
  <2>2. /\ f1 \in STRING /\ f2 \in {"view"} /\ f3 \in SUBSET STRING /\ f4 \in Seq(All)
        /\ f5 \in Nat /\ f6 \in BOOLEAN /\ f7 \in Seq(All)
    BY <1>6, <1>7, <2>1
  <2>3. r = [view |-> f1, source |-> f2, columns |-> f3, rows |-> f4, count |-> f5,
             truncated |-> f6, whole |-> f7]
    BY <1>3
  <2> HIDE DEF f1, f2, f3, f4, f5, f6, f7
  <2> QED
    BY ONLY <2>2, <2>3
<1> QED
  BY <1>1, <1>8 DEF r

\* What a step that answers with rows gives: a sound result of its view, with rows,
\* and if it took the entity, the entity's.
LEMMA StepGives ==
  ASSUME NEW objects \in Databases, NEW names, NEW s, NEW entity,
         Status(objects, names, s, entity) = "ok"
  PROVE  LET r == StepRun(objects, s, entity)
         IN /\ Sound(r) /\ r # Nothing /\ r.view = s.view
            /\ s.column # Nothing /\ entity # Nothing /\ [column |-> s.column, value |-> entity] # NoFilter =>
                 \A i \in DOMAIN r.rows : r.rows[i][s.column] = entity
<1> DEFINE filter == StepFilter(s, entity)
           found == Matching(objects[s.view], filter)
           r == StepRun(objects, s, entity)
<1>1. s.view \in DOMAIN objects
  BY DEF Status, ViewFails
<1>2. objects[s.view].rows \in RowsOf(objects[s.view].columns) /\ StepRows \in Nat \cup {Nothing}
  BY <1>1, ObjectRows, Limits
<1>3. r = RunView(s.view, objects[s.view], filter, StepRows)
  BY DEF StepRun
<1> HIDE DEF filter, r
<1>4. /\ Sound(r) /\ r.view = s.view
      /\ \A i \in 1..Len(r.rows) : r.rows[i] = found[i]
      /\ Len(r.rows) <= Len(found)
  BY <1>2, <1>3, RunViewRows
<1>5. r # Nothing
  BY <1>1, <1>2, <1>3, ResultIsThere
<1>6. /\ found \in RowsOf(objects[s.view].columns)
      /\ filter # NoFilter => \A i \in 1..Len(found) : found[i][filter.column] = filter.value
  BY <1>2, MatchingRows
<1>7. /\ DOMAIN r.rows = 1..Len(r.rows) /\ Len(r.rows) \in Nat /\ Len(found) \in Nat
  BY <1>4, <1>6 DEF Sound, RowsOf
<1>8. ASSUME s.column # Nothing, entity # Nothing,
             [column |-> s.column, value |-> entity] # NoFilter, NEW i \in DOMAIN r.rows
      PROVE  r.rows[i][s.column] = entity
  <2>1. filter = [column |-> s.column, value |-> entity]
    BY <1>8 DEF filter, StepFilter
  <2>2. i \in 1..Len(found) /\ r.rows[i] = found[i]
    BY <1>4, <1>7, <1>8
  <2> QED
    BY <1>6, <1>8, <2>1, <2>2
<1> QED
  BY <1>4, <1>5, <1>8 DEF r

-----------------------------------------------------------------------------
(* The entity index *)

\* Of the objects detected one goes before all others.
LEMMA DetectedHasFirst ==
  ASSUME NEW objects \in Databases, Detected(objects) # {}
  PROVE  \E o \in Detected(objects) :
           \A p \in Detected(objects) \ {o} :
             KeyLess(RankKey(objects, o, Order), RankKey(objects, p, Order))
<1> DEFINE D == Detected(objects)
           key(o) == RankKey(objects, o, Order)
           k1(o) == IF objects[o].category = "dim" THEN 0 ELSE 1
           k2(o) == IF objects[o].kind = "table" THEN 0 ELSE 1
           k3(o) == IF objects[o].category = "fact" THEN 0 ELSE 1
           k4(o) == Order[o]
<1>1. \A o \in D : k1(o) \in Nat /\ k2(o) \in Nat /\ k3(o) \in Nat /\ k4(o) \in Nat
  BY DataAssumption DEF Detected
<1>2. \A o, p \in D : k4(o) = k4(p) => o = p
  BY DataAssumption DEF Detected
<1>3. \A o \in D : key(o) = <<k1(o), k2(o), k3(o), k4(o)>>
  BY DEF RankKey
<1> HIDE DEF D, key, k1, k2, k3, k4
<1>4. PICK o1 \in D : \A p \in D : k1(o1) <= k1(p)
  <2> DEFINE T == {k1(o) : o \in D}
  <2>1. T \in SUBSET Nat /\ T # {}
    BY <1>1 DEF D
  <2>2. PICK n \in T : \A m \in T : n <= m
    BY ONLY <2>1, Least
  <2> QED
    BY <2>2
<1> DEFINE D1 == {o \in D : k1(o) = k1(o1)}
<1>5. PICK o2 \in D1 : \A p \in D1 : k2(o2) <= k2(p)
  <2> DEFINE T == {k2(o) : o \in D1}
  <2>1. T \in SUBSET Nat /\ T # {}
    BY <1>1
  <2>2. PICK n \in T : \A m \in T : n <= m
    BY ONLY <2>1, Least
  <2> QED
    BY <2>2
<1> DEFINE D2 == {o \in D1 : k2(o) = k2(o2)}
<1>6. PICK o3 \in D2 : \A p \in D2 : k3(o3) <= k3(p)
  <2> DEFINE T == {k3(o) : o \in D2}
  <2>1. T \in SUBSET Nat /\ T # {}
    BY <1>1
  <2>2. PICK n \in T : \A m \in T : n <= m
    BY ONLY <2>1, Least
  <2> QED
    BY <2>2
<1> DEFINE D3 == {o \in D2 : k3(o) = k3(o3)}
<1>7. PICK o \in D3 : \A p \in D3 : k4(o) <= k4(p)
  <2> DEFINE T == {k4(o) : o \in D3}
  <2>1. T \in SUBSET Nat /\ T # {}
    BY <1>1
  <2>2. PICK n \in T : \A m \in T : n <= m
    BY ONLY <2>1, Least
  <2> QED
    BY <2>2
<1>8. ASSUME NEW p \in D, p # o PROVE KeyLess(key(o), key(p))
  <2> DEFINE a == key(o)
             b == key(p)
  <2>1. /\ a[1] = k1(o) /\ a[2] = k2(o) /\ a[3] = k3(o) /\ a[4] = k4(o)
        /\ b[1] = k1(p) /\ b[2] = k2(p) /\ b[3] = k3(p) /\ b[4] = k4(p)
    BY <1>3
  <2> HIDE DEF a, b
  <2>2. /\ k1(o) \in Nat /\ k2(o) \in Nat /\ k3(o) \in Nat /\ k4(o) \in Nat
        /\ k1(p) \in Nat /\ k2(p) \in Nat /\ k3(p) \in Nat /\ k4(p) \in Nat
    BY <1>1
  <2>3. CASE p \notin D1
    <3>1. a[1] < b[1]
      BY <1>4, <2>1, <2>2, <2>3
    <3>2. 1 \in 1..4 /\ \A j \in 1..(1 - 1) : a[j] = b[j]
      OBVIOUS
    <3> QED
      BY <3>1, <3>2 DEF KeyLess, a, b
  <2>4. CASE p \in D1 \ D2
    <3>1. a[2] < b[2] /\ a[1] = b[1]
      BY <1>5, <2>1, <2>2, <2>4
    <3>2. 2 \in 1..4 /\ \A j \in 1..(2 - 1) : j = 1
      OBVIOUS
    <3> QED
      BY <3>1, <3>2 DEF KeyLess, a, b
  <2>5. CASE p \in D2 \ D3
    <3>1. a[3] < b[3] /\ a[1] = b[1] /\ a[2] = b[2]
      BY <1>6, <2>1, <2>2, <2>5
    <3>2. 3 \in 1..4 /\ \A j \in 1..(3 - 1) : j = 1 \/ j = 2
      OBVIOUS
    <3> QED
      BY <3>1, <3>2 DEF KeyLess, a, b
  <2>6. CASE p \in D3
    <3>1. k4(o) # k4(p)
      BY <1>2, <1>8
    <3>2. a[4] < b[4] /\ a[1] = b[1] /\ a[2] = b[2] /\ a[3] = b[3]
      BY <1>7, <2>1, <2>2, <2>6, <3>1
    <3>3. 4 \in 1..4 /\ \A j \in 1..(4 - 1) : j = 1 \/ j = 2 \/ j = 3
      OBVIOUS
    <3> QED
      BY <3>2, <3>3 DEF KeyLess, a, b
  <2> QED
    BY <2>3, <2>4, <2>5, <2>6
<1>9. o \in D
  OBVIOUS
<1> HIDE DEF D1, D2, D3
<1> QED
  BY <1>8, <1>9 DEF D, key

\* The object an entity's values are read from is there and has names.
LEMMA SourceIsThere ==
  ASSUME NEW objects \in Databases, SourceOf(objects, Order) # Nothing
  PROVE  /\ SourceOf(objects, Order) \in DOMAIN objects
         /\ "name" \in objects[SourceOf(objects, Order)].columns
<1>1. CASE OverrideHolds(objects)
  BY <1>1 DEF SourceOf, OverrideHolds
<1>2. CASE ~OverrideHolds(objects)
  <2>1. /\ Detected(objects) # {}
        /\ SourceOf(objects, Order) =
             CHOOSE o \in Detected(objects) :
               \A p \in Detected(objects) \ {o} :
                 KeyLess(RankKey(objects, o, Order), RankKey(objects, p, Order))
    BY <1>2 DEF SourceOf
  <2>2. SourceOf(objects, Order) \in Detected(objects)
    BY <2>1, DetectedHasFirst
  <2> QED
    BY <2>2 DEF Detected, Kinds
<1> QED
  BY <1>1, <1>2

\* The index is a list of pairs, each read from a row of the source that has a name.
IndexOf(table, objects) ==
  /\ \E L \in Nat : DOMAIN table = 1..L
  /\ table # <<>> =>
       LET o == SourceOf(objects, Order)
       IN /\ o \in DOMAIN objects /\ "name" \in objects[o].columns
          /\ \A i \in DOMAIN table : \E j \in 1..Len(objects[o].rows) :
               LET r == objects[o].rows[j]
               IN /\ table[i].name = r["name"] /\ r["name"] # Null
                  /\ table[i].code = IF "code" \in objects[o].columns THEN r["code"] ELSE r["name"]

\* The entity's table is such an index.
LEMMA TableIsIndex ==
  ASSUME NEW objects \in Databases
  PROVE  IndexOf(EntityTable(objects, Order), objects)
<1> DEFINE o == SourceOf(objects, Order)
           table == EntityTable(objects, Order)
<1>1. CASE o = Nothing \/ objects[o].broken
  <2>1. table = <<>>
    BY <1>1 DEF EntityTable
  <2>2. DOMAIN <<>> = 1..0 /\ 0 \in Nat
    OBVIOUS
  <2> QED
    BY <2>1, <2>2 DEF IndexOf
<1>2. CASE o # Nothing /\ ~objects[o].broken
  <2> DEFINE object == objects[o]
             S == [object.columns -> Cell]
             good == {r \in ToSet(object.rows) : r["name"] # Null}
             named == Where(object.rows, good)
  <2>1. o \in DOMAIN objects /\ "name" \in object.columns
    BY <1>2, SourceIsThere
  <2>2. object.rows \in Seq(S)
    BY <2>1, ObjectRows DEF RowsOf
  <2>3. table = Pairs(object)
    BY <1>2 DEF EntityTable
  <2>4. Pairs(object) = [i \in DOMAIN named |->
          [code |-> IF "code" \in object.columns THEN named[i]["code"] ELSE named[i]["name"],
           name |-> named[i]["name"]]]
    BY Zenon DEF Pairs
  <2>5. ASSUME NEW S1, NEW t,
               t = [i \in DOMAIN S1 |->
                     [code |-> IF "code" \in object.columns THEN S1[i]["code"] ELSE S1[i]["name"],
                      name |-> S1[i]["name"]]]
        PROVE  /\ DOMAIN t = DOMAIN S1
               /\ \A i \in DOMAIN t :
                    /\ t[i].name = S1[i]["name"]
                    /\ t[i].code = IF "code" \in object.columns THEN S1[i]["code"]
                                                              ELSE S1[i]["name"]
    <3> HIDE DEF object
    <3> QED
      BY <2>5
  <2>6. /\ DOMAIN table = DOMAIN named
        /\ \A i \in DOMAIN table :
             /\ table[i].name = named[i]["name"]
             /\ table[i].code = IF "code" \in object.columns THEN named[i]["code"]
                                                            ELSE named[i]["name"]
    <3> HIDE DEF named, object, table
    <3> QED
      BY <2>3, <2>4, <2>5
  <2> HIDE DEF o, object, S, table, good
  <2>7. named \in Seq(S) /\ ToSet(named) = ToSet(object.rows) \cap good
    BY <2>2, WhereTakes, WhereGood
  <2> HIDE DEF named
  <2>8. DOMAIN named = 1..Len(named) /\ Len(named) \in Nat /\ DOMAIN object.rows = 1..Len(object.rows)
    BY <2>2, <2>7
  <2>9. ASSUME NEW i \in DOMAIN table
        PROVE  \E j \in 1..Len(object.rows) : named[i] = object.rows[j] /\ object.rows[j]["name"] # Null
    <3>1. named[i] \in ToSet(named)
      BY <2>6, <2>9 DEF ToSet
    <3>2. named[i] \in ToSet(object.rows) /\ named[i]["name"] # Null
      BY <2>7, <3>1 DEF good
    <3> QED
      BY <2>8, <3>2 DEF ToSet
  <2>10. \A i \in DOMAIN table : \E j \in 1..Len(object.rows) :
          /\ table[i].name = object.rows[j]["name"] /\ object.rows[j]["name"] # Null
          /\ table[i].code = IF "code" \in object.columns THEN object.rows[j]["code"]
                                                         ELSE object.rows[j]["name"]
    BY <2>6, <2>9
  <2> QED
    BY <2>1, <2>6, <2>8, <2>10 DEF IndexOf, o, object, table
<1> QED
  BY <1>1, <1>2

-----------------------------------------------------------------------------
(* Playbooks, continued *)

\* What a run of a playbook gives: a status for every step, in order, a section
\* for every view that answered, and as the primary result the first with rows.
RunGives(run, objects, names, playbook, entity) ==
  LET steps == playbook.steps
      status(i) == Status(objects, names, steps[i], entity)
  IN /\ run.statuses \in Seq(Outcomes) /\ Len(run.statuses) = Len(steps)
     /\ \A i \in 1..Len(steps) : run.statuses[i] = status(i)
     /\ Len(run.sections) = Cardinality({i \in 1..Len(steps) : run.statuses[i] \in {"ok", "empty"}})
     /\ \/ /\ run.primary = Nothing
           /\ \A i \in 1..Len(steps) : run.statuses[i] # "ok"
        \/ \E i \in 1..Len(steps) :
             /\ run.statuses[i] = "ok" /\ \A j \in 1..(i - 1) : run.statuses[j] # "ok"
             /\ run.primary = StepRun(objects, steps[i], entity)

\* A run of a playbook gives this.
LEMMA PlaybookGives ==
  ASSUME NEW playbook \in Playbooks, NEW objects \in Databases, NEW names, NEW entity
  PROVE  RunGives(RunPlaybook(playbook, objects, names, entity), objects, names, playbook, entity)
<1> DEFINE run == RunPlaybook(playbook, objects, names, entity)
           n == Len(playbook.steps)
           st == [i \in 1..n |-> Status(objects, names, playbook.steps[i], entity)]
           got == [i \in 1..n |-> StepRun(objects, playbook.steps[i], entity)]
<1>1. playbook.steps \in Seq(ToSet(playbook.steps)) /\ n \in Nat
  BY DataAssumption
<1>2. \A i \in 1..n : st[i] = "ok" => got[i] # Nothing
  BY StepGives
<1>3. Notes(run, n, st, got) /\ run.statuses \in Seq(Outcomes)
  <2>1. st = [i \in 1..n |-> Status(objects, names, playbook.steps[i], entity)]
    OBVIOUS
  <2>2. got = [i \in 1..n |-> StepRun(objects, playbook.steps[i], entity)]
    OBVIOUS
  <2> HIDE DEF st, got
  <2> QED
    BY <1>1, <1>2, <2>1, <2>2, PlaybookNotes
<1>4. \A i \in 1..n : /\ st[i] = Status(objects, names, playbook.steps[i], entity)
                      /\ got[i] = StepRun(objects, playbook.steps[i], entity)
  OBVIOUS
<1> HIDE DEF run, st, got
<1>5. /\ Len(run.statuses) = n
      /\ \A i \in 1..n : run.statuses[i] = st[i]
      /\ Len(run.sections) = Cardinality({i \in 1..n : st[i] \in {"ok", "empty"}})
      /\ (\A i \in 1..n : st[i] # "ok") <=> run.primary = Nothing
      /\ \A i \in 1..n : st[i] = "ok" /\ (\A j \in 1..(i - 1) : st[j] # "ok") => run.primary = got[i]
  BY <1>3 DEF Notes
<1>6. {i \in 1..n : st[i] \in {"ok", "empty"}} = {i \in 1..n : run.statuses[i] \in {"ok", "empty"}}
  BY <1>5
<1>7. \/ /\ run.primary = Nothing
         /\ \A i \in 1..n : run.statuses[i] # "ok"
      \/ \E i \in 1..n :
           /\ run.statuses[i] = "ok" /\ \A j \in 1..(i - 1) : run.statuses[j] # "ok"
           /\ run.primary = StepRun(objects, playbook.steps[i], entity)
  <2>1. CASE \A i \in 1..n : st[i] # "ok"
    BY <1>5, <2>1
  <2>2. CASE \E i \in 1..n : st[i] = "ok"
    <3> DEFINE T == {i \in 1..n : st[i] = "ok"}
    <3>1. T # {} /\ T \in SUBSET Nat
      BY <2>2
    <3>2. PICK i \in T : \A m \in T : i <= m
      BY <3>1, Least
    <3>3. i \in 1..n /\ st[i] = "ok"
      OBVIOUS
    <3>4. \A j \in 1..(i - 1) : j \in 1..n /\ st[j] # "ok"
      BY <1>1, <3>2, <3>3
    <3>5. run.primary = got[i]
      BY <1>5, <3>3, <3>4
    <3>6. run.statuses[i] = "ok" /\ \A j \in 1..(i - 1) : run.statuses[j] # "ok"
      BY <1>5, <3>3, <3>4
    <3> QED
      BY <1>4, <3>3, <3>5, <3>6
  <2> QED
    BY <2>1, <2>2
<1>8. \A i \in 1..n : run.statuses[i] = Status(objects, names, playbook.steps[i], entity)
  BY <1>4, <1>5
<1>9. Len(run.sections) = Cardinality({i \in 1..n : run.statuses[i] \in {"ok", "empty"}})
  BY <1>5, <1>6
<1>10. run.statuses \in Seq(Outcomes) /\ Len(run.statuses) = n
  BY <1>3, <1>5
<1> QED
  BY <1>7, <1>8, <1>9, <1>10 DEF RunGives, run

\* The playbook path says something, or runs the steps with an entity.
LEMMA PlaybookRuns ==
  ASSUME NEW playbook, NEW text, PlaybookPath(playbook, text)
  PROVE  /\ Operation /\ UNCHANGED <<db, known, cache, pending>>
         /\ \/ answer' = Said("playbook") /\ UNCHANGED working
            \/ \E entity : RunSteps(playbook, entity)
BY Zenon DEF PlaybookPath

\* The playbook path keeps the invariant.
LEMMA PlaybookPathInv ==
  ASSUME DataInv, NEW playbook \in Playbooks, NEW text, PlaybookPath(playbook, text)
  PROVE  DataInv'
<1>1. Operation /\ UNCHANGED <<db, known, cache, pending>>
  BY PlaybookRuns
<1>2. CASE answer' = Said("playbook") /\ UNCHANGED working
  <2>1. AnswerIsSound(answer')
    BY <1>2 DEF AnswerIsSound, Said
  <2> QED
    BY <1>1, <1>2, <2>1, PassesBy DEF DataInv
<1>3. ASSUME NEW entity, RunSteps(playbook, entity)
      PROVE  DataInv'
  <2> DEFINE run == RunPlaybook(playbook, db, DOMAIN known, entity)
  <2>1. /\ answer'.path = "playbook"
        /\ working' = IF run.primary = Nothing THEN working ELSE Remembered(run.primary)
    BY <1>3 DEF RunSteps
  <2>2. RunGives(run, db, DOMAIN known, playbook, entity)
    BY PlaybookGives DEF DataInv
  <2>3. run.primary = Nothing \/ Sound(run.primary)
    <3> HIDE DEF run
    <3>1. ASSUME NEW i \in 1..Len(playbook.steps), run.statuses[i] = "ok",
                 run.primary = StepRun(db, playbook.steps[i], entity)
          PROVE  Sound(run.primary)
      <4>1. Status(db, DOMAIN known, playbook.steps[i], entity) = "ok"
        BY <2>2, <3>1 DEF RunGives
      <4>2. db \in Databases
        BY DEF DataInv
      <4> QED
        BY <3>1, <4>1, <4>2, StepGives
    <3> QED
      BY <2>2, <3>1 DEF RunGives
  <2> HIDE DEF run
  <2>4. Holds(working')
    BY <2>1, <2>3, RememberedHolds DEF DataInv
  <2>5. AnswerIsSound(answer')
    BY <2>1 DEF AnswerIsSound
  <2> QED
    BY <1>1, <2>4, <2>5, PassesBy
<1> QED
  BY <1>2, <1>3, PlaybookRuns

\* Every step keeps the invariant.
LEMMA DataNext ==
  ASSUME DataInv, [Next]_vars
  PROVE  DataInv'
<1>1. CASE UNCHANGED vars
  BY <1>1 DEF vars, DataInv
<1>2. ASSUME NEW v \in Views, NEW c \in Kinds, NEW t \in Texts \cup {Nothing},
             AskWhich(v, c, t) \/ ViewPath(v, c, t)
      PROVE  DataInv'
  BY <1>2, ViewPathInv
<1>3. ASSUME NEW v \in Views, NEW c \in Kinds, NEW t \in Texts \cup {Nothing}, AgentView(v, c, t)
      PROVE  DataInv'
  BY <1>3, AgentViewInv
<1>4. ASSUME NEW s1 \in Statements, NEW s2 \in Statements, SqlPath(s1, s2)
      PROVE  DataInv'
  BY <1>4, SqlPathInv
<1>5. ASSUME NEW i \in 1..(WorkingSize + 1), NEW spec \in Specs, RefinePath(i, spec)
      PROVE  DataInv'
  BY <1>5, RefinePathInv
<1>6. ASSUME NEW p \in Playbooks, NEW t \in Texts \cup {Nothing}, PlaybookPath(p, t)
      PROVE  DataInv'
  BY <1>6, PlaybookPathInv
<1>7. CASE Scan
  BY <1>7, ScanInv
<1>8. ASSUME NEW v \in Views, NEW given \in GivenPairs, NEW n \in ItemCounts, Detect(v, given, n)
      PROVE  DataInv'
  BY <1>8, DetectInv
<1>9. CASE (\E new \in Databases \ {db} : Swap(new)) \/ Rediscover
  BY <1>9, RefreshInv
<1>10. CASE Store
  BY <1>10, StoreInv
<1> QED
  BY Zenon, <1>1, <1>2, <1>3, <1>4, <1>5, <1>6, <1>7, <1>8, <1>9, <1>10 DEF Next

\* In every state what the cache keeps of a view is what the view gives for the file
\* it was read from, which is the file that is there but for one entry at most, and
\* everything the operations pass on is sound.
THEOREM DataIsSound == Spec => []DataInv
<1>1. DataInv /\ [Next]_vars => DataInv'
  BY DataNext
<1> QED
  BY <1>1, DataInit, PTL DEF Spec

-----------------------------------------------------------------------------
(* Results: their form, and the rows they lack *)

\* Every result the operations left or gave is sound.
LEMMA ResultsAreSound ==
  ASSUME DataInv, NEW r \in Results
  PROVE  Sound(r)
<1>1. CASE r \in {cache[k].result : k \in DOMAIN cache}
  BY <1>1 DEF DataInv, Caches
<1>2. CASE r \in {working[i] : i \in DOMAIN working}
  BY <1>2 DEF DataInv, Holds
<1>3. CASE r \in (IF answer.path \in {"view", "agent", "sql", "refine"} /\ answer.told = "result"
                    THEN {answer.result} ELSE {})
  BY <1>3 DEF DataInv, AnswerIsSound
<1>4. CASE r \in (IF answer.path = "queues" THEN {answer.results[v] : v \in DOMAIN answer.results}
                  ELSE {})
  BY <1>4 DEF DataInv, AnswerIsSound
<1> QED
  BY <1>1, <1>2, <1>3, <1>4 DEF Results

\* No result has more rows than max_rows, its count is at least the rows it shows,
\* and the working set holds at most its size of results, none of them empty.
THEOREM DataTyped == Spec => []DataTypeOK
<1>1. ASSUME DataInv
      PROVE  DataTypeOK
  <2>1. ASSUME NEW r \in Results
        PROVE  IsResult(r)
    <3>1. Sound(r)
      BY <1>1, <2>1, ResultsAreSound
    <3>2. r.rows \in Seq([r.columns -> Cell])
      BY <3>1 DEF Sound, RowsOf
    <3>3. \A i \in DOMAIN r.rows : DOMAIN r.rows[i] = r.columns
      BY <3>2
    <3> QED
      BY <3>1, <3>3 DEF Sound, IsResult
  <2> QED
    BY <1>1, <2>1 DEF DataInv, DataTypeOK, Holds
<1>2. DataInv => DataTypeOK
  BY <1>1
<1> QED
  BY <1>2, DataIsSound, PTL

\* A view's result that lacks rows of the view its filters keep says it was cut,
\* wherever it is found: in the cache, in the working set or in an answer, and
\* after any number of refinements.
THEOREM CutsFlagged == Spec => []CutIsFlagged
<1>1. ASSUME DataInv, NEW r \in Results, r.source = "view", Len(r.rows) < Len(r.whole)
      PROVE  r.truncated
  <2>1. Sound(r)
    BY <1>1, ResultsAreSound
  <2>2. Len(r.rows) \in Nat /\ Len(r.whole) \in Nat
    BY <2>1 DEF Sound, RowsOf
  <2>3. ASSUME Rearranged(r.rows, r.whole)
        PROVE  FALSE
    BY <1>1, <2>2, <2>3, RearrangedLen
  <2> QED
    BY <1>1, <2>1, <2>3 DEF Sound
<1>2. DataInv => CutIsFlagged
  BY <1>1 DEF CutIsFlagged
<1> QED
  BY <1>2, DataIsSound, PTL

-----------------------------------------------------------------------------
(* Which path gave the answer *)

\* Every operation leaves an answer of its own path.
LEMMA AnswerPaths ==
  ASSUME Next
  PROVE  \/ /\ answer'.path = "view"
            /\ \E v \in Views, c \in Kinds, t \in Texts \cup {Nothing} :
                 AskWhich(v, c, t) \/ ViewPath(v, c, t)
         \/ /\ answer'.path = "refine"
            /\ \E i \in 1..(WorkingSize + 1), spec \in Specs : RefinePath(i, spec)
         \/ /\ answer'.path = "playbook"
            /\ \E p \in Playbooks, t \in Texts \cup {Nothing} : PlaybookPath(p, t)
         \/ /\ answer'.path = "queues"
            /\ Scan \/ \E v \in Views, given \in GivenPairs, n \in ItemCounts : Detect(v, given, n)
         \/ Store
         \/ answer'.path \in {"agent", "sql", "scan", "detect", "none"}
<1>1. ASSUME NEW v, NEW c, NEW t, AskWhich(v, c, t) \/ ViewPath(v, c, t)
      PROVE  answer'.path = "view"
  <2>1. CASE AskWhich(v, c, t)
    BY <2>1 DEF AskWhich, Said
  <2>2. CASE ViewPath(v, c, t)
    <3>1. ASSUME NEW filter, Ask(v, c, t, filter)
          PROVE  answer'.path = "view"
      BY <3>1 DEF Ask, Said
    <3>2. \/ \E filter : Ask(v, c, t, filter)
          \/ \E o : answer' = [path |-> "view", told |-> "clarification",
                               column |-> c, text |-> t, outcome |-> o]
      BY Zenon, <2>2 DEF ViewPath
    <3> QED
      BY <3>1, <3>2
  <2> QED
    BY <1>1, <2>1, <2>2
<1>2. ASSUME NEW v, NEW c, NEW t, AgentView(v, c, t)
      PROVE  answer'.path = "agent"
  <2>1. \/ answer' = Said("agent")
        \/ \E r : answer' = [path |-> "agent", told |-> "result", result |-> r]
    BY Zenon, <1>2 DEF AgentView
  <2> QED
    BY <2>1 DEF Said
<1>3. ASSUME NEW s1, NEW s2, SqlPath(s1, s2)
      PROVE  answer'.path = "sql"
  <2>1. \/ answer' = Said("sql")
        \/ \E r : answer' = [path |-> "sql", told |-> "result", result |-> r]
    BY Zenon, <1>3 DEF SqlPath
  <2> QED
    BY <2>1 DEF Said
<1>4. ASSUME NEW i, NEW spec, RefinePath(i, spec)
      PROVE  answer'.path = "refine"
  <2>1. \/ answer' = Said("refine")
        \/ \E r : answer' = [path |-> "refine", told |-> "result", result |-> r,
                             source |-> working[i], spec |-> spec]
    BY Zenon, <1>4 DEF RefinePath
  <2> QED
    BY <2>1 DEF Said
<1>5. ASSUME NEW p, NEW t, PlaybookPath(p, t)
      PROVE  answer'.path = "playbook"
  <2>1. \/ answer' = Said("playbook")
        \/ \E entity : RunSteps(p, entity)
    BY <1>5, PlaybookRuns
  <2>2. ASSUME NEW entity, RunSteps(p, entity)
        PROVE  answer'.path = "playbook"
    BY <2>2 DEF RunSteps
  <2> QED
    BY <2>1, <2>2 DEF Said
<1>6. ASSUME Scan
      PROVE  answer'.path \in {"scan", "queues"}
  <2>1. \/ answer' = Said("scan")
        \/ \E r, q, k : answer' = [path |-> "queues", told |-> "result", results |-> r,
                                   queues |-> q, column |-> "amount", skipped |-> k]
    BY Zenon, <1>6 DEF Scan
  <2> QED
    BY <2>1 DEF Said
<1>7. ASSUME NEW v, NEW given, NEW n, Detect(v, given, n)
      PROVE  answer'.path \in {"detect", "queues"}
  <2>1. \/ answer' = Said("detect")
        \/ answer' = [path |-> "detect", told |-> "crash"]
        \/ \E r, q, c : answer' = [path |-> "queues", told |-> "result", results |-> r,
                                   queues |-> q, column |-> c, skipped |-> {}]
    BY Zenon, <1>7 DEF Detect
  <2> QED
    BY <2>1 DEF Said
<1>8. ASSUME (\E new \in Databases \ {db} : Swap(new)) \/ Rediscover
      PROVE  answer'.path = "none"
  BY <1>8 DEF Swap, Rediscover, NoAnswer
<1> QED
  BY Zenon, <1>1, <1>2, <1>3, <1>4, <1>5, <1>6, <1>7, <1>8 DEF Next

-----------------------------------------------------------------------------
(* Refinements *)

\* What RefineSelects says of an answer.
Selected(a) ==
  LET spec == a.spec
      kept == Kept(a.source.rows, spec.filters)
      shown == a.result.rows
  IN /\ ToSet(shown) \subseteq ToSet(kept)
     /\ a.result.count = Len(kept)
     /\ Len(shown) < Len(kept) => a.result.truncated
     /\ spec.sort # Nothing =>
          /\ \A x \in ToSet(kept) \ ToSet(shown), y \in ToSet(shown) : ~Beats(spec, x, y)
          /\ \A i, j \in DOMAIN shown : i < j => ~Beats(spec, shown[j], shown[i])

\* It says it of the answer.
LEMMA SelectedMeans ==
  /\ RefineSelects <=> (answer.path = "refine" /\ answer.told = "result" => Selected(answer))
  /\ RefineSelects' <=> (answer'.path = "refine" /\ answer'.told = "result" => Selected(answer'))
BY Zenon DEF RefineSelects, Answered, Selected, Beats

\* A refinement shows rows of the result it refines that pass its filters, in the
\* order asked for, and leaves out none that goes before one it shows.
LEMMA RefineSelected ==
  ASSUME DataInv, NEW target, NEW spec \in Specs, RefinePath(target, spec)
  PROVE  RefineSelects'
<1>1. CASE answer'.told # "result"
  BY <1>1, SelectedMeans
<1>2. CASE answer'.told = "result"
  <2> DEFINE source == working[target]
             result == Refine(source, spec)
             kept == Kept(source.rows, spec.filters)
             shown == result.rows
  <2>1. /\ Sound(source) /\ ~UnknownColumn(source, spec) /\ spec.limit \in Int \cup {Nothing}
        /\ answer' = [path |-> "refine", told |-> "result", result |-> result,
                      source |-> source, spec |-> spec]
    BY <1>2, RefineMade
  <2> HIDE DEF source
  <2>2. /\ ToSet(shown) \subseteq ToSet(kept)
        /\ result.count = Len(kept)
        /\ Len(shown) < Len(kept) => result.truncated
        /\ spec.sort # Nothing =>
             /\ \A a \in ToSet(kept) \ ToSet(shown), b \in ToSet(shown) : ~Beats(spec, a, b)
             /\ \A i, j \in DOMAIN shown : i < j => ~Beats(spec, shown[j], shown[i])
    BY <2>1, RefineRows
  <2> HIDE DEF result
  <2>3. answer'.spec = spec /\ answer'.source = source /\ answer'.result = result
    BY <2>1
  <2> HIDE DEF kept
  <2> QED
    BY <2>2, <2>3, SelectedMeans DEF Selected, kept
<1> QED
  BY <1>1, <1>2

\* Whatever was refined, in whatever order and however it was cut before: what is
\* shown are the rows asked for, and the cut is said.
THEOREM RefinementsSelect == Spec => []RefineSelects
<1>1. Init => RefineSelects
  BY SelectedMeans DEF Init, NoAnswer
<1>2. ASSUME RefineSelects, DataInv, [Next]_vars
      PROVE  RefineSelects'
  <2>1. CASE UNCHANGED vars \/ Store
    BY <1>2, <2>1, SelectedMeans DEF vars, Store
  <2>2. CASE Next /\ ~Store /\ answer'.path = "refine"
    <3>1. PICK i \in 1..(WorkingSize + 1), spec \in Specs : RefinePath(i, spec)
      BY <2>2, AnswerPaths
    <3> QED
      BY <1>2, <3>1, RefineSelected
  <2>3. CASE answer'.path # "refine"
    BY <2>3, SelectedMeans
  <2> QED
    BY <1>2, <2>1, <2>2, <2>3
<1>3. RefineSelects /\ DataInv /\ [Next]_vars => RefineSelects'
  BY <1>2
<1> QED
  BY <1>1, <1>3, DataIsSound, PTL DEF Spec

-----------------------------------------------------------------------------
(* Resolution *)

\* What a table stores in a column.
StoredIn(table, column) == IF column = "name" THEN Names(table) ELSE Codes(table)

\* A set whose members are numbered has no more members than numbers.
LEMMA NumberedIsFinite ==
  ASSUME NEW L \in Nat, NEW f, 1..L \subseteq DOMAIN f
  PROVE  IsFiniteSet({f[i] : i \in 1..L}) /\ Cardinality({f[i] : i \in 1..L}) <= L
<1> DEFINE T == {f[i] : i \in 1..L}
           g == [i \in 1..L |-> f[i]]
<1>1. g \in Surjection(1..L, T)
  BY DEF Surjection
<1>2. IsFiniteSet(1..L) /\ Cardinality(1..L) = L
  BY CountTo
<1> HIDE DEF g, T
<1>3. IsFiniteSet(T) /\ Cardinality(T) <= Cardinality(1..L)
  BY <1>1, <1>2, FS_Surjection
<1> QED
  BY <1>2, <1>3 DEF T

\* An index has finitely many names and codes.
LEMMA StoredIsFinite ==
  ASSUME NEW table, NEW L \in Nat, DOMAIN table = 1..L
  PROVE  IsFiniteSet(Names(table)) /\ IsFiniteSet(Codes(table))
<1> DEFINE f == [i \in 1..L |-> table[i].name]
           g == [i \in 1..L |-> table[i].code]
<1>1. /\ DOMAIN f = 1..L /\ Names(table) = {f[i] : i \in 1..L}
      /\ DOMAIN g = 1..L /\ Codes(table) = {g[i] : i \in 1..L} \ {Null}
  BY DEF Names, Codes
<1> HIDE DEF f, g
<1>2. IsFiniteSet({f[i] : i \in 1..L}) /\ IsFiniteSet({g[i] : i \in 1..L})
  BY <1>1, NumberedIsFinite
<1>3. Codes(table) \in SUBSET {g[i] : i \in 1..L}
  BY <1>1
<1>4. IsFiniteSet(Codes(table))
  BY <1>2, <1>3, FS_Subset
<1> QED
  BY <1>1, <1>2, <1>4

\* One match is taken, and only then; several are all put to the user.
LEMMA OneOrAskGives ==
  ASSUME NEW names, IsFiniteSet(names), names # {}
  PROVE  LET o == OneOrAsk(names)
         IN \/ o.status = "resolved" /\ names = {o.value}
            \/ o.status = "ambiguous" /\ o.candidates = names /\ Cardinality(names) > 1
<1>1. CASE Cardinality(names) = 1
  <2>1. PICK x : names = {x}
    BY <1>1, FS_Singleton
  <2>2. (CHOOSE n \in names : TRUE) = x
    BY <2>1
  <2> QED
    BY <1>1, <2>1, <2>2 DEF OneOrAsk, Outcome
<1>2. CASE Cardinality(names) # 1
  <2>1. Cardinality(names) \in Nat /\ Cardinality(names) # 0
    BY FS_CardinalityType, FS_EmptySet
  <2> QED
    BY <1>2, <2>1 DEF OneOrAsk, Outcome
<1> QED
  BY <1>1, <1>2

\* What a name or code that was typed is settled as: a stored value, the name that
\* carries the code typed, or the only one that looks the same.
Settles(value, table, column, text) ==
  /\ value \in StoredIn(table, column)
  /\ column = "name" /\ text \notin Names(table) =>
       IF text \in CodeLike /\ Coded(table, text) # {}
         THEN \E i \in Coded(table, text) :
                value = table[i].name /\ \A j \in Coded(table, text) : i <= j
         ELSE NamesByNorm(table, Norm[text]) \subseteq {value}
  /\ column = "code" /\ text \notin Codes(table) => CodesByName(table, Norm[text]) = {value}

\* What resolution of a name or code gives, when there is an index.
ResolveGives(o, table, column, text) ==
  /\ o.status \notin {"ambiguous", "unknown"} => Settles(o.value, table, column, text)
  /\ o.status = "ambiguous" =>
       Cardinality(o.candidates) > 1 /\ o.candidates \subseteq StoredIn(table, column)
  /\ o.status = "unknown" /\ column = "name" =>
       NamesByNorm(table, Norm[text]) \cup NamesByCore(table, Core[text]) = {}

\* Putting several stored values to the user, or taking the only one.
LEMMA OneOrAskStored ==
  ASSUME NEW table, NEW column, NEW text, NEW names \in SUBSET StoredIn(table, column),
         IsFiniteSet(StoredIn(table, column)), names # {},
         column = "name" => /\ ~(text \in CodeLike /\ Coded(table, text) # {})
                            /\ \/ NamesByNorm(table, Norm[text]) = {}
                               \/ names = NamesByNorm(table, Norm[text]),
         column = "code" => names = CodesByName(table, Norm[text])
  PROVE  ResolveGives(OneOrAsk(names), table, column, text)
<1> DEFINE o == OneOrAsk(names)
<1>1. IsFiniteSet(names)
  BY FS_Subset
<1>2. \/ o.status = "resolved" /\ names = {o.value}
      \/ o.status = "ambiguous" /\ o.candidates = names /\ Cardinality(names) > 1
  BY <1>1, OneOrAskGives
<1> HIDE DEF o
<1>3. CASE o.status = "resolved" /\ names = {o.value}
  <2>1. o.value \in StoredIn(table, column)
    BY <1>3
  <2>2. column = "name" => NamesByNorm(table, Norm[text]) \subseteq {o.value}
    BY <1>3
  <2>3. o.status # "ambiguous" /\ o.status # "unknown"
    BY <1>3
  <2>4. column = "code" => CodesByName(table, Norm[text]) = {o.value}
    BY <1>3
  <2>5. Settles(o.value, table, column, text)
    BY <2>1, <2>2, <2>4 DEF Settles
  <2> QED
    BY <2>3, <2>5 DEF ResolveGives, o
<1>4. CASE o.status = "ambiguous" /\ o.candidates = names /\ Cardinality(names) > 1
  <2>1. o.status # "unknown" /\ o.status \in {"ambiguous", "unknown"}
    BY <1>4
  <2> QED
    BY <1>4, <2>1 DEF ResolveGives, o
<1> QED
  BY <1>2, <1>3, <1>4

\* Unknown is only what no stored name has the form of.
LEMMA UnknownGives ==
  ASSUME NEW table, NEW column, NEW text,
         column = "name" => /\ NamesByNorm(table, Norm[text]) = {}
                            /\ NamesByCore(table, Core[text]) = {}
  PROVE  ResolveGives(Outcome("unknown", Nothing, {}), table, column, text)
<1> DEFINE o == Outcome("unknown", Nothing, {})
<1>1. o.status = "unknown"
  BY DEF Outcome
<1> HIDE DEF o
<1>2. o.status \in {"ambiguous", "unknown"} /\ o.status # "ambiguous"
  BY <1>1
<1>3. column = "name" => NamesByNorm(table, Norm[text]) \cup NamesByCore(table, Core[text]) = {}
  OBVIOUS
<1>4. ResolveGives(o, table, column, text)
  BY <1>2, <1>3 DEF ResolveGives
<1> QED
  BY <1>4 DEF o

\* The name found under a code's form is the first of those that carry one alike.
LEMMA NamesByCodeFirst ==
  ASSUME NEW table, NEW L \in Nat, DOMAIN table = 1..L, NEW text
  PROVE  /\ Coded(table, text) = {} => NamesByCode(table, Norm[text]) = {}
         /\ Coded(table, text) # {} =>
              \E i \in Coded(table, text) :
                /\ \A j \in Coded(table, text) : i <= j
                /\ NamesByCode(table, Norm[text]) = {table[i].name}
<1> DEFINE hits == {i \in DOMAIN table : table[i].code # Null /\ Norm[table[i].code] = Norm[text]}
<1>1. Coded(table, text) = hits
  BY DEF Coded
<1>2. CASE hits = {}
  BY <1>1, <1>2 DEF NamesByCode
<1>3. CASE hits # {}
  <2>1. hits \in SUBSET Nat
    OBVIOUS
  <2>2. \E i \in hits : \A j \in hits : i <= j
    <3> HIDE DEF hits
    <3> QED
      BY <1>3, <2>1, Least
  <2> DEFINE least == CHOOSE i \in hits : \A j \in hits : i <= j
  <2>3. least \in hits /\ \A j \in hits : least <= j
    <3> HIDE DEF hits
    <3> QED
      BY <2>2
  <2>4. NamesByCode(table, Norm[text]) = {table[least].name}
    BY <1>3 DEF NamesByCode
  <2> HIDE DEF least, hits
  <2> QED
    BY <1>1, <1>3, <2>3, <2>4
<1> QED
  BY <1>2, <1>3

\* Close names are stored ones.
LEMMA FuzzyStored ==
  ASSUME NEW table, NEW core
  PROVE  Fuzzy(table, core) \subseteq Names(table)
<1> DEFINE near == {n \in Names(table) : /\ <<core, Core[n]>> \in Kin
                                         /\ Ratio[core, Core[n]] >= Threshold}
           leads(n) == \A m \in near \ {n} : Ratio[core, Core[n]] - Ratio[core, Core[m]] > ClearLead
<1>1. Fuzzy(table, core) = IF \E n \in near : leads(n) THEN {CHOOSE n \in near : leads(n)} ELSE near
  BY DEF Fuzzy
<1>2. near \subseteq Names(table)
  OBVIOUS
<1> HIDE DEF near, leads
<1> QED
  BY <1>1, <1>2

\* Resolution tier by tier: what it settles on is stored, none of several, and
\* unknown is only what no stored name has the form of.
LEMMA ResolveStored ==
  ASSUME NEW table, NEW L \in Nat, DOMAIN table = 1..L, table # <<>>,
         NEW column \in Kinds, NEW text
  PROVE  ResolveGives(Resolve(table, column, text), table, column, text)
<1> DEFINE o == Resolve(table, column, text)
           norm == Norm[text]
           core == Core[text]
<1>1. IsFiniteSet(Names(table)) /\ IsFiniteSet(Codes(table))
  BY StoredIsFinite
<1>2. column = "name" \/ column = "code"
  BY DEF Kinds
<1>3. CASE column = "name" /\ text \in Names(table)
  <2>1. o = Outcome("exact", text, {})
    BY <1>3 DEF Resolve, Kinds
  <2> QED
    BY <1>3, <2>1 DEF ResolveGives, Settles, Outcome, StoredIn
<1>4. CASE column = "code" /\ text \in Codes(table)
  <2>1. o = Outcome("exact", text, {})
    BY <1>4 DEF Resolve, Kinds
  <2> QED
    BY <1>4, <2>1 DEF ResolveGives, Settles, Outcome, StoredIn
<1>5. CASE column = "name" /\ text \notin Names(table) /\ text \in CodeLike
             /\ NamesByCode(table, norm) # {}
  <2> DEFINE n == CHOOSE n \in NamesByCode(table, norm) : TRUE
  <2>1. o = Outcome("resolved", n, {})
    BY <1>5 DEF Resolve, Kinds
  <2>2. Coded(table, text) # {}
    BY <1>5, NamesByCodeFirst
  <2>3. PICK i \in Coded(table, text) : /\ \A j \in Coded(table, text) : i <= j
                                        /\ NamesByCode(table, norm) = {table[i].name}
    BY <2>2, NamesByCodeFirst
  <2>4. n = table[i].name /\ n \in Names(table)
    BY <2>3 DEF Names, Coded
  <2> HIDE DEF n
  <2>5. Settles(n, table, column, text)
    BY <1>5, <2>2, <2>3, <2>4 DEF Settles, StoredIn
  <2>6. o.status = "resolved" /\ o.value = n
    BY <2>1 DEF Outcome
  <2> HIDE DEF o
  <2>7. ResolveGives(o, table, column, text)
    BY <2>5, <2>6 DEF ResolveGives
  <2> QED
    BY <2>7 DEF o
<1>6. CASE column = "code" /\ text \notin Codes(table)
  <2>1. o = IF CodesByName(table, norm) = {} THEN Outcome("unknown", Nothing, {})
            ELSE OneOrAsk(CodesByName(table, norm))
    BY <1>6 DEF Resolve, Kinds
  <2>2. CodesByName(table, norm) \subseteq Codes(table)
    BY DEF CodesByName, Codes
  <2>3. CASE CodesByName(table, norm) = {}
    <3>1. ResolveGives(Outcome("unknown", Nothing, {}), table, column, text)
      BY <1>6, UnknownGives
    <3> QED
      BY <2>1, <2>3, <3>1
  <2>4. CASE CodesByName(table, norm) # {}
    <3>1. ResolveGives(OneOrAsk(CodesByName(table, norm)), table, column, text)
      BY <1>1, <1>6, <2>2, <2>4, OneOrAskStored DEF StoredIn
    <3> QED
      BY <2>1, <2>4, <3>1
  <2> QED
    BY <2>3, <2>4
<1>7. CASE /\ column = "name" /\ text \notin Names(table)
           /\ ~(text \in CodeLike /\ NamesByCode(table, norm) # {})
  <2>0. ~(text \in CodeLike /\ Coded(table, text) # {})
    BY <1>7, NamesByCodeFirst
  <2>1. o = IF NamesByNorm(table, norm) # {} THEN OneOrAsk(NamesByNorm(table, norm))
            ELSE IF NamesByCore(table, core) # {} THEN OneOrAsk(NamesByCore(table, core))
            ELSE IF Fuzzy(table, core) = {} THEN Outcome("unknown", Nothing, {})
            ELSE OneOrAsk(Fuzzy(table, core))
    BY <1>7 DEF Resolve, Kinds
  <2>2. /\ NamesByNorm(table, norm) \subseteq Names(table)
        /\ NamesByCore(table, core) \subseteq Names(table)
        /\ Fuzzy(table, core) \subseteq Names(table)
    BY FuzzyStored DEF NamesByNorm, NamesByCore
  <2>3. CASE NamesByNorm(table, norm) # {}
    <3>1. ResolveGives(OneOrAsk(NamesByNorm(table, norm)), table, column, text)
      BY <1>1, <1>7, <2>0, <2>2, <2>3, OneOrAskStored DEF StoredIn
    <3> QED
      BY <2>1, <2>3, <3>1
  <2>4. CASE NamesByNorm(table, norm) = {} /\ NamesByCore(table, core) # {}
    <3>1. ResolveGives(OneOrAsk(NamesByCore(table, core)), table, column, text)
      BY <1>1, <1>7, <2>0, <2>2, <2>4, OneOrAskStored DEF StoredIn
    <3> QED
      BY <2>1, <2>4, <3>1
  <2>5. CASE /\ NamesByNorm(table, norm) = {} /\ NamesByCore(table, core) = {}
             /\ Fuzzy(table, core) # {}
    <3>1. ResolveGives(OneOrAsk(Fuzzy(table, core)), table, column, text)
      BY <1>1, <1>7, <2>0, <2>2, <2>5, OneOrAskStored DEF StoredIn
    <3> QED
      BY <2>1, <2>5, <3>1
  <2>6. CASE /\ NamesByNorm(table, norm) = {} /\ NamesByCore(table, core) = {}
             /\ Fuzzy(table, core) = {}
    <3>1. ResolveGives(Outcome("unknown", Nothing, {}), table, column, text)
      BY <2>6, UnknownGives
    <3> QED
      BY <2>1, <2>6, <3>1
  <2> QED
    BY <2>3, <2>4, <2>5, <2>6
<1> QED
  BY <1>2, <1>3, <1>4, <1>5, <1>6, <1>7

\* Without an index the text is taken as it is.
LEMMA ResolveWithout ==
  ASSUME NEW table, table = <<>>, NEW column, NEW text
  PROVE  Resolve(table, column, text) = Outcome("no_index", text, {})
<1>1. DOMAIN table = {}
  OBVIOUS
<1>2. Names(table) = {} /\ Codes(table) = {}
  BY <1>1 DEF Names, Codes
<1>3. NamesByCode(table, Norm[text]) = {}
  BY <1>1 DEF NamesByCode
<1> QED
  BY <1>2, <1>3 DEF Resolve

-----------------------------------------------------------------------------
(* Playbooks are accounted for *)

\* What PlaybookIsAccounted says of a run.
Accounted(run, playbook, names, entity, told) ==
  LET steps == playbook.steps
      with(statuses) == {i \in DOMAIN steps : run.statuses[i] \in statuses}
  IN /\ Len(run.statuses) = Len(steps)
     /\ Len(run.sections) = Cardinality(with({"ok", "empty"}))
     /\ with({"missing"}) = {i \in DOMAIN steps : steps[i].view \notin names}
     /\ Skipped(run) = Cardinality(with({"missing"}))
     /\ with({"ok"}) = {} <=> run.primary = Nothing
     /\ told = "result" =>
          LET i == CHOOSE i \in with({"ok"}) : \A j \in with({"ok"}) : i <= j
          IN /\ run.primary.view = steps[i].view
             /\ steps[i].column # Nothing /\ entity # Nothing =>
                  \A r \in DOMAIN run.primary.rows :
                    run.primary.rows[r][steps[i].column] = entity

\* It says it of the run a playbook's answer carries.
LEMMA AccountedMeans ==
  /\ PlaybookIsAccounted <=>
       (answer.path = "playbook" /\ answer.told # "message" =>
          Accounted(answer.run, answer.playbook, DOMAIN known, answer.entity, answer.told))
  /\ PlaybookIsAccounted' <=>
       (answer'.path = "playbook" /\ answer'.told # "message" =>
          Accounted(answer'.run, answer'.playbook, DOMAIN known', answer'.entity, answer'.told))
BY Zenon DEF PlaybookIsAccounted, Accounted

\* Every run of a playbook is accounted for.
LEMMA RunIsAccounted ==
  ASSUME NEW playbook \in Playbooks, NEW objects \in Databases, NEW names,
         NEW entity \in Cell \cup Texts \cup {Nothing}, NEW run,
         RunGives(run, objects, names, playbook, entity),
         NEW told, told = "result" => AnyData(run)
  PROVE  Accounted(run, playbook, names, entity, told)
<1> DEFINE steps == playbook.steps
           n == Len(steps)
           ok == {i \in 1..n : run.statuses[i] = "ok"}
<1>1. /\ DOMAIN steps = 1..n /\ n \in Nat
      /\ \A i \in 1..n : steps[i].column \in STRING \cup {Nothing}
  BY DataAssumption
<1>2. /\ Len(run.statuses) = n /\ DOMAIN run.statuses = 1..n
      /\ \A i \in 1..n : run.statuses[i] = Status(objects, names, steps[i], entity)
  BY DEF RunGives
<1>3. Len(run.sections) = Cardinality({i \in DOMAIN steps : run.statuses[i] \in {"ok", "empty"}})
  BY <1>1 DEF RunGives
<1>4. \A i \in 1..n : run.statuses[i] = "missing" <=> steps[i].view \notin names
  BY <1>2 DEF Status
<1>5. /\ {i \in DOMAIN steps : run.statuses[i] \in {"missing"}} =
           {i \in DOMAIN steps : steps[i].view \notin names}
      /\ {i \in DOMAIN steps : run.statuses[i] \in {"missing"}} =
           {i \in DOMAIN run.statuses : run.statuses[i] = "missing"}
  BY <1>1, <1>2, <1>4
<1>6. {i \in DOMAIN steps : run.statuses[i] \in {"ok"}} = ok
  BY <1>1
<1>7. \/ run.primary = Nothing /\ ok = {}
      \/ \E i \in ok : (\A j \in ok : i <= j) /\ run.primary = StepRun(objects, steps[i], entity)
  <2>1. CASE run.primary = Nothing /\ \A i \in 1..n : run.statuses[i] # "ok"
    BY <2>1
  <2>2. ASSUME NEW i \in 1..n, run.statuses[i] = "ok",
               \A j \in 1..(i - 1) : run.statuses[j] # "ok",
               run.primary = StepRun(objects, steps[i], entity)
        PROVE  <1>7!2
    <3>1. \A j \in ok : i <= j
      BY <1>1, <2>2
    <3>2. i \in ok
      BY <2>2
    <3> QED
      BY <2>2, <3>1, <3>2
  <2> QED
    BY <2>1, <2>2 DEF RunGives
<1>8. ASSUME NEW i \in ok, \A j \in ok : i <= j, run.primary = StepRun(objects, steps[i], entity)
      PROVE  /\ run.primary # Nothing
             /\ i = CHOOSE k \in ok : \A j \in ok : k <= j
             /\ run.primary.view = steps[i].view
             /\ steps[i].column # Nothing /\ entity # Nothing =>
                  \A r \in DOMAIN run.primary.rows :
                    run.primary.rows[r][steps[i].column] = entity
  <2>1. i \in 1..n /\ Status(objects, names, steps[i], entity) = "ok"
    BY <1>2
  <2>2. ASSUME steps[i].column # Nothing, entity # Nothing
        PROVE  [column |-> steps[i].column, value |-> entity] # NoFilter
    <3>1. steps[i].column \in STRING /\ entity \in Int \cup {Null} \cup Texts
      BY <1>1, <2>1, <2>2 DEF Cell
    <3> DEFINE f == [column |-> steps[i].column, value |-> entity]
    <3>2. f \in [column : STRING, value : Int \cup {Null} \cup Texts]
      BY <3>1
    <3> HIDE DEF f
    <3> QED
      BY <3>2, DataAssumption DEF f
  <2> DEFINE s == steps[i]
  <2> HIDE DEF s
  <2>3. /\ StepRun(objects, s, entity) # Nothing /\ StepRun(objects, s, entity).view = s.view
        /\ /\ s.column # Nothing /\ entity # Nothing
           /\ [column |-> s.column, value |-> entity] # NoFilter
           => \A r \in DOMAIN StepRun(objects, s, entity).rows :
                StepRun(objects, s, entity).rows[r][s.column] = entity
    BY <2>1, StepGives DEF s
  <2>4. i = CHOOSE k \in ok : \A j \in ok : k <= j
    <3>1. \A k \in ok : (\A j \in ok : k <= j) => k = i
      BY <1>1, <1>8
    <3> HIDE DEF ok
    <3> QED
      BY <1>8, <3>1
  <2> QED
    BY <1>8, <2>2, <2>3, <2>4 DEF s
<1> DEFINE least == CHOOSE i \in ok : \A j \in ok : i <= j
<1> HIDE DEF ok
<1>9. ok = {} <=> run.primary = Nothing
  BY <1>7, <1>8
<1>10. ASSUME told = "result"
       PROVE  /\ run.primary.view = steps[least].view
              /\ steps[least].column # Nothing /\ entity # Nothing =>
                   \A r \in DOMAIN run.primary.rows :
                     run.primary.rows[r][steps[least].column] = entity
  <2>1. ok # {}
    BY <1>2, <1>10 DEF AnyData, ok
  <2>2. PICK i \in ok : (\A j \in ok : i <= j) /\ run.primary = StepRun(objects, steps[i], entity)
    BY <1>7, <2>1
  <2>3. least = i
    BY <1>8, <2>2
  <2> HIDE DEF least
  <2> QED
    BY <1>8, <2>2, <2>3
<1> HIDE DEF least
<1> QED
  BY <1>2, <1>3, <1>5, <1>6, <1>9, <1>10 DEF Accounted, Skipped, least

\* The names of the entity's table are cells of rows.
LEMMA NamesAreCells ==
  ASSUME NEW objects \in Databases, EntityTable(objects, Order) # <<>>
  PROVE  Names(EntityTable(objects, Order)) \subseteq Cell
<1> DEFINE table == EntityTable(objects, Order)
           o == SourceOf(objects, Order)
<1>1. IndexOf(table, objects)
  BY TableIsIndex
<1> HIDE DEF table
<1>2. o \in DOMAIN objects /\ "name" \in objects[o].columns
  BY <1>1 DEF IndexOf, table
<1>3. objects[o].rows \in Seq([objects[o].columns -> Cell])
  BY <1>2, ObjectRows DEF RowsOf
<1>4. ASSUME NEW i \in DOMAIN table
      PROVE  table[i].name \in Cell
  <2>1. PICK j \in 1..Len(objects[o].rows) : table[i].name = objects[o].rows[j]["name"]
    BY <1>1, <1>4 DEF IndexOf, table
  <2> HIDE DEF o
  <2>2. objects[o].rows[j] \in [objects[o].columns -> Cell]
    BY <1>3
  <2> QED
    BY <1>2, <2>1, <2>2
<1> QED
  BY <1>4 DEF Names, table

\* The entity of a run is what the user typed or a stored name.
LEMMA PlaybookEntity ==
  ASSUME DataInv, NEW playbook, NEW text \in Texts \cup {Nothing}, PlaybookPath(playbook, text)
  PROVE  \/ answer' = Said("playbook")
         \/ \E entity \in Cell \cup Texts \cup {Nothing} : RunSteps(playbook, entity)
<1> DEFINE outcome == Resolve(Table, "name", text)
<1>1. \/ answer' = Said("playbook")
      \/ RunSteps(playbook, text)
      \/ /\ outcome.status \notin {"ambiguous", "unknown"}
         /\ RunSteps(playbook, outcome.value)
  BY Zenon DEF PlaybookPath
<1>2. ASSUME outcome.status \notin {"ambiguous", "unknown"}
      PROVE  outcome.value \in Cell \cup Texts \cup {Nothing}
  <2>1. CASE Table = <<>>
    <3>1. outcome = Outcome("no_index", text, {})
      BY <2>1, ResolveWithout
    <3> QED
      BY <3>1 DEF Outcome
  <2>2. CASE Table # <<>>
    <3>1. known \in Databases
      BY DEF DataInv
    <3>2. PICK L \in Nat : DOMAIN Table = 1..L
      BY <3>1, TableIsIndex DEF Table, IndexOf
    <3>3. ResolveGives(outcome, Table, "name", text)
      BY <2>2, <3>2, ResolveStored DEF Kinds
    <3>4. outcome.value \in Names(Table)
      BY <1>2, <3>3 DEF ResolveGives, Settles, StoredIn
    <3> QED
      BY <2>2, <3>1, <3>4, NamesAreCells DEF Table
  <2> QED
    BY <2>1, <2>2
<1> QED
  BY <1>1, <1>2

\* The playbook path accounts for its run.
LEMMA PlaybookCounted ==
  ASSUME DataInv, NEW playbook \in Playbooks, NEW text \in Texts \cup {Nothing},
         PlaybookPath(playbook, text)
  PROVE  PlaybookIsAccounted'
<1>1. CASE answer' = Said("playbook")
  BY <1>1, AccountedMeans DEF Said
<1>2. ASSUME NEW entity \in Cell \cup Texts \cup {Nothing}, RunSteps(playbook, entity)
      PROVE  PlaybookIsAccounted'
  <2> DEFINE run == RunPlaybook(playbook, db, DOMAIN known, entity)
             told == IF AnyData(run) THEN "result" ELSE "nothing"
  <2>1. answer' = [path |-> "playbook", told |-> told, playbook |-> playbook, entity |-> entity,
                   run |-> run]
    BY <1>2 DEF RunSteps
  <2>2. RunGives(run, db, DOMAIN known, playbook, entity)
    BY PlaybookGives DEF DataInv
  <2>3. told = "result" => AnyData(run)
    OBVIOUS
  <2>4. known' = known
    BY PlaybookRuns
  <2>5. db \in Databases
    BY DEF DataInv
  <2> HIDE DEF run, told
  <2>6. Accounted(run, playbook, DOMAIN known, entity, told)
    BY <2>2, <2>3, <2>5, RunIsAccounted
  <2>7. /\ answer'.run = run /\ answer'.playbook = playbook /\ answer'.entity = entity
        /\ answer'.told = told
    BY <2>1
  <2> QED
    BY <2>4, <2>6, <2>7, AccountedMeans
<1> QED
  BY <1>1, <1>2, PlaybookEntity

\* Whatever file a playbook's steps find, every step has its status, the counts the
\* answer's prompt is given are those of the statuses, and the rows charted are the
\* first step's that has any, and the entity's if the step takes it.
THEOREM PlaybooksAccounted == Spec => []PlaybookIsAccounted
<1>1. Init => PlaybookIsAccounted
  BY AccountedMeans DEF Init, NoAnswer
<1>2. ASSUME PlaybookIsAccounted, DataInv, [Next]_vars
      PROVE  PlaybookIsAccounted'
  <2>1. CASE UNCHANGED vars \/ Store
    BY <1>2, <2>1, AccountedMeans DEF vars, Store
  <2>2. CASE Next /\ ~Store /\ answer'.path = "playbook"
    <3>1. PICK p \in Playbooks, t \in Texts \cup {Nothing} : PlaybookPath(p, t)
      BY <2>2, AnswerPaths
    <3> QED
      BY <1>2, <3>1, PlaybookCounted
  <2>3. CASE answer'.path # "playbook"
    BY <2>3, AccountedMeans
  <2> QED
    BY <1>2, <2>1, <2>2, <2>3
<1>3. PlaybookIsAccounted /\ DataInv /\ [Next]_vars => PlaybookIsAccounted'
  BY <1>2
<1> QED
  BY <1>1, <1>3, DataIsSound, PTL DEF Spec

-----------------------------------------------------------------------------
(* What was typed is understood *)

\* What FiltersAreUnderstood says of an answer of the view path.
Understood(a, table, discovered) ==
  /\ a.told = "result" /\ a.filter # NoFilter =>
       /\ Settles(a.filter.value, table, a.column, a.text)
       /\ discovered = a.file /\ a.result.view = SourceOf(discovered, Order) =>
            a.result.rows # <<>>
  /\ a.told = "clarification" /\ a.outcome.status = "ambiguous" =>
       /\ Cardinality(a.outcome.candidates) > 1
       /\ a.outcome.candidates \subseteq StoredIn(table, a.column)
  /\ a.told = "clarification" /\ a.outcome.status = "unknown" /\ a.column = "name" =>
       NamesByNorm(table, Norm[a.text]) \cup NamesByCore(table, Core[a.text]) = {}

\* It says it of the answer, under the table of the names discovery found.
LEMMA UnderstoodMeans ==
  /\ FiltersAreUnderstood <=>
       (/\ answer.path = "view" /\ answer.told \in {"result", "clarification"}
        /\ EntityTable(known, Order) # <<>>
        => Understood(answer, EntityTable(known, Order), known))
  /\ FiltersAreUnderstood' <=>
       (/\ answer'.path = "view" /\ answer'.told \in {"result", "clarification"}
        /\ EntityTable(known', Order) # <<>>
        => Understood(answer', EntityTable(known', Order), known'))
BY SMTT(30) DEF FiltersAreUnderstood, Understood, Settles, Stored, StoredIn, Table

\* A stored value finds rows in the object it was read from.
LEMMA StoredIsFound ==
  ASSUME NEW objects \in Databases, EntityTable(objects, Order) # <<>>,
         NEW column \in Kinds,
         column \in objects[SourceOf(objects, Order)].columns,
         NEW value \in StoredIn(EntityTable(objects, Order), column),
         NEW limit \in Nat \cup {Nothing}
  PROVE  LET o == SourceOf(objects, Order)
         IN RunView(o, objects[o], [column |-> column, value |-> value], limit).rows # <<>>
<1> DEFINE table == EntityTable(objects, Order)
           o == SourceOf(objects, Order)
           filter == [column |-> column, value |-> value]
<1>1. IndexOf(table, objects)
  BY TableIsIndex
<1> HIDE DEF table
<1>2. /\ o \in DOMAIN objects /\ "name" \in objects[o].columns
      /\ \A i \in DOMAIN table : \E j \in 1..Len(objects[o].rows) :
           LET r == objects[o].rows[j]
           IN /\ table[i].name = r["name"] /\ r["name"] # Null
              /\ table[i].code = IF "code" \in objects[o].columns THEN r["code"] ELSE r["name"]
  BY <1>1 DEF IndexOf, table
<1>3. objects[o].rows \in RowsOf(objects[o].columns)
  BY <1>2, ObjectRows
<1> HIDE DEF o
<1>4. \E j \in 1..Len(objects[o].rows) : objects[o].rows[j][column] = value
  <2>1. CASE column = "name"
    <3>1. PICK i \in DOMAIN table : table[i].name = value
      BY <2>1 DEF StoredIn, Names, table
    <3>2. PICK j \in 1..Len(objects[o].rows) : table[i].name = objects[o].rows[j]["name"]
      BY <1>2
    <3> QED
      BY <2>1, <3>1, <3>2
  <2>2. CASE column = "code"
    <3>1. PICK i \in DOMAIN table : table[i].code = value
      BY <2>2 DEF StoredIn, Codes, table
    <3>2. "code" \in objects[o].columns
      BY <2>2 DEF o
    <3>3. PICK j \in 1..Len(objects[o].rows) : table[i].code = objects[o].rows[j]["code"]
      BY <1>2, <3>2
    <3> QED
      BY <2>2, <3>1, <3>3
  <2> QED
    BY <2>1, <2>2 DEF Kinds
<1>5. filter.column = column /\ filter.value = value
  OBVIOUS
<1> HIDE DEF filter
<1>6. Matching(objects[o], filter) # <<>>
  <2>1. filter.column \in objects[o].columns
    BY <1>5 DEF o
  <2> QED
    BY <1>3, <1>4, <1>5, <2>1, MatchingRows
<1>7. RunView(o, objects[o], filter, limit).rows # <<>>
  BY <1>3, <1>6, RunViewRows
<1> QED
  BY <1>7 DEF filter, o

\* What a view that was asked has given is its result for the file it names.
LEMMA AskedIsOfView ==
  ASSUME DataInv, NEW view, NEW column, NEW text, NEW filter,
         Ask(view, column, text, filter), answer'.told = "result"
  PROVE  /\ \E limit \in {Nothing, AgentRows} :
              answer'.result = RunView(view, answer'.file[view], filter, limit)
         /\ answer' = [path |-> "view", told |-> "result", result |-> answer'.result,
                       file |-> answer'.file, column |-> column, text |-> text,
                       filter |-> filter]
<1> DEFINE key == ViewKey(view, filter)
           entry == Cached(key, RunView(view, db[view], filter, Nothing))
<1>1. ~Fails(key, view)
  BY DEF Ask, Said
<1>2. /\ answer' = [path |-> "view", told |-> "result", result |-> entry.result,
                    file |-> entry.file, column |-> column, text |-> text, filter |-> filter]
      /\ Keep(key, entry)
  BY <1>1 DEF Ask
<1>3. key[1] = "view" /\ key[2] = view /\ key[3] = filter
  BY DEF ViewKey
<1>4. OfView(entry, key)
  BY <1>1, <1>2, AskedIsSound
<1> HIDE DEF entry, key
<1>5. \E limit \in {Nothing, AgentRows} :
        entry.result = RunView(view, entry.file[view], filter, limit)
  BY <1>3, <1>4 DEF OfView
<1>6. answer'.result = entry.result /\ answer'.file = entry.file
  BY <1>2
<1> QED
  BY <1>2, <1>5, <1>6

\* The view path understands what was typed, or asks.
LEMMA ViewUnderstands ==
  ASSUME DataInv, NEW view, NEW column \in Kinds, NEW text,
         AskWhich(view, column, text) \/ ViewPath(view, column, text)
  PROVE  FiltersAreUnderstood'
<1> DEFINE table == EntityTable(known, Order)
           outcome == Resolve(table, column, text)
           filter == [column |-> column, value |-> outcome.value]
<1>1. known' = known /\ view \in DOMAIN known
  BY Zenon DEF AskWhich, ViewPath
<1>2. \/ answer' = Said("view")
      \/ Ask(view, column, text, NoFilter)
      \/ /\ column \in known[view].columns
         /\ outcome.status \in {"ambiguous", "unknown"}
         /\ answer' = [path |-> "view", told |-> "clarification",
                       column |-> column, text |-> text, outcome |-> outcome]
      \/ /\ column \in known[view].columns
         /\ outcome.status \notin {"ambiguous", "unknown"}
         /\ Ask(view, column, text, filter)
  BY Zenon DEF AskWhich, ViewPath, Given, Table
<1>3. known \in Databases
  BY DEF DataInv
<1> SUFFICES ASSUME answer'.told \in {"result", "clarification"}, table # <<>>
             PROVE  Understood(answer', table, known)
  BY <1>1, UnderstoodMeans
<1>4. ResolveGives(outcome, table, column, text)
  <2>1. PICK L \in Nat : DOMAIN table = 1..L
    BY <1>3, TableIsIndex DEF IndexOf
  <2> HIDE DEF table
  <2> QED
    BY <2>1, ResolveStored
<1> HIDE DEF outcome
<1>5. CASE answer' = Said("view")
  BY <1>5 DEF Said
<1>6. ASSUME NEW f, Ask(view, column, text, f)
      PROVE  answer'.told = "result"
  <2>1. CASE Fails(ViewKey(view, f), view)
    BY <1>6, <2>1 DEF Ask, Said
  <2>2. CASE ~Fails(ViewKey(view, f), view)
    BY <1>6, <2>2 DEF Ask
  <2> QED
    BY <2>1, <2>2
<1>7. CASE Ask(view, column, text, NoFilter)
  <2>1. answer'.told = "result" /\ answer'.filter = NoFilter
    BY <1>6, <1>7, AskedIsOfView
  <2> QED
    BY <2>1 DEF Understood
<1>8. CASE /\ outcome.status \in {"ambiguous", "unknown"}
           /\ answer' = [path |-> "view", told |-> "clarification",
                         column |-> column, text |-> text, outcome |-> outcome]
  <2>1. /\ answer'.told = "clarification" /\ answer'.column = column /\ answer'.text = text
        /\ answer'.outcome = outcome
    BY <1>8
  <2>2. answer'.told # "result"
    BY <2>1
  <2> HIDE DEF table
  <2> QED
    BY <1>4, <2>1, <2>2 DEF Understood, ResolveGives
<1>9. CASE /\ column \in known[view].columns
           /\ outcome.status \notin {"ambiguous", "unknown"}
           /\ Ask(view, column, text, filter)
  <2>1. answer'.told = "result"
    BY <1>6, <1>9
  <2>2. PICK limit \in {Nothing, AgentRows} :
          answer'.result = RunView(view, answer'.file[view], filter, limit)
    BY <1>9, <2>1, AskedIsOfView
  <2>3. answer'.column = column /\ answer'.text = text /\ answer'.filter = filter
    <3>1. answer' = [path |-> "view", told |-> "result", result |-> answer'.result,
                     file |-> answer'.file, column |-> column, text |-> text,
                     filter |-> filter]
      BY <1>9, <2>1, AskedIsOfView
    <3> HIDE DEF filter
    <3> QED
      BY <3>1
  <2>4. answer'.filter.value = outcome.value
    BY <2>3
  <2>5. outcome.value \in StoredIn(table, column) /\ Settles(outcome.value, table, column, text)
    BY <1>4, <1>9 DEF ResolveGives, Settles
  <2>6. ASSUME known = answer'.file, answer'.result.view = SourceOf(known, Order)
        PROVE  answer'.result.rows # <<>>
    <3>1. limit \in Nat \cup {Nothing}
      BY Limits
    <3>2. known[view].rows \in RowsOf(known[view].columns)
      BY <1>1, <1>3, <2>6, ObjectRows
    <3> HIDE DEF filter
    <3>3. answer'.result.view = view
      <4> DEFINE object == known[view]
                 r == RunView(view, object, filter, limit)
      <4>1. r.view = view
        <5>1. object.rows \in RowsOf(object.columns)
          BY <3>2
        <5> HIDE DEF object
        <5> QED
          BY <3>1, <5>1, RunViewRows
      <4>2. answer'.result = RunView(view, known[view], filter, limit)
        BY <2>2, <2>6
      <4> QED
        BY <4>1, <4>2
    <3> USE DEF filter
    <3>4. view = SourceOf(known, Order)
      BY <2>6, <3>3
    <3>5. RunView(view, known[view], filter, limit).rows # <<>>
      BY <1>3, <1>9, <2>5, <3>1, <3>4, StoredIsFound
    <3> QED
      BY <2>2, <2>6, <3>5
  <2>7. answer'.told # "clarification"
    BY <2>1
  <2> HIDE DEF table, filter
  <2> QED
    BY <2>1, <2>3, <2>4, <2>5, <2>6, <2>7 DEF Understood
<1> QED
  BY <1>2, <1>5, <1>7, <1>8, <1>9

\* Whatever name or code a user types, a query is run only with a stored one; of
\* several names that look the same none is picked, but of those that carry a typed
\* code the first is; what is asked back is a real choice; and in rows of the file the
\* index was built from the value is found where it was read.
THEOREM FiltersUnderstood == Spec => []FiltersAreUnderstood
<1>1. Init => FiltersAreUnderstood
  BY UnderstoodMeans DEF Init, NoAnswer
<1>2. ASSUME FiltersAreUnderstood, DataInv, [Next]_vars
      PROVE  FiltersAreUnderstood'
  <2>1. CASE UNCHANGED vars \/ Store
    BY <1>2, <2>1, UnderstoodMeans DEF vars, Store
  <2>2. CASE Next /\ ~Store /\ answer'.path = "view"
    <3>1. PICK v \in Views, c \in Kinds, t \in Texts \cup {Nothing} :
            AskWhich(v, c, t) \/ ViewPath(v, c, t)
      BY <2>2, AnswerPaths
    <3> QED
      BY <1>2, <3>1, ViewUnderstands
  <2>3. CASE answer'.path # "view"
    BY <2>3, UnderstoodMeans
  <2> QED
    BY <1>2, <2>1, <2>2, <2>3
<1>3. FiltersAreUnderstood /\ DataInv /\ [Next]_vars => FiltersAreUnderstood'
  BY <1>2
<1> QED
  BY <1>1, <1>3, DataIsSound, PTL DEF Spec

-----------------------------------------------------------------------------
(* Attention queues *)

\* The fold over the places of rows is their sum, whichever place it takes first.
LEMMA FoldSums ==
  ASSUME NEW n \in Nat, NEW v \in [1..n -> Int], NEW rows, NEW column,
         DOMAIN rows = 1..n, \A i \in 1..n : rows[i][column] = v[i]
  PROVE  SumOf(rows, column) = SumOver(v, n, 1..n)
<1> DEFINE D == DOMAIN rows
           first(s) == CHOOSE x \in s : TRUE
           Fold(h) == [s \in SUBSET D |->
                         IF s = {} THEN 0 ELSE rows[first(s)][column] + h[s \ {first(s)}]]
           iter == CHOOSE h : h = Fold(h)
           g == [s \in SUBSET D |-> SumOver(v, n, s)]
<1>1. SumOf(rows, column) = iter[D]
  BY Zenon DEF SumOf, FoldSet, MapThenFoldSet
<1>2. \A h : Fold(h) = [s \in SUBSET D |->
                          IF s = {} THEN 0 ELSE rows[first(s)][column] + h[s \ {first(s)}]]
  OBVIOUS
<1>3. \A s \in SUBSET D : s # {} => first(s) \in s /\ s \ {first(s)} \in SUBSET D
  OBVIOUS
<1> HIDE DEF first
<1>4. \A s \in SUBSET D : g[s] = SumOver(v, n, s)
  OBVIOUS
<1>5. ASSUME NEW s \in SUBSET D
      PROVE  g[s] = IF s = {} THEN 0 ELSE rows[first(s)][column] + g[s \ {first(s)}]
  <2>1. CASE s = {}
    BY <1>4, <2>1, SumOverNone
  <2>2. CASE s # {}
    <3> DEFINE x == first(s)
    <3>1. x \in s /\ x \in 1..n /\ s \ {x} \in SUBSET D
      BY <1>3, <2>2
    <3> HIDE DEF x
    <3>2. SumOver(v, n, s) = v[x] + SumOver(v, n, s \ {x})
      <4>1. AddsLast(v, n, s, x)
        BY <3>1, SumOverOne
      <4> QED
        BY <4>1 DEF AddsLast
    <3>3. rows[x][column] = v[x]
      BY <3>1
    <3>4. g[s] = SumOver(v, n, s) /\ g[s \ {x}] = SumOver(v, n, s \ {x})
      BY <1>4, <3>1
    <3> HIDE DEF g
    <3> QED
      BY <2>2, <3>2, <3>3, <3>4 DEF x
  <2> QED
    BY <2>1, <2>2
<1>6. g = Fold(g)
  <2>1. g = [s \in SUBSET D |-> g[s]]
    OBVIOUS
  <2> HIDE DEF g
  <2> QED
    BY <1>2, <1>5, <2>1
<1> HIDE DEF g
<1>7. iter = Fold(iter)
  <2> HIDE DEF Fold
  <2> QED
    BY <1>6
<1> HIDE DEF iter
<1>8. \A s \in SUBSET D :
        iter[s] = IF s = {} THEN 0 ELSE rows[first(s)][column] + iter[s \ {first(s)}]
  BY <1>2, <1>7
<1>9. IsFiniteSet(D) /\ Cardinality(D) = n
  BY CountTo
<1> DEFINE Same(m) == \A s \in SUBSET D : Cardinality(s) = m => iter[s] = g[s]
           T == {m \in 0..n : Same(m)}
<1> HIDE DEF Fold
<1>10. Same(0)
  <2>1. ASSUME NEW s \in SUBSET D, Cardinality(s) = 0
        PROVE  s = {}
    <3>1. IsFiniteSet(s)
      BY <1>9, FS_Subset
    <3> QED
      BY <2>1, <3>1, FS_EmptySet
  <2> QED
    BY <1>5, <1>8, <2>1
<1>11. ASSUME NEW m \in 1..n, Same(m - 1)
       PROVE  Same(m)
  <2>1. ASSUME NEW s \in SUBSET D, Cardinality(s) = m
        PROVE  iter[s] = g[s]
    <3> DEFINE x == first(s)
               less == s \ {x}
    <3>1. IsFiniteSet(s) /\ s # {}
      <4>1. IsFiniteSet(s)
        BY <1>9, FS_Subset
      <4>2. Cardinality(s) # 0
        BY <2>1
      <4> QED
        BY <4>1, <4>2, FS_EmptySet
    <3>2. x \in s /\ less \in SUBSET D
      BY <1>3, <3>1
    <3>3. Cardinality(less) = m - 1
      BY <2>1, <3>1, <3>2, FS_RemoveElement
    <3> HIDE DEF less
    <3>4. iter[less] = g[less]
      BY <1>11, <3>2, <3>3
    <3>5. /\ iter[s] = rows[x][column] + iter[less]
          /\ g[s] = rows[x][column] + g[less]
      BY <1>5, <1>8, <3>1 DEF less
    <3> QED
      BY <3>4, <3>5
  <2> QED
    BY <2>1
<1>12. 0 \in T /\ \A m \in 1..n : m - 1 \in T => m \in T
  <2> HIDE DEF Same
  <2> QED
    BY <1>10, <1>11
<1> HIDE DEF T
<1>13. \A m \in 0..n : m \in T
  BY <1>12, UpTo
<1>14. iter[D] = g[D]
  <2>1. n \in T /\ D \in SUBSET D
    BY <1>13
  <2> QED
    BY <1>9, <2>1 DEF T
<1> HIDE DEF D
<1>15. SumOf(rows, column) = SumOver(v, n, D)
  BY <1>1, <1>4, <1>14
<1> QED
  BY <1>15 DEF D

\* The total of rows in another order is the sum over the rows as they are.
LEMMA TotalSums ==
  ASSUME NEW n \in Nat, NEW v \in [1..n -> Int], NEW rows, NEW column,
         \A i \in 1..n : rows[i][column] = v[i],
         NEW a, Len(a) = n, Len(rows) = n, NEW p, Matches(p, a, rows)
  PROVE  Total(a, column) = SumOver(v, n, 1..n)
<1> DEFINE Up(h) == [m \in 0..Len(a) |-> IF m = 0 THEN 0 ELSE h[m - 1] + a[m][column]]
           run == CHOOSE h : h = Up(h)
           taken(m) == {p[i] : i \in 1..m}
           g == [m \in 0..n |-> SumOver(v, n, taken(m))]
<1>1. Total(a, column) = run[Len(a)]
  BY DEF Total
<1>2. \A h : Up(h) = [m \in 0..n |-> IF m = 0 THEN 0 ELSE h[m - 1] + a[m][column]]
  OBVIOUS
<1> HIDE DEF Up
<1>3. /\ p \in [1..n -> 1..n]
      /\ \A i, j \in 1..n : p[i] = p[j] => i = j
      /\ \A j \in 1..n : \E i \in 1..n : p[i] = j
      /\ \A i \in 1..n : a[i] = rows[p[i]]
  BY DEF Matches
<1>4. taken(0) = {} /\ taken(n) = 1..n
  BY <1>3
<1>5. ASSUME NEW m \in 1..n
      PROVE  SumOver(v, n, taken(m)) = SumOver(v, n, taken(m - 1)) + a[m][column]
  <2>1. p[m] \in 1..n /\ p[m] \in taken(m)
    BY <1>3
  <2>2. taken(m) \ {p[m]} = taken(m - 1)
    <3>1. \A i \in 1..m : i = m \/ i \in 1..(m - 1)
      OBVIOUS
    <3>2. \A i \in 1..(m - 1) : i \in 1..m /\ p[i] # p[m]
      <4>1. \A i \in 1..(m - 1) : i \in 1..n /\ i # m
        OBVIOUS
      <4> QED
        BY <1>3, <4>1
    <3> QED
      BY <3>1, <3>2
  <2> HIDE DEF taken
  <2>3. /\ SumOver(v, n, taken(m)) \in Int
        /\ SumOver(v, n, taken(m)) = v[p[m]] + SumOver(v, n, taken(m) \ {p[m]})
    <3> DEFINE s == taken(m)
               x == p[m]
    <3>1. x \in 1..n /\ x \in s
      BY <2>1
    <3> HIDE DEF s, x
    <3>2. AddsLast(v, n, s, x)
      BY <3>1, SumOverOne
    <3> QED
      BY <3>2 DEF AddsLast, s, x
  <2>4. a[m][column] = v[p[m]] /\ v[p[m]] \in Int
    BY <1>3, <2>1
  <2>5. SumOver(v, n, taken(m - 1)) \in Int
    <3>1. PICK h \in [0..n -> Int] : SumOver(v, n, taken(m - 1)) = h[n]
      BY SumRuns
    <3> QED
      BY <3>1
  <2> DEFINE all == SumOver(v, n, taken(m))
             less == SumOver(v, n, taken(m - 1))
  <2>6. all = a[m][column] + less /\ less \in Int /\ a[m][column] \in Int
    BY <2>2, <2>3, <2>4, <2>5
  <2> HIDE DEF all, less
  <2>7. all = less + a[m][column]
    BY <2>6
  <2> QED
    BY <2>7 DEF all, less
<1>6. SumOver(v, n, taken(0)) = 0
  BY <1>4, SumOverNone
<1> HIDE DEF taken
<1>7. \A m \in 0..n : g[m] = SumOver(v, n, taken(m))
  OBVIOUS
<1>8. ASSUME NEW m \in 0..n
      PROVE  g[m] = IF m = 0 THEN 0 ELSE g[m - 1] + a[m][column]
  <2> HIDE DEF g
  <2>1. CASE m = 0
    BY <1>6, <1>7, <2>1
  <2>2. CASE m # 0
    <3>1. m \in 1..n /\ m - 1 \in 0..n
      BY <2>2
    <3> QED
      BY <1>5, <1>7, <2>2, <3>1
  <2> QED
    BY <2>1, <2>2
<1>9. g = Up(g)
  <2>1. g = [m \in 0..n |-> g[m]]
    OBVIOUS
  <2> HIDE DEF g
  <2> QED
    BY <1>2, <1>8, <2>1
<1> HIDE DEF g
<1>10. run = Up(run)
  BY <1>9
<1> HIDE DEF run
<1>11. \A m \in 0..n : run[m] = IF m = 0 THEN 0 ELSE run[m - 1] + a[m][column]
  BY <1>2, <1>10
<1> DEFINE T == {m \in 0..n : run[m] = g[m]}
<1>12. 0 \in T
  BY <1>8, <1>11
<1>13. ASSUME NEW m \in 1..n, m - 1 \in T
       PROVE  m \in T
  <2>1. m \in 0..n /\ m # 0 /\ run[m - 1] = g[m - 1]
    BY <1>13
  <2>2. run[m] = g[m]
    BY <1>8, <1>11, <2>1
  <2> QED
    BY <2>1, <2>2
<1>14. \A m \in 1..n : m - 1 \in T => m \in T
  BY <1>13
<1> HIDE DEF T
<1>15. \A m \in 0..n : m \in T
  BY <1>12, <1>14, UpTo
<1>16. run[n] = g[n] /\ g[n] = SumOver(v, n, 1..n)
  BY <1>4, <1>7, <1>15 DEF T
<1> QED
  BY <1>1, <1>16

\* The cuts: the top tier is not empty and at most a third beyond one, and the
\* middle tier does not end before it.
LEMMA CutBounds ==
  ASSUME NEW n \in Nat \ {0}
  PROVE  /\ HighCut(n) \in Nat \ {0} /\ 3 * (HighCut(n) - 1) <= n
         /\ MediumCut(n) \in Int /\ HighCut(n) <= MediumCut(n)
<1>1. Thirds(n) \in Nat /\ 6 * Thirds(n) <= 2 * n + 3
  BY DEF Thirds
<1>2. Thirds(2 * n) \in Nat
  BY DEF Thirds
<1>3. HighCut(n) \in Nat \ {0} /\ 3 * (HighCut(n) - 1) <= n
  BY <1>1 DEF HighCut
<1> QED
  BY <1>2, <1>3 DEF MediumCut

\* Tiers only fall.
LEMMA TiersFall ==
  ASSUME NEW n \in Nat \ {0}, NEW i \in Nat, NEW j \in Nat, i < j
  PROVE  Height(Tier(i, n)) >= Height(Tier(j, n))
<1>1. HighCut(n) \in Nat /\ MediumCut(n) \in Int /\ HighCut(n) <= MediumCut(n)
  BY CutBounds
<1>2. Height("HIGH") = 2 /\ Height("MEDIUM") = 1 /\ Height("LOW") = 0
  BY DEF Height
<1> QED
  BY <1>1, <1>2 DEF Tier

\* What QueuesAreRanked says of a queue.
RankedQueue(q, rows, column) ==
  LET valueOf(i) == rows[i][column]
      high == {i \in DOMAIN q.items : q.items[i].tier = "HIGH"}
  IN /\ q.items # <<>> => q.items[1].tier = "HIGH"
     /\ 3 * (Cardinality(high) - 1) <= Len(rows)
     /\ \A i, j \in DOMAIN q.items :
          i < j => /\ q.items[i].value >= q.items[j].value
                   /\ Height(q.items[i].tier) >= Height(q.items[j].tier)
     /\ \A i \in DOMAIN q.items :
          Cardinality({r \in DOMAIN rows : valueOf(r) > q.items[i].value}) < i
     /\ q.total = SumOf(rows, column)
     /\ q.truncated <=> Len(q.items) < Len(rows)

\* It says it of every queue of the answer.
LEMMA RankedMeans ==
  /\ QueuesAreRanked <=>
       (answer.path = "queues" =>
          \A v \in DOMAIN answer.queues :
            RankedQueue(answer.queues[v], answer.results[v].rows, answer.column))
  /\ QueuesAreRanked' <=>
       (answer'.path = "queues" =>
          \A v \in DOMAIN answer'.queues :
            RankedQueue(answer'.queues[v], answer'.results[v].rows, answer'.column))
BY Zenon DEF QueuesAreRanked, RankedQueue

\* The queue of rows whose values are numbers is ranked.
LEMMA QueueIsRanked ==
  ASSUME NEW result, NEW columns, result.rows \in RowsOf(columns), result.rows # <<>>,
         NEW given, ValueColumn(given) \in columns,
         \A i \in DOMAIN result.rows : result.rows[i][ValueColumn(given)] # Null,
         NEW maxItems \in Int
  PROVE  RankedQueue(Queue(result, given, maxItems), result.rows, ValueColumn(given))
<1> DEFINE rows == result.rows
           column == ValueColumn(given)
           n == Len(rows)
           ranked == Sorted(rows, column, TRUE)
           shown == Slice(ranked, maxItems)
           k == Len(shown)
           v == [i \in 1..n |-> rows[i][column]]
           q == Queue(result, given, maxItems)
<1>1. /\ rows \in Seq([columns -> Cell]) /\ DOMAIN rows = 1..n /\ n \in Nat \ {0}
      /\ \A i \in 1..n : rows[i][column] \in Int
  <2>1. rows \in Seq([columns -> Cell]) /\ rows # <<>> /\ column \in columns
    BY DEF RowsOf
  <2> HIDE DEF rows, column
  <2>2. DOMAIN rows = 1..n /\ n \in Nat \ {0} /\ \A i \in 1..n : rows[i][column] \in Cell
    BY <2>1
  <2>3. \A i \in DOMAIN rows : rows[i][column] # Null
    BY DEF rows, column
  <2> QED
    BY <2>1, <2>2, <2>3 DEF Cell
<1>2. /\ DOMAIN q = {"items", "total", "truncated"}
      /\ q.items = [i \in DOMAIN shown |->
                      [value |-> shown[i][column], tier |-> Tier(i, Len(ranked))]]
      /\ q.total = Total(ranked, column)
      /\ q.truncated = (Len(ranked) > maxItems)
  BY DEF Queue
<1>3. column \in columns
  OBVIOUS
<1> HIDE DEF q, rows, column, ranked, shown
<1>4. PICK p : /\ Matches(p, ranked, rows)
               /\ \A i, j \in 1..n : i < j => Precedes(rows, column, TRUE, p[i], p[j])
  <2>1. \A r \in [columns -> Cell] : r[column] \in Cell
    BY <1>3
  <2> QED
    BY <1>1, <2>1, SortedOrder DEF ranked
<1>5. Len(ranked) = n /\ ranked \in Seq([columns -> Cell])
  <2> DEFINE S == [columns -> Cell]
             descending == TRUE
  <2>1. \A r \in S : r[column] \in Cell
    BY <1>3
  <2>2. rows \in Seq(S)
    BY <1>1
  <2> HIDE DEF S, descending
  <2>3. /\ Len(Sorted(rows, column, descending)) = Len(rows)
        /\ Sorted(rows, column, descending) \in Seq(S)
    BY <2>1, <2>2, SortedOrder
  <2> QED
    BY <2>3 DEF ranked, descending, S
<1>6. v \in [1..n -> Int] /\ \A i \in 1..n : rows[i][column] = v[i]
  BY <1>1
<1>7. /\ k \in 0..n /\ (k < n <=> n > maxItems) /\ DOMAIN shown = 1..k
      /\ \A i \in 1..k : shown[i] = ranked[i]
  <2> DEFINE S == [columns -> Cell]
  <2>1. ranked \in Seq(S)
    BY <1>5
  <2> HIDE DEF S
  <2>2. /\ shown \in Seq(S) /\ k <= Len(ranked)
        /\ \A i \in 1..k : shown[i] = ranked[i]
        /\ Len(ranked) # 0 => (k < Len(ranked) <=> Len(ranked) > maxItems)
    BY <2>1, SliceRows DEF shown
  <2>3. k \in Nat /\ DOMAIN shown = 1..k
    BY <2>2
  <2> QED
    BY <1>1, <1>5, <2>2, <2>3
<1> HIDE DEF v, n, k
<1>8. /\ p \in [1..n -> 1..n]
      /\ \A i, j \in 1..n : p[i] = p[j] => i = j
      /\ \A j \in 1..n : \E i \in 1..n : p[i] = j
      /\ \A i \in 1..n : ranked[i][column] = v[p[i]]
  <2>1. /\ p \in [1..n -> 1..n]
        /\ \A i, j \in 1..n : p[i] = p[j] => i = j
        /\ \A j \in 1..n : \E i \in 1..n : p[i] = j
        /\ \A i \in 1..n : ranked[i] = rows[p[i]]
    BY <1>4, <1>5 DEF Matches, n
  <2> QED
    BY <1>6, <2>1
<1>9. /\ DOMAIN q.items = 1..k /\ Len(q.items) = k
      /\ \A i \in 1..k : q.items[i].value = v[p[i]] /\ q.items[i].tier = Tier(i, n)
  <2>1. q.items = [i \in 1..k |-> [value |-> ranked[i][column], tier |-> Tier(i, n)]]
    BY <1>2, <1>5, <1>7
  <2>2. DOMAIN q.items = 1..k /\ k \in Nat
    BY <1>1, <1>7, <2>1
  <2>3. \A i \in 1..k : i \in 1..n
    BY <1>1, <1>7
  <2>4. ASSUME NEW i \in 1..k
        PROVE  q.items[i].value = v[p[i]] /\ q.items[i].tier = Tier(i, n)
    <3>1. q.items[i].value = ranked[i][column] /\ q.items[i].tier = Tier(i, n)
      BY <2>1
    <3> QED
      BY <1>8, <2>3, <3>1
  <2> QED
    BY <2>1, <2>2, <2>4
<1>10. HighCut(n) \in Nat \ {0} /\ 3 * (HighCut(n) - 1) <= n
  BY <1>1, CutBounds
<1>11. q.items # <<>> => q.items[1].tier = "HIGH"
  <2>1. q.items # <<>> => 1 \in 1..k
    <3>1. CASE k = 0
      <4>1. q.items = <<>>
        BY <1>1, <1>2, <1>7, <3>1
      <4> QED
        BY <4>1
    <3>2. CASE k # 0
      BY <1>1, <1>7, <3>2
    <3> QED
      BY <3>1, <3>2
  <2>2. 1 <= HighCut(n) /\ Tier(1, n) = "HIGH"
    BY <1>10 DEF Tier
  <2> QED
    BY <1>9, <2>1, <2>2
<1>12. 3 * (Cardinality({i \in DOMAIN q.items : q.items[i].tier = "HIGH"}) - 1) <= n
  <2> DEFINE high == {i \in DOMAIN q.items : q.items[i].tier = "HIGH"}
             top == 1..HighCut(n)
  <2>1. high \in SUBSET top
    <3>1. ASSUME NEW i \in 1..k, q.items[i].tier = "HIGH"
          PROVE  i \in 1..HighCut(n)
      <4>1. Tier(i, n) = "HIGH" /\ i \in Nat /\ i >= 1
        BY <1>9, <3>1
      <4>2. i <= HighCut(n)
        BY <4>1 DEF Tier
      <4> QED
        BY <1>10, <4>1, <4>2
    <3> QED
      BY <1>9, <3>1
  <2>2. IsFiniteSet(top) /\ Cardinality(top) = HighCut(n)
    BY <1>10, CountTo
  <2> HIDE DEF high, top
  <2>3. IsFiniteSet(high) /\ Cardinality(high) <= HighCut(n)
    BY <2>1, <2>2, FS_Subset
  <2>4. Cardinality(high) \in Nat
    BY <2>3, FS_CardinalityType
  <2>5. 3 * (Cardinality(high) - 1) <= n
    BY <1>1, <1>10, <2>3, <2>4
  <2> QED
    BY <2>5 DEF high
<1>13. \A i, j \in 1..n : i < j => v[p[i]] >= v[p[j]]
  <2>1. ASSUME NEW i \in 1..n, NEW j \in 1..n, i < j
        PROVE  v[p[i]] >= v[p[j]]
    <3>1. Precedes(rows, column, TRUE, p[i], p[j])
      BY <1>4, <2>1
    <3>2. /\ rows[p[i]][column] = v[p[i]] /\ rows[p[j]][column] = v[p[j]]
          /\ v[p[i]] \in Int /\ v[p[j]] \in Int
      BY <1>6, <1>8
    <3>3. Null \notin Int
      BY RowsAssumption
    <3> QED
      BY <3>1, <3>2, <3>3 DEF Precedes
  <2> QED
    BY <2>1
<1>14. \A i, j \in DOMAIN q.items :
         i < j => /\ q.items[i].value >= q.items[j].value
                  /\ Height(q.items[i].tier) >= Height(q.items[j].tier)
  <2>1. ASSUME NEW i \in 1..k, NEW j \in 1..k, i < j
        PROVE  /\ q.items[i].value >= q.items[j].value
               /\ Height(q.items[i].tier) >= Height(q.items[j].tier)
    <3>1. i \in 1..n /\ j \in 1..n /\ i \in Nat /\ j \in Nat
      BY <1>1, <1>7
    <3>2. v[p[i]] >= v[p[j]]
      BY <1>13, <2>1, <3>1
    <3>3. Height(Tier(i, n)) >= Height(Tier(j, n))
      BY <1>1, <2>1, <3>1, TiersFall
    <3> QED
      BY <1>9, <3>2, <3>3
  <2> QED
    BY <1>9, <2>1
<1>15. ASSUME NEW i \in DOMAIN q.items
       PROVE  Cardinality({r \in DOMAIN rows : rows[r][column] > q.items[i].value}) < i
  <2> DEFINE above == {r \in DOMAIN rows : rows[r][column] > q.items[i].value}
             earlier == {p[j] : j \in 1..(i - 1)}
  <2>1. i \in 1..n /\ i - 1 \in Nat /\ 1..(i - 1) \subseteq DOMAIN p
    <3>1. i \in 1..k /\ k \in 1..n /\ n \in Nat /\ DOMAIN p = 1..n
      BY <1>1, <1>7, <1>8, <1>9, <1>15
    <3> QED
      BY <3>1
  <2>2. above \in SUBSET earlier
    <3>1. ASSUME NEW r \in 1..n, rows[r][column] > q.items[i].value
          PROVE  r \in earlier
      <4>1. PICK j \in 1..n : p[j] = r
        BY <1>8
      <4>2. v[p[j]] > v[p[i]] /\ v[p[j]] \in Int /\ v[p[i]] \in Int
        BY <1>6, <1>8, <1>9, <1>15, <2>1, <3>1, <4>1
      <4>3. j # i
        BY <4>2
      <4>4. ~(i < j)
        <5>1. i < j => v[p[i]] >= v[p[j]]
          BY <1>13, <2>1
        <5> QED
          BY <4>2, <5>1
      <4>5. j \in 1..(i - 1)
        BY <1>1, <2>1, <4>3, <4>4
      <4> QED
        BY <4>1, <4>5
    <3> HIDE DEF earlier
    <3> QED
      BY <1>1, <3>1 DEF n
  <2>3. IsFiniteSet(earlier) /\ Cardinality(earlier) <= i - 1
    BY <2>1, NumberedIsFinite
  <2> HIDE DEF above, earlier
  <2>4. IsFiniteSet(above) /\ Cardinality(above) <= Cardinality(earlier)
    BY <2>2, <2>3, FS_Subset
  <2>5. Cardinality(above) \in Nat /\ Cardinality(earlier) \in Nat
    BY <2>3, <2>4, FS_CardinalityType
  <2>6. Cardinality(above) < i
    BY <2>1, <2>3, <2>4, <2>5
  <2> QED
    BY <2>6 DEF above
<1>16. q.total = SumOf(rows, column)
  <2>1. Total(ranked, column) = SumOver(v, n, 1..n)
    <3>1. /\ n \in Nat /\ v \in [1..n -> Int] /\ \A i \in 1..n : rows[i][column] = v[i]
          /\ Len(ranked) = n /\ Len(rows) = n /\ Matches(p, ranked, rows)
      BY <1>1, <1>4, <1>5, <1>6 DEF n
    <3> QED
      BY ONLY <3>1, TotalSums
  <2>2. SumOf(rows, column) = SumOver(v, n, 1..n)
    BY <1>1, <1>6, FoldSums
  <2> QED
    BY <1>2, <2>1, <2>2
<1>17. q.truncated <=> Len(q.items) < n
  <2> DEFINE cut == n > maxItems
  <2>1. q.truncated = cut /\ cut \in BOOLEAN
    BY <1>2, <1>5
  <2>2. cut <=> Len(q.items) < n
    BY <1>7, <1>9
  <2> HIDE DEF cut
  <2> QED
    BY ONLY Zenon, <2>1, <2>2
<1>18. RankedQueue(q, rows, column)
  BY <1>11, <1>12, <1>14, <1>15, <1>16, <1>17 DEF RankedQueue, n
<1> QED
  BY <1>18 DEF q, rows, column

\* The scan's queues are ranked.
LEMMA ScanRanks ==
  ASSUME DataInv, Scan
  PROVE  QueuesAreRanked'
<1>1. CASE Ranked = {}
  <2>1. answer'.path = "scan"
    BY <1>1 DEF Scan, Said
  <2> QED
    BY <2>1, RankedMeans
<1>2. CASE Ranked # {}
  <2>1. /\ DOMAIN answer'.queues = Ranked
        /\ \A v \in Ranked : /\ answer'.results[v] = ScanResult(v)
                             /\ answer'.queues[v] = Queue(ScanResult(v), Nothing, ScanItems)
        /\ answer'.column = "amount"
    BY <1>2 DEF Scan
  <2>2. ASSUME NEW v \in Ranked
        PROVE  RankedQueue(Queue(ScanResult(v), Nothing, ScanItems), ScanResult(v).rows, "amount")
    <3> DEFINE r == ScanResult(v)
    <3>1. ~ViewFails(db, v) /\ Rankable(r, Nothing)
      BY DEF Ranked
    <3>2. db \in Databases /\ ScanRows \in Nat \cup {Nothing}
      BY Limits DEF DataInv
    <3>3. Sound(r)
      BY <3>1, <3>2, ViewRuns DEF ScanResult
    <3> HIDE DEF r
    <3>4. /\ r.rows # <<>> /\ "amount" \in r.columns
          /\ \A i \in DOMAIN r.rows : r.rows[i]["amount"] # Null
      BY <3>1 DEF Rankable, AutoColumns
    <3>5. r.rows \in RowsOf(r.columns) /\ ValueColumn(Nothing) = "amount" /\ ScanItems \in Int
      BY <3>3, Limits DEF Sound, ValueColumn
    <3> DEFINE given == Nothing
               maxItems == ScanItems
    <3>6. /\ ValueColumn(given) \in r.columns /\ maxItems \in Int
          /\ \A i \in DOMAIN r.rows : r.rows[i][ValueColumn(given)] # Null
      BY <3>4, <3>5
    <3> HIDE DEF given, maxItems
    <3>7. RankedQueue(Queue(r, given, maxItems), r.rows, ValueColumn(given))
      BY <3>4, <3>5, <3>6, QueueIsRanked
    <3> QED
      BY <3>5, <3>7 DEF r, given, maxItems
  <2> QED
    BY <2>1, <2>2, RankedMeans
<1> QED
  BY <1>1, <1>2

\* The queue of a detect is ranked.
LEMMA DetectRanks ==
  ASSUME DataInv, NEW view, NEW given, NEW items \in Int,
         Detect(view, given, items)
  PROVE  QueuesAreRanked'
<1> DEFINE r == RunView(view, db[view], NoFilter, DetectRows)
<1>1. \/ answer'.path = "detect"
      \/ /\ ~ViewFails(db, view) /\ Rankable(r, given) /\ ~RankCrashes(r, given)
         /\ answer' = [path |-> "queues", told |-> "result",
                       results |-> [v \in {view} |-> r],
                       queues |-> [v \in {view} |-> Queue(r, given, items)],
                       column |-> ValueColumn(given), skipped |-> {}]
  <2>1. \/ answer' = Said("detect")
        \/ answer' = [path |-> "detect", told |-> "crash"]
        \/ /\ ~ViewFails(db, view) /\ Rankable(r, given) /\ ~RankCrashes(r, given)
           /\ answer' = [path |-> "queues", told |-> "result",
                         results |-> [v \in {view} |-> r],
                         queues |-> [v \in {view} |-> Queue(r, given, items)],
                         column |-> ValueColumn(given), skipped |-> {}]
    BY Zenon DEF Detect
  <2> HIDE DEF r
  <2> QED
    BY <2>1 DEF Said
<1>2. CASE answer'.path = "detect"
  BY <1>2, RankedMeans
<1>3. CASE /\ ~ViewFails(db, view) /\ Rankable(r, given) /\ ~RankCrashes(r, given)
           /\ answer' = [path |-> "queues", told |-> "result",
                         results |-> [v \in {view} |-> r],
                         queues |-> [v \in {view} |-> Queue(r, given, items)],
                         column |-> ValueColumn(given), skipped |-> {}]
  <2>1. db \in Databases /\ DetectRows \in Nat \cup {Nothing}
    BY Limits DEF DataInv
  <2>2. Sound(r)
    BY <1>3, <2>1, ViewRuns
  <2> HIDE DEF r
  <2>3. r.rows \in RowsOf(r.columns) /\ r.rows # <<>>
    BY <1>3, <2>2 DEF Sound, Rankable
  <2>4. ValueColumn(given) \in r.columns
    BY <1>3 DEF Rankable, AutoColumns, GivenColumns, ValueColumn
  <2>5. \A i \in DOMAIN r.rows : r.rows[i][ValueColumn(given)] # Null
    BY <1>3 DEF RankCrashes
  <2>6. RankedQueue(Queue(r, given, items), r.rows, ValueColumn(given))
    BY <2>3, <2>4, <2>5, QueueIsRanked
  <2>7. /\ DOMAIN answer'.queues = {view}
        /\ answer'.queues[view] = Queue(r, given, items)
        /\ answer'.results[view] = r
        /\ answer'.column = ValueColumn(given)
    BY <1>3
  <2> QED
    BY <2>6, <2>7, RankedMeans
<1> QED
  BY <1>1, <1>2, <1>3

\* Every attention queue ranks all rows of its result, whatever integer the client
\* sends for max_items: in order, the largest shown, tiers that only fall from the top
\* one, and the total and the cut those of the whole result.
THEOREM QueuesRanked == Spec => []QueuesAreRanked
<1>1. Init => QueuesAreRanked
  BY RankedMeans DEF Init, NoAnswer
<1>2. ASSUME QueuesAreRanked, DataInv, [Next]_vars
      PROVE  QueuesAreRanked'
  <2>1. CASE UNCHANGED vars \/ Store
    BY <1>2, <2>1, RankedMeans DEF vars, Store
  <2>2. CASE Next /\ ~Store /\ answer'.path = "queues"
    <3>1. Scan \/ \E v \in Views, given \in GivenPairs, n \in ItemCounts : Detect(v, given, n)
      BY <2>2, AnswerPaths
    <3>2. ItemCounts \subseteq Int
      BY Limits
    <3> QED
      BY <1>2, <3>1, <3>2, ScanRanks, DetectRanks
  <2>3. CASE answer'.path # "queues"
    BY <2>3, RankedMeans
  <2> QED
    BY <1>2, <2>1, <2>2, <2>3
<1>3. QueuesAreRanked /\ DataInv /\ [Next]_vars => QueuesAreRanked'
  BY <1>2
<1> QED
  BY <1>1, <1>3, DataIsSound, PTL DEF Spec
=============================================================================
