# Formal models of the Eliara platform

TLA+ modules, TLC configurations and TLAPS proofs for the Python service under
`src/app`. Each module is translated from the code; `PROJECT.json` maps every
definition to the lines it stands for, lists the runs with their properties, and
names the hazards each property is aimed at.

## The system

One process serves several companies. Every company has a read-only SQLite
database, an executor with a small connection pool, a metadata index with a
retriever and an entity index, a result cache, a conversation store and an
orchestrator. Two kinds of threads exist: the asyncio event loop, which runs all
requests **and all SQL** (the executor is called synchronously), and one daemon
thread per company, the database watcher, which notices a replaced database file
and refreshes the company.

| part | state | operations | talks to |
|---|---|---|---|
| `ReadOnlyExecutor` (`execution/executor.py`) | queue of idle connections, lock | `_execute`, `reopen`, `close` | the database file |
| `DatabaseWatcher` (`execution/db_watcher.py`) | last fingerprint | `check_once` every `interval_s`, `start`, `stop` | calls `_refresh` on its own thread |
| `CompanyContextManager` (`company/context.py`) | contexts by company, lock | `get`, `build_all_eagerly`, `_build`, `_refresh`, `shutdown` | owns all of the others |
| `ResultCache`, `RateLimiter` (`core/cache.py`) | rows by key; request times by key | `get`, `set`, `clear`; `allow` | orchestrator, agent, refresh; API |
| `Orchestrator` (`orchestrator/orchestrator.py`) | `_index`, `_retriever`, `_entities`, `_agent`, and the `_last_*` fields of "the turn" | `handle`, `stream`, one method per routing decision | executor, cache, conversations, LLM, audit |
| `InMemoryConversationStore` | history and working set of each session | `append`, `remember_result`, `working_set`, `purge_expired` | orchestrator |
| chat endpoints (`api/v1/chat.py`) | metrics | batch and streamed chat | `handle`, `stream`, `_last_outcome` |
| `ReasoningAgent` (`orchestrator/agent.py`) | working set, results and SQL tokens of "the" investigation, on the agent of the company | `run` with its tools, budgets and landing | LLM client, executor, cache |
| `AnthropicClient` (`llm/anthropic_client.py`) | none between calls | `call`, `stream`, `structured_call` | the LLM service |
| `RateLimiter` behind `deps.py`, `v1/chat.py`, `v1/compat.py`, `legacy.py` | request times by `company:session` | the checks in front of a turn | company manager, orchestrator |
| entity resolver, playbooks, refinement, attention queue, SQL validator | none: functions on rows, on what discovery found, and on what the LLM chose | `resolve`, `run_playbook`, `apply_refinement`, `build_attention_queue`, `validate_sql` | called by the paths of a turn |
| verification, search and embeddings, formatting, charts, prompts | none | | called by the paths of a turn |

What is hard here:

* a refresh runs against queries in flight, on another thread, in many small
  steps (drain, refill, flush, rebuild through the same pool, six assignments),
  each of which can fail;
* turns interleave on the event loop at every LLM call and share one
  orchestrator object per company;
* a turn can end by an answer, a fallback text, a deadline, an exception or a
  client that leaves, and must then be recorded as a whole or not at all;
* blocking queue operations have no timeout;
* startup, retries and shutdown of several companies meet failing files, watcher
  threads that are half way through a refresh, and a join that gives up;
* three budgets and two kinds of timeouts bound an investigation, none exactly;
* the pipeline and the agent share cache keys but not row caps, and for a while
  after a refresh the index does not describe the file that is queried.

What makes each part correct:

* pool: one borrower per connection, no use after close, nothing lost, nobody
  blocked for ever;
* refresh: afterwards nothing of the old file is served; a refresh that fails
  changes no object; what the event loop sees in between is ordered;
* cache: nothing older than the last flush;
* turns: each leaves records of its own work only, all of them or none, and the
  stream says what the conversation remembers;
* conversation store: a bounded suffix of the conversation in order;
* manager: a company's failure stays its own, it has one watcher, and nothing is
  left open at the end;
* limiter: never more than the maximum in any window, and no denial that the
  session has not earned itself;
* agent and LLM client: bounded requests and tokens, no retry of what was shown,
  results of its own session only;
* rows: what was cut says so, a typed name reaches a query as a stored one or is
  asked about, a briefing accounts for every step, a ranking ranks all rows.

## Modules

| module | models | state and actions |
|---|---|---|
| `ConnectionLease` | what the executor promises: an abstract specification | `known`, `open` connections and the `lease` of each thread; `Open`, `Borrow`, `Return`, `Close` |
| `ConnectionPool` | `executor.py` | program counter per thread, the queue, the lock, the file and its version; one action per blocking or visible step of `_execute` (`CallExecute`, `PoolGet`, `QueryEnds`, `PoolPut`), of `reopen`/`close`/`_open_pool` (`CallReopen`, `CallClose`, `TakeLock`, `DrainOne`, `DrainEnds`, `RebuildRaises`, `FileFound`, `MakeConn`, `RefillPut`), and of whoever replaces the file |
| `CompanyRuntime` | one company's runtime: extends `ConnectionPool` with the startup build, the watcher, `_refresh`, the result cache and the agent, whose construction reads three attributes one by one (`BuildAgent`, `CaptureField`) while the watcher may be assigning them | the executor's actions are used as they are (`ExecutorStep`), or conjoined with the caller's bookkeeping (`CheckOnce` is `CallReopen` plus the stored fingerprint; `LoopRead` and `MetadataRead` are `QueryEnds` plus what was read) |
| `ChatTurns` | `handle`, `_handle`, the path methods, `stream`, the conversation store and the endpoints | one record per turn (its place and local variables), the shared `_last_*` fields, the store, the audit log; an action covers the code from one `await` to the next, or a part of it while the turn has the loop to itself |
| `CompanyManager` | `CompanyContextManager` with the lifespan of `main.py` and the watchers' threads | place of the event loop, the build under way, every company's context, pool (open or not), watcher, stop event and file; `EagerBuild`, `Get`, the stages of `_build`, a watcher's `Look`, `Drain`, `Refill`, `Rebuilt`, `WatcherEnds`, shutdown's `StopWatcher`, `Join`, `Close` |
| `RateLimiter` | `RateLimiter` | the clock and a window per key; `Allow`, `Reject`, `Tick` |
| `ApiGate` | the checks of the endpoints: extends `RateLimiter` | one action per request, `Chat` and `Legacy`, which conjoin the limiter's actions with the order of the checks |
| `LLMCall` | what a call of the LLM client promises: an abstract specification | requests sent, text shown, one end |
| `LLMClient` | `call`, `stream`, `structured_call` | place, attempt, corrective retry and elapsed time per caller; one action per await: `Reply`, `Refused`, `Fails`, `Wake`, `Chunk`, `StreamEnds`, `StreamBreaks`, `Cancel` |
| `AgentLoop` | `ReasoningAgent.run`, its tools and its landing: extends `LLMClient` | place, step, tokens and results per turn, the fields on the agent; `Start`, one action per tool, `AnswerStep`, `Landed`, `RunRaises`, `RunCancelled` |
| `ResultRows` | results, row caps and `refine.py` | operators |
| `EntityResolver` | source detection, index tables and the tiers of `resolve` | operators |
| `AttentionQueue` | column choice, ranking and tiers | operators |
| `PlaybookRun` | `run_playbook` | operators (a fold over the steps) |
| `SqlGate` | what `validate_sql` rejects, and the `LIMIT` it writes | operators |
| `DataPaths` | what the paths of a turn do with rows between two LLM calls: composes the five modules above over one cache and one working set | the file, what discovery last found, cache, the entry that is on its way to it (`pending`), working set, the last answer with its inputs; one action per path (`ViewPath`, `AskWhich`, `AgentView`, `SqlPath`, `RefinePath`, `PlaybookPath`, `Scan`, `Detect`), `Store`, and the two halves of a refresh (`Swap`, `Rediscover`), which may come between a query and its `Store` |
| `ConnectionPoolProofs`, `CompanyRuntimeProofs`, `ChatTurnsProofs`, `CompanyManagerProofs`, `ApiGateProofs`, `AgentLoopProofs`, `DataPathsProofs` | theorems about the module each is named after; `CompanyRuntimeProofs` extends `ConnectionPoolProofs` and uses its theorems | |
| `ResultRowsProofs` | lemmas about the operators of `ResultRows`, for `DataPathsProofs` | |
| `MCConnectionPool`, `MCCompanyRuntime`, `MCChatTurns`, `MCCompanyManager`, `MCApiGate`, `MCAgentLoop`, `MCDataPaths` | instances for TLC: symmetry, initial states up to renaming, and the small data of `DataPaths` | |

Abstractions. A connection is its number in the order of opening, with the file
version it was opened on; a rename leaves open connections on the old version. A
query's rows are the version they were read from. An index is the set of versions
its metadata queries read. The metadata queries of a build are a number
(`MetaQueries`), of which only the first may not fail. A result, statement, cache
hit, verification report and outcome are named by the turn that made them. Text is
a short sequence of tokens. Stage events, timings, token counts and wording are
left out. In `ChatTurns`, verdicts that come from parsing or arithmetic (validator,
verification, entity clarification) are choices; `DataPaths` computes the first and
the last. There a row is a function from columns to numbers or null, a name or code
is a number, and `whole`, the rows a result would have without any cap, is history.
The string functions of the resolver (`normalise`, `core_form`, the similarity
ratio) are constant functions on a handful of names chosen so that every tier has
a unique, an ambiguous and an unknown case. Time is a clock of ticks in `RateLimiter`
and the time since the turn began in `LLMClient`.

A few readings of the code that the models rest on:

* `_handle` runs in the same task as `handle` (Python 3.12's `wait_for`), and the
  queue behind `stream` is unbounded, so emitting an event never suspends a turn.
  A turn is interrupted at LLM calls only.
* `os.replace` of an export never makes the path disappear; `RemoveFile` is a
  separate fault (a file copied by hand, a mount that is lost), after which a new
  version or the same file comes back (`ReplaceFile`, `RestoreFile`).
* The fingerprint (mtime and size) is taken to tell versions apart.
* `close` and `reopen` share a lock which `_execute` never takes.
* A startup build whose queries fail produces no runtime (that is the business of
  `CompanyManager`), so startup queries succeed in `CompanyRuntime`.
* The event loop and the watchers are the only threads, so the lock of `get` is never
  contended and a build is not interrupted by requests; files and the watchers of
  other companies do move during it. An executor whose build raised is dropped and
  CPython closes its connections with it.
* The endpoints that ask the limiter are coroutines on the one event loop, so that
  `allow` reads the clock before it takes the lock (`cache.py:43`) changes nothing.
* All checks in front of a turn run without an await, and so do an agent's tools
  except `run_sql`, so a request's checks and a tool call are one action each.
* `llm_timeout_s` is what httpx allows for each read, not for a request. `LLMClient`
  takes it as the longest a request lasts, which is so for a reply that arrives in one
  piece; one that trickles in lasts longer, until the turn's deadline cancels it.
* A view's filters come as a dictionary; `DataPaths` gives it one filter at most.
  The code resolves them one after the other and asks about the first it cannot settle.
* SQL takes no time in `AgentLoop`: queries are bounded by their own timeout of
  seconds and block the loop, deadline included.
* SQLite reads a quoted identifier that is no column as a string literal: a filter
  on a column the view has lost gives no rows and no error (`Matching`).
* A session written since some turn began cannot expire before that turn ends:
  the deadline is 75 s, the time to live is minutes.

## Runs

| run | configuration | what it shows |
|---|---|---|
| `pool` | 2 threads, pool of 2, up to 6 connections (two reopens), 2 changes of the file, shutdown at any time | `LeaseSpec`: refinement of `ConnectionLease`. `NoLostConnection`, `SurvivorsBounded`: what a reopen can lose or miss. `NoJamWithoutSurvivor`, `ExecuteReturns`: the exact condition under which callers can get stuck |
| `runtime_serving` | pool of 1, 2 cache keys (symmetric), 2 metadata queries, 2 changes, 3 reopens at most, failing rebuilds | `CleanRefreshIsComplete`, `AtMostOneStaleEntry`, `SwapIsOrdered`, `OnlyWholeBuilds` while requests keep coming |
| `runtime_quiet` | pool of 2, 3 versions of the file, 2 times at which it is gone, rebuilds that raise, no requests | `RefreshConverges`: once the exports stop, index and cache are those of the file in place, or the last refresh raised and is never repeated |
| `chat_turns` | 2 turns, batch or streamed, of one session or of two (two streamed turns always of one), history of 3 messages, working set of 1, strict verification, an audit trail whose writes may fail | `HistoryIsTheConversation`, `RecordedOrNot`, `SoloTurnIsItsOwn`, `StreamSaysTheAnswer`, `TurnEnds` |
| `company_manager` | 2 companies, every mix of good, broken and missing files, 3 changes at any step | `OthersStart`, `OneWatcher`, `ClosedAtEnd`, `LifespanMovesOn`: failures, retries, refreshes and a shutdown that meets watchers at any place |
| `api_gate` | one session id at 2 companies, 2 requests per window of 2 ticks, 5 ticks | `NeverMoreThanMax`, `DenialsAreEarned`, `SlotsAreWellSpent` |
| `investigations` | 2 turns with one agent, 2 steps, one retry, deadline of 4 ticks, budgets of 2 ticks and 2 tokens, replies of 1 and of 3 tokens | `SoloInvestigationIsItsOwn`, `TokensAccounted`, `WorkIsBounded`, `ToolFaultIsNotFatal`, `InvestigationEnds`, and `KeepsContract`, the refinement of `LLMCall` |
| `data_paths` | 2 database files, 3 operations or refresh steps in any order, an index of either file at the start, row cap of 3, agent's cap of 1, working set of 2 | `CutIsFlagged`, `FiltersAreUnderstood`, `PlaybookIsAccounted`, `QueuesAreRanked`, `RefineSelects` |
| `runtime_stall`, `runtime_late_watcher`, `turn_shared_result`, `agent_overrun` | the same modules, smaller (`agent_overrun`: the shipped timeouts in ticks of ten seconds) | one statement of a comment or document each that the code does not keep; see the findings |

Why the bounds suffice. The queue jams with one connection too many and starves
with one too few, both of which need two threads and one reopen; the second
reopen shows what survivors do to the next one. `MaxConns` stops a reopen that
could exceed it from *starting*, so every reopen that runs is complete. The
history of 3 messages makes the deque cut a pair in half with the second turn, as
the odd default of 5 does with the third. Two turns give every pairwise
interleaving of the shared fields. The number of chunks is bounded by 1: only
"nothing was streamed" and "something was" are told apart by the code.

Two companies are enough for "one company must not disturb another"; the third
change of a file lets a refresh fail, recover and be caught by the shutdown. Five
ticks with a window of two let a window empty, fill across its boundary and empty
again. In `investigations` either budget can bind first, the step budget too: two
steps of the first turn stay within the token budget and one of the second does not;
the deadline is reached inside a retry, a corrective retry, a tool's call and the
landing. Three operations are the longest chain a property of `DataPaths` spans: an
agent's cut result in the cache, read by the pipeline, then refined; or a swap of
the file, an operation on the old index, and the rediscovery.

`CHECK_DEADLOCK FALSE` in the pool, runtime, manager, agent and data configurations:
the system stops when the bounds are used up, when the process has shut down or when
both turns have ended, and a jammed pool is a real deadlock that `LoopQueryEnds`
reports. `ApiGate` and `ChatTurns` are checked for deadlock; in `ChatTurns`, `Done` is the stutter
of a model in which every turn has ended.

### Fairness

* `ConnectionPool`: weak fairness of each thread's own steps. The operating system
  runs threads that are not blocked, and a query ends by its progress-handler
  deadline. No thread has to make a call.
* `CompanyRuntime`, `FairRuntimeSpec`: strong fairness of the watcher's and of the
  loop's steps, because a blocked `get` or `put` is enabled again and again while
  the other thread runs and Python's queue wakes a waiter. It makes the stall of
  `runtime_stall` a real one: not even strong fairness gets the thread out.
* `QuietSpec`: weak fairness of the watcher, which looks again every interval.
* `ChatTurns`: the loop runs what is ready, the deadline's timer fires, and the
  stream's consumer reads to the end. Nothing is assumed of the LLM: `TurnEnds`
  rests on the deadline.
* `CompanyManager`: weak fairness of the event loop's steps and of each watcher's. A
  jam is a fault, not a step anybody must take, and `LifespanMovesOn` assumes there is
  none.
* `AgentLoop`: weak fairness of a turn's steps once it has begun: an await answers,
  times out (`llm_timeout_s`) or is cancelled by the deadline.
* `ApiGate`, `DataPaths`: none; they have safety properties only.

### Findings

1. **A refresh can hang the service** (`runtime_stall`, `executor.py:163`). A query
   in flight during `reopen` gives back an old connection to a queue that was
   refilled to its size: a `put` blocks for ever, on the event loop or in the refill
   with the lock held. `OnlySurvivorsJam` below says that this is the only way.
   It also makes `shutdown` hang, which is why `LifespanMovesOn` excludes it.
2. **An export during startup is missed** (`runtime_late_watcher`, `context.py:183`):
   nothing fails, but the watcher takes its first fingerprint after the index was built.
3. **Overlapping turns exchange results** (`turn_shared_result`, `orchestrator.py:424`).
   A turn nobody overlaps is safe (`SoloTurnIsItsOwn`).
4. **An investigation can end without an answer** (`agent_overrun`, `agent.py:133`).
   A step begun within the time budget may outlast the turn's deadline.

Known limits, which the properties that hold state as exceptions or bounds:

* A result read before a refresh's flush can be stored after it
  (`orchestrator.py:579`): at most one entry per refresh, if no connection survived
  (`AtMostOneStaleEntry`).
* The agent is built once and keeps the index, retriever and entities of that time
  (`orchestrator.py:917`). They may be of two builds, if a refresh was assigning them while
  they were read; they are never newer than the orchestrator's, nor is the retriever
  newer than the index (`SwapIsOrdered`).
* With auditing off an answered turn leaves no record, and a write that fails leaves a
  warning in its place (`audit.py:61,82`); `RecordedOrNot` counts both.
* A refresh that raises is not repeated: the fingerprint is stored before the callback
  runs (`db_watcher.py:43`), and the old index stays in use for the new file.
  `RefreshConverges` has this as its one exception: without requests there is no other
  way to stay behind.
* `name_by_code` keeps the first name of a code only (`entity_resolver.py:160,355`), so
  of several names that carry a typed code the first is taken, although the module's
  documentation (line 21) would have the user asked. `FiltersAreUnderstood` says which
  one it is and that nothing is picked in any other case.
* `max_items` of `POST /detect` is any integer (`chat.py:118`): with 0 the queue is
  empty, with a negative one it lacks the last items. What is shown is ranked all the
  same (`QueuesAreRanked`).
* A narration that breaks off leaves the client without the message the conversation
  records (`orchestrator.py:416`), and the caveat of strict mode is appended after the
  text was streamed (`orchestrator.py:672`). Otherwise the stream says what is recorded
  (`StreamSaysTheAnswer`).
* Two overlapping investigations share results and token counts (`agent.py:121`).
* SQL tokens and the tokens of discarded replies do not count against the token budget
  while the loop runs (`WorkIsBounded` has the terms).
* The agent caches a view cut to 25 rows under the pipeline's key. The result says it
  is truncated (`CutIsFlagged`), but its statistics do not cover every row, as
  `agent.py:65` says they do.
* A generated statement ends in a `LIMIT` of at most `max_rows`, so what it cuts is
  not flagged (`validator.py:119`).
* A playbook step whose view fails appears neither as a section nor in the sentence
  about skipped sections (`orchestrator.py:1007`).
* A null in a column named in `POST /detect` raises out of `float` (`Detect`, "crash").
* The scan and `detect` rank the first 200 and 500 rows the database yields; a
  refinement with a negative limit drops rows from the end.
* A message too long for chat has already spent a slot of the rate limit; the legacy
  endpoint looks at the length first (`SlotsAreWellSpent`).

## Proofs

### The connection pool

`ConnectionPoolProofs` proves, for every finite set of threads, every pool size and
every bound (assumptions `ThreadAssumption`, `SizeAssumption`):

| theorem | statement |
|---|---|
| `TypeCorrect` | `Spec => []TypeOK` |
| `ImplementsLease` | `Spec => LeaseSpec`, the refinement |
| `NothingIsLost` | `Spec => []NoLostConnection` |
| `AtMostTheBorrowedSurvive` | `Spec => []SurvivorsBounded` |
| `OnlySurvivorsJam` | `Spec => []NoJamWithoutSurvivor` |

The argument has two layers.

`LeaseInv` is inductive by itself and carries the refinement: types; the thread in
the `with` block owns the lock (`LockInv`); a thread has a connection exactly
between `get` and `put` (`HeldInv`); what is queued or on loan is open (`LiveInv`);
and no connection is in two places (`OnePlaceInv`). The lease contract needs the last
two: without them a drain could close what is on loan. Each action is a lemma
(`LeaseGet`, `LeasePut`, `LeaseDrain`, `LeaseMake`, `LeaseMove`), and `LeaseNextMaps`
sends `PoolGet` to `Borrow`, the two puts to `Return`, `DrainOne` to `Close`,
`MakeConn` to `Open` and everything else to a stutter.

`PoolInv` adds the counting: every open connection is queued or on loan
(`CoverInv`), the refill has opened exactly as many since the drain as its counter
says (`CountInv`), and those are all still open outside the next drain (`FullInv`).
When the drain finds the queue empty, `CoverInv` makes every open connection one on
loan, to a thread other than the refresher; an injection into those threads bounds
the survivors, and the bound is kept because no step adds one. When there are no
survivors, `CountInv` leaves at most `pool_size` open connections; the one a blocked
thread wants to put is not in the queue, so the queue has room. Outside a rebuild
`FullInv` has `pool_size` connections open, and `CoverInv` places them.

### The runtime of a company

`CompanyRuntimeProofs` proves, for every pool size, any number of metadata queries, any
keys and any number of changes to the file (`RuntimeAssumption`: two threads, of which
only the watcher reopens):

| theorem | statement |
|---|---|
| `RuntimeUsesThePool`, `RuntimeKeepsTheLease` | `RuntimeSpec => Spec` of `ConnectionPool`, hence `RuntimeSpec => LeaseSpec` |
| `RuntimeTypeCorrect` | `RuntimeSpec => []RuntimeTypeOK` |
| `RefreshSwapsInOrder` | `RuntimeSpec => []SwapIsOrdered` |
| `FailedBuildsAreDropped` | `RuntimeSpec => OnlyWholeBuilds`, an action property |
| `CleanRefreshesAreComplete` | `RuntimeSpec => []CleanRefreshIsComplete` |
| `FlushLetsOneThrough` | `RuntimeSpec => []AtMostOneStaleEntry` |

Each step of the runtime is a step of the pool or leaves the pool unchanged
(`PoolSteps`), so the pool's invariants come for free and the rest adds what the
callers know. `PlaceInv` says which thread can be where in the executor: without it a
reopen by the event loop, or a query by the watcher in the middle of its reopen, would
break everything that follows. `SwapInv` describes the fields in the middle of a swap
(those before `swapped` are new, those after it are alike), `CaptureInv` what the agent
can have taken from them by reading one after the other: a build is only ever replaced
by a newer one, so what was read earlier is no newer than what is there. `VersionInv`
says that what reopen has opened since its drain is no older than the fingerprint: the
fingerprint was read first, and the file only advances. `FlushInv` carries that over the flush, the rebuild and the swap, if the drain
left no survivor; `StaleInv` says that stale rows in flight are the only ones left and
exclude a stale entry, which is why at most one gets in.

### Turns

`ChatTurnsProofs` proves, for every set of turns and sessions, every history and
working-set size, any number of chunks, with or without agent, auditing and strict
verification:

| theorem | statement |
|---|---|
| `ChatTypeCorrect` | `Spec => []TypeOK` |
| `HistoriesAreConversations` | `Spec => []HistoryIsTheConversation` |
| `TurnsAreRecordedOrNot` | `Spec => []RecordedOrNot` |
| `SoloTurnsAreTheirOwn` | `Spec => []SoloTurnIsItsOwn` |
| `StreamsSayTheAnswer` | `Spec => []StreamSaysTheAnswer` |

Every action but `Start` is shown to be one kind of step (`Steps`): it changes one turn,
needs the loop free or at that turn, and leaves on the orchestrator what was there or
what is its own. A second formula (`Records`) separates the two actions that write the
store and the audit log from the rest. From there on the proof looks at these two
formulas instead of at twenty actions. The invariant has the properties and what they
lack: `SoloInv` says that a turn nobody overlapped is *alone while it runs* and that the
shared fields hold nothing but its own work since they were reset; `AuditInv` that a turn
has an entry, written or not, exactly if it was answered while auditing is on; `Said` what a stream has sent before the turn ends.
`HistoryIsTheConversation` is inductive by itself, but needs that a bounded sequence
that grows keeps what the whole one would (`BoundedGrows`).

### The company manager

`CompanyManagerProofs` proves, for every finite set of companies and any number of
changes to their files:

| theorem | statement |
|---|---|
| `ManagerTypeCorrect` | `Spec => []TypeOK` |
| `EachHasOneWatcher` | `Spec => []OneWatcher` |
| `OneFailureStaysApart` | `Spec => []OthersStart` |
| `ShutdownClosesPools` | `Spec => []ClosedAtEnd` |

`StartupInv` follows the companies through startup: none is visited twice, and one whose
file was always good is still queued, being built or healthy. `ShutdownInv` does the
same for shutdown: a company left behind has its pool closed and a watcher that cannot
open it again, or a watcher that outlived its join. `OpenInv` ties the two together: a
pool is open only where there is a watcher, so skipping a failed company leaves nothing
open.

### The limiter and the checks in front of a turn

`ApiGateProofs` proves, for every set of keys that contains the callers, every `Max`
above zero and every `Window` (assumptions `LimiterAssumption`, `GateAssumption`):

| theorem | statement |
|---|---|
| `GateNeverMoreThanMax` | `GateSpec => []NeverMoreThanMax` |
| `GateDequesAreBounded` | `GateSpec => []LimiterTypeOK`: no deque exceeds `Max` |
| `LimiterInvariant`, `GateInvariant` | the inductive invariant, for the limiter alone and behind the endpoints |
| `GateTypeCorrect` | `GateSpec => []GateTypeOK` |
| `GateDenialsAreEarned` | `GateSpec => DenialsAreEarned`, an action property |
| `GateSlotsAreWellSpent` | `GateSpec => SlotsAreWellSpent`, an action property |
| `ChargeInvariant` | the second inductive invariant, which the last three rest on |

`NeverMoreThanMax` is about every request ever allowed, of which the deque keeps only
the end, so it is not inductive. `WindowIsRecent` is what is missing: the deque is the
end of the history, and what lies before it is more than a window old, and stays so
because time only advances. When a request is allowed, the deque (after popping) holds
fewer than `Max` events, so the `Max`-th request before the new one is among what was
dropped. Every request of the gate is a limiter step or leaves the limiter unchanged.

For `DenialsAreEarned` the deque of a key has to be matched with what requests were
charged: the endpoints are the only ones who ask the limiter (`ChargedInv`), and grants
are in the order of time (`SortedInv`), so a full deque is `Max` charges within the
window.

### The agent and the LLM client

`AgentLoopProofs` proves, for any number of investigations, retries and steps, every
budget and whatever requests take and replies cost (`LoopAssumption`,
`ClientAssumption`; of the latter, that there is a dearest reply is what makes a bound on
the work possible at all: `max_tokens` limits every reply):

| theorem | statement |
|---|---|
| `AgentTypeCorrect` | `Spec => []AgentTypeOK` |
| `SoloCitesItsOwn` | `Spec => []SoloInvestigationIsItsOwn` |
| `SoloCountsItsTokens` | `Spec => []TokensAccounted` |
| `InvestigationsAreBounded` | `Spec => []WorkIsBounded` |
| `ToolFaultsAreSurvived` | `Spec => []ToolFaultIsNotFatal` |
| `ClientKeepsContract` | `Spec => KeepsContract`, the refinement of `LLMCall` |

The client is dealt with first: `CallStepFacts` says of all its actions at once that they
keep `CallInv` and pay for one reply at most, which is the answer, one that
`structured_call` discards, or the second of those. `InPhase` links a turn's place to the
method it has called, and `Spends` bounds what a turn has paid by what it has counted
plus, for each step, a discarded reply and an SQL reply that the budget does not see.
`Accounted` balances the books of an investigation that is alone.

### The data paths

`DataPathsProofs`, on the lemmas of `ResultRowsProofs`, proves for all database files,
filters, statements, refinements, playbooks, row caps and any number of operations:

| theorem | statement |
|---|---|
| `DataIsSound` | `Spec => []DataInv`, the inductive invariant |
| `DataTyped` | `Spec => []DataTypeOK` |
| `CutsFlagged` | `Spec => []CutIsFlagged` |
| `RefinementsSelect` | `Spec => []RefineSelects` |
| `FiltersUnderstood` | `Spec => []FiltersAreUnderstood` |
| `PlaybooksAccounted` | `Spec => []PlaybookIsAccounted` |
| `QueuesRanked` | `Spec => []QueuesAreRanked` |

They assume of the constants (`RowsAssumption`, `DataAssumption`) that `max_rows` is at
least one (a deployment setting, 500 as shipped), that row caps and the working set's
size are natural numbers, that a refinement's limit, the scan's item count and the
`max_items` of a client are integers of any sign or, the first, nothing, that
every row of an object has its columns and no others (SQLite's rows do), that no two views
have one place in the alphabetical order, and that a filter, a null and "nothing" are told
apart. Nothing is assumed of the string functions of the resolver, of the number of
rows or of what names and codes are stored.

`CutIsFlagged` is not inductive. What one operation caches another reads, refines and
remembers, so a result must carry more than "cut rows are flagged" for the next
refinement to keep it. `Sound` says it: a view's result that is *not* flagged has the rows
of `whole` in some order. Sorting and filtering keep this, since filtering a rearrangement
gives a rearrangement of the filtered rows (`RearrangedWhere`), and a limit that drops
rows sets the flag. `DataInv` says that everything in the cache, in the working set and in
the answer is sound, and (`Caches`) that an entry for a view is what `run_view` gives under
one of the two caps for *the file it was read from*, which is part of the entry. That
second part is what `FiltersAreUnderstood` needs: a cached answer to a filter is as good
as a new one, of that file. Operations are not atomic against a refresh: a result may be
on its way to the cache when the cache is flushed. `OneIsStale` says that this happens to
one entry at most at a time, whatever number of files come and go: the loop is on one
operation, and a flush empties the rest.

The other four properties are about the answer of the last operation. `AnswerPaths` says
which action leaves which kind of answer, so each needs its own action only:

* `RefineSelects`: `SortedOrder` says that `Sorted` is a rearrangement in which no later
  row goes before an earlier one; a slice of it leaves out nothing better. The lemmas
  `PrecedesOrders` and `PrecedesIsUnbeaten` are where nulls and ties are dealt with.
* `FiltersAreUnderstood`: `ResolveStored` goes through the tiers of `resolve` and says that
  what each returns is stored, and what it asks back has more than one choice. `Settles`
  follows a typed code to the first name that carries it, and every other text to the one
  name or code of its form. If the index is of the file the rows come from, a stored value
  is in a row of the view it was read from (`StoredIsFound`).
* `PlaybookIsAccounted`: `PlaybookNotes` describes the run after each step: the statuses so
  far, a section for each step that answered, and the first result with rows.
* `QueuesAreRanked`: the ranking is `SortedOrder` again; `TiersFall` is the arithmetic of
  the rounded thirds. The total is added up in the ranked order by the code and over the
  set of rows by the property; `FoldSums` and `TotalSums` bring both to one sum over places
  (`SumOver`), which a rearrangement does not change.

Loops over rows and over steps are functions on `0..n` in these modules (`Where`,
`RunPlaybook`, `Total`), because the provers can unfold those. `Recursion` says once that
such a function exists and obeys its equation, and `UpTo` is induction up to `n`, from the
least element of a set of numbers; both state their hypothesis about a set, not about an
operator, so they can be cited.

### What stays with TLC

Every inductive invariant was checked by TLC on its run's instance before it was proved.
Every invariant and action property of a passing run and both refinements are theorems.
Liveness under fairness is out of the prover's reach and is model-checked only:
`ExecuteReturns`, `RefreshConverges`, `TurnEnds`, `LifespanMovesOn`, `InvestigationEnds`.
So is what the four violation runs show. That the models' small tables reach every tier
of the resolver, every status of a step and every kind of cut is seen in TLC's runs, not
in the proofs.

## Not modelled

* Hybrid search and embeddings: BM25, cosine and rank fusion are arithmetic on
  floating-point scores without state that a turn changes.
* Number matching in `verification.py` (its consequences are in `ChatTurns`), prompt
  payloads, aggregates and chart shapes: formatting and arithmetic on data the models
  abstract from. The parsing of SQL and the normalisation of names are inputs. `SqlGate`
  keeps the validator's conditions apart, but no property is about which one rejects.
* Configuration, prompts, logging, the catalogue, health and session routes, and the
  shape of the legacy response: reads and adapters without state of their own.
* The detection of scan, external and investigate commands in a message's text: which
  path a turn takes is a choice.

## Plan

Done: all modules of the table above, and every safety property, action property and
refinement that a passing run checks as a theorem.

Left: number matching in `verification.py` and the aggregates of `execution/aggregate.py`
as pure operators with a reference definition; hybrid search with ranks in place of
scores. The liveness properties stay with TLC.
