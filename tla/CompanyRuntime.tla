---------------------------- MODULE CompanyRuntime ----------------------------
(***************************************************************************)
(* One company's runtime: app/company/context.py (_build, _refresh),        *)
(* app/execution/db_watcher.py, app/core/cache.py and the orchestrator      *)
(* fields a refresh replaces, composed with the pool of ConnectionPool.     *)
(*                                                                         *)
(* Two threads share it.  The event loop builds the context at startup and  *)
(* then runs queries, most of them through the result cache                 *)
(* (Orchestrator._cached_run).  The watcher's daemon thread compares the    *)
(* file's fingerprint every interval and, when it changed, runs _refresh:   *)
(* reopen the pool, flush the cache, rebuild the index through the same     *)
(* pool, assign the new objects one field after the other.                  *)
(*                                                                         *)
(* What a query reads is abstracted to the version of the file its          *)
(* connection was opened on; an index is the set of versions its metadata   *)
(* queries read, with the number of the build that made it.                 *)
(***************************************************************************)
EXTENDS ConnectionPool

CONSTANTS
  Loop,             \* the event loop's thread
  Watcher,          \* the "db-watcher" thread
  Key,              \* result-cache keys
  MetaQueries,      \* metadata queries of one build (every object takes two)
  DiscoveryMayFail  \* whether a build may raise with the file in place

ASSUME RuntimeAssumption ==
  /\ Thread = {Loop, Watcher} /\ Loop # Watcher
  /\ Refresher = {Watcher}
  /\ MetaQueries \in Nat \ {0}
  /\ DiscoveryMayFail \in BOOLEAN

VARIABLES
  place,        \* where each thread is, above its calls into the executor
  fingerprint,  \* watcher._fingerprint: the version last seen, or Missing
  lkey,         \* the cache key of the loop's query, or NoKey
  lread,        \* the version that query read
  metaLeft,     \* metadata queries the build under way has still to run
  metaRead,     \* versions it has read so far
  builds,       \* number of builds that got as far as new objects
  swapped,      \* fields the refresh under way has assigned
  fields,       \* the objects a refresh assigns, by field
  agent,        \* what the lazily built ReasoningAgent captured
  captured,     \* fields the construction of the agent under way has read
  cache,        \* result_cache: the version of each key's rows, or NoEntry
  flushed,      \* history: the fingerprint at the last flush of the cache, and
                \* whether no connection had survived the drain before it
  refreshed     \* history: the last refresh assigned every field

buildVars == <<metaLeft, metaRead, builds>>
agentVars == <<agent, captured>>
loopVars == <<lkey, lread, agentVars>>
watcherVars == <<fingerprint, swapped, flushed, refreshed>>
runtimeVars == <<place, fields, cache, buildVars, loopVars, watcherVars>>
allVars == <<vars, runtimeVars>>

Missing == 0
NoEntry == 0
NoKey == "no key"

\* The order of the assignments at the end of _refresh.
SwapOrder == <<"ctx.metadata_index", "ctx.retriever", "ctx.entities",
               "_index", "_retriever", "_entities">>
Field == {SwapOrder[i] : i \in DOMAIN SwapOrder}

\* The order in which _build_agent reads them, one attribute after the other.
CaptureOrder == <<"_retriever", "_index", "_entities">>
AgentField == {CaptureOrder[i] : i \in DOMAIN CaptureOrder}

\* The objects of a build: its number and the file versions it read.
NewObjects == [build |-> builds, read |-> metaRead]
Unbuilt == [build |-> 0, read |-> {}]

\* Mutant: only the presence of the file is compared.
Presence == IF fileExists THEN 1 ELSE Missing

\* _current_fingerprint: mtime and size of the file, or None.
Fingerprint == IF fileExists THEN fileVersion ELSE Missing

At(loopAt, watcherAt) == [t \in Thread |-> IF t = Loop THEN loopAt ELSE watcherAt]

Enter(t, from, to) ==
  /\ place[t] = from
  /\ place' = [place EXCEPT ![t] = to]

\* __init__ has opened the pool; the context is being built.
RuntimeInit ==
  /\ Init
  /\ place = At("metadata", "off")
  /\ fingerprint = Missing
  /\ lkey = NoKey
  /\ lread = Missing
  /\ metaLeft = MetaQueries
  /\ metaRead = {}
  /\ builds = 1
  /\ swapped = 0
  /\ fields = [f \in Field |-> Unbuilt]
  /\ agent = [f \in AgentField |-> Unbuilt]
  /\ captured = 0
  /\ cache = [k \in Key |-> NoEntry]
  /\ flushed = [file |-> Missing, clean |-> TRUE]
  /\ refreshed = FALSE

-----------------------------------------------------------------------------
(* build_discovery and build_entity_index, run by _build on the loop's      *)
(* thread and by _refresh on the watcher's                                  *)

\* A failed metadata query is skipped, except the first, of sqlite_master.
FirstQueryRaised(t) == raised[t] /\ metaLeft = MetaQueries - 1

\* Mutant: a query more than there are objects.
MetadataQueryTooMany(t) ==
  /\ place[t] = "metadata"
  /\ ~FirstQueryRaised(t)
  /\ CallExecute(t)
  /\ metaLeft' = metaLeft - 1
  /\ UNCHANGED <<place, fields, cache, metaRead, builds, loopVars, watcherVars>>

MetadataQuery(t) ==
  /\ place[t] = "metadata"
  /\ metaLeft > 0
  /\ ~FirstQueryRaised(t)
  /\ CallExecute(t)
  /\ metaLeft' = metaLeft - 1
  /\ UNCHANGED <<place, fields, cache, metaRead, builds, loopVars, watcherVars>>

\* A startup build whose queries fail makes no runtime at all (CompanyManager).
MetadataRead(t, failed) ==
  /\ place[t] = "metadata"
  /\ failed => DiscoveryMayFail /\ t = Watcher
  /\ QueryEnds(t, failed)
  /\ metaRead' = IF failed THEN metaRead ELSE metaRead \cup {opened[held[t]]}
  /\ UNCHANGED <<place, fields, cache, metaLeft, builds, loopVars, watcherVars>>

\* The objects of the build exist.  At startup they become the context's and
\* the orchestrator's; a refresh goes on to assign them.
BuildEnds(t) ==
  /\ metaLeft = 0
  /\ pc[t] = "idle"
  /\ ~FirstQueryRaised(t)
  /\ \/ /\ t = Loop
        /\ Enter(t, "metadata", "watch")
        /\ fields' = [f \in Field |-> NewObjects]
     \/ /\ t = Watcher
        /\ Enter(t, "metadata", "swap")
        /\ UNCHANGED fields
  /\ UNCHANGED <<vars, cache, buildVars, loopVars, watcherVars>>

\* The watcher is constructed, which takes the fingerprint, and started, and
\* the context is stored.  Its thread waits an interval before it first looks.
StartWatcher ==
  /\ place[Loop] = "watch"
  /\ place' = At("idle", "sleep")
  /\ fingerprint' = Fingerprint
  /\ UNCHANGED <<vars, fields, cache, buildVars, loopVars, swapped, flushed, refreshed>>

-----------------------------------------------------------------------------
(* check_once and _refresh *)

\* Mutant: _refresh does not reopen the pool.
CheckOnceNoReopen ==
  /\ Fingerprint # fingerprint
  /\ Enter(Watcher, "sleep", "flush")
  /\ fingerprint' = Fingerprint
  /\ refreshed' = FALSE
  /\ UNCHANGED <<vars, fields, cache, buildVars, loopVars, swapped, flushed>>

\* The fingerprint is stored before the callback runs; the callback begins
\* with executor.reopen().
CheckOnce ==
  /\ Fingerprint # fingerprint
  /\ Enter(Watcher, "sleep", "reopen")
  /\ CallReopen(Watcher)
  /\ fingerprint' = Fingerprint
  /\ refreshed' = FALSE
  /\ UNCHANGED <<fields, cache, buildVars, loopVars, swapped, flushed>>

\* check_once swallows what the callback raises, so a failed reopen is not
\* tried again until the fingerprint changes once more.
ReopenReturns ==
  /\ pc[Watcher] = "idle"
  /\ Enter(Watcher, "reopen", IF raised[Watcher] THEN "sleep" ELSE "flush")
  /\ UNCHANGED <<vars, fields, cache, buildVars, loopVars, watcherVars>>

\* Mutant: the cache is not cleared.
KeptCache == cache

ClearedCache == [k \in Key |-> NoEntry]

\* ctx.result_cache.clear(), then the rebuild begins.
FlushCache ==
  /\ Enter(Watcher, "flush", "metadata")
  /\ cache' = ClearedCache
  /\ flushed' = [file |-> fingerprint, clean |-> Survivors = {}]
  /\ metaLeft' = MetaQueries
  /\ metaRead' = {}
  /\ builds' = builds + 1
  /\ UNCHANGED <<vars, fields, loopVars, fingerprint, swapped, refreshed>>

\* Mutant: _refresh itself swallows the exception and goes on.
RefreshCarriesOn ==
  /\ pc[Watcher] = "idle"
  /\ \/ FirstQueryRaised(Watcher)
     \/ metaLeft = 0 /\ DiscoveryMayFail
  /\ Enter(Watcher, "metadata", "swap")
  /\ UNCHANGED <<vars, fields, cache, buildVars, loopVars, watcherVars>>

\* The rebuild raises; check_once swallows it and nothing was assigned.
RefreshRaises ==
  /\ pc[Watcher] = "idle"
  /\ \/ FirstQueryRaised(Watcher)
     \/ metaLeft = 0 /\ DiscoveryMayFail
  /\ Enter(Watcher, "metadata", "sleep")
  /\ UNCHANGED <<vars, fields, cache, buildVars, loopVars, watcherVars>>

\* Mutant: the assignment of orchestrator._entities is forgotten.
LastButOne == swapped + 2 = Len(SwapOrder)

LastField == swapped + 1 = Len(SwapOrder)

AssignField ==
  /\ place[Watcher] = "swap"
  /\ fields' = [fields EXCEPT ![SwapOrder[swapped + 1]] = NewObjects]
  /\ IF LastField
       THEN /\ swapped' = 0
            /\ Enter(Watcher, "swap", "sleep")
            /\ refreshed' = TRUE
       ELSE /\ swapped' = swapped + 1
            /\ UNCHANGED <<place, refreshed>>
  /\ UNCHANGED <<vars, cache, buildVars, loopVars, fingerprint, flushed>>

-----------------------------------------------------------------------------
(* The event loop's queries *)

\* _cached_run: a key that is not in the cache is executed.
RunCached(k) ==
  /\ cache[k] = NoEntry
  /\ Enter(Loop, "idle", "execute")
  /\ CallExecute(Loop)
  /\ lkey' = k
  /\ UNCHANGED <<fields, cache, buildVars, lread, agentVars, watcherVars>>

\* data_boundaries, scans and playbooks go to the executor directly.
RunUncached ==
  /\ Enter(Loop, "idle", "execute")
  /\ CallExecute(Loop)
  /\ lkey' = NoKey
  /\ UNCHANGED <<fields, cache, buildVars, lread, agentVars, watcherVars>>

LoopRead(failed) ==
  /\ place[Loop] = "execute"
  /\ QueryEnds(Loop, failed)
  /\ lread' = opened[held[Loop]]
  /\ UNCHANGED <<place, fields, cache, buildVars, lkey, agentVars, watcherVars>>

\* execute() has returned or raised.
LoopReturns ==
  /\ pc[Loop] = "idle"
  /\ Enter(Loop, "execute", IF raised[Loop] \/ lkey = NoKey THEN "idle" ELSE "store")
  /\ UNCHANGED <<vars, fields, cache, buildVars, loopVars, watcherVars>>

\* self._cache.set(key, result)
CacheStore ==
  /\ Enter(Loop, "store", "idle")
  /\ cache' = [cache EXCEPT ![lkey] = lread]
  /\ UNCHANGED <<vars, fields, buildVars, loopVars, watcherVars>>

\* An entry's ttl ends, or the cache is full and evicts it.
CacheExpire(k) ==
  /\ cache[k] # NoEntry
  /\ cache' = [cache EXCEPT ![k] = NoEntry]
  /\ UNCHANGED <<vars, place, fields, buildVars, loopVars, watcherVars>>

\* if self._agent is None: self._agent = self._build_agent()
BuildAgent ==
  /\ agent = [f \in AgentField |-> Unbuilt]
  /\ Enter(Loop, "idle", "agent")
  /\ captured' = 0
  /\ UNCHANGED <<vars, fields, cache, buildVars, lkey, lread, agent, watcherVars>>

\* One argument of the ReasoningAgent: the watcher's thread may assign the fields
\* between two of them.
CaptureField ==
  /\ place[Loop] = "agent"
  /\ agent' = [agent EXCEPT ![CaptureOrder[captured + 1]] = fields[CaptureOrder[captured + 1]]]
  /\ IF captured + 1 = Len(CaptureOrder)
       THEN Enter(Loop, "agent", "idle") /\ UNCHANGED captured
       ELSE captured' = captured + 1 /\ UNCHANGED place
  /\ UNCHANGED <<vars, fields, cache, buildVars, lkey, lread, watcherVars>>

-----------------------------------------------------------------------------
ExecutorStep(t) == PoolStep(t) /\ UNCHANGED runtimeVars

FileStep == Environment /\ UNCHANGED runtimeVars

BuildStep(t) ==
  \/ MetadataQuery(t)
  \/ \E failed \in BOOLEAN : MetadataRead(t, failed)
  \/ BuildEnds(t)

WatcherStep ==
  \/ ExecutorStep(Watcher)
  \/ BuildStep(Watcher)
  \/ CheckOnce
  \/ ReopenReturns
  \/ FlushCache
  \/ RefreshRaises
  \/ AssignField

\* What the loop does without being asked for anything new.
LoopStep ==
  \/ ExecutorStep(Loop)
  \/ BuildStep(Loop)
  \/ StartWatcher
  \/ \E failed \in BOOLEAN : LoopRead(failed)
  \/ LoopReturns
  \/ CacheStore
  \/ CaptureField

Request ==
  \/ \E k \in Key : RunCached(k)
  \/ RunUncached
  \/ BuildAgent

RuntimeNext ==
  \/ WatcherStep
  \/ LoopStep
  \/ Request
  \/ \E k \in Key : CacheExpire(k)
  \/ FileStep

RuntimeSpec == RuntimeInit /\ [][RuntimeNext]_allVars

\* Both threads are scheduled, the watcher looks again every interval_s, and a
\* thread blocked on the queue is not passed over for ever.
FairRuntimeSpec ==
  RuntimeSpec /\ SF_allVars(WatcherStep) /\ SF_allVars(LoopStep)
-----------------------------------------------------------------------------
(* Properties *)

Object == [build : Nat, read : SUBSET Nat]

RuntimeTypeOK ==
  /\ TypeOK
  /\ place[Loop] \in {"metadata", "watch", "idle", "execute", "store", "agent"}
  /\ place[Watcher] \in {"off", "sleep", "reopen", "flush", "metadata", "swap"}
  /\ fingerprint \in Nat /\ lread \in Nat /\ builds \in Nat
  /\ lkey \in Key \cup {NoKey}
  /\ metaLeft \in 0..MetaQueries
  /\ metaRead \subseteq Nat
  /\ swapped \in 0..Len(SwapOrder)
  /\ fields \in [Field -> Object]
  /\ agent \in [AgentField -> Object]
  /\ captured \in 0..(Len(CaptureOrder) - 1)
  /\ cache \in [Key -> Nat]
  /\ flushed \in [file : Nat, clean : BOOLEAN]
  /\ refreshed \in BOOLEAN

\* When a refresh has run to its end and no connection was on loan while it
\* drained the pool, nothing older than the file whose fingerprint the watcher
\* holds is served: not by a connection, not by an object of the orchestrator.
CleanRefreshIsComplete ==
  (refreshed /\ flushed.clean) =>
    /\ \A c \in Live : opened[c] >= fingerprint
    /\ \A f \in Field : \A v \in fields[f].read : v >= fingerprint

\* Once the cache is flushed, and if no connection survived the drain, at most
\* one entry is older than the flush: the loop had read it and not yet stored it.
AtMostOneStaleEntry ==
  flushed.clean =>
    Cardinality({k \in Key : cache[k] \in 1..(flushed.file - 1)}) <= 1

\* A refresh replaces the fields in one order and all of them or none: whatever
\* the loop sees between two assignments, a field is never from an older build
\* than one assigned after it, and between refreshes all are from one build.  The
\* agent reads the fields one by one while a refresh may be assigning them, in
\* another order, so it may mix builds; no refresh replaces what it captured.  It
\* never holds anything newer than the orchestrator does, nor a retriever newer than
\* its index, which is assigned first and read last.
SwapIsOrdered ==
  /\ \A i, j \in DOMAIN SwapOrder :
       i < j => fields[SwapOrder[j]].build <= fields[SwapOrder[i]].build
  /\ place[Watcher] # "swap" =>
       \A f, g \in Field : fields[f] = fields[g]
  /\ place[Loop] # "agent" => agent["_retriever"].build <= agent["_index"].build
  /\ \A f \in AgentField : agent[f].build <= fields[f].build

\* A build that raised never reaches the fields: a step that changes a field
\* gives it the newest build, and that build has run all its queries.
OnlyWholeBuilds ==
  [][\A f \in Field : fields'[f] # fields[f] => fields'[f] = NewObjects /\ metaLeft = 0]_allVars

-----------------------------------------------------------------------------
(* A company nobody is talking to: no request reaches the loop.              *)

QuietInit ==
  /\ Init
  /\ place = At("idle", "sleep")
  /\ fingerprint = 1
  /\ lkey = NoKey
  /\ lread = Missing
  /\ metaLeft = 0
  /\ metaRead = {1}
  /\ builds = 1
  /\ swapped = 0
  /\ fields = [f \in Field |-> [build |-> 1, read |-> {1}]]
  /\ agent = [f \in AgentField |-> Unbuilt]
  /\ captured = 0
  /\ cache \in [Key -> {NoEntry, 1}]
  /\ flushed = [file |-> Missing, clean |-> TRUE]
  /\ refreshed = FALSE

QuietSpec ==
  /\ QuietInit
  /\ [][WatcherStep \/ FileStep]_allVars
  /\ WF_allVars(WatcherStep)

\* The index is built from the file in place, and nothing of an older file is left
\* in the cache.
UpToDate ==
  /\ \A f \in Field : fields[f].read = {fileVersion}
  /\ \A k \in Key : cache[k] \in {NoEntry, fileVersion}

\* The watcher has drained the pool for a refresh that did not reach its end, and
\* rests on the file in place.
RefreshLost ==
  place[Watcher] = "sleep" /\ fingerprint = fileVersion /\ ~refreshed /\ drainedAt > 0

\* Without requests, once the exports stop with a file in place, the watcher either
\* brings the index and the cache up to that file, or its last refresh raised and,
\* the fingerprint being stored already, is never tried again: there is no other way
\* to stay behind, and no end to the refreshes is missed.
RefreshConverges ==
  <>[]fileExists => <>[]UpToDate \/ <>[]RefreshLost

-----------------------------------------------------------------------------
(* What the documentation promises and the code does not keep                *)

\* While exports are only ever renamed over the path, a query of the event loop
\* ends.
LoopQueryEnds ==
  []fileExists => (pc[Loop] \in Executing ~> pc[Loop] = "idle")

\* While the watcher rests and sees no change, the orchestrator's index is that
\* of the file in place.
IndexFollowsFile ==
  (place[Watcher] = "sleep" /\ fileExists /\ fingerprint = fileVersion) =>
    fields["_index"].read \subseteq {fileVersion}
=============================================================================
