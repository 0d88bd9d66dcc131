------------------------- MODULE CompanyRuntimeProofs -------------------------
(***************************************************************************)
(* Theorems about CompanyRuntime, for every pool size, any number of        *)
(* metadata queries, any keys and any number of changes to the file.        *)
(***************************************************************************)
EXTENDS CompanyRuntime, ConnectionPoolProofs

LoopPlaces == {"metadata", "watch", "idle", "execute", "store", "agent"}
WatcherPlaces == {"off", "sleep", "reopen", "flush", "metadata", "swap"}

\* Who may be inside the executor, and where: the loop in a query of the startup
\* build or of a request, the watcher in reopen or in a query of its rebuild.  The
\* watcher's thread does not exist before the startup build is over.
PlaceInv ==
  /\ place \in [Thread -> LoopPlaces \cup WatcherPlaces]
  /\ place[Loop] \in LoopPlaces
  /\ place[Watcher] \in WatcherPlaces
  /\ place[Watcher] = "off" <=> place[Loop] \in {"metadata", "watch"}
  /\ pc[Loop] \in {"idle"} \cup Executing
  /\ pc[Loop] # "idle" => place[Loop] \in {"metadata", "execute"}
  /\ pc[Watcher] # "idle" =>
       \/ place[Watcher] = "reopen" /\ pc[Watcher] \in {"lockReopen"} \cup Rebuilding
       \/ place[Watcher] = "metadata" /\ pc[Watcher] \in Executing

\* The types of what CompanyRuntime adds to the pool.
DataInv ==
  /\ fingerprint \in Nat /\ lread \in Nat /\ builds \in Nat
  /\ lkey \in Key \cup {NoKey}
  /\ place[Loop] = "store" => lkey \in Key
  /\ metaLeft \in 0..MetaQueries
  /\ metaRead \subseteq Nat
  /\ swapped \in 0..(Len(SwapOrder) - 1)
  /\ fields \in [Field -> Object]
  /\ agent \in [AgentField -> Object]
  /\ captured \in 0..(Len(CaptureOrder) - 1)
  /\ cache \in [Key -> Nat]
  /\ flushed \in [file : Nat, clean : BOOLEAN]
  /\ refreshed \in BOOLEAN

\* While the refresh assigns, the fields before its place in the order hold the
\* new objects and those after it hold what all of them held before.
SwapInv ==
  /\ \A f \in Field : fields[f].build <= builds
  /\ place[Watcher] = "swap" => metaLeft = 0
  /\ place[Watcher] # "swap" => swapped = 0
  /\ \A i, j \in DOMAIN SwapOrder :
       /\ i <= swapped => fields[SwapOrder[i]] = NewObjects
       /\ i > swapped /\ j > swapped => fields[SwapOrder[i]] = fields[SwapOrder[j]]

\* What the agent captured is no newer than what the orchestrator holds.  It reads
\* the retriever before the index, which a refresh assigns before the retriever.
CaptureInv ==
  /\ \/ place[Loop] = "agent" /\ captured < 2
     \/ agent["_retriever"].build <= agent["_index"].build
  /\ \A f \in AgentField : agent[f].build <= fields[f].build

\* What reopen has opened since its drain is no older than v.
FreshSince(v) == \A c \in Conns : c > drainedAt => opened[c] >= v

\* No one has seen a version of the file that is still to come, and a connection
\* that reopen opened after its drain is no older than the fingerprint.
VersionInv ==
  /\ fingerprint <= fileVersion
  /\ flushed.file <= fileVersion
  /\ (\/ place[Watcher] = "flush"
      \/ place[Watcher] = "reopen" /\ pc[Watcher] \notin {"lockReopen", "drain"})
       => FreshSince(fingerprint)

\* The part of a refresh that follows the flush of the cache.
Rebuilt == place[Watcher] \in {"metadata", "swap"} \/ refreshed

\* If no connection survived the drain before the last flush, nothing that is open
\* and nothing read since is older than the file that refresh was for.
FlushInv ==
  /\ refreshed => place[Watcher] = "sleep"
  /\ Rebuilt => flushed.file = fingerprint
  /\ flushed.clean =>
       /\ \A c \in Live : opened[c] >= flushed.file
       /\ place[Watcher] \in {"metadata", "swap"} => \A v \in metaRead : v >= flushed.file
       /\ refreshed => \A f \in Field : \A v \in fields[f].read : v >= flushed.file

Stale(v) == v \in 1..(flushed.file - 1)

\* The loop has read the rows it is going to store.
InFlight ==
  \/ place[Loop] = "store"
  \/ place[Loop] = "execute" /\ pc[Loop] \in {"put", "idle"}

\* Stale rows in flight are the only ones that can still reach the cache: while
\* there are some the cache holds no stale entry, and it never holds two.
StaleInv ==
  flushed.clean =>
    /\ \A k, l \in Key : Stale(cache[k]) /\ Stale(cache[l]) => k = l
    /\ InFlight /\ Stale(lread) => \A k \in Key : ~Stale(cache[k])

RuntimeInv ==
  /\ LeaseInv
  /\ PlaceInv
  /\ DataInv
  /\ SwapInv
  /\ CaptureInv
  /\ VersionInv
  /\ FlushInv
  /\ StaleInv

-----------------------------------------------------------------------------
(* The order of the assignments                                              *)

\* The agent's three fields, in the order in which they are read.
LEMMA CaptureFacts ==
  /\ Len(CaptureOrder) = 3
  /\ CaptureOrder[1] = "_retriever" /\ CaptureOrder[2] = "_index" /\ CaptureOrder[3] = "_entities"
  /\ AgentField = {"_index", "_retriever", "_entities"}
<1>1. /\ Len(CaptureOrder) = 3 /\ DOMAIN CaptureOrder = 1..3
      /\ CaptureOrder[1] = "_retriever" /\ CaptureOrder[2] = "_index" /\ CaptureOrder[3] = "_entities"
  BY DEF CaptureOrder
<1> QED
  BY <1>1 DEF AgentField

\* SwapOrder names each field once, those the agent captures among them; the index
\* comes before the retriever.
LEMMA OrderFacts ==
  /\ SwapOrder \in Seq(Field) /\ Len(SwapOrder) = 6 /\ DOMAIN SwapOrder = 1..6
  /\ \A i, j \in DOMAIN SwapOrder : SwapOrder[i] = SwapOrder[j] => i = j
  /\ \A f \in Field : \E i \in DOMAIN SwapOrder : SwapOrder[i] = f
  /\ AgentField \subseteq Field
  /\ \A i \in DOMAIN SwapOrder : SwapOrder[i] \in Field
  /\ SwapOrder[4] = "_index" /\ SwapOrder[5] = "_retriever"
<1>1. Len(SwapOrder) = 6 /\ DOMAIN SwapOrder = 1..6
  BY DEF SwapOrder
<1>2. \A i, j \in DOMAIN SwapOrder : SwapOrder[i] = SwapOrder[j] => i = j
  BY <1>1 DEF SwapOrder
<1>3. AgentField \subseteq Field
  <2>1. SwapOrder[4] = "_index" /\ SwapOrder[5] = "_retriever" /\ SwapOrder[6] = "_entities"
    BY DEF SwapOrder
  <2> QED
    BY <1>1, <2>1, CaptureFacts DEF Field
<1>4. SwapOrder \in Seq(Field)
  <2>1. \A i \in 1..6 : SwapOrder[i] \in Field
    BY <1>1 DEF Field
  <2>2. SwapOrder = [i \in 1..6 |-> SwapOrder[i]]
    BY DEF SwapOrder
  <2> QED
    BY <2>1, <2>2
<1>5. SwapOrder[4] = "_index" /\ SwapOrder[5] = "_retriever"
  BY DEF SwapOrder
<1> QED
  BY <1>1, <1>2, <1>3, <1>4, <1>5 DEF Field

-----------------------------------------------------------------------------
(* The runtime uses the pool by its operations only                          *)

\* Every step of the runtime is one of the pool's steps, or none of its business.
LEMMA PoolSteps == [RuntimeNext]_allVars => [Next]_vars
<1> SUFFICES ASSUME [RuntimeNext]_allVars PROVE [Next]_vars
  OBVIOUS
<1> USE RuntimeAssumption
<1>1. CASE UNCHANGED allVars
  BY <1>1 DEF allVars
<1>2. ASSUME NEW t \in Thread, ExecutorStep(t) PROVE Next
  BY <1>2 DEF ExecutorStep, Next, Continue
<1>3. ASSUME NEW t \in Thread, BuildStep(t) PROVE [Next]_vars
  <2>1. CASE MetadataQuery(t)
    BY <2>1 DEF MetadataQuery, Next, Call
  <2>2. ASSUME NEW failed \in BOOLEAN, MetadataRead(t, failed) PROVE Next
    BY <2>2 DEF MetadataRead, Next, Continue
  <2>3. CASE BuildEnds(t)
    BY <2>3 DEF BuildEnds
  <2> QED
    BY <1>3, <2>1, <2>2, <2>3 DEF BuildStep
<1>4. CASE WatcherStep
  <2>1. CASE CheckOnce
    BY <2>1 DEF CheckOnce, Next, Call
  <2>2. CASE ReopenReturns \/ FlushCache \/ RefreshRaises \/ AssignField
    BY <2>2 DEF ReopenReturns, FlushCache, RefreshRaises, AssignField
  <2> QED
    BY <1>2, <1>3, <1>4, <2>1, <2>2 DEF WatcherStep
<1>5. CASE LoopStep
  <2>1. ASSUME NEW failed \in BOOLEAN, LoopRead(failed) PROVE Next
    BY <2>1 DEF LoopRead, Next, Continue
  <2>2. CASE StartWatcher \/ LoopReturns \/ CacheStore \/ CaptureField
    BY <2>2 DEF StartWatcher, LoopReturns, CacheStore, CaptureField
  <2> QED
    BY <1>2, <1>3, <1>5, <2>1, <2>2 DEF LoopStep
<1>6. CASE Request
  <2>1. ASSUME NEW k \in Key, RunCached(k) PROVE Next
    BY <2>1 DEF RunCached, Next, Call
  <2>2. CASE RunUncached
    BY <2>2 DEF RunUncached, Next, Call
  <2>3. CASE BuildAgent
    BY <2>3 DEF BuildAgent
  <2> QED
    BY <1>6, <2>1, <2>2, <2>3 DEF Request
<1>7. ASSUME NEW k \in Key, CacheExpire(k) PROVE UNCHANGED vars
  BY <1>7 DEF CacheExpire
<1>8. CASE FileStep
  BY <1>8 DEF FileStep, Next
<1> QED
  BY <1>1, <1>4, <1>5, <1>6, <1>7, <1>8 DEF RuntimeNext

\* The pool in a company's runtime is the pool of ConnectionPool: whatever is
\* proved of every behaviour of that specification holds of the runtime.
THEOREM RuntimeUsesThePool == RuntimeSpec => Spec
<1>1. RuntimeInit => Init
  BY DEF RuntimeInit
<1> QED
  BY <1>1, PoolSteps, PTL DEF RuntimeSpec, Spec

\* The executor of a company keeps the lease contract while the loop's queries and
\* the watcher's refreshes share it.
THEOREM RuntimeKeepsTheLease == RuntimeSpec => LeaseSpec
BY RuntimeUsesThePool, ImplementsLease, PTL

-----------------------------------------------------------------------------
(* Steps inside the executor                                                 *)

\* A step of a call under way takes a thread from the get to the query or ends its
\* put, and opens and closes nothing; or else it is the watcher's, in reopen: then
\* what it opens is the file in place, and the drain's end leaves nothing behind it.
LEMMA ExecutorSteps ==
  ASSUME LeaseInv, PlaceInv, NEW t \in Thread, PoolStep(t)
  PROVE  /\ \A u \in Thread : u # t => pc'[u] = pc[u]
         /\ UNCHANGED fileVars
         /\ \/ /\ \/ pc[t] = "get" /\ pc'[t] = "query"
                  \/ pc[t] = "put" /\ pc'[t] = "idle"
               /\ UNCHANGED <<opened, closed, drainedAt>>
            \/ /\ t = Watcher /\ place[t] = "reopen" /\ pc[t] # "idle"
               /\ pc'[t] \in {"idle"} \cup Rebuilding
               /\ \A c \in Live' : (c \in Live /\ opened'[c] = opened[c]) \/ opened'[c] = fileVersion
               /\ \/ pc'[t] = "drain"
                  \/ \A v \in Nat : FreshSince(v)'
                  \/ /\ pc[t] \notin {"lockReopen", "drain"}
                     /\ \A v \in Nat : v <= fileVersion /\ FreshSince(v) => FreshSince(v)'
<1> USE RuntimeAssumption DEF LeaseInv, Move, poolVars, fileVars
<1>0. pc \in [Thread -> Places] /\ opened \in Seq(Nat) /\ closed \subseteq Conns /\ fileVersion \in Nat
  BY DEF TypeOK
<1>1. CASE PoolGet(t)
  BY <1>0, <1>1 DEF PoolGet
<1>2. CASE PoolPut(t)
  BY <1>0, <1>2 DEF PoolPut
<1>3. pc[t] \in {"lockReopen"} \cup Rebuilding => t = Watcher /\ place[t] = "reopen"
  BY <1>0 DEF PlaceInv, Executing, Rebuilding
<1>4. pc[t] \notin {"lockClose", "drainClose"}
  BY <1>0 DEF PlaceInv, Executing, Rebuilding
<1>5. CASE TakeLock(t)
  <2>1. pc[t] = "lockReopen" /\ pc' = [pc EXCEPT ![t] = "drain"]
    BY <1>4, <1>5 DEF TakeLock
  <2>2. UNCHANGED <<opened, closed, drainedAt, fileVars>>
    BY <1>5 DEF TakeLock
  <2> QED
    BY <1>0, <1>3, <2>1, <2>2 DEF Rebuilding, Live, Conns
<1>6. CASE DrainOne(t)
  <2>1. pc[t] = "drain" /\ pc' = pc
    BY <1>4, <1>6 DEF DrainOne
  <2>2. UNCHANGED <<opened, drainedAt, fileVars>> /\ closed \subseteq closed'
    BY <1>6 DEF DrainOne
  <2> QED
    BY <1>0, <1>3, <2>1, <2>2 DEF Rebuilding, Live, Conns
<1>7. CASE DrainEnds(t)
  <2>1. pc[t] = "drain" /\ pc' = [pc EXCEPT ![t] = "exists"] /\ drainedAt' = Len(opened)
    BY <1>4, <1>7 DEF DrainEnds
  <2>2. UNCHANGED <<opened, closed, fileVars>>
    BY <1>7 DEF DrainEnds
  <2>3. \A v \in Nat : FreshSince(v)'
    BY <1>0, <2>1, <2>2 DEF FreshSince, Conns
  <2> QED
    BY <1>0, <1>3, <2>1, <2>2, <2>3 DEF Rebuilding, Live, Conns
<1>8. ASSUME pc[t] \in {"exists", "connect", "refill"},
             pc' = [pc EXCEPT ![t] = pc'[t]],
             pc'[t] \in {"idle", "connect", "refill"},
             UNCHANGED <<opened, closed, drainedAt, fileVars>>
      PROVE  /\ \A u \in Thread : u # t => pc'[u] = pc[u]
             /\ t = Watcher /\ place[t] = "reopen" /\ pc[t] # "idle"
             /\ pc[t] \notin {"lockReopen", "drain"}
             /\ pc'[t] \in {"idle"} \cup Rebuilding
             /\ \A c \in Live' : c \in Live /\ opened'[c] = opened[c]
             /\ \A v \in Nat : FreshSince(v) => FreshSince(v)'
  BY <1>0, <1>3, <1>8 DEF Rebuilding, Live, Conns, FreshSince
<1>9. CASE RebuildRaises(t)
  <2>1. pc[t] \in {"exists", "connect"} /\ pc' = [pc EXCEPT ![t] = pc'[t]] /\ pc'[t] = "idle"
    BY <1>0, <1>9 DEF RebuildRaises
  <2> QED
    BY <1>8, <1>9, <2>1 DEF RebuildRaises
<1>10. CASE FileFound(t)
  <2>1. pc[t] = "exists" /\ pc' = [pc EXCEPT ![t] = pc'[t]] /\ pc'[t] = "connect"
    BY <1>0, <1>10 DEF FileFound
  <2> QED
    BY <1>8, <1>10, <2>1 DEF FileFound
<1>11. CASE RefillPut(t)
  <2>1. pc[t] = "refill" /\ pc' = [pc EXCEPT ![t] = pc'[t]] /\ pc'[t] \in {"connect", "idle"}
    BY <1>0, <1>11 DEF RefillPut
  <2> QED
    BY <1>8, <1>11, <2>1 DEF RefillPut
<1>12. CASE MakeConn(t)
  <2>1. pc[t] = "connect" /\ pc' = [pc EXCEPT ![t] = "refill"] /\ opened' = Append(opened, fileVersion)
    BY <1>12 DEF MakeConn
  <2>2. UNCHANGED <<closed, drainedAt, fileVars>>
    BY <1>12 DEF MakeConn
  <2>3. /\ Len(opened') = Len(opened) + 1 /\ opened'[Len(opened) + 1] = fileVersion
        /\ \A c \in Conns : c # Len(opened) + 1 /\ opened'[c] = opened[c]
        /\ Conns' = Conns \cup {Len(opened) + 1}
    BY <1>0, <2>1 DEF Conns
  <2>4. \A c \in Live' : (c \in Live /\ opened'[c] = opened[c]) \/ opened'[c] = fileVersion
    BY <2>2, <2>3 DEF Live
  <2>5. \A v \in Nat : v <= fileVersion /\ FreshSince(v) => FreshSince(v)'
    BY <1>0, <2>2, <2>3 DEF FreshSince
  <2> QED
    BY <1>0, <1>3, <2>1, <2>2, <2>4, <2>5 DEF Rebuilding
<1> QED
  BY <1>1, <1>2, <1>5, <1>6, <1>7, <1>9, <1>10, <1>11, <1>12 DEF PoolStep

-----------------------------------------------------------------------------
(* Places and types                                                          *)

\* The event loop begins in the startup build, the watcher's thread not at all.
LEMMA PlaceInit == RuntimeInit => PlaceInv
<1> SUFFICES ASSUME RuntimeInit PROVE PlaceInv
  OBVIOUS
<1> QED
  BY RuntimeAssumption
  DEF RuntimeInit, At, Init, PlaceInv, LoopPlaces, WatcherPlaces

\* The steps of the runtime, by kind.
LEMMA StepKinds ==
  ASSUME RuntimeNext
  PROVE  \/ \E t \in Thread : ExecutorStep(t)
         \/ \E t \in Thread : MetadataQuery(t)
         \/ \E t \in Thread, failed \in BOOLEAN : MetadataRead(t, failed)
         \/ \E t \in Thread : BuildEnds(t)
         \/ StartWatcher
         \/ CheckOnce \/ ReopenReturns \/ FlushCache \/ RefreshRaises \/ AssignField
         \/ (\E k \in Key : RunCached(k)) \/ RunUncached
         \/ \E failed \in BOOLEAN : LoopRead(failed)
         \/ LoopReturns
         \/ CacheStore
         \/ \E k \in Key : CacheExpire(k)
         \/ BuildAgent \/ CaptureField
         \/ FileStep
BY RuntimeAssumption DEF RuntimeNext, WatcherStep, LoopStep, Request, BuildStep

\* Every step leaves both threads where the other's place and call allow them.
LEMMA PlaceNext == LeaseInv /\ PlaceInv /\ [RuntimeNext]_allVars => PlaceInv'
<1> SUFFICES ASSUME LeaseInv, PlaceInv, [RuntimeNext]_allVars PROVE PlaceInv'
  OBVIOUS
<1> USE RuntimeAssumption DEF PlaceInv, LoopPlaces, WatcherPlaces, Enter, Executing, Rebuilding
<1>0. pc \in [Thread -> Places]
  BY DEF LeaseInv, TypeOK
<1>1. ASSUME NEW t \in Thread, ExecutorStep(t) PROVE PlaceInv'
  <2>1. UNCHANGED place
    BY <1>1 DEF ExecutorStep, runtimeVars
  <2>2. PoolStep(t)
    BY <1>1 DEF ExecutorStep
  <2> QED
    BY <1>0, <2>1, <2>2, ExecutorSteps
<1>2. ASSUME NEW t \in Thread, MetadataQuery(t) PROVE PlaceInv'
  BY <1>0, <1>2 DEF MetadataQuery, CallExecute, Move
<1>3. ASSUME NEW t \in Thread, NEW failed \in BOOLEAN, MetadataRead(t, failed) PROVE PlaceInv'
  BY <1>0, <1>3 DEF MetadataRead, QueryEnds, AfterQuery, Move
<1>4. ASSUME NEW t \in Thread, BuildEnds(t) PROVE PlaceInv'
  BY <1>0, <1>4 DEF BuildEnds, vars
<1>5. CASE StartWatcher
  BY <1>0, <1>5 DEF StartWatcher, At, vars
<1>6. CASE CheckOnce
  BY <1>0, <1>6 DEF CheckOnce, CallReopen, Move
<1>7. CASE ReopenReturns \/ FlushCache \/ RefreshRaises \/ AssignField
  BY <1>0, <1>7 DEF ReopenReturns, FlushCache, RefreshRaises, AssignField, vars
<1>8. ASSUME NEW k \in Key, RunCached(k) PROVE PlaceInv'
  BY <1>0, <1>8 DEF RunCached, CallExecute, Move
<1>9. CASE RunUncached
  BY <1>0, <1>9 DEF RunUncached, CallExecute, Move
<1>10. ASSUME NEW failed \in BOOLEAN, LoopRead(failed) PROVE PlaceInv'
  BY <1>0, <1>10 DEF LoopRead, QueryEnds, AfterQuery, Move
<1>11. CASE LoopReturns \/ CacheStore \/ BuildAgent \/ CaptureField
  BY <1>0, <1>11 DEF LoopReturns, CacheStore, BuildAgent, CaptureField, vars
<1>12. ASSUME NEW k \in Key, CacheExpire(k) PROVE PlaceInv'
  BY <1>0, <1>12 DEF CacheExpire, vars
<1>13. CASE FileStep
  BY <1>0, <1>13 DEF FileStep, runtimeVars, Environment, ReplaceFile, RemoveFile, RestoreFile
<1>14. CASE UNCHANGED allVars
  BY <1>14 DEF allVars, vars, runtimeVars
<1> QED
  BY <1>1, <1>2, <1>3, <1>4, <1>5, <1>6, <1>7, <1>8, <1>9, <1>10, <1>11, <1>12, <1>13,
     <1>14, StepKinds

\* A query that ends has read a connection that is open, and so a known version.
LEMMA ReadsALiveOne ==
  ASSUME LeaseInv, NEW t \in Thread, pc[t] = "query"
  PROVE  held[t] \in Live /\ held[t] \in Conns /\ opened[held[t]] \in Nat
<1>1. held[t] \in Live
  BY DEF LeaseInv, HeldInv, LiveInv, Holding
<1> QED
  BY <1>1 DEF LeaseInv, TypeOK, Live, Conns

\* The context being built: no objects, an empty cache.
LEMMA DataInit == RuntimeInit => DataInv
<1> SUFFICES ASSUME RuntimeInit PROVE DataInv
  OBVIOUS
<1>1. Unbuilt \in Object
  BY DEF Unbuilt, Object
<1>2. /\ swapped \in 0..(Len(SwapOrder) - 1) /\ metaLeft \in 0..MetaQueries
      /\ captured \in 0..(Len(CaptureOrder) - 1)
  BY RuntimeAssumption, OrderFacts, CaptureFacts DEF RuntimeInit
<1>3. /\ fields \in [Field -> Object] /\ agent \in [AgentField -> Object]
      /\ cache \in [Key -> Nat]
  BY <1>1 DEF RuntimeInit, NoEntry
<1>4. flushed \in [file : Nat, clean : BOOLEAN] /\ refreshed \in BOOLEAN
  BY DEF RuntimeInit, Missing
<1>5. place[Loop] # "store"
  BY RuntimeAssumption DEF RuntimeInit, At
<1> QED
  BY <1>2, <1>3, <1>4, <1>5 DEF RuntimeInit, DataInv, Missing

\* Every step keeps the types of the runtime's own variables.
LEMMA DataNext == LeaseInv /\ PlaceInv /\ SwapInv /\ DataInv /\ [RuntimeNext]_allVars => DataInv'
<1> SUFFICES ASSUME LeaseInv, PlaceInv, SwapInv, DataInv, [RuntimeNext]_allVars PROVE DataInv'
  OBVIOUS
<1> USE RuntimeAssumption
    DEF DataInv, Enter, buildVars, loopVars, agentVars, watcherVars
<1>0. /\ pc \in [Thread -> Places] /\ fileVersion \in Nat /\ Fingerprint \in Nat
      /\ place \in [Thread -> LoopPlaces \cup WatcherPlaces]
      /\ NewObjects \in Object
  BY DEF LeaseInv, TypeOK, PlaceInv, Fingerprint, Missing, NewObjects, Object
<1>1. ASSUME NEW t \in Thread, ExecutorStep(t) PROVE DataInv'
  BY <1>1 DEF ExecutorStep, runtimeVars
<1>2. ASSUME NEW t \in Thread, MetadataQuery(t) PROVE DataInv'
  BY <1>2 DEF MetadataQuery
<1>3. ASSUME NEW t \in Thread, NEW failed \in BOOLEAN, MetadataRead(t, failed) PROVE DataInv'
  <2>1. metaRead' \subseteq Nat
    BY <1>3, ReadsALiveOne DEF MetadataRead, QueryEnds, Move
  <2> QED
    BY <1>3, <2>1 DEF MetadataRead
<1>4. ASSUME NEW t \in Thread, BuildEnds(t) PROVE DataInv'
  <2>1. fields' \in [Field -> Object] /\ (place'[Loop] = "store" => place[Loop] = "store")
    BY <1>0, <1>4 DEF BuildEnds
  <2> QED
    BY <1>4, <2>1 DEF BuildEnds
<1>5. CASE StartWatcher
  BY <1>0, <1>5 DEF StartWatcher, At
<1>6. CASE CheckOnce
  BY <1>0, <1>6 DEF CheckOnce
<1>7. CASE ReopenReturns \/ RefreshRaises
  BY <1>0, <1>7 DEF ReopenReturns, RefreshRaises
<1>8. CASE FlushCache
  <2>1. /\ cache' \in [Key -> Nat] /\ flushed' \in [file : Nat, clean : BOOLEAN]
        /\ metaLeft' \in 0..MetaQueries /\ builds' \in Nat
    BY <1>8 DEF FlushCache, ClearedCache, NoEntry
  <2> QED
    BY <1>0, <1>8, <2>1 DEF FlushCache
<1>9. CASE AssignField
  <2>1. fields' \in [Field -> Object]
    BY <1>0, <1>9 DEF AssignField
  <2>2. swapped' \in 0..(Len(SwapOrder) - 1)
    <3>1. Len(SwapOrder) = 6 /\ swapped \in 0..5
      BY OrderFacts
    <3>2. swapped' = 0 \/ (swapped + 1 # 6 /\ swapped' = swapped + 1)
      BY <1>9, <3>1 DEF AssignField, LastField
    <3> QED
      BY ONLY <3>1, <3>2
  <2>4. refreshed' \in BOOLEAN
    BY <1>9 DEF AssignField
  <2>3. place'[Loop] = place[Loop]
    BY <1>0, <1>9 DEF AssignField
  <2> QED
    BY <1>9, <2>1, <2>2, <2>3, <2>4 DEF AssignField
<1>10. (\E k \in Key : RunCached(k)) \/ RunUncached => DataInv'
  BY <1>0 DEF RunCached, RunUncached
<1>11. ASSUME NEW failed \in BOOLEAN, LoopRead(failed) PROVE DataInv'
  <2>1. lread' \in Nat
    BY <1>11, ReadsALiveOne DEF LoopRead, QueryEnds, Move
  <2> QED
    BY <1>11, <2>1 DEF LoopRead
<1>12. CASE LoopReturns
  BY <1>0, <1>12 DEF LoopReturns
<1>13. CASE CacheStore
  <2>1. cache' \in [Key -> Nat]
    BY <1>13 DEF CacheStore
  <2> QED
    BY <1>0, <1>13, <2>1 DEF CacheStore
<1>14. ASSUME NEW k \in Key, CacheExpire(k) PROVE DataInv'
  <2>1. cache' \in [Key -> Nat]
    BY <1>14 DEF CacheExpire, NoEntry
  <2> QED
    BY <1>14, <2>1 DEF CacheExpire
<1>15. CASE BuildAgent \/ CaptureField
  <2>1. agent' \in [AgentField -> Object]
    <3>1. CASE BuildAgent
      BY <3>1 DEF BuildAgent
    <3>2. CASE CaptureField
      <4>1. CaptureOrder[captured + 1] \in AgentField
        BY CaptureFacts
      <4>2. fields[CaptureOrder[captured + 1]] \in Object
        BY <4>1, OrderFacts
      <4> QED
        BY <3>2, <4>2 DEF CaptureField
    <3> QED
      BY <1>15, <3>1, <3>2
  <2>2. captured' \in 0..(Len(CaptureOrder) - 1)
    BY <1>15, CaptureFacts DEF BuildAgent, CaptureField
  <2>3. place'[Loop] # "store"
    BY <1>0, <1>15 DEF BuildAgent, CaptureField
  <2> QED
    BY <1>15, <2>1, <2>2, <2>3 DEF BuildAgent, CaptureField
<1>16. CASE FileStep
  BY <1>16 DEF FileStep, runtimeVars
<1>17. CASE UNCHANGED allVars
  BY <1>17 DEF allVars, runtimeVars
<1> QED
  BY <1>1, <1>2, <1>3, <1>4, <1>5, <1>6, <1>7, <1>8, <1>9, <1>10, <1>11, <1>12, <1>13,
     <1>14, <1>15, <1>16, <1>17, StepKinds

-----------------------------------------------------------------------------
(* The assignments of a refresh                                              *)

\* Nothing is assigned when the context is being built.
LEMMA SwapInit == RuntimeInit => SwapInv /\ CaptureInv
<1> SUFFICES ASSUME RuntimeInit PROVE SwapInv /\ CaptureInv
  OBVIOUS
<1>1. /\ \A f \in Field : fields[f] = Unbuilt
      /\ \A f \in AgentField : agent[f] = Unbuilt
      /\ swapped = 0 /\ place[Watcher] # "swap" /\ builds = 1
  BY RuntimeAssumption DEF RuntimeInit, At
<1>2. SwapInv
  BY <1>1, OrderFacts DEF SwapInv, Unbuilt
<1>3. CaptureInv
  BY <1>1, OrderFacts, CaptureFacts DEF CaptureInv, Unbuilt
<1> QED
  BY <1>2, <1>3

\* A step that assigns nothing, outside the assignments of a refresh, and takes no
\* build back.
LEMMA SwapKept ==
  ASSUME DataInv, SwapInv, place[Watcher] # "swap", builds' \in Nat, builds <= builds',
         UNCHANGED <<fields, swapped>>, place'[Watcher] = "swap" => metaLeft' = 0
  PROVE  SwapInv'
<1>1. swapped = 0 /\ swapped' = 0
  BY DEF SwapInv
<1>2. \A f \in Field : fields'[f].build <= builds'
  BY DEF SwapInv, DataInv, Object
<1>3. \A i \in DOMAIN SwapOrder : ~(i <= 0) /\ i > 0
  BY OrderFacts
<1> QED
  BY <1>1, <1>2, <1>3 DEF SwapInv

\* The refresh assigns one field: the next in the order, the new objects.
LEMMA AssignStep ==
  ASSUME DataInv, PlaceInv, SwapInv, AssignField
  PROVE  /\ swapped + 1 \in DOMAIN SwapOrder
         /\ fields' = [fields EXCEPT ![SwapOrder[swapped + 1]] = NewObjects]
         /\ \A i \in DOMAIN SwapOrder :
              fields'[SwapOrder[i]] = IF i = swapped + 1 THEN NewObjects ELSE fields[SwapOrder[i]]
         /\ UNCHANGED <<builds, metaLeft, metaRead>> /\ metaLeft = 0
         /\ \/ swapped + 1 = 6 /\ swapped' = 0 /\ place'[Watcher] = "sleep" /\ refreshed'
            \/ swapped + 1 # 6 /\ swapped' = swapped + 1 /\ UNCHANGED <<place, refreshed>>
<1>1. swapped \in 0..5 /\ swapped + 1 \in DOMAIN SwapOrder
  BY OrderFacts DEF DataInv
<1>2. fields' = [fields EXCEPT ![SwapOrder[swapped + 1]] = NewObjects]
  BY DEF AssignField
<1>3. \A i \in DOMAIN SwapOrder :
        fields'[SwapOrder[i]] = IF i = swapped + 1 THEN NewObjects ELSE fields[SwapOrder[i]]
  <2>1. \A i \in DOMAIN SwapOrder : SwapOrder[i] \in DOMAIN fields
    BY OrderFacts DEF DataInv
  <2>2. \A i \in DOMAIN SwapOrder : SwapOrder[i] = SwapOrder[swapped + 1] <=> i = swapped + 1
    BY <1>1, OrderFacts
  <2> QED
    BY ONLY <1>2, <2>1, <2>2
<1>4. UNCHANGED <<builds, metaLeft, metaRead>> /\ metaLeft = 0
  BY DEF AssignField, buildVars, SwapInv
<1>5. Watcher \in DOMAIN place
  BY RuntimeAssumption DEF PlaceInv
<1>6. \/ swapped + 1 = 6 /\ swapped' = 0 /\ place'[Watcher] = "sleep" /\ refreshed'
      \/ swapped + 1 # 6 /\ swapped' = swapped + 1 /\ UNCHANGED <<place, refreshed>>
  <2>1. Len(SwapOrder) = 6
    BY OrderFacts
  <2> QED
    BY <1>5, <2>1 DEF AssignField, LastField, Enter
<1> QED
  BY <1>1, <1>2, <1>3, <1>4, <1>6

\* Each assignment takes one field over to the new objects, the last one all.
LEMMA SwapAssign == ASSUME DataInv, PlaceInv, SwapInv, AssignField PROVE SwapInv'
<1> DEFINE s == swapped
           F(i) == fields[SwapOrder[i]]
           G(i) == fields'[SwapOrder[i]]
<1>1. /\ s \in 0..5 /\ builds \in Nat /\ DOMAIN SwapOrder = 1..6
      /\ \A f \in Field : \E i \in 1..6 : SwapOrder[i] = f
      /\ s + 1 \in 1..6
  BY OrderFacts DEF DataInv
<1>2. \A i \in 1..6 : G(i) = IF i = s + 1 THEN NewObjects ELSE F(i)
  BY <1>1, AssignStep
<1>3. /\ \A i \in 1..6 : i <= s => F(i) = NewObjects
      /\ \A i, j \in 1..6 : i > s /\ j > s => F(i) = F(j)
  BY <1>1 DEF SwapInv
<1>4. NewObjects' = NewObjects /\ builds' = builds /\ metaLeft' = 0
  BY AssignStep DEF NewObjects
<1>5. \A f \in Field : fields'[f].build <= builds'
  <2>1. \A i \in 1..6 : F(i).build <= builds
    BY <1>1, OrderFacts DEF SwapInv
  <2>2. NewObjects.build = builds
    BY DEF NewObjects
  <2>3. \A i \in 1..6 : G(i).build <= builds
    BY <1>1, <1>2, <2>1, <2>2
  <2> QED
    BY <1>1, <1>4, <2>3
<1>6. \A i \in 1..6 : i <= s + 1 => G(i) = NewObjects
  BY ONLY <1>1, <1>2, <1>3
<1>7. \A i, j \in 1..6 : i > s + 1 /\ j > s + 1 => G(i) = G(j)
  BY ONLY <1>1, <1>2, <1>3
<1>8. /\ \A i \in 1..6 : i <= swapped' => G(i) = NewObjects
      /\ \A i, j \in 1..6 : i > swapped' /\ j > swapped' => G(i) = G(j)
      /\ place'[Watcher] # "swap" => swapped' = 0
  <2>1. CASE s + 1 = 6 /\ swapped' = 0
    <3>1. \A i \in 1..6 : G(i) = NewObjects /\ ~(i <= 0)
      BY ONLY <2>1, <1>6
    <3> QED
      BY <2>1, <3>1
  <2>2. CASE s + 1 # 6 /\ swapped' = s + 1 /\ UNCHANGED place
    BY <1>6, <1>7, <2>2 DEF AssignField
  <2> QED
    BY <2>1, <2>2, AssignStep
<1> QED
  BY <1>1, <1>4, <1>5, <1>8 DEF SwapInv

\* The startup build gives every field its objects.
LEMMA StartBuildStep ==
  ASSUME DataInv, PlaceInv, SwapInv, BuildEnds(Loop)
  PROVE  /\ \A f \in Field : fields'[f] = NewObjects
         /\ metaLeft = 0 /\ UNCHANGED <<buildVars, swapped, agent>>
         /\ place[Watcher] # "swap" /\ place'[Watcher] # "swap"
<1> USE RuntimeAssumption
<1>1. Loop # Watcher /\ Loop \in Thread /\ Watcher \in Thread
  OBVIOUS
<1>2. place[Loop] = "metadata" /\ place' = [place EXCEPT ![Loop] = "watch"]
  BY <1>1 DEF BuildEnds, Enter
<1>3. place[Watcher] # "swap" /\ place'[Watcher] # "swap"
  BY <1>1, <1>2 DEF PlaceInv
<1> QED
  BY <1>1, <1>3 DEF BuildEnds, loopVars, agentVars, watcherVars

\* The fields change by those two steps only.
LEMMA FieldSteps ==
  ASSUME [RuntimeNext]_allVars
  PROVE  UNCHANGED fields \/ AssignField \/ BuildEnds(Loop)
<1>1. CASE RuntimeNext
  BY <1>1, StepKinds
  DEF ExecutorStep, MetadataQuery, MetadataRead, BuildEnds, StartWatcher, CheckOnce,
      ReopenReturns, FlushCache, RefreshRaises, RunCached, RunUncached, LoopRead,
      LoopReturns, CacheStore, CacheExpire, BuildAgent, CaptureField, FileStep, runtimeVars
<1>2. CASE UNCHANGED allVars
  BY <1>2 DEF allVars, runtimeVars
<1> QED
  BY <1>1, <1>2

\* The assignments of a refresh stay in order whatever happens between them.
LEMMA SwapNext == DataInv /\ PlaceInv /\ SwapInv /\ [RuntimeNext]_allVars => SwapInv'
<1> SUFFICES ASSUME DataInv, PlaceInv, SwapInv, [RuntimeNext]_allVars PROVE SwapInv'
  OBVIOUS
<1> USE RuntimeAssumption DEF buildVars, loopVars, watcherVars
<1>1. ASSUME UNCHANGED <<fields, swapped, builds, metaLeft, metaRead>>,
             place'[Watcher] = "swap" <=> place[Watcher] = "swap"
      PROVE  SwapInv'
  BY <1>1 DEF SwapInv, NewObjects
<1>2. builds \in Nat /\ place \in [Thread -> LoopPlaces \cup WatcherPlaces]
  BY DEF DataInv, PlaceInv
<1>3. ASSUME NEW t \in Thread, place[t] = "metadata" PROVE place[Watcher] # "swap"
  BY <1>3 DEF PlaceInv
<1>4. ASSUME NEW t \in Thread, MetadataQuery(t) PROVE SwapInv'
  <2>1. place[Watcher] # "swap" /\ UNCHANGED <<place, fields, builds, swapped>>
    BY <1>3, <1>4 DEF MetadataQuery
  <2> QED
    BY <1>2, <2>1, SwapKept
<1>5. ASSUME NEW t \in Thread, NEW failed \in BOOLEAN, MetadataRead(t, failed) PROVE SwapInv'
  <2>1. place[Watcher] # "swap" /\ UNCHANGED <<place, fields, builds, swapped>>
    BY <1>3, <1>5 DEF MetadataRead
  <2> QED
    BY <1>2, <2>1, SwapKept
<1>6. CASE BuildEnds(Loop)
  <2>1. /\ \A f \in Field : fields'[f] = NewObjects' /\ NewObjects'.build = builds'
        /\ swapped' = 0 /\ place'[Watcher] # "swap" /\ builds' \in Nat
    BY <1>2, <1>6, StartBuildStep DEF SwapInv, NewObjects
  <2> QED
    BY <2>1, OrderFacts DEF SwapInv
<1>7. CASE BuildEnds(Watcher)
  <2>1. /\ UNCHANGED <<fields, builds, swapped>> /\ metaLeft' = 0
        /\ place[Watcher] # "swap"
    BY <1>7 DEF BuildEnds, Enter
  <2> QED
    BY <1>2, <2>1, SwapKept
<1>8. CASE FlushCache
  <2>1. /\ place[Watcher] = "flush" /\ place'[Watcher] = "metadata"
        /\ builds' = builds + 1 /\ UNCHANGED <<fields, swapped>>
    BY <1>2, <1>8 DEF FlushCache, Enter
  <2> QED
    BY <1>2, <2>1, SwapKept
<1>9. CASE AssignField
  BY <1>9, SwapAssign
<1>10. ASSUME NEW t \in Thread, ExecutorStep(t) PROVE SwapInv'
  BY <1>1, <1>10 DEF ExecutorStep, runtimeVars
<1>11. CASE FileStep \/ UNCHANGED allVars
  BY <1>1, <1>11 DEF FileStep, allVars, runtimeVars
<1>12. CASE StartWatcher
  <2>1. place[Watcher] = "off" /\ place'[Watcher] = "sleep"
    BY <1>12 DEF StartWatcher, At, PlaceInv
  <2> QED
    BY <1>1, <1>12, <2>1 DEF StartWatcher
<1>13. CASE CheckOnce \/ ReopenReturns \/ RefreshRaises
  BY <1>1, <1>2, <1>13 DEF CheckOnce, ReopenReturns, RefreshRaises, Enter
<1>14. (\E k \in Key : RunCached(k)) \/ RunUncached \/ LoopReturns \/ CacheStore \/ BuildAgent
         \/ CaptureField
         => SwapInv'
  BY <1>1, <1>2 DEF RunCached, RunUncached, LoopReturns, CacheStore, BuildAgent, CaptureField, Enter
<1>15. (\E failed \in BOOLEAN : LoopRead(failed)) \/ (\E k \in Key : CacheExpire(k))
         => SwapInv'
  BY <1>1 DEF LoopRead, CacheExpire
<1> QED
  BY <1>4, <1>5, <1>6, <1>7, <1>8, <1>9, <1>10, <1>11, <1>12, <1>13, <1>14, <1>15, StepKinds

\* In the order of the assignments the builds only go down.
LEMMA FieldsInOrder ==
  ASSUME DataInv, SwapInv
  PROVE  \A i, j \in DOMAIN SwapOrder :
           i < j => fields[SwapOrder[j]].build <= fields[SwapOrder[i]].build
<1> SUFFICES ASSUME NEW i \in DOMAIN SwapOrder, NEW j \in DOMAIN SwapOrder, i < j
             PROVE  fields[SwapOrder[j]].build <= fields[SwapOrder[i]].build
  OBVIOUS
<1>1. i \in 1..6 /\ j \in 1..6 /\ swapped \in 0..5 /\ SwapOrder[i] \in Field /\ SwapOrder[j] \in Field
  BY OrderFacts DEF DataInv
<1>2. fields[SwapOrder[i]].build \in Nat /\ fields[SwapOrder[j]].build \in Nat
  BY <1>1 DEF DataInv, Object
<1>3. CASE i <= swapped
  BY <1>1, <1>2, <1>3 DEF SwapInv, NewObjects
<1>4. CASE i > swapped
  <2>1. j > swapped
    BY <1>1, <1>4
  <2> QED
    BY <1>2, <1>4, <2>1 DEF SwapInv
<1> QED
  BY <1>1, <1>3, <1>4

\* No step makes the orchestrator's objects older, or the agent newer than them; the
\* index is read after the retriever and the orchestrator's was never behind it.
LEMMA CaptureNext ==
  DataInv /\ PlaceInv /\ SwapInv /\ CaptureInv /\ [RuntimeNext]_allVars => CaptureInv'
<1> SUFFICES ASSUME DataInv, PlaceInv, SwapInv, CaptureInv, [RuntimeNext]_allVars
             PROVE  CaptureInv'
  OBVIOUS
<1>0. Loop \in Thread /\ place \in [Thread -> LoopPlaces \cup WatcherPlaces] /\ Loop # Watcher
  BY RuntimeAssumption DEF PlaceInv
<1>1. \A f \in AgentField : /\ f \in Field
                            /\ agent[f].build \in Nat /\ fields[f].build \in Nat
                            /\ fields'[f].build \in Nat /\ fields[f].build <= fields'[f].build
  <2>1. NewObjects.build = builds /\ builds \in Nat /\ \A f \in Field : fields[f].build \in Nat
    BY DEF NewObjects, DataInv, Object
  <2>2. \A f \in Field : fields'[f] = fields[f] \/ fields'[f] = NewObjects
    BY FieldSteps, AssignStep, StartBuildStep, OrderFacts
  <2>3. \A f \in Field : fields[f].build <= fields'[f].build /\ fields'[f].build \in Nat
    BY <2>1, <2>2 DEF SwapInv
  <2>4. \A f \in AgentField : f \in Field /\ agent[f].build \in Nat
    BY OrderFacts DEF DataInv, Object
  <2> QED
    BY <2>1, <2>3, <2>4
<1>2. \/ UNCHANGED agentVars /\ (place[Loop] = "agent" => place'[Loop] = "agent")
      \/ BuildAgent \/ CaptureField
  <2>1. CASE RuntimeNext
    <3>1. CaptureField \/ BuildAgent \/ UNCHANGED agentVars
      BY <2>1, StepKinds
      DEF ExecutorStep, MetadataQuery, MetadataRead, BuildEnds, StartWatcher, CheckOnce,
          ReopenReturns, FlushCache, RefreshRaises, AssignField, RunCached, RunUncached, LoopRead,
          LoopReturns, CacheStore, CacheExpire, FileStep, runtimeVars, loopVars
    <3>2. place[Loop] = "agent" => CaptureField \/ place'[Loop] = "agent"
      BY <1>0, <2>1, StepKinds
      DEF ExecutorStep, MetadataQuery, MetadataRead, BuildEnds, StartWatcher, CheckOnce,
          ReopenReturns, FlushCache, RefreshRaises, AssignField, RunCached, RunUncached, LoopRead,
          LoopReturns, CacheStore, CacheExpire, BuildAgent, FileStep, runtimeVars, Enter
    <3> QED
      BY <3>1, <3>2
  <2> QED
    BY <2>1 DEF allVars, runtimeVars, loopVars
<1>3. ASSUME UNCHANGED agentVars, place[Loop] = "agent" => place'[Loop] = "agent"
      PROVE  CaptureInv'
  BY <1>1, <1>3 DEF CaptureInv, agentVars
<1>4. CASE BuildAgent
  <2>1. place'[Loop] = "agent" /\ captured' = 0 /\ UNCHANGED <<agent, fields>>
    BY <1>0, <1>4 DEF BuildAgent, Enter
  <2> QED
    BY <2>1 DEF CaptureInv
<1>5. CASE CaptureField
  <2> DEFINE f == CaptureOrder[captured + 1]
  <2>1. /\ captured \in 0..2 /\ f \in AgentField /\ UNCHANGED fields
        /\ place[Loop] = "agent" /\ agent \in [AgentField -> Object]
    BY <1>5, CaptureFacts DEF CaptureField, DataInv
  <2>2. /\ agent' = [agent EXCEPT ![f] = fields[f]]
        /\ \/ captured = 2 /\ captured' = captured
           \/ captured # 2 /\ captured' = captured + 1 /\ UNCHANGED place
    BY <1>5, <2>1, CaptureFacts DEF CaptureField
  <2>3. \A g \in AgentField : agent'[g] = IF g = f THEN fields[g] ELSE agent[g]
    BY <2>1, <2>2
  <2>4. \A g \in AgentField : agent'[g].build <= fields'[g].build
    BY <1>1, <2>1, <2>3 DEF CaptureInv
  <2>5. fields["_retriever"].build <= fields["_index"].build
    <3>1. 4 \in DOMAIN SwapOrder /\ 5 \in DOMAIN SwapOrder /\ 4 < 5
      BY OrderFacts
    <3> QED
      BY <3>1, OrderFacts, FieldsInOrder
  <2>6. CASE captured = 0
    BY <2>1, <2>2, <2>4, <2>6 DEF CaptureInv
  <2>7. CASE captured = 1
    <3>1. f = "_index" /\ agent'["_index"] = fields["_index"]
          /\ agent'["_retriever"] = agent["_retriever"]
      BY <2>3, <2>7, CaptureFacts
    <3>2. agent["_retriever"].build <= fields["_retriever"].build
      BY CaptureFacts DEF CaptureInv
    <3>3. agent'["_retriever"].build <= agent'["_index"].build
      BY <1>1, <2>5, <3>1, <3>2, CaptureFacts
    <3> QED
      BY <2>4, <3>3 DEF CaptureInv
  <2>8. CASE captured = 2
    <3>1. f = "_entities" /\ agent'["_index"] = agent["_index"]
          /\ agent'["_retriever"] = agent["_retriever"]
      BY <2>3, <2>8, CaptureFacts
    <3> QED
      BY <2>4, <2>8, <3>1 DEF CaptureInv
  <2> QED
    BY <2>1, <2>6, <2>7, <2>8
<1> QED
  BY <1>2, <1>3, <1>4, <1>5

-----------------------------------------------------------------------------
(* Versions of the file                                                      *)

\* Every connection of __init__ is to the file the model begins with.
LEMMA FreshInit == RuntimeInit => VersionInv /\ FlushInv /\ StaleInv
<1> SUFFICES ASSUME RuntimeInit PROVE VersionInv /\ FlushInv /\ StaleInv
  OBVIOUS
<1>1. /\ place[Watcher] = "off" /\ place[Loop] = "metadata"
      /\ fingerprint = 0 /\ flushed.file = 0 /\ fileVersion = 1 /\ refreshed = FALSE
      /\ \A k \in Key : cache[k] = 0
  BY RuntimeAssumption DEF RuntimeInit, Init, At, Missing, NoEntry
<1>2. \A c \in Live : opened[c] = 1
  BY SizeAssumption DEF RuntimeInit, Init, Live, Conns
<1>3. VersionInv
  BY <1>1 DEF VersionInv
<1>4. FlushInv
  BY <1>1, <1>2 DEF FlushInv, Rebuilt
<1>5. StaleInv
  BY <1>1 DEF StaleInv, Stale, InFlight
<1> QED
  BY <1>3, <1>4, <1>5

\* The steps that open and close nothing: all but those of reopen.
LEMMA OutsideReopen ==
  ASSUME LeaseInv, PlaceInv, [RuntimeNext]_allVars
  PROVE  \/ UNCHANGED <<opened, closed, drainedAt>>
         \/ PoolStep(Watcher) /\ ExecutorStep(Watcher) /\ place[Watcher] = "reopen"
<1> USE DEF poolVars
<1>1. ASSUME NEW t \in Thread, ExecutorStep(t)
      PROVE  \/ UNCHANGED <<opened, closed, drainedAt>>
             \/ PoolStep(Watcher) /\ ExecutorStep(Watcher) /\ place[Watcher] = "reopen"
  <2>1. PoolStep(t)
    BY <1>1 DEF ExecutorStep
  <2> QED
    BY <1>1, <2>1, ExecutorSteps
<1>2. (\E t \in Thread : MetadataQuery(t)) \/ (\E k \in Key : RunCached(k)) \/ RunUncached
        => UNCHANGED <<opened, closed, drainedAt>>
  BY DEF MetadataQuery, RunCached, RunUncached, CallExecute
<1>3. (\E t \in Thread, failed \in BOOLEAN : MetadataRead(t, failed))
        \/ (\E failed \in BOOLEAN : LoopRead(failed)) \/ CheckOnce
        => UNCHANGED <<opened, closed, drainedAt>>
  BY DEF MetadataRead, LoopRead, CheckOnce, QueryEnds, CallReopen
<1>4. (\E t \in Thread : BuildEnds(t)) \/ StartWatcher \/ ReopenReturns \/ FlushCache
        \/ RefreshRaises \/ AssignField \/ LoopReturns \/ CacheStore \/ BuildAgent \/ CaptureField
        \/ (\E k \in Key : CacheExpire(k)) \/ UNCHANGED allVars
        => UNCHANGED <<opened, closed, drainedAt>>
  BY DEF BuildEnds, StartWatcher, ReopenReturns, FlushCache, RefreshRaises, AssignField,
         LoopReturns, CacheStore, BuildAgent, CaptureField, CacheExpire, vars, allVars
<1>5. CASE FileStep
  BY <1>5 DEF FileStep, Environment, ReplaceFile, RemoveFile, RestoreFile
<1> QED
  BY <1>1, <1>2, <1>3, <1>4, <1>5, StepKinds

\* The file's version only grows.
LEMMA FileGrows ==
  ASSUME LeaseInv, [RuntimeNext]_allVars
  PROVE  fileVersion \in Nat /\ fileVersion' \in Nat /\ fileVersion <= fileVersion'
<1>1. fileVersion \in Nat
  BY DEF LeaseInv, TypeOK
<1>2. [Next]_vars
  BY PoolSteps
<1>3. fileVersion' = fileVersion \/ fileVersion' = fileVersion + 1
  <2>1. CASE Environment
    BY <2>1 DEF Environment, ReplaceFile, RemoveFile, RestoreFile
  <2>2. ASSUME NEW t \in Thread, Call(t) \/ Continue(t) PROVE UNCHANGED fileVars
    BY <2>2 DEF Call, Continue, PoolStep, CallExecute, CallReopen, CallClose, QueryEnds,
         PoolGet, PoolPut, TakeLock, DrainOne, DrainEnds, RebuildRaises, FileFound, MakeConn,
         RefillPut
  <2> QED
    BY <1>2, <2>1, <2>2 DEF Next, vars, fileVars
<1> QED
  BY <1>1, <1>3

\* The fingerprint and the flush: which steps set them.
LEMMA FingerprintSteps ==
  ASSUME [RuntimeNext]_allVars
  PROVE  /\ UNCHANGED fingerprint \/ CheckOnce \/ StartWatcher
         /\ UNCHANGED flushed \/ FlushCache
         /\ UNCHANGED refreshed \/ CheckOnce \/ AssignField
<1>1. CASE RuntimeNext
  BY <1>1, StepKinds
  DEF ExecutorStep, MetadataQuery, MetadataRead, BuildEnds, StartWatcher, CheckOnce,
      ReopenReturns, FlushCache, RefreshRaises, AssignField, RunCached, RunUncached, LoopRead,
      LoopReturns, CacheStore, CacheExpire, BuildAgent, CaptureField, FileStep, runtimeVars,
      watcherVars
<1>2. CASE UNCHANGED allVars
  BY <1>2 DEF allVars, runtimeVars, watcherVars
<1> QED
  BY <1>1, <1>2

\* The watcher's thread, seen from outside: where a step can take it, and what its
\* call may then be at.
LEMMA WatcherSteps ==
  ASSUME LeaseInv, PlaceInv, [RuntimeNext]_allVars
  PROVE  \/ place'[Watcher] = place[Watcher] /\ pc'[Watcher] = pc[Watcher]
         \/ place'[Watcher] = place[Watcher] /\ ExecutorStep(Watcher)
         \/ place'[Watcher] = "metadata" /\ place[Watcher] = "metadata"
         \/ StartWatcher \/ CheckOnce \/ ReopenReturns \/ FlushCache \/ BuildEnds(Watcher)
         \/ RefreshRaises \/ AssignField
<1> DEFINE Rest == place'[Watcher] = place[Watcher] /\ pc'[Watcher] = pc[Watcher]
           Build == place'[Watcher] = "metadata" /\ place[Watcher] = "metadata"
<1> USE RuntimeAssumption
<1>0. pc \in [Thread -> Places] /\ place \in [Thread -> LoopPlaces \cup WatcherPlaces]
  BY DEF LeaseInv, TypeOK, PlaceInv
<1>1. ExecutorStep(Loop) => Rest
  <2>1. PoolStep(Loop) => pc'[Watcher] = pc[Watcher]
    BY ExecutorSteps
  <2> QED
    BY <2>1 DEF ExecutorStep, runtimeVars
<1>2. MetadataQuery(Loop) \/ (\E failed \in BOOLEAN : MetadataRead(Loop, failed)) => Rest
  BY <1>0 DEF MetadataQuery, MetadataRead, CallExecute, QueryEnds, Move
<1>3. MetadataQuery(Watcher) \/ (\E failed \in BOOLEAN : MetadataRead(Watcher, failed)) => Build
  BY DEF MetadataQuery, MetadataRead
<1>4. (\E k \in Key : RunCached(k)) \/ RunUncached \/ (\E failed \in BOOLEAN : LoopRead(failed))
        => Rest
  BY <1>0 DEF RunCached, RunUncached, LoopRead, CallExecute, QueryEnds, Move, Enter
<1>5. BuildEnds(Loop) \/ LoopReturns \/ CacheStore \/ BuildAgent \/ CaptureField
        \/ (\E k \in Key : CacheExpire(k))
        => Rest
  BY <1>0
  DEF BuildEnds, LoopReturns, CacheStore, BuildAgent, CaptureField, CacheExpire, Enter, vars
<1>6. FileStep \/ UNCHANGED allVars \/ ExecutorStep(Watcher) => place'[Watcher] = place[Watcher]
  BY DEF FileStep, ExecutorStep, allVars, runtimeVars
<1>7. FileStep \/ UNCHANGED allVars => UNCHANGED pc
  BY DEF FileStep, Environment, ReplaceFile, RemoveFile, RestoreFile, allVars, vars
<1>8. FileStep \/ UNCHANGED allVars => Rest
  BY <1>6, <1>7
<1>9. CASE UNCHANGED allVars
  BY <1>8, <1>9
<1>10. CASE RuntimeNext
  <2>1. \A t \in Thread : t = Loop \/ t = Watcher
    OBVIOUS
  <2>2. ASSUME NEW t \in Thread, ExecutorStep(t)
        PROVE  \/ Rest
               \/ place'[Watcher] = place[Watcher] /\ ExecutorStep(Watcher)
    BY <1>1, <1>6, <2>1, <2>2
  <2>3. ASSUME NEW t \in Thread, MetadataQuery(t) \/ \E failed \in BOOLEAN : MetadataRead(t, failed)
        PROVE  Rest \/ Build
    BY <1>2, <1>3, <2>1, <2>3
  <2>4. ASSUME NEW t \in Thread, BuildEnds(t) PROVE Rest \/ BuildEnds(Watcher)
    BY <1>5, <2>1, <2>4
  <2> HIDE DEF Rest, Build
  <2>5. \/ Rest \/ Build
        \/ place'[Watcher] = place[Watcher] /\ ExecutorStep(Watcher)
        \/ StartWatcher \/ CheckOnce \/ ReopenReturns \/ FlushCache \/ BuildEnds(Watcher)
        \/ RefreshRaises \/ AssignField
    BY ONLY <1>4, <1>5, <1>8, <1>10, <2>2, <2>3, <2>4, StepKinds
  <2> QED
    BY <2>5 DEF Rest, Build
<1> QED
  BY <1>9, <1>10

\* No step sees a version that is still to come, and reopen hands the pool on with
\* nothing older than the fingerprint among what it opened.
LEMMA VersionNext ==
  LeaseInv /\ PlaceInv /\ DataInv /\ VersionInv /\ [RuntimeNext]_allVars => VersionInv'
<1> SUFFICES ASSUME LeaseInv, PlaceInv, DataInv, VersionInv, [RuntimeNext]_allVars
             PROVE  VersionInv'
  OBVIOUS
<1> DEFINE Refilled == \/ place[Watcher] = "flush"
                       \/ /\ place[Watcher] = "reopen"
                          /\ pc[Watcher] \notin {"lockReopen", "drain"}
<1>0. /\ pc \in [Thread -> Places] /\ place \in [Thread -> LoopPlaces \cup WatcherPlaces]
      /\ Watcher \in Thread /\ Watcher # Loop
  BY RuntimeAssumption DEF LeaseInv, TypeOK, PlaceInv
<1>1. fingerprint' \in Nat /\ fingerprint' <= fileVersion'
  <2>1. fingerprint' \in {fingerprint, Fingerprint}
    BY FingerprintSteps DEF CheckOnce, StartWatcher
  <2>2. Fingerprint \in Nat /\ Fingerprint <= fileVersion
    BY FileGrows DEF Fingerprint, Missing
  <2>3. fingerprint \in Nat /\ fingerprint <= fileVersion
    BY DEF DataInv, VersionInv
  <2> QED
    BY <2>1, <2>2, <2>3, FileGrows
<1>2. flushed'.file <= fileVersion'
  <2>1. flushed.file \in Nat /\ fingerprint \in Nat
    BY DEF DataInv
  <2>2. flushed'.file = flushed.file \/ flushed'.file = fingerprint
    BY FingerprintSteps DEF FlushCache
  <2> QED
    BY <2>1, <2>2, FileGrows DEF VersionInv
<1>3. ASSUME Refilled' PROVE FreshSince(fingerprint)'
  <2>1. Refilled => FreshSince(fingerprint)
    BY DEF VersionInv
  <2>2. ASSUME Refilled, UNCHANGED <<opened, drainedAt, fingerprint>>
        PROVE  FreshSince(fingerprint)'
    BY <2>1, <2>2 DEF FreshSince, Conns
  <2>3. CASE ExecutorStep(Watcher)
    <3>1. UNCHANGED <<place, fingerprint>> /\ PoolStep(Watcher)
      BY <2>3 DEF ExecutorStep, runtimeVars, watcherVars
    <3>2. place[Watcher] \in {"flush", "reopen"}
      BY <1>3, <3>1
    <3>3. pc[Watcher] \notin Executing
      BY <3>2 DEF PlaceInv, Executing, Rebuilding
    <3>4. \/ pc'[Watcher] = "drain"
          \/ \A v \in Nat : FreshSince(v)'
          \/ /\ pc[Watcher] \notin {"lockReopen", "drain"}
             /\ \A v \in Nat : v <= fileVersion /\ FreshSince(v) => FreshSince(v)'
      BY <1>0, <3>1, <3>3, ExecutorSteps DEF Executing
    <3>5. place[Watcher] = "reopen"
      BY <1>0, <3>1, <3>3, ExecutorSteps DEF Executing
    <3>6. pc'[Watcher] # "drain"
      BY <1>3, <3>1, <3>5
    <3>7. FreshSince(fingerprint) /\ fingerprint <= fileVersion /\ fingerprint \in Nat
            => FreshSince(fingerprint)' \/ pc[Watcher] \in {"lockReopen", "drain"}
      BY <3>1, <3>4, <3>6 DEF FreshSince
    <3>8. (\A v \in Nat : FreshSince(v)') => FreshSince(fingerprint)'
      BY <1>1 DEF FreshSince
    <3> QED
      BY <2>1, <3>4, <3>5, <3>6, <3>7, <3>8 DEF VersionInv, DataInv
  <2>4. CASE ~ExecutorStep(Watcher)
    <3>1. UNCHANGED <<opened, drainedAt>>
      BY <2>4, OutsideReopen
    <3>2. CASE /\ place'[Watcher] = place[Watcher] /\ pc'[Watcher] = pc[Watcher]
               /\ ~StartWatcher /\ ~CheckOnce
      BY <1>3, <2>2, <3>1, <3>2, FingerprintSteps
    <3>3. CASE ReopenReturns
      <4>1. Refilled /\ UNCHANGED fingerprint
        BY <3>3 DEF ReopenReturns, Enter, watcherVars
      <4> QED
        BY <2>2, <3>1, <4>1
    <3>4. CASE AssignField
      <4>1. place'[Watcher] \in {"swap", "sleep"}
        BY <1>0, <3>4 DEF AssignField, Enter
      <4> QED
        BY <1>3, <4>1
    <3>5. CASE StartWatcher \/ CheckOnce \/ FlushCache \/ BuildEnds(Watcher) \/ RefreshRaises
      <4>1. \/ place'[Watcher] \in {"sleep", "metadata", "swap"}
            \/ place'[Watcher] = "reopen" /\ pc'[Watcher] = "lockReopen"
        BY <1>0, <3>5 DEF StartWatcher, CheckOnce, FlushCache, BuildEnds, RefreshRaises, Enter,
             At, CallReopen, Move
      <4> QED
        BY <1>3, <4>1
    <3>6. CASE place'[Watcher] = "metadata"
      BY <1>3, <3>6
    <3> QED
      BY <2>4, <3>2, <3>3, <3>4, <3>5, <3>6, WatcherSteps
  <2> QED
    BY <2>3, <2>4
<1> QED
  BY <1>1, <1>2, <1>3 DEF VersionInv

\* Where the watcher's own steps begin and end.
LEMMA WatcherEdges ==
  ASSUME PlaceInv
  PROVE  /\ StartWatcher => place[Watcher] = "off" /\ place'[Watcher] = "sleep"
         /\ CheckOnce => place[Watcher] = "sleep" /\ place'[Watcher] = "reopen"
         /\ ReopenReturns => place[Watcher] = "reopen" /\ place'[Watcher] \in {"sleep", "flush"}
         /\ FlushCache => place[Watcher] = "flush" /\ place'[Watcher] = "metadata"
         /\ BuildEnds(Watcher) => place[Watcher] = "metadata" /\ place'[Watcher] = "swap"
         /\ RefreshRaises => place[Watcher] = "metadata" /\ place'[Watcher] = "sleep"
         /\ AssignField => place[Watcher] = "swap" /\ place'[Watcher] \in {"swap", "sleep"}
<1> USE RuntimeAssumption
<1>1. Watcher \in DOMAIN place /\ Watcher # Loop
  BY DEF PlaceInv
<1>2. StartWatcher => place[Watcher] = "off" /\ place'[Watcher] = "sleep"
  BY <1>1 DEF StartWatcher, At, PlaceInv
<1> QED
  BY <1>1, <1>2 DEF CheckOnce, ReopenReturns, FlushCache, BuildEnds, RefreshRaises, AssignField,
     Enter

\* After a last assignment every field holds the new objects.
LEMMA AllAssigned ==
  ASSUME DataInv, PlaceInv, SwapInv, AssignField, swapped + 1 = 6
  PROVE  \A f \in Field : fields'[f] = NewObjects
<1>1. \A i \in DOMAIN SwapOrder : fields'[SwapOrder[i]] = NewObjects
  <2>1. \A i \in DOMAIN SwapOrder : i = swapped + 1 \/ i <= swapped
    BY OrderFacts DEF DataInv
  <2> QED
    BY <2>1, AssignStep DEF SwapInv
<1> QED
  BY <1>1, OrderFacts

\* If no connection had survived the drain, nothing older than the file the refresh
\* was for is open from then on, or gets into what the refresh builds.
LEMMA FlushNext ==
  LeaseInv /\ PlaceInv /\ DataInv /\ SwapInv /\ VersionInv /\ FlushInv /\ [RuntimeNext]_allVars
    => FlushInv'
<1> SUFFICES ASSUME LeaseInv, PlaceInv, DataInv, SwapInv, VersionInv, FlushInv,
                    [RuntimeNext]_allVars
             PROVE  FlushInv'
  OBVIOUS
<1>0. /\ flushed.file \in Nat /\ flushed.file <= fileVersion /\ fingerprint \in Nat
      /\ refreshed \in BOOLEAN /\ opened \in Seq(Nat) /\ flushed.clean \in BOOLEAN
  BY DEF DataInv, VersionInv, LeaseInv, TypeOK
<1>1. \/ place'[Watcher] = place[Watcher]
      \/ StartWatcher \/ CheckOnce \/ ReopenReturns \/ FlushCache \/ BuildEnds(Watcher)
      \/ RefreshRaises \/ AssignField
  BY WatcherSteps
<1>2. CheckOnce => ~refreshed'
  BY DEF CheckOnce
<1>3. /\ FlushCache => flushed' = [file |-> fingerprint, clean |-> Survivors = {}]
      /\ FlushCache => metaRead' = {} /\ UNCHANGED <<fingerprint, refreshed, opened, closed>>
  BY DEF FlushCache, vars, poolVars
<1>4. AssignField => (refreshed' <=> swapped + 1 = 6) /\ (refreshed' => place'[Watcher] = "sleep")
  <2>1. AssignField => ~refreshed
    BY WatcherEdges DEF FlushInv
  <2> QED
    BY <2>1, AssignStep
<1>5. refreshed' => place'[Watcher] = "sleep"
  BY <1>1, <1>2, <1>4, FingerprintSteps, WatcherEdges DEF FlushInv
<1>6. Rebuilt' => FlushCache \/ Rebuilt
  BY <1>1, <1>2, <1>4, FingerprintSteps, WatcherEdges DEF Rebuilt
<1>7. Rebuilt' => flushed'.file = fingerprint'
  <2>1. CASE FlushCache
    BY <1>3, <2>1
  <2>2. CASE ~FlushCache
    <3>1. Rebuilt' => Rebuilt /\ ~CheckOnce /\ ~StartWatcher
      <4>1. CheckOnce => ~Rebuilt'
        BY <1>2, WatcherEdges DEF Rebuilt
      <4>2. StartWatcher => ~Rebuilt'
        <5>1. StartWatcher => ~refreshed'
          BY <1>0, WatcherEdges DEF FlushInv, StartWatcher
        <5> QED
          BY <5>1, WatcherEdges DEF Rebuilt
      <4> QED
        BY <1>6, <2>2, <4>1, <4>2
    <3> QED
      BY <2>2, <3>1, FingerprintSteps DEF FlushInv
  <2> QED
    BY <2>1, <2>2
<1>8. ASSUME flushed'.clean, ~FlushCache
      PROVE  flushed' = flushed /\ \A c \in Live : opened[c] >= flushed.file
  BY <1>8, FingerprintSteps DEF FlushInv
<1>9. ASSUME flushed'.clean PROVE \A c \in Live' : opened'[c] >= flushed'.file
  <2>1. CASE FlushCache
    <3>1. FreshSince(fingerprint)
      BY <2>1, WatcherEdges DEF VersionInv
    <3>4. Survivors = {}
      <4>1. flushed'.clean = (Survivors = {})
        BY <1>3, <2>1
      <4> QED
        BY <1>9, <4>1
    <3>5. \A c \in Live : ~(c <= drainedAt)
      BY <3>4 DEF Survivors
    <3>2. \A c \in Live : c > drainedAt /\ c \in Conns
      <4>1. Len(opened) \in Nat /\ drainedAt \in Nat
        BY <1>0 DEF LeaseInv, TypeOK
      <4> QED
        BY <3>5, <4>1 DEF Live, Conns
    <3>3. Live' = Live /\ opened' = opened /\ flushed'.file = fingerprint
      BY <1>3, <2>1 DEF Live, Conns
    <3> QED
      BY <3>1, <3>2, <3>3 DEF FreshSince
  <2>2. CASE ~FlushCache /\ UNCHANGED <<opened, closed, drainedAt>>
    BY <1>8, <1>9, <2>2 DEF Live, Conns
  <2>3. CASE ~FlushCache /\ PoolStep(Watcher) /\ place[Watcher] = "reopen"
    <3>1. pc[Watcher] \notin Executing
      BY <2>3 DEF PlaceInv, Executing, Rebuilding
    <3>2. \A c \in Live' : (c \in Live /\ opened'[c] = opened[c]) \/ opened'[c] = fileVersion
      BY <2>3, <3>1, RuntimeAssumption, ExecutorSteps DEF Executing
    <3> QED
      BY <1>0, <1>8, <1>9, <2>3, <3>2 DEF LeaseInv, TypeOK
  <2> QED
    BY <2>1, <2>2, <2>3, OutsideReopen, WatcherEdges
<1>10. ASSUME flushed'.clean, place'[Watcher] \in {"metadata", "swap"}
       PROVE  \A v \in metaRead' : v >= flushed'.file
  <2>1. CASE FlushCache
    BY <1>3, <2>1
  <2>2. CASE ~FlushCache
    <3>1. /\ flushed' = flushed /\ place[Watcher] \in {"metadata", "swap"}
          /\ \A v \in metaRead : v >= flushed.file
      BY <1>1, <1>8, <1>10, <2>2, WatcherEdges DEF FlushInv
    <3>2. metaRead' = metaRead \/ \E failed \in BOOLEAN : MetadataRead(Watcher, failed)
      <4>1. \A t \in Thread, failed \in BOOLEAN : MetadataRead(t, failed) => t = Watcher
        BY <3>1, RuntimeAssumption DEF MetadataRead, PlaceInv
      <4>2. CASE RuntimeNext
        BY <2>2, <4>1, <4>2, StepKinds
        DEF ExecutorStep, MetadataQuery, BuildEnds, StartWatcher, CheckOnce,
            ReopenReturns, RefreshRaises, AssignField, RunCached, RunUncached, LoopRead,
            LoopReturns, CacheStore, CacheExpire, BuildAgent, CaptureField, FileStep,
            runtimeVars, buildVars
      <4> QED
        BY <4>2 DEF allVars, runtimeVars, buildVars
    <3>3. ASSUME NEW failed \in BOOLEAN, MetadataRead(Watcher, failed)
          PROVE  \A v \in metaRead' : v >= flushed.file
      <4>1. held[Watcher] \in Live
        BY <3>3, ReadsALiveOne, RuntimeAssumption DEF MetadataRead, QueryEnds, Move
      <4>2. opened[held[Watcher]] >= flushed.file
        BY <1>8, <1>10, <2>2, <4>1
      <4>3. metaRead' = metaRead \/ metaRead' = metaRead \cup {opened[held[Watcher]]}
        BY <3>3 DEF MetadataRead
      <4> QED
        BY ONLY <3>1, <4>2, <4>3
    <3> QED
      BY <3>1, <3>2, <3>3
  <2> QED
    BY <2>1, <2>2
<1>11. ASSUME flushed'.clean, refreshed'
       PROVE  \A f \in Field : \A v \in fields'[f].read : v >= flushed'.file
  <2>1. ~FlushCache /\ flushed' = flushed
    BY <1>5, <1>11, WatcherEdges, FingerprintSteps
  <2>2. CASE AssignField
    <3>1. \A f \in Field : fields'[f].read = metaRead
      BY <1>4, <1>11, <2>2, AllAssigned DEF NewObjects
    <3> QED
      BY <1>11, <2>1, <2>2, <3>1, WatcherEdges DEF FlushInv
  <2>3. CASE ~AssignField
    <3>1. refreshed
      BY <1>2, <1>11, <2>3, FingerprintSteps
    <3>2. ~BuildEnds(Loop)
      BY <3>1 DEF BuildEnds, Enter, FlushInv, PlaceInv
    <3> QED
      BY <1>11, <2>1, <2>3, <3>1, <3>2, FieldSteps DEF FlushInv
  <2> QED
    BY <2>2, <2>3
<1> QED
  BY <1>5, <1>7, <1>9, <1>10, <1>11 DEF FlushInv

-----------------------------------------------------------------------------
(* The cache                                                                 *)

\* A query ends with rows no older than the last clean flush; only rows that were
\* read before it can be stale, and the loop stores those of one query at most.
LEMMA StaleNext ==
  LeaseInv /\ PlaceInv /\ DataInv /\ FlushInv /\ StaleInv /\ [RuntimeNext]_allVars => StaleInv'
<1> SUFFICES ASSUME LeaseInv, PlaceInv, DataInv, FlushInv, StaleInv, [RuntimeNext]_allVars
             PROVE  StaleInv'
  OBVIOUS
<1> USE RuntimeAssumption DEF buildVars, loopVars, watcherVars
<1>0. /\ pc \in [Thread -> Places] /\ place \in [Thread -> LoopPlaces \cup WatcherPlaces]
      /\ cache \in [Key -> Nat] /\ flushed.file \in Nat
      /\ Loop \in Thread /\ Watcher \in Thread /\ Loop # Watcher
  BY DEF LeaseInv, TypeOK, PlaceInv, DataInv
<1>1. ASSUME UNCHANGED <<cache, flushed, lread>>, InFlight' => InFlight
      PROVE  StaleInv'
  BY <1>1 DEF StaleInv, Stale
<1>2. ASSUME UNCHANGED <<cache, flushed, lread>>, UNCHANGED place,
             pc'[Loop] = pc[Loop] \/ pc'[Loop] \notin {"put", "idle"} \/ pc[Loop] \in {"put", "idle"}
      PROVE  StaleInv'
  BY <1>1, <1>2 DEF InFlight
<1>3. ASSUME NEW t \in Thread, ExecutorStep(t) PROVE StaleInv'
  <2>1. PoolStep(t) /\ UNCHANGED <<cache, flushed, lread, place>>
    BY <1>3 DEF ExecutorStep, runtimeVars
  <2>2. pc'[Loop] = pc[Loop] \/ pc'[Loop] \notin {"put", "idle"} \/ pc[Loop] \in {"put", "idle"}
    BY <1>0, <2>1, ExecutorSteps
  <2> QED
    BY <1>2, <2>1, <2>2
<1>4. ASSUME NEW t \in Thread, MetadataQuery(t) \/ \E failed \in BOOLEAN : MetadataRead(t, failed)
      PROVE  StaleInv'
  <2>1. place[t] = "metadata" /\ UNCHANGED <<cache, flushed, lread, place>>
    BY <1>4 DEF MetadataQuery, MetadataRead
  <2>2. CASE t = Loop
    BY <1>1, <2>1, <2>2 DEF InFlight
  <2>3. CASE t # Loop
    <3>1. pc'[Loop] = pc[Loop]
      BY <1>0, <1>4, <2>3
      DEF MetadataQuery, MetadataRead, CallExecute, QueryEnds, Move
    <3> QED
      BY <1>2, <2>1, <3>1
  <2> QED
    BY <2>2, <2>3
<1>5. ASSUME NEW t \in Thread, BuildEnds(t) PROVE StaleInv'
  <2>1. place'[Loop] = place[Loop] \/ place'[Loop] = "watch"
    BY <1>0, <1>5 DEF BuildEnds, Enter
  <2> QED
    BY <1>1, <1>5, <2>1 DEF BuildEnds, InFlight, vars
<1>6. CASE StartWatcher
  <2>1. place'[Loop] = "idle"
    BY <1>0, <1>6 DEF StartWatcher, At
  <2> QED
    BY <1>1, <1>6, <2>1 DEF StartWatcher, InFlight
<1>7. CASE CheckOnce
  <2>1. place'[Loop] = place[Loop] /\ pc'[Loop] = pc[Loop]
    BY <1>0, <1>7 DEF CheckOnce, Enter, CallReopen, Move
  <2> QED
    BY <1>1, <1>7, <2>1 DEF CheckOnce, InFlight
<1>8. CASE ReopenReturns \/ RefreshRaises \/ AssignField
  <2>1. place'[Loop] = place[Loop] /\ pc' = pc
    BY <1>0, <1>8 DEF ReopenReturns, RefreshRaises, AssignField, Enter, vars
  <2> QED
    BY <1>1, <1>8, <2>1 DEF ReopenReturns, RefreshRaises, AssignField, InFlight
<1>9. CASE FlushCache
  <2>1. \A k \in Key : cache'[k] = 0
    BY <1>9 DEF FlushCache, ClearedCache, NoEntry
  <2> QED
    BY <2>1 DEF StaleInv, Stale
<1>10. (\E k \in Key : RunCached(k)) \/ RunUncached => StaleInv'
  <2>1. (\E k \in Key : RunCached(k)) \/ RunUncached => place'[Loop] = "execute" /\ pc'[Loop] = "get"
    BY <1>0 DEF RunCached, RunUncached, Enter, CallExecute, Move
  <2> QED
    BY <1>1, <2>1 DEF RunCached, RunUncached, InFlight
<1>11. ASSUME NEW failed \in BOOLEAN, LoopRead(failed) PROVE StaleInv'
  <2>1. held[Loop] \in Live /\ opened[held[Loop]] \in Nat
    BY <1>11, ReadsALiveOne DEF LoopRead, QueryEnds, Move
  <2>2. flushed.clean => lread' \in Nat /\ lread' >= flushed.file
    BY <1>11, <2>1 DEF LoopRead, FlushInv
  <2>3. flushed.clean => ~Stale(lread')
    BY <1>0, <2>2 DEF Stale
  <2> QED
    BY <1>11, <2>3 DEF LoopRead, StaleInv, Stale
<1>12. CASE LoopReturns
  <2>1. InFlight
    BY <1>12 DEF LoopReturns, Enter, InFlight
  <2> QED
    BY <1>1, <1>12, <2>1 DEF LoopReturns
<1>13. CASE CacheStore
  <2>1. InFlight /\ lkey \in Key /\ place'[Loop] = "idle" /\ UNCHANGED flushed
    BY <1>0, <1>13 DEF CacheStore, Enter, InFlight, DataInv
  <2>2. \A k \in Key : cache'[k] = IF k = lkey THEN lread ELSE cache[k]
    BY <1>0, <1>13 DEF CacheStore
  <2>3. ~InFlight'
    BY <2>1 DEF InFlight
  <2>4. \A v : Stale(v)' <=> Stale(v)
    BY <2>1 DEF Stale
  <2> QED
    BY <2>1, <2>2, <2>3, <2>4 DEF StaleInv, Stale
<1>14. ASSUME NEW k \in Key, CacheExpire(k) PROVE StaleInv'
  <2>1. \A l \in Key : cache'[l] = cache[l] \/ cache'[l] = 0
    BY <1>0, <1>14 DEF CacheExpire, NoEntry
  <2>2. UNCHANGED <<flushed, lread, place, pc>> /\ ~Stale(0)
    BY <1>14 DEF CacheExpire, vars, Stale
  <2> QED
    BY <2>1, <2>2 DEF StaleInv, Stale, InFlight
<1>15. CASE BuildAgent \/ CaptureField
  <2>1. place'[Loop] \in {"idle", "agent"} /\ UNCHANGED <<cache, flushed, lread>>
    BY <1>0, <1>15 DEF BuildAgent, CaptureField, Enter
  <2> QED
    BY <1>1, <2>1 DEF InFlight
<1>16. CASE FileStep \/ UNCHANGED allVars
  <2>1. UNCHANGED <<cache, flushed, lread, place, pc>>
    BY <1>16 DEF FileStep, Environment, ReplaceFile, RemoveFile, RestoreFile, allVars, vars, runtimeVars
  <2> QED
    BY <1>2, <2>1
<1> QED
  BY <1>3, <1>4, <1>5, <1>6, <1>7, <1>8, <1>9, <1>10, <1>11, <1>12, <1>13, <1>14, <1>15,
     <1>16, StepKinds

-----------------------------------------------------------------------------
(* The theorems                                                              *)

\* RuntimeInv holds in every state.
THEOREM RuntimeInvariant == RuntimeSpec => []RuntimeInv
<1>1. RuntimeInit => RuntimeInv
  BY LeaseInit, PlaceInit, DataInit, SwapInit, FreshInit DEF RuntimeInv, RuntimeInit
<1>2. RuntimeInv /\ [RuntimeNext]_allVars => RuntimeInv'
  <2> SUFFICES ASSUME RuntimeInv, [RuntimeNext]_allVars PROVE RuntimeInv'
    OBVIOUS
  <2>1. LeaseInv'
    BY PoolSteps, LeaseNext DEF RuntimeInv
  <2> QED
    BY <2>1, PlaceNext, DataNext, SwapNext, CaptureNext, VersionNext, FlushNext, StaleNext
    DEF RuntimeInv
<1> QED
  BY <1>1, <1>2, PTL DEF RuntimeSpec

\* The variables of the runtime keep their types: the pool's, the two threads'
\* places, the fields of context and orchestrator, the cache.
THEOREM RuntimeTypeCorrect == RuntimeSpec => []RuntimeTypeOK
<1>1. RuntimeInv => RuntimeTypeOK
  <2>1. RuntimeInv => swapped \in 0..Len(SwapOrder)
    BY OrderFacts DEF RuntimeInv, DataInv
  <2> QED
    BY <2>1
    DEF RuntimeInv, LeaseInv, PlaceInv, DataInv, RuntimeTypeOK, LoopPlaces, WatcherPlaces
<1> QED
  BY <1>1, RuntimeInvariant, PTL

\* _refresh replaces the fields in one order and all or none; the agent, which reads
\* them one by one in the meantime, never has an object newer than the orchestrator's
\* nor a retriever newer than its index.
THEOREM RefreshSwapsInOrder == RuntimeSpec => []SwapIsOrdered
<1>1. RuntimeInv => SwapIsOrdered
  <2> SUFFICES ASSUME RuntimeInv PROVE SwapIsOrdered
    OBVIOUS
  <2>1. \A i, j \in DOMAIN SwapOrder :
          i < j => fields[SwapOrder[j]].build <= fields[SwapOrder[i]].build
    BY FieldsInOrder DEF RuntimeInv
  <2>2. ASSUME place[Watcher] # "swap" PROVE \A f, g \in Field : fields[f] = fields[g]
    <3>1. swapped = 0 /\ \A i \in DOMAIN SwapOrder : i > 0
      BY <2>2, OrderFacts DEF RuntimeInv, SwapInv
    <3>2. \A i, j \in DOMAIN SwapOrder : fields[SwapOrder[i]] = fields[SwapOrder[j]]
      BY <3>1 DEF RuntimeInv, SwapInv
    <3> QED
      BY <3>2, OrderFacts
  <2>3. place[Loop] # "agent" => agent["_retriever"].build <= agent["_index"].build
    BY DEF RuntimeInv, CaptureInv
  <2> QED
    BY <2>1, <2>2, <2>3 DEF RuntimeInv, CaptureInv, SwapIsOrdered
<1> QED
  BY <1>1, RuntimeInvariant, PTL

\* What a build that raised had made never reaches the orchestrator: whatever a
\* step puts into a field was made by a build that ran all its metadata queries.
THEOREM FailedBuildsAreDropped == RuntimeSpec => OnlyWholeBuilds
<1>1. RuntimeInv /\ [RuntimeNext]_allVars =>
        [\A f \in Field : fields'[f] # fields[f] => fields'[f] = NewObjects /\ metaLeft = 0]_allVars
  <2> SUFFICES ASSUME RuntimeInv, [RuntimeNext]_allVars, NEW f \in Field, fields'[f] # fields[f]
               PROVE  fields'[f] = NewObjects /\ metaLeft = 0
    OBVIOUS
  <2>1. CASE AssignField
    <3>1. PICK i \in DOMAIN SwapOrder : SwapOrder[i] = f
      BY OrderFacts
    <3> QED
      BY <2>1, <3>1, AssignStep DEF RuntimeInv
  <2>2. CASE BuildEnds(Loop)
    BY <2>2, StartBuildStep DEF RuntimeInv
  <2> QED
    BY <2>1, <2>2, FieldSteps
<1> QED
  BY <1>1, RuntimeInvariant, PTL DEF RuntimeSpec, OnlyWholeBuilds

\* After a refresh whose drain found every connection idle, the pool and the
\* orchestrator hold nothing older than the file the watcher has seen.
THEOREM CleanRefreshesAreComplete == RuntimeSpec => []CleanRefreshIsComplete
<1>1. RuntimeInv => CleanRefreshIsComplete
  BY DEF RuntimeInv, FlushInv, Rebuilt, CleanRefreshIsComplete
<1> QED
  BY <1>1, RuntimeInvariant, PTL

\* A set whose elements are all equal has at most one.
LEMMA AtMostOne ==
  ASSUME NEW S, \A x, y \in S : x = y
  PROVE  Cardinality(S) <= 1
<1>1. CASE S = {}
  BY <1>1, FS_EmptySet
<1>2. CASE S # {}
  <2>1. PICK x : S = {x}
    BY <1>2
  <2> QED
    BY <2>1, FS_Singleton
<1> QED
  BY <1>1, <1>2

\* A flush after such a drain lets at most one older result back into the cache,
\* however many keys and requests there are: the one the loop had read already.
THEOREM FlushLetsOneThrough == RuntimeSpec => []AtMostOneStaleEntry
<1>1. RuntimeInv => AtMostOneStaleEntry
  <2> SUFFICES ASSUME RuntimeInv, flushed.clean
               PROVE  Cardinality({k \in Key : cache[k] \in 1..(flushed.file - 1)}) <= 1
    BY DEF AtMostOneStaleEntry
  <2>1. \A k, l \in {m \in Key : cache[m] \in 1..(flushed.file - 1)} : k = l
    BY DEF RuntimeInv, StaleInv, Stale
  <2> QED
    BY <2>1, AtMostOne
<1> QED
  BY <1>1, RuntimeInvariant, PTL

=============================================================================
