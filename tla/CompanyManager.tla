---------------------------- MODULE CompanyManager ----------------------------
(***************************************************************************)
(* app/company/context.py: CompanyContextManager, from the lifespan of      *)
(* app/main.py to its end, with the watcher threads it starts               *)
(* (app/execution/db_watcher.py).                                           *)
(*                                                                         *)
(* The event loop builds every registered company at startup, answers       *)
(* requests for a context, building those that failed again, and shuts      *)
(* everything down.  A build runs on the loop without an await, but the     *)
(* files can change under it and the watchers of the companies that are     *)
(* already up run beside it.                                                *)
(*                                                                         *)
(* An executor is abstracted to whether its pool is open, and the lock of   *)
(* reopen and close to the watcher's place: see ConnectionPool for what     *)
(* happens inside, and for why a refill may block for ever (Jam).           *)
(***************************************************************************)
EXTENDS Naturals, FiniteSets, Sequences, SequencesExt

CONSTANTS
  Company,     \* the registered companies
  NoCompany,   \* no company is being built
  MaxChanges   \* bound: changes of the database files

ASSUME ManagerAssumption ==
  /\ IsFiniteSet(Company)
  /\ NoCompany \notin Company
  /\ MaxChanges \in Nat

VARIABLES
  loop,      \* what the event loop is doing
  queue,     \* companies startup, then shutdown, has still to visit
  building,  \* the company of the build under way, or NoCompany
  stage,     \* how far that build is
  ctx,       \* self._contexts: "absent", "failed" or "healthy"
  open,      \* companies whose executor's pool is open
  watcher,   \* where each company's watcher thread is; "doubled" if it has two
  stopped,   \* companies whose watcher's stop event is set
  file,      \* each company's database file: "good", "broken" or "gone"
  stale,     \* companies whose file changed since the watcher looked
  changes,   \* how often a file has changed
  wasGood,   \* history: companies whose file has been good all along
  abandoned  \* history: companies whose watcher outlived stop's join

loopVars == <<loop, queue, building, stage>>
watcherVars == <<watcher, stopped>>
fileVars == <<file, stale, changes, wasGood>>
vars == <<loopVars, ctx, open, watcherVars, fileVars, abandoned>>

Idle == building = NoCompany

\* Mutant: the lock is not released when the refill finds no file.
LockKeptOnRaise(c) ==
  \/ watcher[c] \in {"reopening", "jammed"}
  \/ watcher[c] \in {"waiting", "ended"} /\ c \notin open

\* The lock that reopen and close share is the watcher's in these places.
HoldsLock(c) == watcher[c] \in {"reopening", "jammed"}

Init ==
  /\ loop = "startup"
  /\ queue = SetToSeq(Company)
  /\ building = NoCompany
  /\ stage = "none"
  /\ ctx = [c \in Company |-> "absent"]
  /\ open = {}
  /\ watcher = [c \in Company |-> "off"]
  /\ stopped = {}
  /\ file \in [Company -> {"good", "broken", "gone"}]
  /\ stale = {}
  /\ changes = 0
  /\ wasGood = {c \in Company : file[c] = "good"}
  /\ abandoned = {}

-----------------------------------------------------------------------------
(* Builds *)

\* Mutant: a context is rebuilt whenever it is asked for.
AlwaysBuilds(c) == TRUE

\* get: a context that is absent or failed is built, under the lock.
NeedsBuild(c) == ctx[c] # "healthy"

\* A request for a company's context, or a health check of it, finds it
\* unhealthy.  (A company that is not registered raises UnknownCompany.)
Get(c) ==
  /\ loop = "serve"
  /\ Idle
  /\ NeedsBuild(c)
  /\ building' = c
  /\ stage' = "open"
  /\ UNCHANGED <<loop, queue, ctx, open, watcherVars, fileVars, abandoned>>

\* build_all_eagerly takes the next registered company.
EagerBuild ==
  /\ loop = "startup"
  /\ Idle
  /\ queue # <<>>
  /\ building' = Head(queue)
  /\ stage' = "open"
  /\ queue' = Tail(queue)
  /\ UNCHANGED <<loop, ctx, open, watcherVars, fileVars, abandoned>>

\* ReadOnlyExecutor(...): the file must be there.
BuildOpens ==
  /\ stage = "open"
  /\ file[building] # "gone"
  /\ stage' = "discover"
  /\ UNCHANGED <<loop, queue, building, ctx, open, watcherVars, fileVars, abandoned>>

\* build_discovery and build_entity_index.
BuildDiscovers ==
  /\ stage = "discover"
  /\ file[building] = "good"
  /\ stage' = "watch"
  /\ UNCHANGED <<loop, queue, building, ctx, open, watcherVars, fileVars, abandoned>>

\* The watcher takes the fingerprint and starts; the context is stored.  The
\* thread waits an interval before it first looks.
BuildEnds ==
  /\ stage = "watch"
  /\ stage' = "none"
  /\ building' = NoCompany
  /\ ctx' = [ctx EXCEPT ![building] = "healthy"]
  /\ open' = open \cup {building}
  /\ watcher' = [watcher EXCEPT ![building] =
                   IF @ = "off" THEN "waiting" ELSE "doubled"]
  /\ stale' = stale \ {building}
  /\ UNCHANGED <<loop, queue, stopped, file, changes, wasGood, abandoned>>

\* Mutant: an exception of discovery is not among those that are caught.
OnlyMissingFiles ==
  stage = "open" /\ file[building] = "gone"

BuildRaises ==
  \/ stage = "open" /\ file[building] = "gone"
  \/ stage = "discover" /\ file[building] # "good"

\* Mutant: the exception leaves the loop over the companies.
FailureStopsStartup ==
  /\ BuildRaises
  /\ stage' = "none"
  /\ building' = NoCompany
  /\ IF loop = "startup"
       THEN ctx' = [ctx EXCEPT ![building] = "failed"] /\ queue' = <<>>
       ELSE UNCHANGED <<ctx, queue>>
  /\ UNCHANGED <<loop, open, watcherVars, fileVars, abandoned>>

\* The half-built executor is dropped.  At startup a failed context takes its
\* place; a request gets the exception and the context stays as it was.
BuildFails ==
  /\ BuildRaises
  /\ stage' = "none"
  /\ building' = NoCompany
  /\ IF loop = "startup"
       THEN ctx' = [ctx EXCEPT ![building] = "failed"]
       ELSE UNCHANGED ctx
  /\ UNCHANGED <<loop, queue, open, watcherVars, fileVars, abandoned>>

\* lifespan: app.state.company_manager = manager, then yield.
Serve ==
  /\ loop = "startup"
  /\ Idle
  /\ queue = <<>>
  /\ loop' = "serve"
  /\ UNCHANGED <<queue, building, stage, ctx, open, watcherVars, fileVars, abandoned>>

-----------------------------------------------------------------------------
(* A watcher's thread *)

Watch(c, from, to) ==
  /\ watcher[c] = from
  /\ watcher' = [watcher EXCEPT ![c] = to]

\* _loop: the wait for the stop event ends with the interval.  check_once
\* compares the fingerprints; a change is remembered and _refresh is called.
Look(c) ==
  /\ c \notin stopped
  /\ c \in stale
  /\ Watch(c, "waiting", "changed")
  /\ stale' = stale \ {c}
  /\ UNCHANGED <<loopVars, ctx, open, stopped, file, changes, wasGood, abandoned>>

\* reopen has the lock and drains the pool.  The loop has close in one action,
\* so the lock is free when the watcher wants it.
Drain(c) ==
  /\ Watch(c, "changed", "reopening")
  /\ open' = open \ {c}
  /\ UNCHANGED <<loopVars, ctx, stopped, fileVars, abandoned>>

\* _open_pool refills it, or finds no file and raises out of the callback.
Refill(c) ==
  /\ \/ /\ file[c] # "gone"
        /\ Watch(c, "reopening", "rebuilding")
        /\ open' = open \cup {c}
     \/ /\ file[c] = "gone"
        /\ Watch(c, "reopening", "waiting")
        /\ UNCHANGED open
  /\ UNCHANGED <<loopVars, ctx, stopped, fileVars, abandoned>>

\* A query in flight gave its old connection back: the refill's put blocks
\* for ever, with the lock held (see NoJamWithoutSurvivor in ConnectionPool).
Jam(c) ==
  /\ loop = "serve"
  /\ file[c] # "gone"
  /\ Watch(c, "reopening", "jammed")
  /\ open' = open \cup {c}
  /\ UNCHANGED <<loopVars, ctx, stopped, fileVars, abandoned>>

\* The rebuild and the swap, or an exception that check_once swallows.  On a
\* pool that close has drained, the rebuild's first query never gets one.
Rebuilt(c) ==
  /\ c \in open
  /\ Watch(c, "rebuilding", "waiting")
  /\ UNCHANGED <<loopVars, ctx, open, stopped, fileVars, abandoned>>

\* _loop sees the stop event.
WatcherEnds(c) ==
  /\ c \in stopped
  /\ Watch(c, "waiting", "ended")
  /\ UNCHANGED <<loopVars, ctx, open, stopped, fileVars, abandoned>>

-----------------------------------------------------------------------------
(* Shutdown *)

\* The lifespan resumes after its yield: for every context in turn.
Shutdown ==
  /\ loop = "serve"
  /\ Idle
  /\ loop' = "stop"
  /\ queue' = SetToSeq({c \in Company : ctx[c] # "absent"})
  /\ UNCHANGED <<building, stage, ctx, open, watcherVars, fileVars, abandoned>>

\* Nothing to stop for a failed context: no watcher and no executor.
SkipFailed ==
  /\ loop = "stop"
  /\ queue # <<>>
  /\ ctx[Head(queue)] = "failed"
  /\ queue' = Tail(queue)
  /\ UNCHANGED <<loop, building, stage, ctx, open, watcherVars, fileVars, abandoned>>

\* watcher.stop(): the event is set, then the thread is joined.
StopWatcher ==
  /\ loop = "stop"
  /\ queue # <<>>
  /\ ctx[Head(queue)] = "healthy"
  /\ loop' = "join"
  /\ stopped' = stopped \cup {Head(queue)}
  /\ UNCHANGED <<queue, building, stage, ctx, open, watcher, fileVars, abandoned>>

\* Mutant: stop does not join the thread.
NoJoin ==
  /\ loop = "join"
  /\ loop' = "close"
  /\ UNCHANGED <<queue, building, stage, ctx, open, watcherVars, fileVars, abandoned>>

\* join(timeout=2) returns when the thread has ended, or in any case after 2 s.
Join ==
  /\ loop = "join"
  /\ loop' = "close"
  /\ abandoned' = IF watcher[Head(queue)] = "ended"
                    THEN abandoned
                    ELSE abandoned \cup {Head(queue)}
  /\ UNCHANGED <<queue, building, stage, ctx, open, watcherVars, fileVars>>

\* executor.close(): waits for the lock and drains the pool.
Close ==
  /\ loop = "close"
  /\ ~HoldsLock(Head(queue))
  /\ open' = open \ {Head(queue)}
  /\ queue' = Tail(queue)
  /\ loop' = "stop"
  /\ UNCHANGED <<building, stage, ctx, watcherVars, fileVars, abandoned>>

Down ==
  /\ loop = "stop"
  /\ queue = <<>>
  /\ loop' = "down"
  /\ UNCHANGED <<queue, building, stage, ctx, open, watcherVars, fileVars, abandoned>>

-----------------------------------------------------------------------------
\* An export replaces the file, a copy of it breaks, or it is removed.
FileChanges(c, content) ==
  /\ changes < MaxChanges
  /\ loop # "down"
  /\ file' = [file EXCEPT ![c] = content]
  /\ stale' = stale \cup {c}
  /\ changes' = changes + 1
  /\ wasGood' = IF content = "good" THEN wasGood ELSE wasGood \ {c}
  /\ UNCHANGED <<loopVars, ctx, open, watcherVars, abandoned>>

LoopStep ==
  \/ EagerBuild
  \/ BuildOpens
  \/ BuildDiscovers
  \/ BuildEnds
  \/ BuildFails
  \/ Serve
  \/ SkipFailed
  \/ StopWatcher
  \/ Join
  \/ Close
  \/ Down

WatcherStep(c) ==
  \/ Look(c)
  \/ Drain(c)
  \/ Refill(c)
  \/ Rebuilt(c)
  \/ WatcherEnds(c)

Next ==
  \/ LoopStep
  \/ \E c \in Company : Get(c) \/ WatcherStep(c) \/ Jam(c)
  \/ Shutdown
  \/ \E c \in Company, content \in {"good", "broken", "gone"} : FileChanges(c, content)

\* The event loop runs what it has begun; threads that can run are scheduled.
Spec ==
  /\ Init
  /\ [][Next]_vars
  /\ WF_vars(LoopStep)
  /\ \A c \in Company : WF_vars(WatcherStep(c))

-----------------------------------------------------------------------------
(* Properties *)

TypeOK ==
  /\ loop \in {"startup", "serve", "stop", "join", "close", "down"}
  /\ queue \in Seq(Company)
  /\ building \in Company \cup {NoCompany}
  /\ stage \in {"none", "open", "discover", "watch"}
  /\ Idle <=> stage = "none"
  /\ ctx \in [Company -> {"absent", "failed", "healthy"}]
  /\ open \subseteq Company
  /\ watcher \in [Company -> {"off", "waiting", "changed", "reopening", "jammed",
                              "rebuilding", "ended"}]
  /\ stopped \subseteq Company /\ abandoned \subseteq Company
  /\ file \in [Company -> {"good", "broken", "gone"}]
  /\ stale \subseteq Company /\ wasGood \subseteq Company
  /\ changes \in 0..MaxChanges

\* Failures, retries and refreshes never give a company two watcher threads,
\* or a context that serves without one watching its file.
OneWatcher ==
  \A c \in Company :
    /\ watcher[c] # "doubled"
    /\ (ctx[c] = "healthy") <=> (watcher[c] # "off")

\* "One company's broken database must not prevent the other companies (or the
\* process) from starting": when startup has ended every company whose file has
\* been good all along is healthy, whatever the others' files did meanwhile.
OthersStart ==
  loop # "startup" => \A c \in wasGood : ctx[c] = "healthy"

\* After shutdown no pool is open, whatever its watcher was doing, unless the
\* watcher outlived the two seconds stop waits for it and refilled the pool
\* behind close's back.
ClosedAtEnd ==
  loop = "down" => open \subseteq abandoned

\* The lifespan gets through both its halves: no company's file keeps the
\* process from serving, and shutdown ends unless some refill jammed with the
\* lock that close needs.
LifespanMovesOn ==
  /\ <>(loop = "serve")
  /\ [](\A c \in Company : watcher[c] # "jammed") => (loop = "stop" ~> loop = "down")
=============================================================================
