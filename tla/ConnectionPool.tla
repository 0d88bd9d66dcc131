---------------------------- MODULE ConnectionPool ----------------------------
(***************************************************************************)
(* app/execution/executor.py: the connection pool of ReadOnlyExecutor.      *)
(*                                                                         *)
(* The pool is a queue.Queue(maxsize=pool_size).  _execute takes the head   *)
(* with a blocking get, runs its query and gives the connection back with   *)
(* a blocking put in its finally clause.  reopen, called by the database    *)
(* watcher's thread, and close, called at shutdown, drain what is idle in   *)
(* the queue under a lock that _execute never takes; reopen then refills    *)
(* the queue, one blocking put at a time, with connections to the file now  *)
(* at the path.                                                            *)
(*                                                                         *)
(* A connection is a natural number, in the order of opening; opened[c] is  *)
(* the version of the database file it was opened on.  A file is replaced   *)
(* by a rename, so an open connection keeps reading the version it opened.  *)
(***************************************************************************)
EXTENDS Naturals, Sequences, FiniteSets

CONSTANTS
  Thread,       \* threads that run queries on this executor
  Refresher,    \* those that also call reopen (the watcher's thread)
  Closer,       \* those that also call close (the event loop, at shutdown)
  NoThread,     \* no thread: the lock is free
  PoolSize,     \* pool_size
  MaxConns,     \* bound: no reopen starts that could open more connections
  MaxVersion,   \* bound: versions of the database file
  MaxOutages    \* bound: times the file is taken away

ASSUME ThreadAssumption ==
  /\ IsFiniteSet(Thread)
  /\ Refresher \subseteq Thread
  /\ Closer \subseteq Thread
  /\ NoThread \notin Thread
ASSUME SizeAssumption == PoolSize \in Nat \ {0}
ASSUME BoundAssumption == {MaxConns, MaxVersion, MaxOutages} \subseteq Nat

VARIABLES
  pc,           \* where each thread is in its call
  held,         \* the connection a thread has in a local variable
  raised,       \* whether a thread's last call raised
  pool,         \* self._pool: the queue of idle connections, head first
  lock,         \* self._lock: its owner
  todo,         \* connections _open_pool has still to put
  opened,       \* opened[c]: the file version connection c was opened on
  closed,       \* connections that were closed
  fileVersion,  \* the version of the file at self._db_path
  fileExists,   \* whether there is a file at self._db_path
  outages,      \* how often it has been taken away
  drainedAt,    \* history: Len(opened) when reopen last found the queue empty
  degraded      \* history: the last rebuild raised, or the pool was closed

fileVars == <<fileVersion, fileExists, outages>>
poolVars == <<pool, lock, todo, opened, closed, drainedAt, degraded>>
vars == <<pc, held, raised, poolVars, fileVars>>

NoConn == 0
Conns == 1..Len(opened)

Executing == {"get", "query", "put"}
Rebuilding == {"drain", "exists", "connect", "refill"}
Locked == Rebuilding \cup {"drainClose"}
Waiting == {"lockReopen", "lockClose"}
Places == {"idle"} \cup Executing \cup Waiting \cup Locked

Move(t, from, to) ==
  /\ pc[t] = from
  /\ pc' = [pc EXCEPT ![t] = to]

Init ==
  /\ pc = [t \in Thread |-> "idle"]
  /\ held = [t \in Thread |-> NoConn]
  /\ raised = [t \in Thread |-> FALSE]
  /\ pool = [i \in 1..PoolSize |-> i]
  /\ lock = NoThread
  /\ todo = 0
  /\ opened = [i \in 1..PoolSize |-> 1]
  /\ closed = {}
  /\ fileVersion = 1
  /\ fileExists = TRUE
  /\ outages = 0
  /\ drainedAt = 0
  /\ degraded = FALSE

-----------------------------------------------------------------------------
(* _execute *)

CallExecute(t) ==
  /\ Move(t, "idle", "get")
  /\ raised' = [raised EXCEPT ![t] = FALSE]
  /\ UNCHANGED <<held, poolVars, fileVars>>

\* Mutant: the queue has no maxsize.
AlwaysRoom == TRUE

\* queue.Queue(maxsize=pool_size): a put waits for this.
HasRoom == Len(pool) < PoolSize

\* conn = self._pool.get(): blocks while the queue is empty, with no timeout.
PoolGet(t) ==
  /\ pool # <<>>
  /\ Move(t, "get", "query")
  /\ held' = [held EXCEPT ![t] = Head(pool)]
  /\ pool' = Tail(pool)
  /\ UNCHANGED <<raised, lock, todo, opened, closed, drainedAt, degraded, fileVars>>

\* Mutant: the put is not in a finally clause.
PutOnlyOnSuccess(failed) == IF failed THEN "idle" ELSE "put"

\* Both ways out of the query reach the finally clause.
AfterQuery(failed) == "put"

\* The query ends: rows, or a raise on a timeout or an SQLite error.
QueryEnds(t, failed) ==
  /\ Move(t, "query", AfterQuery(failed))
  /\ raised' = [raised EXCEPT ![t] = failed]
  /\ UNCHANGED <<held, poolVars, fileVars>>

\* finally: self._pool.put(conn), which blocks while the queue is full.
PoolPut(t) ==
  /\ HasRoom
  /\ Move(t, "put", "idle")
  /\ pool' = Append(pool, held[t])
  /\ held' = [held EXCEPT ![t] = NoConn]
  /\ UNCHANGED <<raised, lock, todo, opened, closed, drainedAt, degraded, fileVars>>

-----------------------------------------------------------------------------
(* reopen and close *)

CallReopen(t) ==
  /\ t \in Refresher
  /\ Len(opened) + PoolSize <= MaxConns
  /\ Move(t, "idle", "lockReopen")
  /\ raised' = [raised EXCEPT ![t] = FALSE]
  /\ UNCHANGED <<held, poolVars, fileVars>>

CallClose(t) ==
  /\ t \in Closer
  /\ Move(t, "idle", "lockClose")
  /\ raised' = [raised EXCEPT ![t] = FALSE]
  /\ UNCHANGED <<held, poolVars, fileVars>>

\* with self._lock
TakeLock(t) ==
  /\ lock = NoThread
  /\ \/ Move(t, "lockReopen", "drain")
     \/ Move(t, "lockClose", "drainClose")
  /\ lock' = t
  /\ UNCHANGED <<held, raised, pool, todo, opened, closed, drainedAt, degraded, fileVars>>

\* Mutant: reopen closes every connection it ever made, also those on loan.
CloseAll(t) ==
  /\ pc[t] \in {"drain", "drainClose"}
  /\ pool # <<>>
  /\ closed' = Conns
  /\ pool' = <<>>
  /\ UNCHANGED <<pc, held, raised, lock, todo, opened, drainedAt, degraded, fileVars>>

\* self._pool.get_nowait().close()
DrainOne(t) ==
  /\ pc[t] \in {"drain", "drainClose"}
  /\ pool # <<>>
  /\ closed' = closed \cup {Head(pool)}
  /\ pool' = Tail(pool)
  /\ UNCHANGED <<pc, held, raised, lock, todo, opened, drainedAt, degraded, fileVars>>

\* Mutant: while self._pool.qsize() > 1.
DrainedButOne == Len(pool) <= 1

\* while True: ... except queue.Empty: break
Drained == pool = <<>>

\* close ends here, reopen goes on to _open_pool.
DrainEnds(t) ==
  /\ Drained
  /\ \/ /\ Move(t, "drain", "exists")
        /\ drainedAt' = Len(opened)
        /\ UNCHANGED <<lock, degraded>>
     \/ /\ Move(t, "drainClose", "idle")
        /\ lock' = NoThread
        /\ degraded' = TRUE
        /\ UNCHANGED drainedAt
  /\ UNCHANGED <<held, raised, pool, todo, opened, closed, fileVars>>

\* A raise inside the with block releases the lock.
RebuildRaises(t) ==
  /\ pc[t] \in {"exists", "connect"}
  /\ ~fileExists
  /\ pc' = [pc EXCEPT ![t] = "idle"]
  /\ raised' = [raised EXCEPT ![t] = TRUE]
  /\ lock' = NoThread
  /\ todo' = 0
  /\ degraded' = TRUE
  /\ UNCHANGED <<held, pool, opened, closed, drainedAt, fileVars>>

\* Mutant: one connection more than the queue takes.
RefillOneMore == PoolSize + 1

\* for _ in range(self._pool_size)
Refill == PoolSize

\* if not self._db_path.exists(): raise
FileFound(t) ==
  /\ fileExists
  /\ Move(t, "exists", "connect")
  /\ todo' = Refill
  /\ UNCHANGED <<held, raised, pool, lock, opened, closed, drainedAt, degraded, fileVars>>

\* self._make_conn(), on the file that is at the path now.
MakeConn(t) ==
  /\ fileExists
  /\ Move(t, "connect", "refill")
  /\ opened' = Append(opened, fileVersion)
  /\ held' = [held EXCEPT ![t] = Len(opened) + 1]
  /\ UNCHANGED <<raised, pool, lock, todo, closed, drainedAt, degraded, fileVars>>

\* self._pool.put(...) of the refill, which blocks while the queue is full.
RefillPut(t) ==
  /\ pc[t] = "refill"
  /\ HasRoom
  /\ pool' = Append(pool, held[t])
  /\ held' = [held EXCEPT ![t] = NoConn]
  /\ todo' = todo - 1
  /\ \/ /\ todo > 1
        /\ pc' = [pc EXCEPT ![t] = "connect"]
        /\ UNCHANGED <<lock, degraded>>
     \/ /\ todo = 1
        /\ pc' = [pc EXCEPT ![t] = "idle"]
        /\ lock' = NoThread
        /\ degraded' = FALSE
  /\ UNCHANGED <<raised, opened, closed, drainedAt, fileVars>>

-----------------------------------------------------------------------------
(* The database file *)

\* A new export is renamed over the path.
ReplaceFile ==
  /\ fileVersion < MaxVersion
  /\ fileVersion' = fileVersion + 1
  /\ fileExists' = TRUE
  /\ UNCHANGED <<pc, held, raised, poolVars, outages>>

\* The file is taken away (an export copied by hand, a mount that is lost).
RemoveFile ==
  /\ outages < MaxOutages
  /\ fileExists
  /\ fileExists' = FALSE
  /\ outages' = outages + 1
  /\ UNCHANGED <<pc, held, raised, poolVars, fileVersion>>

\* The same file is back (the mount returns): its mtime and size are what they were.
RestoreFile ==
  /\ ~fileExists
  /\ fileExists' = TRUE
  /\ UNCHANGED <<pc, held, raised, poolVars, fileVersion, outages>>

Environment == ReplaceFile \/ RemoveFile \/ RestoreFile

-----------------------------------------------------------------------------
\* A step of a call that is under way, other than the query itself.
PoolStep(t) ==
  \/ PoolGet(t)
  \/ PoolPut(t)
  \/ TakeLock(t)
  \/ DrainOne(t)
  \/ DrainEnds(t)
  \/ RebuildRaises(t)
  \/ FileFound(t)
  \/ MakeConn(t)
  \/ RefillPut(t)

Continue(t) == PoolStep(t) \/ \E failed \in BOOLEAN : QueryEnds(t, failed)

Call(t) == CallExecute(t) \/ CallReopen(t) \/ CallClose(t)

Next ==
  \/ \E t \in Thread : Call(t) \/ Continue(t)
  \/ Environment

Spec == Init /\ [][Next]_vars

\* Threads that are not blocked keep running: the scheduler is fair to each,
\* and a query ends by its progress-handler deadline.  Nobody has to call.
FairSpec == Spec /\ \A t \in Thread : WF_vars(Continue(t))

-----------------------------------------------------------------------------
(* Properties *)

Live == Conns \ closed

\* Connections that were opened before reopen last found the queue empty and
\* are still open: a thread had them on loan while the queue was drained.
Survivors == {c \in Live : c <= drainedAt}

TypeOK ==
  /\ pc \in [Thread -> Places]
  /\ held \in [Thread -> Nat]
  /\ raised \in [Thread -> BOOLEAN]
  /\ pool \in Seq(Nat) /\ Len(pool) <= PoolSize
  /\ lock \in Thread \cup {NoThread}
  /\ todo \in Nat
  /\ opened \in Seq(Nat)
  /\ closed \subseteq Conns
  /\ fileVersion \in Nat
  /\ fileExists \in BOOLEAN
  /\ outages \in Nat
  /\ drainedAt \in Nat
  /\ degraded \in BOOLEAN

\* The finally clause of _execute gives every connection back, whatever the
\* query did: unless a rebuild failed or is under way, the queue and the threads
\* together account for at least pool_size connections.
NoLostConnection ==
  (~degraded /\ lock = NoThread)
    => PoolSize <= Len(pool) + Cardinality({t \in Thread : held[t] # NoConn})

\* reopen misses at most the connections the other threads had on loan: at most
\* one per other thread survives the drain, however many reopens have run.
SurvivorsBounded ==
  drainedAt > 0 => Cardinality(Survivors) < Cardinality(Thread)

\* A put into the pool, of _execute's finally clause or of the refill, blocks
\* only if some connection survived the last drain: the surplus that jams the
\* queue has no other cause.
NoJamWithoutSurvivor ==
  Survivors = {} => \A t \in Thread : pc[t] \in {"put", "refill"} => Len(pool) < PoolSize

\* The executor implements the lease contract: one borrower per connection,
\* closed only while nobody has it, never lent again after that.
Lease == INSTANCE ConnectionLease
           WITH known <- Conns, open <- Live, lease <- held
LeaseSpec == Lease!Spec

\* A thread that called _execute gets out of it again, if the drains have found
\* every connection idle and no rebuild has failed: nothing else can keep it there.
ExecuteReturns ==
  [](Survivors = {} /\ ~degraded)
    => \A t \in Thread : pc[t] \in Executing ~> pc[t] = "idle"

=============================================================================
