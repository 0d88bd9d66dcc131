------------------------- MODULE ConnectionPoolProofs -------------------------
(***************************************************************************)
(* Theorems about ConnectionPool, for every number of threads and every     *)
(* pool size.                                                              *)
(***************************************************************************)
EXTENDS ConnectionPool, Functions, FiniteSetTheorems, TLAPS

Holding == {"query", "put", "refill"}

\* The thread inside the with block is the owner of the lock.
LockInv == \A t \in Thread : pc[t] \in Locked <=> lock = t

\* A thread has a connection exactly while it queries or gives one to the queue.
HeldInv == \A t \in Thread : held[t] # NoConn <=> pc[t] \in Holding

\* What is in the queue or on loan is open.
LiveInv ==
  /\ \A t \in Thread : held[t] # NoConn => held[t] \in Live
  /\ \A i \in DOMAIN pool : pool[i] \in Live

\* Every connection is in one place at most.
OnePlaceInv ==
  /\ \A t, u \in Thread : held[t] # NoConn /\ held[t] = held[u] => t = u
  /\ \A i, j \in DOMAIN pool : pool[i] = pool[j] => i = j
  /\ \A i \in DOMAIN pool : \A t \in Thread : pool[i] # held[t]

LeaseInv == TypeOK /\ LockInv /\ HeldInv /\ LiveInv /\ OnePlaceInv

\* Every open connection is in the queue or on loan.
CoverInv ==
  \A c \in Live : \/ \E i \in DOMAIN pool : pool[i] = c
                  \/ \E t \in Thread : held[t] = c

\* How many connections were opened since the queue was last found empty.
CountInv ==
  /\ drainedAt <= Len(opened)
  /\ Len(opened) <= drainedAt + PoolSize
  /\ \A t \in Thread :
       /\ pc[t] = "exists" => Len(opened) = drainedAt
       /\ pc[t] = "connect" => todo > 0 /\ Len(opened) + todo = drainedAt + PoolSize
       /\ pc[t] = "refill" => todo > 0 /\ Len(opened) + todo = drainedAt + PoolSize + 1

\* Outside a drain those opened since are all open; outside a rebuild, and if the
\* last one succeeded, they are as many as the queue takes.
FullInv ==
  /\ (\A t \in Thread : pc[t] \notin {"drain", "drainClose"}) /\ ~degraded
       => closed \subseteq 1..drainedAt
  /\ (\A t \in Thread : pc[t] \in {"exists", "connect", "refill"}
       => closed \subseteq 1..drainedAt)
  /\ (lock = NoThread /\ ~degraded) => Len(opened) = drainedAt + PoolSize

PoolInv == LeaseInv /\ CoverInv /\ CountInv /\ FullInv

-----------------------------------------------------------------------------
(* Facts about the queue                                                     *)

\* get: the head leaves, the rest keeps its order.
LEMMA TailFacts ==
  ASSUME NEW S, NEW q \in Seq(S), q # <<>>
  PROVE  /\ Head(q) = q[1] /\ 1 \in DOMAIN q /\ Head(q) \in S
         /\ Tail(q) \in Seq(S) /\ Len(Tail(q)) = Len(q) - 1
         /\ \A i \in DOMAIN Tail(q) : i + 1 \in DOMAIN q /\ i + 1 # 1 /\ Tail(q)[i] = q[i + 1]
         /\ \A i \in DOMAIN q : i # 1 => i - 1 \in DOMAIN Tail(q) /\ Tail(q)[i - 1] = q[i]
OBVIOUS

\* put: the new element is last.
LEMMA AppendFacts ==
  ASSUME NEW S, NEW q \in Seq(S), NEW e \in S
  PROVE  /\ Append(q, e) \in Seq(S) /\ Len(Append(q, e)) = Len(q) + 1
         /\ DOMAIN Append(q, e) = DOMAIN q \cup {Len(q) + 1}
         /\ Append(q, e)[Len(q) + 1] = e
         /\ \A i \in DOMAIN q : i # Len(q) + 1 /\ Append(q, e)[i] = q[i]
OBVIOUS

-----------------------------------------------------------------------------
(* Type correctness, and one place for every connection                      *)

\* The pool as __init__ leaves it: every connection open and in the queue.
LEMMA LeaseInit == Init => LeaseInv
<1> SUFFICES ASSUME Init PROVE LeaseInv
  OBVIOUS
<1> USE ThreadAssumption, SizeAssumption DEF Init, NoConn
<1>1. TypeOK
  <2>1. pool \in Seq(Nat) /\ Len(pool) <= PoolSize
    OBVIOUS
  <2>2. opened \in Seq(Nat)
    OBVIOUS
  <2>3. pc \in [Thread -> Places]
    BY DEF Places
  <2>4. held \in [Thread -> Nat] /\ raised \in [Thread -> BOOLEAN]
    OBVIOUS
  <2> QED
    BY <2>1, <2>2, <2>3, <2>4 DEF TypeOK
<1>2. LockInv
  BY DEF LockInv, Locked, Rebuilding
<1>3. HeldInv
  BY DEF HeldInv, Holding
<1>4. LiveInv
  BY DEF LiveInv, Live, Conns
<1>5. OnePlaceInv
  BY DEF OnePlaceInv
<1> QED
  BY <1>1, <1>2, <1>3, <1>4, <1>5 DEF LeaseInv

\* The steps that only move a thread, or change what it raised, the file or the
\* refill's counter: no connection changes its place.
LEMMA LeaseMove ==
  ASSUME LeaseInv, TypeOK', LockInv', HeldInv', UNCHANGED <<held, pool, opened, closed>>
  PROVE  LeaseInv'
<1>1. LiveInv'
  BY DEF LeaseInv, LiveInv, Live, Conns
<1>2. OnePlaceInv'
  BY DEF LeaseInv, OnePlaceInv
<1> QED
  BY <1>1, <1>2 DEF LeaseInv

\* get, by _execute: the head of the queue is on loan.
LEMMA LeaseGet ==
  ASSUME LeaseInv, NEW t \in Thread, PoolGet(t)
  PROVE  LeaseInv'
<1> USE DEF LeaseInv, PoolGet, Move
<1>1. /\ pool \in Seq(Nat) /\ pool # <<>> /\ Head(pool) \in Nat /\ Head(pool) = pool[1]
      /\ 1 \in DOMAIN pool /\ Tail(pool) \in Seq(Nat) /\ Len(Tail(pool)) = Len(pool) - 1
      /\ \A i \in DOMAIN Tail(pool) : i + 1 \in DOMAIN pool /\ i + 1 # 1 /\ Tail(pool)[i] = pool[i + 1]
  BY TailFacts DEF TypeOK
<1>2. held \in [Thread -> Nat] /\ pc \in [Thread -> Places]
  BY DEF TypeOK
<1>3. Head(pool) \in Live /\ Head(pool) # NoConn
  BY <1>1 DEF TypeOK, LiveInv, Live, Conns, NoConn
<1>4. TypeOK'
  BY <1>1, <1>2, SizeAssumption DEF TypeOK, Places, Executing, Conns, fileVars
<1>5. LockInv'
  BY <1>2 DEF LockInv, Locked, Rebuilding
<1>6. HeldInv'
  BY <1>2, <1>3 DEF HeldInv, Holding
<1>7. LiveInv'
  BY <1>1, <1>2, <1>3 DEF LiveInv, Live, Conns
<1>8. OnePlaceInv'
  <2>1. \A u, v \in Thread : held'[u] # NoConn /\ held'[u] = held'[v] => u = v
    BY <1>1, <1>2 DEF OnePlaceInv
  <2>2. \A i, j \in DOMAIN Tail(pool) : Tail(pool)[i] = Tail(pool)[j] => i = j
    BY <1>1 DEF OnePlaceInv
  <2>3. \A i \in DOMAIN Tail(pool) : \A u \in Thread : Tail(pool)[i] # held'[u]
    BY <1>1, <1>2 DEF OnePlaceInv
  <2> QED
    BY <2>1, <2>2, <2>3 DEF OnePlaceInv
<1> QED
  BY <1>4, <1>5, <1>6, <1>7, <1>8

\* put, by _execute or by the refill: what was on loan is the tail of the queue.
LEMMA LeasePut ==
  ASSUME LeaseInv, NEW t \in Thread, held[t] # NoConn,
         pool' = Append(pool, held[t]), held' = [held EXCEPT ![t] = NoConn],
         UNCHANGED <<opened, closed>>, TypeOK', LockInv', HeldInv'
  PROVE  LeaseInv'
<1> USE DEF LeaseInv
<1>1. pool \in Seq(Nat) /\ held \in [Thread -> Nat] /\ held[t] \in Nat
  BY DEF TypeOK
<1>2. /\ DOMAIN pool' = DOMAIN pool \cup {Len(pool) + 1}
      /\ pool'[Len(pool) + 1] = held[t]
      /\ \A i \in DOMAIN pool : i # Len(pool) + 1 /\ pool'[i] = pool[i]
  BY <1>1, AppendFacts
<1>3. LiveInv'
  BY <1>1, <1>2 DEF LiveInv, Live, Conns
<1>4. OnePlaceInv'
  <2>1. \A u, v \in Thread : held'[u] # NoConn /\ held'[u] = held'[v] => u = v
    BY <1>1 DEF OnePlaceInv
  <2>2. \A i, j \in DOMAIN pool' : pool'[i] = pool'[j] => i = j
    BY <1>2 DEF OnePlaceInv
  <2>3. \A i \in DOMAIN pool' : \A u \in Thread : pool'[i] # held'[u]
    <3> SUFFICES ASSUME NEW i \in DOMAIN pool', NEW u \in Thread PROVE pool'[i] # held'[u]
      OBVIOUS
    <3>0. \A k \in DOMAIN pool : pool[k] # NoConn
      <4>1. Len(opened) \in Nat
        BY DEF TypeOK
      <4>2. \A k \in DOMAIN pool : pool[k] \in 1..Len(opened)
        BY DEF LiveInv, Live, Conns
      <4> QED
        BY <4>1, <4>2 DEF NoConn
    <3>1. pool'[i] # NoConn
      BY <1>2, <3>0
    <3>2. CASE u = t
      BY <1>1, <3>1, <3>2
    <3>3. CASE u # t /\ i \in DOMAIN pool
      BY <1>1, <1>2, <3>3 DEF OnePlaceInv
    <3>4. CASE u # t /\ i = Len(pool) + 1
      BY <1>1, <1>2, <3>4 DEF OnePlaceInv
    <3> QED
      BY <1>2, <3>2, <3>3, <3>4
  <2> QED
    BY <2>1, <2>2, <2>3 DEF OnePlaceInv
<1> QED
  BY <1>3, <1>4

\* get_nowait().close(): the head of the queue, which nobody has on loan.
LEMMA LeaseDrain ==
  ASSUME LeaseInv, NEW t \in Thread, DrainOne(t)
  PROVE  LeaseInv'
<1> USE DEF LeaseInv, DrainOne
<1>1. /\ pool \in Seq(Nat) /\ Head(pool) = pool[1]
      /\ 1 \in DOMAIN pool /\ Tail(pool) \in Seq(Nat) /\ Len(Tail(pool)) = Len(pool) - 1
      /\ \A i \in DOMAIN Tail(pool) : i + 1 \in DOMAIN pool /\ i + 1 # 1 /\ Tail(pool)[i] = pool[i + 1]
  BY TailFacts DEF TypeOK
<1>2. Head(pool) \in Conns
  BY <1>1 DEF LiveInv, Live
<1>3. TypeOK'
  <2>1. pool' \in Seq(Nat) /\ Len(pool') <= PoolSize
    BY <1>1, SizeAssumption DEF TypeOK
  <2>2. closed' \subseteq Conns'
    BY <1>2 DEF TypeOK, Conns
  <2> QED
    BY <2>1, <2>2 DEF TypeOK, Conns, fileVars
<1>4. LockInv' /\ HeldInv'
  BY DEF LockInv, HeldInv
<1>5. LiveInv'
  <2>1. \A u \in Thread : held'[u] # NoConn => held'[u] \in Live'
    BY <1>1 DEF LiveInv, OnePlaceInv, Live, Conns
  <2>2. \A i \in DOMAIN Tail(pool) : Tail(pool)[i] \in Live'
    <3> SUFFICES ASSUME NEW i \in DOMAIN Tail(pool) PROVE Tail(pool)[i] \in Live'
      OBVIOUS
    <3>1. i + 1 \in DOMAIN pool /\ i + 1 # 1 /\ Tail(pool)[i] = pool[i + 1]
      BY <1>1
    <3>2. pool[i + 1] \in Live
      BY <3>1 DEF LiveInv
    <3>3. pool[i + 1] # Head(pool)
      BY <1>1, <3>1 DEF OnePlaceInv
    <3> QED
      BY <3>1, <3>2, <3>3 DEF Live, Conns
  <2> QED
    BY <2>1, <2>2 DEF LiveInv
<1>6. OnePlaceInv'
  BY <1>1 DEF OnePlaceInv
<1> QED
  BY <1>3, <1>4, <1>5, <1>6

\* _make_conn: a connection nobody has seen before.
LEMMA LeaseMake ==
  ASSUME LeaseInv, NEW t \in Thread, MakeConn(t)
  PROVE  LeaseInv'
<1> USE DEF LeaseInv, MakeConn, Move
<1>1. /\ opened \in Seq(Nat) /\ fileVersion \in Nat /\ Len(opened) \in Nat
      /\ held \in [Thread -> Nat] /\ pc \in [Thread -> Places]
  BY DEF TypeOK
<1>2. opened' \in Seq(Nat) /\ Len(opened') = Len(opened) + 1
  BY <1>1, AppendFacts
<1>3. Conns' = Conns \cup {Len(opened) + 1} /\ Len(opened) + 1 \notin Conns
  BY <1>1, <1>2 DEF Conns
<1>4. Live' = Live \cup {Len(opened) + 1} /\ Len(opened) + 1 \notin Live
  BY <1>3 DEF Live, TypeOK
<1>5. held'[t] = Len(opened) + 1 /\ held'[t] # NoConn
  BY <1>1 DEF NoConn
<1>6. TypeOK'
  BY <1>1, <1>2, <1>3 DEF TypeOK, Places, Locked, Rebuilding, fileVars
<1>7. LockInv'
  BY <1>1 DEF LockInv, Locked, Rebuilding
<1>8. HeldInv'
  BY <1>1, <1>5 DEF HeldInv, Holding
<1>9. LiveInv'
  BY <1>1, <1>4, <1>5 DEF LiveInv
<1>10. OnePlaceInv'
  BY <1>1, <1>4, <1>5 DEF LiveInv, OnePlaceInv
<1> QED
  BY <1>6, <1>7, <1>8, <1>9, <1>10

\* Every step of the executor keeps connections apart, by its action.
LEMMA LeaseNext == LeaseInv /\ [Next]_vars => LeaseInv'
<1> SUFFICES ASSUME LeaseInv, [Next]_vars PROVE LeaseInv'
  OBVIOUS
<1> USE ThreadAssumption, SizeAssumption
<1>0. /\ pc \in [Thread -> Places] /\ held \in [Thread -> Nat] /\ raised \in [Thread -> BOOLEAN]
      /\ TypeOK /\ LockInv /\ HeldInv
  BY DEF LeaseInv, TypeOK
<1>1. ASSUME NEW t \in Thread, CallExecute(t) \/ CallReopen(t) \/ CallClose(t)
      PROVE  LeaseInv'
  <2> USE DEF CallExecute, CallReopen, CallClose, Move, poolVars, fileVars
  <2>1. TypeOK'
    BY <1>0, <1>1 DEF TypeOK, Places, Executing, Waiting, Conns
  <2>2. LockInv' /\ HeldInv'
    BY <1>0, <1>1 DEF LockInv, HeldInv, Locked, Rebuilding, Holding
  <2> QED
    BY <1>1, <2>1, <2>2, LeaseMove
<1>2. ASSUME NEW t \in Thread, NEW failed \in BOOLEAN, QueryEnds(t, failed)
      PROVE  LeaseInv'
  <2> USE DEF QueryEnds, AfterQuery, Move, poolVars, fileVars
  <2>1. TypeOK'
    BY <1>0, <1>2 DEF TypeOK, Places, Executing, Conns
  <2>2. LockInv' /\ HeldInv'
    BY <1>0, <1>2 DEF LockInv, HeldInv, Locked, Rebuilding, Holding
  <2> QED
    BY <1>2, <2>1, <2>2, LeaseMove
<1>3. ASSUME NEW t \in Thread, PoolGet(t)
      PROVE  LeaseInv'
  BY <1>3, LeaseGet
<1>4. ASSUME NEW t \in Thread, PoolPut(t)
      PROVE  LeaseInv'
  <2> USE DEF PoolPut, HasRoom, Move, fileVars
  <2>1. held[t] # NoConn
    BY <1>0, <1>4 DEF HeldInv, Holding
  <2>2. pool' \in Seq(Nat) /\ Len(pool') = Len(pool) + 1
    BY <1>0, <1>4, AppendFacts DEF TypeOK
  <2>3. TypeOK'
    BY <1>0, <1>4, <2>2 DEF TypeOK, Places, Conns, NoConn
  <2>4. LockInv' /\ HeldInv'
    BY <1>0, <1>4 DEF LockInv, HeldInv, Locked, Rebuilding, Holding
  <2> QED
    BY <1>4, <2>1, <2>3, <2>4, LeasePut
<1>5. ASSUME NEW t \in Thread, RefillPut(t)
      PROVE  LeaseInv'
  <2> USE DEF RefillPut, HasRoom, fileVars
  <2>1. held[t] # NoConn
    BY <1>0, <1>5 DEF HeldInv, Holding
  <2>2. pool' \in Seq(Nat) /\ Len(pool') = Len(pool) + 1
    BY <1>0, <1>5, AppendFacts DEF TypeOK
  <2>3. TypeOK'
    <3>1. todo' \in Nat
      BY <1>0, <1>5 DEF TypeOK
    <3>2. pc' \in [Thread -> Places]
      BY <1>0, <1>5 DEF Places, Locked, Rebuilding
    <3>3. Len(pool') <= PoolSize
      BY <1>0, <1>5, <2>2 DEF TypeOK
    <3>4. held' \in [Thread -> Nat] /\ lock' \in Thread \cup {NoThread} /\ degraded' \in BOOLEAN
      BY <1>0, <1>5 DEF TypeOK, NoConn
    <3>5. /\ raised' \in [Thread -> BOOLEAN] /\ opened' \in Seq(Nat) /\ closed' \subseteq Conns'
          /\ fileVersion' \in Nat /\ fileExists' \in BOOLEAN /\ outages' \in Nat /\ drainedAt' \in Nat
      BY <1>0, <1>5 DEF TypeOK, Conns
    <3> QED
      BY <2>2, <3>1, <3>2, <3>3, <3>4, <3>5 DEF TypeOK
  <2>4. LockInv'
    <3>1. lock = t /\ \A u \in Thread : u # t => pc'[u] = pc[u] /\ pc[u] \notin Locked
      BY <1>0, <1>5 DEF LockInv, Locked, Rebuilding
    <3>2. CASE pc'[t] = "connect" /\ lock' = lock
      BY <3>1, <3>2 DEF LockInv, Locked, Rebuilding
    <3>3. CASE pc'[t] = "idle" /\ lock' = NoThread
      BY <3>1, <3>3 DEF LockInv, Locked, Rebuilding
    <3> QED
      BY <1>0, <1>5, <3>2, <3>3
  <2>5. HeldInv'
    BY <1>0, <1>5 DEF HeldInv, Holding
  <2> QED
    BY <1>5, <2>1, <2>3, <2>4, <2>5, LeasePut
<1>6. ASSUME NEW t \in Thread, TakeLock(t)
      PROVE  LeaseInv'
  <2> USE DEF TakeLock, Move, fileVars
  <2>1. TypeOK'
    BY <1>0, <1>6 DEF TypeOK, Places, Locked, Rebuilding, Conns
  <2>2. LockInv' /\ HeldInv'
    BY <1>0, <1>6 DEF LockInv, HeldInv, Locked, Rebuilding, Holding
  <2> QED
    BY <1>6, <2>1, <2>2, LeaseMove
<1>7. ASSUME NEW t \in Thread, DrainOne(t)
      PROVE  LeaseInv'
  BY <1>7, LeaseDrain
<1>8. ASSUME NEW t \in Thread, DrainEnds(t)
      PROVE  LeaseInv'
  <2> USE DEF DrainEnds, Move, fileVars
  <2>1. TypeOK'
    <3>1. pc' \in [Thread -> Places]
      BY <1>0, <1>8 DEF Places, Locked, Rebuilding
    <3>2. drainedAt' \in Nat /\ lock' \in Thread \cup {NoThread}
      BY <1>0, <1>8 DEF TypeOK
    <3>3. degraded' \in BOOLEAN
      BY <1>0, <1>8, Zenon DEF TypeOK
    <3>4. /\ held' \in [Thread -> Nat] /\ raised' \in [Thread -> BOOLEAN]
          /\ pool' \in Seq(Nat) /\ Len(pool') <= PoolSize /\ todo' \in Nat
          /\ opened' \in Seq(Nat) /\ closed' \subseteq Conns'
          /\ fileVersion' \in Nat /\ fileExists' \in BOOLEAN /\ outages' \in Nat
      BY <1>0, <1>8 DEF TypeOK, Conns
    <3> QED
      BY <3>1, <3>2, <3>3, <3>4 DEF TypeOK
  <2>2. LockInv'
    BY <1>0, <1>8 DEF LockInv, Locked, Rebuilding
  <2>3. HeldInv'
    BY <1>0, <1>8 DEF HeldInv, Locked, Rebuilding, Holding
  <2> QED
    BY <1>8, <2>1, <2>2, <2>3, LeaseMove
<1>9. ASSUME NEW t \in Thread, RebuildRaises(t)
      PROVE  LeaseInv'
  <2> USE DEF RebuildRaises, fileVars
  <2>1. TypeOK'
    BY <1>0, <1>9 DEF TypeOK, Places, Conns
  <2>2. LockInv' /\ HeldInv'
    BY <1>0, <1>9 DEF LockInv, HeldInv, Locked, Rebuilding, Holding
  <2> QED
    BY <1>9, <2>1, <2>2, LeaseMove
<1>10. ASSUME NEW t \in Thread, FileFound(t)
       PROVE  LeaseInv'
  <2> USE DEF FileFound, Refill, Move, fileVars
  <2>1. TypeOK'
    BY <1>0, <1>10 DEF TypeOK, Places, Locked, Rebuilding, Conns
  <2>2. LockInv' /\ HeldInv'
    BY <1>0, <1>10 DEF LockInv, HeldInv, Locked, Rebuilding, Holding
  <2> QED
    BY <1>10, <2>1, <2>2, LeaseMove
<1>11. ASSUME NEW t \in Thread, MakeConn(t)
       PROVE  LeaseInv'
  BY <1>11, LeaseMake
<1>12. CASE Environment \/ UNCHANGED vars
  <2> USE DEF Environment, ReplaceFile, RemoveFile, RestoreFile, vars, poolVars, fileVars
  <2>1. TypeOK'
    <3>1. fileVersion' \in Nat /\ outages' \in Nat
      BY <1>0, <1>12 DEF TypeOK
    <3>2. fileExists' \in BOOLEAN
      BY <1>0, <1>12, Zenon DEF TypeOK
    <3> QED
      BY <1>0, <1>12, <3>1, <3>2 DEF TypeOK, Conns
  <2>2. LockInv' /\ HeldInv'
    BY <1>0, <1>12 DEF LockInv, HeldInv
  <2> QED
    BY <1>12, <2>1, <2>2, LeaseMove
<1> QED
  BY <1>1, <1>2, <1>3, <1>4, <1>5, <1>6, <1>7, <1>8, <1>9, <1>10, <1>11, <1>12
     DEF Next, Call, Continue, PoolStep

\* Connections on loan and in the queue stay apart, open and accounted to the
\* right thread: the part of the inductive invariant the lease contract needs.
THEOREM LeaseInvariant == Spec => []LeaseInv
BY LeaseInit, LeaseNext, PTL DEF Spec

\* Every variable keeps its type; in particular no put ever overfills the queue.
THEOREM TypeCorrect == Spec => []TypeOK
<1>1. LeaseInv => TypeOK
  BY DEF LeaseInv
<1> QED
  BY <1>1, LeaseInvariant, PTL

-----------------------------------------------------------------------------
(* The pool implements the lease contract                                    *)

\* The full pool of __init__ is an initial state of the contract.
LEMMA LeaseInitMaps == Init => Lease!Init
<1> SUFFICES ASSUME Init PROVE Lease!Init
  OBVIOUS
<1>1. Len(opened) = PoolSize
  BY SizeAssumption DEF Init
<1>2. Conns \subseteq Nat \ {0} /\ Live = Conns
  BY <1>1, SizeAssumption DEF Init, Conns, Live
<1> QED
  BY <1>2 DEF Init, NoConn, Lease!Init, Lease!Conn, Lease!NoConn

\* Every step of the executor is a step of the contract or changes nothing in it.
LEMMA LeaseNextMaps == LeaseInv /\ [Next]_vars => [Lease!Next]_(Lease!leaseVars)
<1> SUFFICES ASSUME LeaseInv, [Next]_vars PROVE [Lease!Next]_(Lease!leaseVars)
  OBVIOUS
<1> USE DEF LeaseInv, Lease!leaseVars
<1>0. held \in [Thread -> Nat] /\ pool \in Seq(Nat) /\ opened \in Seq(Nat)
  BY DEF TypeOK
<1>1. ASSUME UNCHANGED <<held, opened, closed>>
      PROVE  UNCHANGED Lease!leaseVars
  BY <1>1 DEF Conns, Live
<1>2. ASSUME NEW t \in Thread, PoolGet(t)
      PROVE  Lease!Next
  <2>1. Head(pool) \in Live
    BY <1>0, <1>2, TailFacts DEF PoolGet, LiveInv
  <2>2. \A u \in Thread : held[u] # Head(pool)
    BY <1>0, <1>2, TailFacts DEF PoolGet, OnePlaceInv
  <2>3. held[t] = NoConn
    BY <1>2 DEF PoolGet, Move, HeldInv, Holding
  <2>4. UNCHANGED <<Conns, Live>>
    BY <1>2 DEF PoolGet, Conns, Live
  <2>5. Lease!Borrow(t, Head(pool))
    BY <1>2, <2>1, <2>2, <2>3, <2>4 DEF PoolGet, NoConn, Lease!Borrow, Lease!Leased, Lease!NoConn
  <2> QED
    BY <2>1, <2>5 DEF Lease!Next
<1>3. ASSUME NEW t \in Thread, PoolPut(t) \/ RefillPut(t)
      PROVE  Lease!Next
  <2>1. held[t] # NoConn
    BY <1>3 DEF PoolPut, RefillPut, Move, HeldInv, Holding
  <2>2. UNCHANGED <<Conns, Live>> /\ held' = [held EXCEPT ![t] = NoConn]
    BY <1>3 DEF PoolPut, RefillPut, Conns, Live
  <2>3. Lease!Return(t)
    BY <2>1, <2>2 DEF NoConn, Lease!Return, Lease!NoConn
  <2> QED
    BY <2>3 DEF Lease!Next
<1>4. ASSUME NEW t \in Thread, DrainOne(t)
      PROVE  Lease!Next
  <2>1. Head(pool) \in Live
    BY <1>0, <1>4, TailFacts DEF DrainOne, LiveInv
  <2>2. \A u \in Thread : held[u] # Head(pool)
    BY <1>0, <1>4, TailFacts DEF DrainOne, OnePlaceInv
  <2>3. Conns' = Conns /\ held' = held /\ Live' = Live \ {Head(pool)}
    BY <1>4 DEF DrainOne, Conns, Live
  <2>4. Lease!Close(Head(pool))
    BY <2>1, <2>2, <2>3 DEF Lease!Close, Lease!Leased
  <2> QED
    BY <2>1, <2>4 DEF Lease!Next
<1>5. ASSUME NEW t \in Thread, MakeConn(t)
      PROVE  Lease!Next
  <2> DEFINE c == Len(opened) + 1
  <2>1. Len(opened) \in Nat /\ Len(opened') = c
    BY <1>0, <1>5, AppendFacts DEF MakeConn, TypeOK
  <2>2. Conns' = Conns \cup {c} /\ c \notin Conns
    BY <2>1 DEF Conns
  <2>3. Live' = Live \cup {c}
    BY <1>5, <2>2 DEF MakeConn, Live, TypeOK
  <2>4. held[t] = NoConn
    BY <1>5 DEF MakeConn, Move, HeldInv, Holding
  <2>5. held' = [held EXCEPT ![t] = c]
    BY <1>5 DEF MakeConn
  <2>6. Lease!Open(t, c)
    BY <2>2, <2>3, <2>4, <2>5 DEF Lease!Open, Lease!NoConn, NoConn
  <2> QED
    BY <2>2, <2>6 DEF Lease!Next
<1>6. ASSUME NEW t \in Thread,
             Call(t) \/ TakeLock(t) \/ DrainEnds(t) \/ RebuildRaises(t) \/ FileFound(t)
               \/ \E failed \in BOOLEAN : QueryEnds(t, failed)
      PROVE  UNCHANGED <<held, opened, closed>>
  BY <1>6 DEF Call, CallExecute, CallReopen, CallClose, TakeLock, DrainEnds, RebuildRaises,
              FileFound, QueryEnds, poolVars
<1>7. ASSUME Environment \/ UNCHANGED vars
      PROVE  UNCHANGED <<held, opened, closed>>
  BY <1>7 DEF Environment, ReplaceFile, RemoveFile, RestoreFile, vars, poolVars
<1> QED
  BY <1>1, <1>2, <1>3, <1>4, <1>5, <1>6, <1>7 DEF Next, Continue, PoolStep

\* For every number of threads and every pool size, a connection is with one
\* borrower at a time and is closed only while nobody has it: no interleaving of
\* queries, refreshes and shutdowns closes a connection under a running query.
THEOREM ImplementsLease == Spec => LeaseSpec
<1>1. Spec => []LeaseInv
  BY LeaseInvariant
<1> QED
  BY <1>1, LeaseInitMaps, LeaseNextMaps, PTL DEF Spec, LeaseSpec, Lease!Spec

-----------------------------------------------------------------------------
(* Where the connections are, and how many                                   *)

\* The pool as __init__ leaves it holds pool_size connections and no others.
LEMMA PoolInit == Init => PoolInv
<1> SUFFICES ASSUME Init PROVE PoolInv
  OBVIOUS
<1>1. Len(opened) = PoolSize /\ Len(pool) = PoolSize /\ DOMAIN pool = 1..PoolSize
  BY SizeAssumption DEF Init
<1>2. CoverInv
  BY <1>1 DEF Init, CoverInv, Live, Conns
<1>3. CountInv
  BY <1>1, SizeAssumption DEF Init, CountInv
<1>4. FullInv
  BY <1>1, SizeAssumption DEF Init, FullInv
<1> QED
  BY <1>2, <1>3, <1>4, LeaseInit DEF PoolInv

\* No step of _execute, reopen or close drops an open connection.
LEMMA CoverNext == LeaseInv /\ CoverInv /\ [Next]_vars => CoverInv'
<1> SUFFICES ASSUME LeaseInv, CoverInv, [Next]_vars PROVE CoverInv'
  OBVIOUS
<1>0. /\ held \in [Thread -> Nat] /\ pool \in Seq(Nat) /\ opened \in Seq(Nat)
      /\ closed \subseteq Conns
  BY DEF LeaseInv, TypeOK
<1>1. ASSUME UNCHANGED <<held, pool, opened, closed>>
      PROVE  CoverInv'
  BY <1>1 DEF CoverInv, Live, Conns
<1>2. ASSUME NEW t \in Thread, PoolGet(t)
      PROVE  CoverInv'
  <2>1. held[t] = NoConn
    BY <1>2 DEF LeaseInv, PoolGet, Move, HeldInv, Holding
  <2>2. Live' = Live /\ NoConn \notin Live
    BY <1>0, <1>2 DEF PoolGet, Live, Conns, NoConn
  <2>3. SUFFICES ASSUME NEW c \in Live
                 PROVE  \/ \E i \in DOMAIN pool' : pool'[i] = c
                        \/ \E u \in Thread : held'[u] = c
    BY <2>2 DEF CoverInv
  <2>4. CASE \E u \in Thread : held[u] = c
    BY <1>0, <1>2, <2>1, <2>2, <2>4 DEF PoolGet
  <2>5. ASSUME NEW i \in DOMAIN pool, pool[i] = c
        PROVE  \/ \E j \in DOMAIN pool' : pool'[j] = c
               \/ \E u \in Thread : held'[u] = c
    <3>1. CASE i = 1
      BY <1>0, <1>2, <2>5, <3>1, TailFacts DEF PoolGet
    <3>2. CASE i # 1
      <4>1. i - 1 \in DOMAIN Tail(pool) /\ Tail(pool)[i - 1] = pool[i]
        BY <1>0, <1>2, <3>2, TailFacts DEF PoolGet
      <4> QED
        BY <1>2, <2>5, <4>1 DEF PoolGet
    <3> QED
      BY <3>1, <3>2
  <2> QED
    BY <2>4, <2>5 DEF CoverInv
<1>3. ASSUME NEW t \in Thread, PoolPut(t) \/ RefillPut(t)
      PROVE  CoverInv'
  <2>1. Live' = Live /\ NoConn \notin Live
    BY <1>0, <1>3 DEF PoolPut, RefillPut, Live, Conns, NoConn
  <2>2. /\ DOMAIN pool' = DOMAIN pool \cup {Len(pool) + 1}
        /\ pool'[Len(pool) + 1] = held[t]
        /\ \A i \in DOMAIN pool : pool'[i] = pool[i]
        /\ held' = [held EXCEPT ![t] = NoConn]
    <3>1. pool' = Append(pool, held[t]) /\ held' = [held EXCEPT ![t] = NoConn]
      BY <1>3 DEF PoolPut, RefillPut
    <3>2. held[t] \in Nat
      BY <1>0
    <3> QED
      BY <1>0, <3>1, <3>2, AppendFacts
  <2> QED
    BY <1>0, <2>1, <2>2 DEF CoverInv
<1>4. ASSUME NEW t \in Thread, DrainOne(t)
      PROVE  CoverInv'
  <2>1. Live' = Live \ {Head(pool)} /\ held' = held /\ pool' = Tail(pool)
    BY <1>4 DEF DrainOne, Live, Conns
  <2>2. SUFFICES ASSUME NEW c \in Live, c # Head(pool), NEW i \in DOMAIN pool, pool[i] = c
                 PROVE  \E j \in DOMAIN pool' : pool'[j] = c
    BY <2>1 DEF CoverInv
  <2>3. Head(pool) = pool[1] /\ i # 1
    BY <1>0, <1>4, <2>2, TailFacts DEF DrainOne
  <2>4. i - 1 \in DOMAIN Tail(pool) /\ Tail(pool)[i - 1] = pool[i]
    BY <1>0, <1>4, <2>3, TailFacts DEF DrainOne
  <2> QED
    BY <2>1, <2>2, <2>4
<1>5. ASSUME NEW t \in Thread, MakeConn(t)
      PROVE  CoverInv'
  <2>1. Len(opened) \in Nat /\ Len(opened') = Len(opened) + 1
    BY <1>0, <1>5, AppendFacts DEF MakeConn, LeaseInv, TypeOK
  <2>2. Live' \subseteq Live \cup {Len(opened) + 1}
    BY <1>5, <2>1 DEF MakeConn, Live, Conns
  <2>3. held[t] = NoConn
    BY <1>5 DEF LeaseInv, MakeConn, Move, HeldInv, Holding
  <2>4. NoConn \notin Live
    BY <2>1 DEF Live, Conns, NoConn
  <2> QED
    BY <1>0, <1>5, <2>2, <2>3, <2>4 DEF MakeConn, CoverInv
<1>6. ASSUME NEW t \in Thread,
             Call(t) \/ TakeLock(t) \/ DrainEnds(t) \/ RebuildRaises(t) \/ FileFound(t)
               \/ \E failed \in BOOLEAN : QueryEnds(t, failed)
      PROVE  UNCHANGED <<held, pool, opened, closed>>
  BY <1>6 DEF Call, CallExecute, CallReopen, CallClose, TakeLock, DrainEnds, RebuildRaises,
              FileFound, QueryEnds, poolVars
<1>7. ASSUME Environment \/ UNCHANGED vars
      PROVE  UNCHANGED <<held, pool, opened, closed>>
  BY <1>7 DEF Environment, ReplaceFile, RemoveFile, RestoreFile, vars, poolVars
<1> QED
  BY <1>1, <1>2, <1>3, <1>4, <1>5, <1>6, <1>7 DEF Next, Continue, PoolStep

\* The lock excludes a second thread from the with block.
LEMMA OneRebuilder ==
  ASSUME LeaseInv, NEW t \in Thread, NEW u \in Thread, pc[t] \in Locked, pc[u] \in Locked
  PROVE  t = u
BY DEF LeaseInv, LockInv

\* The refill opens pool_size connections after a drain and not one more.
LEMMA CountNext == LeaseInv /\ CountInv /\ [Next]_vars => CountInv'
<1> SUFFICES ASSUME LeaseInv, CountInv, [Next]_vars PROVE CountInv'
  OBVIOUS
<1> USE SizeAssumption
<1>0. /\ pc \in [Thread -> Places] /\ opened \in Seq(Nat) /\ Len(opened) \in Nat
      /\ drainedAt \in Nat /\ todo \in Nat
  BY DEF LeaseInv, TypeOK
<1>1. ASSUME NEW t \in Thread,
             Call(t) \/ PoolGet(t) \/ PoolPut(t) \/ TakeLock(t) \/ DrainOne(t)
               \/ \E failed \in BOOLEAN : QueryEnds(t, failed)
      PROVE  CountInv'
  <2>1. UNCHANGED <<opened, drainedAt, todo>>
    BY <1>1 DEF Call, CallExecute, CallReopen, CallClose, PoolGet, PoolPut, TakeLock, DrainOne,
                QueryEnds, poolVars
  <2>2. \A u \in Thread : pc'[u] = pc[u] \/ pc'[u] \notin {"exists", "connect", "refill"}
    BY <1>0, <1>1 DEF Call, CallExecute, CallReopen, CallClose, PoolGet, PoolPut, TakeLock,
                      DrainOne, QueryEnds, AfterQuery, Move
  <2> QED
    BY <2>1, <2>2 DEF CountInv
<1>2. ASSUME NEW t \in Thread,
             DrainEnds(t) \/ RebuildRaises(t) \/ FileFound(t) \/ MakeConn(t) \/ RefillPut(t)
      PROVE  CountInv'
  <2>1. pc[t] \in Locked
    BY <1>2 DEF DrainEnds, RebuildRaises, FileFound, MakeConn, RefillPut, Move, Locked, Rebuilding
  <2>2. \A u \in Thread : u # t => pc[u] \notin Locked
    BY <2>1, OneRebuilder
  <2>3. \A u \in Thread : u # t => pc'[u] = pc[u]
    BY <1>0, <1>2 DEF DrainEnds, RebuildRaises, FileFound, MakeConn, RefillPut, Move
  <2>4. \A u \in Thread : u # t => pc'[u] \notin {"exists", "connect", "refill"}
    BY <2>2, <2>3 DEF Locked, Rebuilding
  <2>5. CASE DrainEnds(t)
    <3>1. Len(opened)' = Len(opened) /\ drainedAt' \in {drainedAt, Len(opened)}
      BY <2>5 DEF DrainEnds
    <3>2. \/ pc'[t] = "idle"
          \/ pc'[t] = "exists" /\ drainedAt' = Len(opened)
      BY <1>0, <2>5 DEF DrainEnds, Move
    <3> QED
      BY <1>0, <2>4, <3>1, <3>2 DEF CountInv
  <2>6. CASE RebuildRaises(t)
    <3>1. pc'[t] = "idle" /\ UNCHANGED <<opened, drainedAt>>
      BY <1>0, <2>6 DEF RebuildRaises
    <3> QED
      BY <2>4, <3>1 DEF CountInv
  <2>7. CASE FileFound(t)
    <3>1. /\ pc[t] = "exists" /\ pc'[t] = "connect"
          /\ todo' = PoolSize /\ UNCHANGED <<opened, drainedAt>>
      BY <1>0, <2>7 DEF FileFound, Refill, Move
    <3> QED
      BY <1>0, <2>4, <3>1 DEF CountInv
  <2>8. CASE MakeConn(t)
    <3>1. /\ pc[t] = "connect" /\ pc'[t] = "refill"
          /\ Len(opened)' = Len(opened) + 1 /\ UNCHANGED <<todo, drainedAt>>
      BY <1>0, <2>8, AppendFacts DEF MakeConn, Move, LeaseInv, TypeOK
    <3> QED
      BY <1>0, <2>4, <3>1 DEF CountInv
  <2>9. CASE RefillPut(t)
    <3>1. /\ pc[t] = "refill" /\ UNCHANGED <<opened, drainedAt>> /\ todo' = todo - 1
          /\ \/ pc'[t] = "idle"
             \/ pc'[t] = "connect" /\ todo > 1
      BY <1>0, <2>9 DEF RefillPut
    <3> QED
      BY <1>0, <2>4, <3>1 DEF CountInv
  <2> QED
    BY <1>2, <2>5, <2>6, <2>7, <2>8, <2>9
<1>3. CASE Environment \/ UNCHANGED vars
  BY <1>3 DEF Environment, ReplaceFile, RemoveFile, RestoreFile, vars, poolVars, CountInv
<1> QED
  BY <1>1, <1>2, <1>3 DEF Next, Continue, PoolStep

\* What was opened since the last drain is closed by the next drain only.
LEMMA FullNext == LeaseInv /\ CountInv /\ FullInv /\ [Next]_vars => FullInv'
<1> SUFFICES ASSUME LeaseInv, CountInv, FullInv, [Next]_vars PROVE FullInv'
  OBVIOUS
<1> USE SizeAssumption, ThreadAssumption
<1>0. /\ pc \in [Thread -> Places] /\ opened \in Seq(Nat) /\ Len(opened) \in Nat
      /\ drainedAt \in Nat /\ todo \in Nat /\ closed \subseteq 1..Len(opened)
      /\ \A t \in Thread : pc[t] \in Locked <=> lock = t
  BY DEF LeaseInv, TypeOK, LockInv, Conns
<1>1. ASSUME NEW t \in Thread,
             Call(t) \/ PoolGet(t) \/ PoolPut(t) \/ \E failed \in BOOLEAN : QueryEnds(t, failed)
      PROVE  FullInv'
  <2>1. UNCHANGED <<opened, drainedAt, closed, lock, degraded>>
    BY <1>1 DEF Call, CallExecute, CallReopen, CallClose, PoolGet, PoolPut, QueryEnds, poolVars
  <2>2. \A u \in Thread :
          pc'[u] = pc[u] \/ (pc[u] \notin Locked /\ pc'[u] \notin Locked)
    BY <1>0, <1>1 DEF Call, CallExecute, CallReopen, CallClose, PoolGet, PoolPut, QueryEnds,
                      AfterQuery, Move, Locked, Rebuilding
  <2> QED
    BY <2>1, <2>2 DEF FullInv, Locked, Rebuilding
<1>2. ASSUME NEW t \in Thread,
             TakeLock(t) \/ DrainOne(t) \/ DrainEnds(t) \/ RebuildRaises(t) \/ FileFound(t)
               \/ MakeConn(t) \/ RefillPut(t)
      PROVE  FullInv'
  <2>1. \A u \in Thread : u # t => pc[u] \notin Locked
    BY <1>0, <1>2 DEF TakeLock, DrainOne, DrainEnds, RebuildRaises, FileFound, MakeConn, RefillPut,
                      Move, Locked, Rebuilding
  <2>2. \A u \in Thread : u # t => pc'[u] = pc[u]
    BY <1>0, <1>2 DEF TakeLock, DrainOne, DrainEnds, RebuildRaises, FileFound, MakeConn, RefillPut,
                      Move
  <2>3. \A u \in Thread : u # t => pc'[u] \notin Locked
    BY <2>1, <2>2
  <2>4. CASE TakeLock(t) \/ DrainOne(t)
    <3>1. pc'[t] \in {"drain", "drainClose"} /\ lock' = t
      BY <1>0, <2>4 DEF TakeLock, DrainOne, Move, Locked, Rebuilding
    <3> QED
      BY <2>3, <3>1 DEF FullInv, Locked, Rebuilding
  <2>5. CASE DrainEnds(t)
    <3>1. \/ pc'[t] = "idle" /\ degraded'
          \/ pc'[t] = "exists" /\ drainedAt' = Len(opened) /\ closed' = closed /\ lock' = lock
      BY <1>0, <2>5 DEF DrainEnds, Move
    <3>2. pc[t] \in Locked /\ lock = t
      BY <1>0, <2>5 DEF DrainEnds, Move, Locked, Rebuilding
    <3> QED
      BY <1>0, <2>3, <3>1, <3>2 DEF FullInv, Locked, Rebuilding
  <2>6. CASE RebuildRaises(t)
    <3>1. pc'[t] = "idle" /\ degraded'
      BY <1>0, <2>6 DEF RebuildRaises
    <3> QED
      BY <2>3, <3>1 DEF FullInv, Locked, Rebuilding
  <2>7. CASE FileFound(t) \/ MakeConn(t)
    <3>1. /\ pc[t] \in {"exists", "connect"} /\ lock = t
          /\ UNCHANGED <<drainedAt, closed, lock>>
      BY <1>0, <2>7 DEF FileFound, MakeConn, Move, Locked, Rebuilding
    <3> QED
      BY <3>1 DEF FullInv
  <2>8. CASE RefillPut(t)
    <3>1. /\ pc[t] = "refill" /\ lock = t
          /\ UNCHANGED <<drainedAt, closed, opened>>
          /\ lock' = t \/ (todo = 1 /\ lock' = NoThread)
      BY <1>0, <2>8 DEF RefillPut, Locked, Rebuilding
    <3>2. closed' \subseteq 1..drainedAt'
      BY <3>1 DEF FullInv
    <3>3. lock' = NoThread => Len(opened) = drainedAt + PoolSize
      BY <1>0, <3>1 DEF CountInv
    <3> QED
      BY <3>1, <3>2, <3>3 DEF FullInv
  <2> QED
    BY <1>2, <2>4, <2>5, <2>6, <2>7, <2>8
<1>3. CASE Environment \/ UNCHANGED vars
  BY <1>3 DEF Environment, ReplaceFile, RemoveFile, RestoreFile, vars, poolVars, FullInv
<1> QED
  BY <1>1, <1>2, <1>3 DEF Next, Continue, PoolStep

\* The inductive invariant of the pool: what LeaseInvariant says, and how many
\* connections a rebuild has opened and where they are.
THEOREM PoolInvariant == Spec => []PoolInv
<1>1. PoolInv /\ [Next]_vars => PoolInv'
  BY LeaseNext, CoverNext, CountNext, FullNext DEF PoolInv
<1> QED
  BY <1>1, PoolInit, PTL DEF Spec

-----------------------------------------------------------------------------
(* The survivors of a drain                                                  *)

\* How many connections are numbered m+1 to n.
LEMMA IntervalSize ==
  ASSUME NEW m \in Nat, NEW n \in Nat, m <= n
  PROVE  IsFiniteSet((m + 1)..n) /\ Cardinality((m + 1)..n) = n - m
<1>1. IsFiniteSet((m + 1)..n)
  BY FS_Interval
<1>2. CASE m = n
  <2>1. (m + 1)..n = {}
    BY <1>2
  <2> QED
    BY <1>2, <2>1, FS_EmptySet
<1>3. CASE m < n
  <2>1. Cardinality((m + 1)..n) = IF m + 1 > n THEN 0 ELSE n - (m + 1) + 1
    BY FS_Interval
  <2> QED
    BY <1>1, <1>3, <2>1
<1> QED
  BY <1>1, <1>2, <1>3

\* How many connections were opened, by their numbers.
LEMMA SegmentSize ==
  ASSUME NEW n \in Nat
  PROVE  IsFiniteSet(1..n) /\ Cardinality(1..n) = n
<1>1. IsFiniteSet(1..n) /\ Cardinality(1..n) = IF 1 > n THEN 0 ELSE n - 1 + 1
  BY 1 \in Int, n \in Int, FS_Interval
<1> QED
  BY <1>1

\* When reopen finds the queue empty, each connection still open is on loan, and
\* not to the thread that drains.
LEMMA SurvivorsAtDrain ==
  ASSUME PoolInv, NEW t \in Thread, pc[t] = "drain", pool = <<>>
  PROVE  IsFiniteSet(Live) /\ Cardinality(Live) < Cardinality(Thread)
<1> DEFINE Others == Thread \ {t}
           Borrower == [c \in Live |-> CHOOSE u \in Thread : held[u] = c]
<1>1. held[t] = NoConn
  BY DEF PoolInv, LeaseInv, HeldInv, Holding
<1>2. NoConn \notin Live
  BY DEF PoolInv, LeaseInv, TypeOK, Live, Conns, NoConn
<1>3. \A c \in Live : Borrower[c] \in Thread /\ held[Borrower[c]] = c
  BY DEF PoolInv, CoverInv
<1>4. Borrower \in [Live -> Others]
  BY <1>1, <1>2, <1>3
<1>5. Borrower \in Injection(Live, Others)
  BY <1>3, <1>4 DEF Injection, IsInjective
<1>6. IsFiniteSet(Others) /\ Cardinality(Others) = Cardinality(Thread) - 1
  BY ThreadAssumption, FS_RemoveElement
<1>7. IsFiniteSet(Live) /\ Cardinality(Live) <= Cardinality(Others)
  BY <1>5, <1>6, FS_Injection
<1>8. Cardinality(Thread) \in Nat /\ Cardinality(Live) \in Nat
  BY <1>7, ThreadAssumption, FS_CardinalityType
<1> QED
  BY <1>6, <1>7, <1>8

\* Only the end of a drain makes survivors; no other step adds one.
LEMMA SurvivorsNext == PoolInv /\ SurvivorsBounded /\ [Next]_vars => SurvivorsBounded'
<1> SUFFICES ASSUME PoolInv, SurvivorsBounded, [Next]_vars PROVE SurvivorsBounded'
  OBVIOUS
<1>0. /\ opened \in Seq(Nat) /\ Len(opened) \in Nat /\ drainedAt \in Nat
      /\ drainedAt <= Len(opened)
  BY DEF PoolInv, LeaseInv, TypeOK, CountInv
<1>1. IsFiniteSet(Survivors)
  <2>1. Survivors \in SUBSET (1..Len(opened)) /\ IsFiniteSet(1..Len(opened))
    BY <1>0, FS_Interval DEF Survivors, Live, Conns
  <2> QED
    BY <2>1, FS_Subset
<1>2. ASSUME drainedAt' = drainedAt, Survivors' \subseteq Survivors
      PROVE  SurvivorsBounded'
  <2>1. /\ IsFiniteSet(Survivors') /\ Cardinality(Survivors') <= Cardinality(Survivors)
    BY <1>1, <1>2, FS_Subset
  <2>2. Cardinality(Survivors') \in Nat /\ Cardinality(Survivors) \in Nat /\ Cardinality(Thread) \in Nat
    BY <1>1, <2>1, ThreadAssumption, FS_CardinalityType
  <2> QED
    BY <1>2, <2>1, <2>2 DEF SurvivorsBounded
<1>3. ASSUME NEW t \in Thread, DrainEnds(t), pc[t] = "drain"
      PROVE  SurvivorsBounded'
  <2>1. Survivors' \subseteq Live
    BY <1>3 DEF DrainEnds, Survivors, Live, Conns
  <2>2. IsFiniteSet(Live) /\ Cardinality(Live) < Cardinality(Thread)
    BY <1>3, SurvivorsAtDrain DEF DrainEnds, Drained
  <2>3. IsFiniteSet(Survivors') /\ Cardinality(Survivors') <= Cardinality(Live)
    BY <2>1, <2>2, FS_Subset
  <2>4. Cardinality(Survivors') \in Nat /\ Cardinality(Live) \in Nat /\ Cardinality(Thread) \in Nat
    BY <2>2, <2>3, ThreadAssumption, FS_CardinalityType
  <2> QED
    BY <2>2, <2>3, <2>4 DEF SurvivorsBounded
<1>4. ASSUME NEW t \in Thread, MakeConn(t)
      PROVE  drainedAt' = drainedAt /\ Survivors' \subseteq Survivors
  <2>1. Len(opened') = Len(opened) + 1 /\ UNCHANGED <<drainedAt, closed>>
    BY <1>0, <1>4, AppendFacts DEF MakeConn, PoolInv, LeaseInv, TypeOK
  <2> QED
    BY <1>0, <2>1 DEF Survivors, Live, Conns
<1>5. ASSUME NEW t \in Thread, DrainOne(t)
      PROVE  drainedAt' = drainedAt /\ Survivors' \subseteq Survivors
  BY <1>5 DEF DrainOne, Survivors, Live, Conns
<1>6. ASSUME UNCHANGED <<opened, closed, drainedAt>>
      PROVE  drainedAt' = drainedAt /\ Survivors' \subseteq Survivors
  BY <1>6 DEF Survivors, Live, Conns
<1>7. ASSUME NEW t \in Thread,
             Call(t) \/ PoolGet(t) \/ PoolPut(t) \/ RefillPut(t) \/ TakeLock(t) \/ RebuildRaises(t)
               \/ FileFound(t) \/ (\E failed \in BOOLEAN : QueryEnds(t, failed))
               \/ (DrainEnds(t) /\ pc[t] # "drain")
      PROVE  UNCHANGED <<opened, closed, drainedAt>>
  BY <1>7 DEF Call, CallExecute, CallReopen, CallClose, PoolGet, PoolPut, RefillPut, TakeLock,
              RebuildRaises, FileFound, QueryEnds, DrainEnds, Move, poolVars
<1>8. ASSUME Environment \/ UNCHANGED vars
      PROVE  UNCHANGED <<opened, closed, drainedAt>>
  BY <1>8 DEF Environment, ReplaceFile, RemoveFile, RestoreFile, vars, poolVars
<1> QED
  BY <1>2, <1>3, <1>4, <1>5, <1>6, <1>7, <1>8 DEF Next, Continue, PoolStep

\* However many threads there are and however often the pool is reopened, at most
\* one connection per thread other than the refresher outlives the last drain.
THEOREM AtMostTheBorrowedSurvive == Spec => []SurvivorsBounded
<1>1. Init => SurvivorsBounded
  BY DEF Init, SurvivorsBounded
<1> QED
  BY <1>1, PoolInvariant, SurvivorsNext, PTL DEF Spec

\* The open connections other than the survivors, and other than the one a thread
\* is giving back, fit into the queue with room for that one.
THEOREM OnlySurvivorsJam == Spec => []NoJamWithoutSurvivor
<1>1. PoolInv => NoJamWithoutSurvivor
  <2> SUFFICES ASSUME PoolInv, Survivors = {}, NEW t \in Thread, pc[t] \in {"put", "refill"}
               PROVE  Len(pool) < PoolSize
    BY DEF NoJamWithoutSurvivor
  <2> DEFINE Fresh == (drainedAt + 1)..Len(opened)
             Rest == Fresh \ {held[t]}
  <2>1. /\ pool \in Seq(Nat) /\ Len(pool) \in Nat /\ Len(opened) \in Nat /\ drainedAt \in Nat
        /\ drainedAt <= Len(opened) /\ Len(opened) <= drainedAt + PoolSize
        /\ PoolSize \in Nat
    BY SizeAssumption DEF PoolInv, LeaseInv, TypeOK, CountInv
  <2>2. held[t] # NoConn /\ held[t] \in Live
    BY DEF PoolInv, LeaseInv, HeldInv, Holding, LiveInv
  <2>3. Live \subseteq Fresh
    BY <2>1 DEF Survivors, Live, Conns
  <2>4. IsFiniteSet(Fresh) /\ Cardinality(Fresh) <= PoolSize
    <3>1. IsFiniteSet(Fresh) /\ Cardinality(Fresh) = Len(opened) - drainedAt
      BY <2>1, IntervalSize
    <3> QED
      BY <2>1, <3>1
  <2>5. IsFiniteSet(Rest) /\ Cardinality(Rest) = Cardinality(Fresh) - 1
    BY <2>2, <2>3, <2>4, FS_RemoveElement
  <2>6. pool \in Injection(1..Len(pool), Rest)
    <3>1. \A i \in DOMAIN pool : pool[i] \in Rest
      BY <2>2, <2>3 DEF PoolInv, LeaseInv, LiveInv, OnePlaceInv
    <3>2. \A i, j \in DOMAIN pool : pool[i] = pool[j] => i = j
      BY DEF PoolInv, LeaseInv, OnePlaceInv
    <3>3. pool \in [1..Len(pool) -> Rest]
      BY <2>1, <3>1
    <3> QED
      BY <2>1, <3>2, <3>3 DEF Injection, IsInjective
  <2>7. Cardinality(1..Len(pool)) <= Cardinality(Rest)
    BY <2>5, <2>6, FS_Injection
  <2>8. Cardinality(1..Len(pool)) = Len(pool)
    BY <2>1, SegmentSize
  <2>9. Cardinality(Fresh) \in Nat
    BY <2>4, FS_CardinalityType
  <2> QED
    BY <2>1, <2>4, <2>5, <2>7, <2>8, <2>9
<1> QED
  BY <1>1, PoolInvariant, PTL

\* While no rebuild is under way and the last one succeeded, the connections in
\* the queue and on loan are at least pool_size.
THEOREM NothingIsLost == Spec => []NoLostConnection
<1>1. PoolInv => NoLostConnection
  <2> SUFFICES ASSUME PoolInv, ~degraded, lock = NoThread
               PROVE  PoolSize <= Len(pool) + Cardinality({t \in Thread : held[t] # NoConn})
    BY DEF NoLostConnection
  <2> DEFINE Borrowers == {t \in Thread : held[t] # NoConn}
             Fresh == (drainedAt + 1)..Len(opened)
             Queued == {pool[i] : i \in 1..Len(pool)}
             Loaned == {held[t] : t \in Borrowers}
  <2>1. /\ pool \in Seq(Nat) /\ Len(pool) \in Nat /\ Len(opened) \in Nat /\ drainedAt \in Nat
        /\ Len(opened) = drainedAt + PoolSize /\ PoolSize \in Nat /\ held \in [Thread -> Nat]
    BY SizeAssumption DEF PoolInv, LeaseInv, TypeOK, FullInv
  <2>2. closed \subseteq 1..drainedAt
    <3>1. \A t \in Thread : pc[t] \notin {"drain", "drainClose"}
      BY ThreadAssumption DEF PoolInv, LeaseInv, LockInv, Locked, Rebuilding
    <3> QED
      BY <3>1 DEF PoolInv, FullInv
  <2>3. Fresh \subseteq Live /\ NoConn \notin Live
    BY <2>1, <2>2 DEF Live, Conns, NoConn
  <2>4. Live \subseteq Queued \cup Loaned
    BY <2>1, <2>3 DEF PoolInv, CoverInv
  <2>5. IsFiniteSet(Queued) /\ Cardinality(Queued) <= Len(pool)
    <3>1. pool \in Surjection(1..Len(pool), Queued)
      BY <2>1 DEF Surjection
    <3>2. IsFiniteSet(1..Len(pool)) /\ Cardinality(1..Len(pool)) = Len(pool)
      BY <2>1, SegmentSize
    <3> QED
      BY <3>1, <3>2, FS_Surjection
  <2>6. IsFiniteSet(Borrowers)
    BY ThreadAssumption, FS_Subset
  <2>7. IsFiniteSet(Loaned) /\ Cardinality(Loaned) <= Cardinality(Borrowers)
    <3>1. [t \in Borrowers |-> held[t]] \in Surjection(Borrowers, Loaned)
      BY DEF Surjection
    <3> QED
      BY <2>6, <3>1, FS_Surjection
  <2>8. /\ IsFiniteSet(Queued \cup Loaned)
        /\ Cardinality(Queued \cup Loaned)
             = Cardinality(Queued) + Cardinality(Loaned) - Cardinality(Queued \cap Loaned)
    BY <2>5, <2>7, FS_Union
  <2>9. Cardinality(Fresh) = PoolSize /\ Cardinality(Fresh) <= Cardinality(Queued \cup Loaned)
    <3>1. Cardinality(Fresh) = PoolSize
      BY <2>1, SizeAssumption, FS_Interval
    <3>2. Fresh \in SUBSET (Queued \cup Loaned)
      BY <2>3, <2>4
    <3> QED
      BY <2>8, <3>1, <3>2, FS_Subset
  <2>10. /\ Cardinality(Queued) \in Nat /\ Cardinality(Loaned) \in Nat
         /\ Cardinality(Borrowers) \in Nat /\ Cardinality(Queued \cap Loaned) \in Nat
    BY <2>5, <2>6, <2>7, FS_CardinalityType, FS_Intersection
  <2> QED
    BY <2>1, <2>5, <2>7, <2>8, <2>9, <2>10
<1> QED
  BY <1>1, PoolInvariant, PTL
=============================================================================
