------------------------- MODULE CompanyManagerProofs -------------------------
(***************************************************************************)
(* Theorems about CompanyManager, for every set of companies and any number *)
(* of changes to their files.                                              *)
(***************************************************************************)
EXTENDS CompanyManager, FiniteSetTheorems, TLAPS

InQueue(c) == \E i \in DOMAIN queue : queue[i] = c

Stopping == {"stop", "join", "close"}

\* A build is under way only before shutdown, for a company nobody is served.
BuildInv ==
  stage # "none" => loop \in {"startup", "serve"} /\ ctx[building] # "healthy"

\* Startup visits every company once: none in the queue was visited or is being
\* built, and one with a good file is still to come, being built or healthy.
StartupInv ==
  /\ \A c \in wasGood : file[c] = "good"
  /\ loop = "startup" =>
       /\ \A i, j \in DOMAIN queue : queue[i] = queue[j] => i = j
       /\ \A i \in DOMAIN queue : ctx[queue[i]] = "absent" /\ queue[i] # building
       /\ \A c \in wasGood : InQueue(c) \/ building = c \/ ctx[c] = "healthy"

\* A pool is opened for a company that gets a watcher, and only for it.
OpenInv == \A c \in open : watcher[c] # "off"

\* Shutdown has left a company behind only with its pool closed and a watcher
\* that cannot open it again, or else one that outlived its join.
ShutdownInv ==
  /\ loop \in {"join", "close"} => queue # <<>>
  /\ loop = "close" => Head(queue) \in abandoned \/ watcher[Head(queue)] = "ended"
  /\ loop = "down" => queue = <<>>
  /\ loop \in Stopping \cup {"down"} =>
       \A c \in Company :
         \/ InQueue(c)
         \/ c \in abandoned
         \/ c \notin open /\ watcher[c] \in {"off", "ended"}

ManagerInv ==
  /\ TypeOK
  /\ OneWatcher
  /\ BuildInv
  /\ StartupInv
  /\ OthersStart
  /\ OpenInv
  /\ ShutdownInv

-----------------------------------------------------------------------------
(* The queues                                                                *)

\* The order the loop takes companies in: each of them once, and all of them.
LEMMA SetToSeqFacts ==
  ASSUME NEW S, IsFiniteSet(S)
  PROVE  /\ SetToSeq(S) \in Seq(S)
         /\ \A i, j \in DOMAIN SetToSeq(S) : SetToSeq(S)[i] = SetToSeq(S)[j] => i = j
         /\ \A x \in S : \E i \in DOMAIN SetToSeq(S) : SetToSeq(S)[i] = x
<1> DEFINE n == Cardinality(S)
           f == SetToSeq(S)
<1>1. n \in Nat /\ ExistsBijection(1..n, S)
  BY FS_CardinalityType
<1>2. PICK g \in [1..n -> S] : IsInjective(g)
  <2>1. PICK g \in Bijection(1..n, S) : TRUE
    BY <1>1 DEF ExistsBijection
  <2>2. g \in [1..n -> S] /\ \A a, b \in 1..n : g[a] = g[b] => a = b
    BY DEF Bijection, Injection, IsInjective
  <2> QED
    BY <2>2 DEF IsInjective
<1>3. f \in [1..n -> S] /\ IsInjective(f)
  BY <1>2 DEF SetToSeq
<1>4. f \in Seq(S) /\ DOMAIN f = 1..n
  BY <1>1, <1>3
<1>5. f \in Surjection(1..n, S)
  <2>1. IsFiniteSet(1..n) /\ Cardinality(1..n) = n
    BY <1>1, FS_Interval
  <2>2. f \in Injection(1..n, S)
    BY <1>3 DEF Injection
  <2> QED
    BY <2>1, <2>2, FS_Injection
<1> QED
  BY <1>3, <1>4, <1>5 DEF IsInjective, Surjection

\* Taking the head: what was in the queue is the head or still in it.
LEMMA TailFacts ==
  ASSUME NEW S, NEW q \in Seq(S), q # <<>>
  PROVE  /\ Head(q) = q[1] /\ 1 \in DOMAIN q /\ Head(q) \in S
         /\ Tail(q) \in Seq(S)
         /\ \A i \in DOMAIN Tail(q) : i + 1 \in DOMAIN q /\ Tail(q)[i] = q[i + 1] /\ i + 1 # 1
         /\ \A i, j \in DOMAIN Tail(q) : i + 1 = j + 1 => i = j
         /\ \A i \in DOMAIN q : i # 1 => i - 1 \in DOMAIN Tail(q) /\ Tail(q)[i - 1] = q[i]
OBVIOUS

-----------------------------------------------------------------------------
(* The inductive invariant                                                   *)

\* Nothing is built, open or watched when the lifespan begins.
LEMMA ManagerInit == Init => ManagerInv
<1> SUFFICES ASSUME Init PROVE ManagerInv
  OBVIOUS
<1> USE ManagerAssumption DEF Init
<1>1. /\ queue \in Seq(Company)
      /\ \A i, j \in DOMAIN queue : queue[i] = queue[j] => i = j
      /\ \A c \in Company : InQueue(c)
  BY SetToSeqFacts DEF InQueue
<1>2. TypeOK
  BY <1>1 DEF TypeOK, Idle
<1>3. StartupInv
  <2>1. \A i \in DOMAIN queue : queue[i] \in Company
    BY <1>1
  <2> QED
    BY <1>1, <2>1 DEF StartupInv
<1> QED
  BY <1>2, <1>3 DEF ManagerInv, OneWatcher, BuildInv, OthersStart, OpenInv, ShutdownInv, Stopping

\* A request for a company that is not healthy begins a build of it.
LEMMA GetStep ==
  ASSUME ManagerInv, NEW c \in Company, Get(c)
  PROVE  ManagerInv'
<1> USE ManagerAssumption DEF ManagerInv, Get, Idle, loopVars, watcherVars, fileVars
<1>1. TypeOK'
  BY DEF TypeOK
<1>2. OneWatcher' /\ BuildInv' /\ StartupInv' /\ OthersStart' /\ OpenInv' /\ ShutdownInv'
  BY DEF TypeOK, NeedsBuild, OneWatcher, BuildInv, StartupInv, OthersStart, OpenInv, ShutdownInv, Stopping, InQueue
<1> QED
  BY <1>1, <1>2

\* Startup takes the head of its queue: it was there once, and waits for a build.
LEMMA BuildStep ==
  ASSUME ManagerInv, EagerBuild
  PROVE  ManagerInv'
<1> USE ManagerAssumption DEF ManagerInv, EagerBuild, Idle, loopVars, watcherVars, fileVars
<1>0. /\ queue \in Seq(Company) /\ queue # <<>>
      /\ Head(queue) \in Company /\ Tail(queue) \in Seq(Company)
      /\ Head(queue) = queue[1] /\ 1 \in DOMAIN queue
      /\ \A i \in DOMAIN Tail(queue) : i + 1 \in DOMAIN queue /\ Tail(queue)[i] = queue[i + 1] /\ i + 1 # 1
      /\ \A i, j \in DOMAIN Tail(queue) : i + 1 = j + 1 => i = j
      /\ \A i \in DOMAIN queue : i # 1 => i - 1 \in DOMAIN Tail(queue) /\ Tail(queue)[i - 1] = queue[i]
  <2>1. queue \in Seq(Company) /\ queue # <<>>
    BY DEF TypeOK, ShutdownInv
  <2> QED
    BY ONLY <2>1, TailFacts
<1>1. TypeOK'
  BY <1>0 DEF TypeOK
<1>2. OneWatcher' /\ BuildInv' /\ OpenInv'
  BY <1>0 DEF TypeOK, OneWatcher, BuildInv, StartupInv, OpenInv
<1>3. StartupInv' /\ OthersStart'
  <2>1. \A i, j \in DOMAIN queue' : queue'[i] = queue'[j] => i = j
    BY <1>0 DEF StartupInv
  <2>2. \A i \in DOMAIN queue' : ctx'[queue'[i]] = "absent" /\ queue'[i] # building'
    BY <1>0 DEF StartupInv
  <2>3. \A c \in wasGood' : InQueue(c)' \/ building' = c \/ ctx'[c] = "healthy"
    <3> SUFFICES ASSUME NEW c \in wasGood, InQueue(c)
                 PROVE  InQueue(c)' \/ building' = c
      BY DEF StartupInv, TypeOK
    <3>1. PICK i \in DOMAIN queue : queue[i] = c
      BY DEF InQueue
    <3>2. CASE i = 1
      BY <1>0, <3>1, <3>2
    <3>3. CASE i # 1
      <4>1. i - 1 \in DOMAIN queue' /\ queue'[i - 1] = c
        BY <1>0, <3>1, <3>3
      <4> QED
        BY <4>1 DEF InQueue
    <3> QED
      BY <3>2, <3>3
  <2> QED
    BY <2>1, <2>2, <2>3 DEF StartupInv, OthersStart
<1>4. ShutdownInv'
  BY <1>0 DEF TypeOK, OneWatcher, BuildInv, StartupInv, OpenInv, ShutdownInv, Stopping, InQueue
<1> QED
  BY <1>1, <1>2, <1>3, <1>4

\* The build gets further: nothing else sees it.
LEMMA ProgressStep ==
  ASSUME ManagerInv, BuildOpens \/ BuildDiscovers
  PROVE  ManagerInv'
<1> USE ManagerAssumption DEF ManagerInv, BuildDiscovers, BuildOpens, Idle, loopVars, watcherVars, fileVars
<1>1. TypeOK'
  BY DEF TypeOK
<1>2. OneWatcher' /\ BuildInv' /\ OpenInv'
  BY DEF TypeOK, OneWatcher, BuildInv, OpenInv
<1>3. StartupInv' /\ OthersStart'
  BY DEF TypeOK, OneWatcher, BuildInv, StartupInv, OthersStart, InQueue
<1>4. ShutdownInv'
  BY DEF TypeOK, OneWatcher, BuildInv, OpenInv, ShutdownInv, Stopping, InQueue
<1> QED
  BY <1>1, <1>2, <1>3, <1>4

\* A build ends: the company had no watcher and no pool, and now has one of each.
LEMMA BuildEndsStep ==
  ASSUME ManagerInv, BuildEnds
  PROVE  ManagerInv'
<1> USE ManagerAssumption DEF ManagerInv, BuildEnds, Idle, loopVars, watcherVars, fileVars
<1>0. building \in Company /\ watcher[building] = "off"
  BY DEF TypeOK, OneWatcher, BuildInv
<1>1. TypeOK'
  BY <1>0 DEF TypeOK
<1>2. OneWatcher' /\ BuildInv' /\ OpenInv'
  BY DEF TypeOK, OneWatcher, BuildInv, OpenInv
<1>3. StartupInv' /\ OthersStart'
  BY DEF TypeOK, OneWatcher, BuildInv, StartupInv, OthersStart, InQueue
<1>4. ShutdownInv'
  BY DEF TypeOK, OneWatcher, BuildInv, OpenInv, ShutdownInv, Stopping, InQueue
<1> QED
  BY <1>1, <1>2, <1>3, <1>4

\* A build fails: its company's file is not good, and nothing was left behind.
LEMMA BuildFailsStep ==
  ASSUME ManagerInv, BuildFails
  PROVE  ManagerInv'
<1> USE ManagerAssumption DEF ManagerInv, BuildFails, BuildRaises, Idle, loopVars, watcherVars, fileVars
<1>1. TypeOK'
  BY DEF TypeOK
<1>2. OneWatcher' /\ BuildInv' /\ OpenInv'
  BY DEF TypeOK, OneWatcher, BuildInv, OpenInv
<1>3. StartupInv' /\ OthersStart'
  <2>1. building \in Company /\ building \notin wasGood
    BY DEF TypeOK, StartupInv
  <2>2. /\ \A c \in Company : c # building => ctx'[c] = ctx[c]
        /\ UNCHANGED <<queue, loop, file, wasGood>>
    BY DEF TypeOK
  <2>3. \A i \in DOMAIN queue : queue[i] \in Company
    BY DEF TypeOK
  <2>4. wasGood \subseteq Company /\ NoCompany \notin Company /\ building' = NoCompany
    BY DEF TypeOK
  <2>5. StartupInv /\ OthersStart
    OBVIOUS
  <2> QED
    BY ONLY <2>1, <2>2, <2>3, <2>4, <2>5 DEF StartupInv, OthersStart, InQueue
<1>4. ShutdownInv'
  BY DEF TypeOK, OneWatcher, BuildInv, OpenInv, ShutdownInv, Stopping, InQueue
<1> QED
  BY <1>1, <1>2, <1>3, <1>4

\* Startup ends with its queue empty, so every company with a good file is healthy.
LEMMA ServeStep ==
  ASSUME ManagerInv, Serve
  PROVE  ManagerInv'
<1> USE ManagerAssumption DEF ManagerInv, Serve, Idle, loopVars, watcherVars, fileVars
<1>1. TypeOK'
  BY DEF TypeOK
<1>2. OneWatcher' /\ BuildInv' /\ OpenInv'
  BY DEF TypeOK, OneWatcher, BuildInv, OpenInv
<1>3. StartupInv' /\ OthersStart'
  BY DEF TypeOK, OneWatcher, BuildInv, StartupInv, OthersStart, InQueue
<1>4. ShutdownInv'
  BY DEF TypeOK, OneWatcher, BuildInv, OpenInv, ShutdownInv, Stopping, InQueue
<1> QED
  BY <1>1, <1>2, <1>3, <1>4

\* The watcher notices a change.
LEMMA LookStep ==
  ASSUME ManagerInv, NEW c \in Company, Look(c)
  PROVE  ManagerInv'
<1> USE ManagerAssumption DEF ManagerInv, Look, Watch, Idle, loopVars, watcherVars, fileVars
<1>1. TypeOK'
  BY DEF TypeOK
<1>2. OneWatcher' /\ BuildInv' /\ OpenInv'
  BY DEF TypeOK, OneWatcher, BuildInv, OpenInv
<1>3. StartupInv' /\ OthersStart'
  BY DEF TypeOK, OneWatcher, BuildInv, StartupInv, OthersStart, InQueue
<1>4. ShutdownInv'
  BY DEF TypeOK, OneWatcher, BuildInv, OpenInv, ShutdownInv, Stopping, InQueue
<1> QED
  BY <1>1, <1>2, <1>3, <1>4

\* The watcher empties the pool.
LEMMA DrainStep ==
  ASSUME ManagerInv, NEW c \in Company, Drain(c)
  PROVE  ManagerInv'
<1> USE ManagerAssumption DEF ManagerInv, Drain, Watch, Idle, loopVars, watcherVars, fileVars
<1>1. TypeOK'
  BY DEF TypeOK
<1>2. OneWatcher' /\ BuildInv' /\ OpenInv'
  BY DEF TypeOK, OneWatcher, BuildInv, OpenInv
<1>3. StartupInv' /\ OthersStart'
  BY DEF TypeOK, OneWatcher, BuildInv, StartupInv, OthersStart, InQueue
<1>4. ShutdownInv'
  BY DEF TypeOK, OneWatcher, BuildInv, OpenInv, ShutdownInv, Stopping, InQueue
<1> QED
  BY <1>1, <1>2, <1>3, <1>4

\* The watcher fills the pool again, even if the file went away or it jams.
LEMMA RefillStep ==
  ASSUME ManagerInv, NEW c \in Company, Refill(c) \/ Jam(c)
  PROVE  ManagerInv'
<1> USE ManagerAssumption DEF ManagerInv, Jam, Refill, Watch, Idle, loopVars, watcherVars, fileVars
<1>1. TypeOK'
  BY DEF TypeOK
<1>2. OneWatcher' /\ BuildInv' /\ OpenInv'
  BY DEF TypeOK, OneWatcher, BuildInv, OpenInv
<1>3. StartupInv' /\ OthersStart'
  BY DEF TypeOK, OneWatcher, BuildInv, StartupInv, OthersStart, InQueue
<1>4. ShutdownInv'
  BY DEF TypeOK, OneWatcher, BuildInv, OpenInv, ShutdownInv, Stopping, InQueue
<1> QED
  BY <1>1, <1>2, <1>3, <1>4

\* The watcher is back in its loop, or leaves it.
LEMMA RebuiltStep ==
  ASSUME ManagerInv, NEW c \in Company, Rebuilt(c) \/ WatcherEnds(c)
  PROVE  ManagerInv'
<1> USE ManagerAssumption DEF ManagerInv, Rebuilt, WatcherEnds, Watch, Idle, loopVars, watcherVars, fileVars
<1>1. TypeOK'
  BY DEF TypeOK
<1>2. OneWatcher' /\ BuildInv' /\ OpenInv'
  BY DEF TypeOK, OneWatcher, BuildInv, OpenInv
<1>3. StartupInv' /\ OthersStart'
  BY DEF TypeOK, OneWatcher, BuildInv, StartupInv, OthersStart, InQueue
<1>4. ShutdownInv'
  BY DEF TypeOK, OneWatcher, BuildInv, OpenInv, ShutdownInv, Stopping, InQueue
<1> QED
  BY <1>1, <1>2, <1>3, <1>4

\* Shutdown will visit every company that has a watcher or a pool.
LEMMA ShutdownStep ==
  ASSUME ManagerInv, Shutdown
  PROVE  ManagerInv'
<1> USE ManagerAssumption DEF ManagerInv, Shutdown, Idle, loopVars, watcherVars, fileVars
<1> DEFINE S == {c \in Company : ctx[c] # "absent"}
<1>0. /\ queue' \in Seq(Company)
      /\ \A c \in S : InQueue(c)'
  <2>1. IsFiniteSet(S)
    BY FS_Subset
  <2>2. queue' \in Seq(S) /\ \A c \in S : \E i \in DOMAIN queue' : queue'[i] = c
    <3>1. queue' = SetToSeq(S)
      OBVIOUS
    <3> HIDE DEF S
    <3> QED
      BY ONLY <2>1, <3>1, SetToSeqFacts
  <2>3. S \subseteq Company
    OBVIOUS
  <2> QED
    BY ONLY <2>2, <2>3 DEF InQueue
<1>1. TypeOK'
  BY <1>0 DEF TypeOK
<1>2. OneWatcher' /\ BuildInv' /\ OpenInv'
  BY DEF TypeOK, OneWatcher, BuildInv, OpenInv
<1>3. StartupInv' /\ OthersStart'
  BY DEF TypeOK, OneWatcher, BuildInv, StartupInv, OthersStart, InQueue
<1>4. ShutdownInv'
  <2>1. \A c \in Company : c \notin S => c \notin open /\ watcher[c] = "off"
    BY DEF OneWatcher, OpenInv
  <2> QED
    BY <1>0, <2>1 DEF ShutdownInv
<1> QED
  BY <1>1, <1>2, <1>3, <1>4

\* A failed context has neither pool nor watcher.
LEMMA SkipFailedStep ==
  ASSUME ManagerInv, SkipFailed
  PROVE  ManagerInv'
<1> USE ManagerAssumption DEF ManagerInv, SkipFailed, Idle, loopVars, watcherVars, fileVars
<1>0. /\ queue \in Seq(Company) /\ queue # <<>>
      /\ Head(queue) \in Company /\ Tail(queue) \in Seq(Company)
      /\ Head(queue) = queue[1] /\ 1 \in DOMAIN queue
      /\ \A i \in DOMAIN Tail(queue) : i + 1 \in DOMAIN queue /\ Tail(queue)[i] = queue[i + 1] /\ i + 1 # 1
      /\ \A i, j \in DOMAIN Tail(queue) : i + 1 = j + 1 => i = j
      /\ \A i \in DOMAIN queue : i # 1 => i - 1 \in DOMAIN Tail(queue) /\ Tail(queue)[i - 1] = queue[i]
  <2>1. queue \in Seq(Company) /\ queue # <<>>
    BY DEF TypeOK, ShutdownInv
  <2> QED
    BY ONLY <2>1, TailFacts
<1>1. TypeOK'
  BY <1>0 DEF TypeOK
<1>2. OneWatcher' /\ BuildInv' /\ OpenInv'
  BY <1>0 DEF TypeOK, OneWatcher, BuildInv, OpenInv
<1>3. StartupInv' /\ OthersStart'
  BY <1>0 DEF TypeOK, OneWatcher, BuildInv, StartupInv, OthersStart, InQueue
<1>4. ShutdownInv'
  <2> SUFFICES ASSUME NEW c \in Company, ~InQueue(c)'
               PROVE  c \in abandoned \/ (c \notin open' /\ watcher[c] \in {"off", "ended"})
    BY DEF ShutdownInv
  <2>1. CASE c = Head(queue)
    BY <2>1 DEF TypeOK, OneWatcher, OpenInv
  <2>2. CASE c # Head(queue)
    <3>1. ~InQueue(c)
      <4> SUFFICES ASSUME NEW i \in DOMAIN queue, queue[i] = c PROVE FALSE
        BY DEF InQueue
      <4>1. i - 1 \in DOMAIN queue' /\ queue'[i - 1] = c
        BY <1>0, <2>2
      <4> QED
        BY <4>1 DEF InQueue
    <3> QED
      BY <3>1 DEF ShutdownInv, Stopping
  <2> QED
    BY <2>1, <2>2
<1> QED
  BY <1>1, <1>2, <1>3, <1>4

\* The head's watcher is told to stop.
LEMMA StopWatcherStep ==
  ASSUME ManagerInv, StopWatcher
  PROVE  ManagerInv'
<1> USE ManagerAssumption DEF ManagerInv, StopWatcher, Idle, loopVars, watcherVars, fileVars
<1>1. TypeOK'
  BY DEF TypeOK
<1>2. OneWatcher' /\ BuildInv' /\ OpenInv'
  BY DEF TypeOK, OneWatcher, BuildInv, OpenInv
<1>3. StartupInv' /\ OthersStart'
  BY DEF TypeOK, OneWatcher, BuildInv, StartupInv, OthersStart, InQueue
<1>4. ShutdownInv'
  BY DEF TypeOK, OneWatcher, BuildInv, OpenInv, ShutdownInv, Stopping, InQueue
<1> QED
  BY <1>1, <1>2, <1>3, <1>4

\* After the join the watcher has ended, or is known to have outlived it.
LEMMA JoinStep ==
  ASSUME ManagerInv, Join
  PROVE  ManagerInv'
<1> USE ManagerAssumption DEF ManagerInv, Join, Idle, loopVars, watcherVars, fileVars
<1>0. queue \in Seq(Company) /\ queue # <<>> /\ Head(queue) \in Company
  BY DEF TypeOK, ShutdownInv
<1>1. TypeOK'
  BY <1>0 DEF TypeOK
<1>2. OneWatcher' /\ BuildInv' /\ OpenInv'
  BY DEF TypeOK, OneWatcher, BuildInv, OpenInv
<1>3. StartupInv' /\ OthersStart'
  BY DEF TypeOK, OneWatcher, BuildInv, StartupInv, OthersStart, InQueue
<1>4. ShutdownInv'
  BY DEF TypeOK, OneWatcher, BuildInv, OpenInv, ShutdownInv, Stopping, InQueue
<1> QED
  BY <1>1, <1>2, <1>3, <1>4

\* Closing the head's pool leaves it closed for good, unless its watcher was abandoned.
LEMMA CloseStep ==
  ASSUME ManagerInv, Close
  PROVE  ManagerInv'
<1> USE ManagerAssumption DEF ManagerInv, Close, Idle, loopVars, watcherVars, fileVars
<1>0. /\ queue \in Seq(Company) /\ queue # <<>>
      /\ Head(queue) \in Company /\ Tail(queue) \in Seq(Company)
      /\ Head(queue) = queue[1] /\ 1 \in DOMAIN queue
      /\ \A i \in DOMAIN Tail(queue) : i + 1 \in DOMAIN queue /\ Tail(queue)[i] = queue[i + 1] /\ i + 1 # 1
      /\ \A i, j \in DOMAIN Tail(queue) : i + 1 = j + 1 => i = j
      /\ \A i \in DOMAIN queue : i # 1 => i - 1 \in DOMAIN Tail(queue) /\ Tail(queue)[i - 1] = queue[i]
  <2>1. queue \in Seq(Company) /\ queue # <<>>
    BY DEF TypeOK, ShutdownInv
  <2> QED
    BY ONLY <2>1, TailFacts
<1>1. TypeOK'
  BY <1>0 DEF TypeOK
<1>2. OneWatcher' /\ BuildInv' /\ OpenInv'
  BY <1>0 DEF TypeOK, OneWatcher, BuildInv, OpenInv
<1>3. StartupInv' /\ OthersStart'
  BY <1>0 DEF TypeOK, OneWatcher, BuildInv, StartupInv, OthersStart, InQueue
<1>4. ShutdownInv'
  <2> SUFFICES ASSUME NEW c \in Company, ~InQueue(c)'
               PROVE  c \in abandoned \/ (c \notin open' /\ watcher[c] \in {"off", "ended"})
    BY DEF ShutdownInv
  <2>1. CASE c = Head(queue)
    <3>1. c \in abandoned \/ watcher[c] = "ended"
      BY <2>1 DEF ShutdownInv
    <3>2. c \notin open'
      BY <2>1
    <3> QED
      BY <3>1, <3>2
  <2>2. CASE c # Head(queue)
    <3>1. ~InQueue(c)
      <4> SUFFICES ASSUME NEW i \in DOMAIN queue, queue[i] = c PROVE FALSE
        BY DEF InQueue
      <4>1. i - 1 \in DOMAIN queue' /\ queue'[i - 1] = c
        BY <1>0, <2>2
      <4> QED
        BY <4>1 DEF InQueue
    <3> QED
      BY <3>1 DEF ShutdownInv, Stopping
  <2> QED
    BY <2>1, <2>2
<1> QED
  BY <1>1, <1>2, <1>3, <1>4

\* With the queue empty every company has been visited.
LEMMA DownStep ==
  ASSUME ManagerInv, Down
  PROVE  ManagerInv'
<1> USE ManagerAssumption DEF ManagerInv, Down, Idle, loopVars, watcherVars, fileVars
<1>1. TypeOK'
  BY DEF TypeOK
<1>2. OneWatcher' /\ BuildInv' /\ OpenInv'
  BY DEF TypeOK, OneWatcher, BuildInv, OpenInv
<1>3. StartupInv' /\ OthersStart'
  BY DEF TypeOK, OneWatcher, BuildInv, StartupInv, OthersStart, InQueue
<1>4. ShutdownInv'
  BY DEF TypeOK, OneWatcher, BuildInv, OpenInv, ShutdownInv, Stopping, InQueue
<1> QED
  BY <1>1, <1>2, <1>3, <1>4

\* A file changes.
LEMMA FileStep ==
  ASSUME ManagerInv, NEW c \in Company, \E content \in {"good", "broken", "gone"} : FileChanges(c, content)
  PROVE  ManagerInv'
<1> USE ManagerAssumption DEF ManagerInv, FileChanges, Idle, loopVars, watcherVars, fileVars
<1>1. TypeOK'
  BY DEF TypeOK
<1>2. OneWatcher' /\ BuildInv' /\ OpenInv'
  BY DEF TypeOK, OneWatcher, BuildInv, OpenInv
<1>3. StartupInv' /\ OthersStart'
  BY DEF TypeOK, OneWatcher, BuildInv, StartupInv, OthersStart, InQueue
<1>4. ShutdownInv'
  BY DEF TypeOK, OneWatcher, BuildInv, OpenInv, ShutdownInv, Stopping, InQueue
<1> QED
  BY <1>1, <1>2, <1>3, <1>4

\* No step of the loop, of a watcher or of a file breaks the invariant.
LEMMA ManagerNext == ManagerInv /\ [Next]_vars => ManagerInv'
<1> SUFFICES ASSUME ManagerInv, [Next]_vars PROVE ManagerInv'
  OBVIOUS
<1>1. CASE UNCHANGED vars
  BY <1>1 DEF vars, loopVars, watcherVars, fileVars, ManagerInv, TypeOK, Idle, OneWatcher, BuildInv,
              StartupInv, OthersStart, OpenInv, ShutdownInv, Stopping, InQueue
<1>2. CASE LoopStep
  BY <1>2, BuildStep, ProgressStep, BuildEndsStep, BuildFailsStep, ServeStep, SkipFailedStep,
     StopWatcherStep, JoinStep, CloseStep, DownStep DEF LoopStep
<1>3. ASSUME NEW c \in Company, Get(c) \/ WatcherStep(c) \/ Jam(c)
      PROVE  ManagerInv'
  BY <1>3, GetStep, LookStep, DrainStep, RefillStep, RebuiltStep DEF WatcherStep
<1>4. CASE Shutdown
  BY <1>4, ShutdownStep
<1>5. ASSUME NEW c \in Company, NEW content \in {"good", "broken", "gone"}, FileChanges(c, content)
      PROVE  ManagerInv'
  BY <1>5, FileStep
<1> QED
  BY <1>1, <1>2, <1>3, <1>4, <1>5 DEF Next

\* What the four theorems below have in common.
LEMMA ManagerInvariant == Spec => []ManagerInv
  BY ManagerInit, ManagerNext, PTL DEF Spec

-----------------------------------------------------------------------------
\* The manager's state has its type: in particular a build has a company exactly
\* while it has a stage, and no company ever has two watcher threads.
THEOREM ManagerTypeCorrect == Spec => []TypeOK
<1>1. ManagerInv => TypeOK
  BY DEF ManagerInv
<1> QED
  BY <1>1, ManagerInvariant, PTL

\* Failures, retries and refreshes of any number of companies leave each with one
\* watcher, which it has exactly while its context serves (get, _build and stop of
\* CompanyContextManager and DatabaseWatcher).
THEOREM EachHasOneWatcher == Spec => []OneWatcher
<1>1. ManagerInv => OneWatcher
  BY DEF ManagerInv
<1> QED
  BY <1>1, ManagerInvariant, PTL

\* One company's broken database does not keep the others from starting: after
\* build_all_eagerly whoever has had a good file all along is healthy, however
\* many companies there are and however their files change meanwhile.
THEOREM OneFailureStaysApart == Spec => []OthersStart
<1>1. ManagerInv => OthersStart
  BY DEF ManagerInv
<1> QED
  BY <1>1, ManagerInvariant, PTL

\* shutdown leaves no pool open, except of a company whose watcher outlived the
\* two seconds its stop waits.
THEOREM ShutdownClosesPools == Spec => []ClosedAtEnd
<1>1. ManagerInv => ClosedAtEnd
  BY DEF ManagerInv, TypeOK, ShutdownInv, ClosedAtEnd, InQueue
<1> QED
  BY <1>1, ManagerInvariant, PTL
=============================================================================
