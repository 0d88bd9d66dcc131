---------------------------- MODULE ConnectionLease ----------------------------
(***************************************************************************)
(* What ReadOnlyExecutor promises the code that runs queries through it,    *)
(* with no queue, lock or file: a connection is opened once, is on loan to  *)
(* one thread at a time, is closed only while nobody has it, and is never   *)
(* used again after that.  ConnectionPool is shown to implement this.       *)
(***************************************************************************)
EXTENDS Naturals

CONSTANTS Thread        \* the threads that share the executor

VARIABLES
  known,                \* connections that were ever opened
  open,                 \* those that are not closed
  lease                 \* the connection each thread has on loan

leaseVars == <<known, open, lease>>

Conn == Nat \ {0}
NoConn == 0

Leased == {lease[t] : t \in Thread} \ {NoConn}

Init ==
  /\ known \in SUBSET Conn
  /\ open = known
  /\ lease = [t \in Thread |-> NoConn]

\* A thread opens a connection nobody has seen before and holds it.
Open(t, c) ==
  /\ lease[t] = NoConn
  /\ c \notin known
  /\ known' = known \cup {c}
  /\ open' = open \cup {c}
  /\ lease' = [lease EXCEPT ![t] = c]

\* A thread borrows an open connection that no thread has.
Borrow(t, c) ==
  /\ lease[t] = NoConn
  /\ c \in open \ Leased
  /\ lease' = [lease EXCEPT ![t] = c]
  /\ UNCHANGED <<known, open>>

Return(t) ==
  /\ lease[t] # NoConn
  /\ lease' = [lease EXCEPT ![t] = NoConn]
  /\ UNCHANGED <<known, open>>

\* A connection is closed only while no thread has it.
Close(c) ==
  /\ c \in open \ Leased
  /\ open' = open \ {c}
  /\ UNCHANGED <<known, lease>>

Next ==
  \/ \E t \in Thread :
       \/ \E c \in known' \ known : Open(t, c)
       \/ \E c \in open : Borrow(t, c)
       \/ Return(t)
  \/ \E c \in open : Close(c)

Spec == Init /\ [][Next]_leaseVars
=============================================================================
