----------------------------- MODULE RateLimiter -----------------------------
(***************************************************************************)
(* app/core/cache.py: RateLimiter, the sliding window of requests per key.  *)
(*                                                                         *)
(* A window is the sequence of the times at which a key's requests were     *)
(* allowed, oldest first.  Time advances in ticks.  allow reads it once,    *)
(* before it takes the lock; its callers are endpoints on the one event     *)
(* loop and do not await in between, so a call is one action.               *)
(***************************************************************************)
EXTENDS Integers, Sequences

CONSTANTS
  Key,      \* rate-limit keys
  Max,      \* max_per_minute
  Window,   \* the 60 seconds, in ticks
  MaxTime   \* bound: the last tick

ASSUME LimiterAssumption ==
  /\ Max \in Nat \ {0}
  /\ Window \in Nat
  /\ MaxTime \in Nat

VARIABLES
  now,      \* time.monotonic()
  window,   \* self._events, an empty deque for a key never seen
  granted   \* history: when each key's requests were allowed, all of them

limiterVars == <<now, window, granted>>

LimiterInit ==
  /\ now = 0
  /\ window = [k \in Key |-> <<>>]
  /\ granted = [k \in Key |-> <<>>]

\* Mutant: an event is dropped when it is exactly a window old.
ExpiredEarly(t) == now - t >= Window

\* now - window[0] > 60
Expired(t) == now - t > Window

\* The while loop pops n events: it stops at the first that is not expired.
Pops(k, n) ==
  /\ \A i \in 1..n : Expired(window[k][i])
  /\ n < Len(window[k]) => ~Expired(window[k][n + 1])

Recent(k, n) == SubSeq(window[k], n + 1, Len(window[k]))

\* allow(k) is true: what expired is dropped and the request is counted.
Allow(k) ==
  /\ \E n \in 0..Len(window[k]) :
       /\ Pops(k, n)
       /\ Len(Recent(k, n)) < Max
       /\ window' = [window EXCEPT ![k] = Append(Recent(k, n), now)]
  /\ granted' = [granted EXCEPT ![k] = Append(@, now)]
  /\ UNCHANGED now

\* Mutant: a request that is turned away is counted too.
RejectCounted(k) ==
  /\ \E n \in 0..Len(window[k]) :
       /\ Pops(k, n)
       /\ Len(Recent(k, n)) >= Max
       /\ window' = [window EXCEPT ![k] = Append(Recent(k, n), now)]
  /\ UNCHANGED <<now, granted>>

\* allow(k) is false: what expired is dropped, nothing is added.
Reject(k) ==
  /\ \E n \in 0..Len(window[k]) :
       /\ Pops(k, n)
       /\ Len(Recent(k, n)) >= Max
       /\ window' = [window EXCEPT ![k] = Recent(k, n)]
  /\ UNCHANGED <<now, granted>>

Tick ==
  /\ now < MaxTime
  /\ now' = now + 1
  /\ UNCHANGED <<window, granted>>

LimiterNext == Tick \/ \E k \in Key : Allow(k) \/ Reject(k)

LimiterSpec == LimiterInit /\ [][LimiterNext]_limiterVars

-----------------------------------------------------------------------------
(* Properties *)

LimiterTypeOK ==
  /\ now \in Nat
  /\ window \in [Key -> Seq(Nat)]
  /\ \A k \in Key : Len(window[k]) <= Max
  /\ granted \in [Key -> Seq(Nat)]

\* Whatever stretch of time as long as the window one looks at, wherever it
\* begins, no more than Max requests of a key were allowed in it: a request and
\* the Max-th before it are more than a window apart.
NeverMoreThanMax ==
  \A k \in Key : \A i \in Max + 1 .. Len(granted[k]) :
    granted[k][i] - granted[k][i - Max] > Window

\* w is the end of g, and what g has before it is older than a window at time t.
IsEndOf(w, g, t) ==
  \E d \in 0..Len(g) :
    /\ Len(w) = Len(g) - d
    /\ \A i \in 1..Len(w) : w[i] = g[d + i]
    /\ \A i \in 1..d : t - g[i] > Window

\* What the deque remembers is the end of what was allowed, and what it has
\* dropped no longer counts.
WindowIsRecent == \A k \in Key : IsEndOf(window[k], granted[k], now)
=============================================================================
