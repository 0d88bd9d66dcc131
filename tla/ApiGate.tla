------------------------------- MODULE ApiGate -------------------------------
(***************************************************************************)
(* What stands before a turn: app/api/deps.py and the checks of the chat    *)
(* endpoints (app/api/v1/chat.py, compat.py) and of the legacy ones         *)
(* (app/api/legacy.py), with the one RateLimiter all companies share.       *)
(*                                                                         *)
(* The checks of a request run without an await, so a request is one        *)
(* action.  Whether the company's context is there is the manager's         *)
(* business (CompanyManager) and a choice here.                             *)
(***************************************************************************)
EXTENDS RateLimiter, FiniteSets

CONSTANTS
  Company,   \* company ids
  Session    \* session ids: clients choose them, and companies may share them

VARIABLES
  last,      \* the last request: its company, session, endpoint, and outcome
  charged    \* history: times at which a session of a company spent a slot

gateVars == <<limiterVars, last, charged>>

Caller == Company \X Session

ASSUME GateAssumption == Caller \subseteq Key

\* Mutant: the key is the session id alone.
SessionKey(c, s) == <<"any company", s>>

\* f"{company_id}:{session_id}": company ids have no colon, so pairs of them
\* are as good as the string.
RateKey(c, s) == <<c, s>>

GateInit ==
  /\ LimiterInit
  /\ last = [code |-> "none"]
  /\ charged = [p \in Caller |-> <<>>]

Answer(c, s, endpoint, code) ==
  last' = [company |-> c, session |-> s, endpoint |-> endpoint, code |-> code]

\* The request is turned away before the limiter sees it.
TurnAway(c, s, endpoint, code) ==
  /\ Answer(c, s, endpoint, code)
  /\ UNCHANGED <<limiterVars, charged>>

\* The limiter is asked; a request it allows goes on to outcome.
AskLimiter(c, s, endpoint, outcome) ==
  \/ /\ Allow(RateKey(c, s))
     /\ Answer(c, s, endpoint, outcome)
     /\ charged' = [charged EXCEPT ![<<c, s>>] = Append(@, now)]
  \/ /\ Reject(RateKey(c, s))
     /\ Answer(c, s, endpoint, "rate_limited")
     /\ UNCHANGED charged

\* chat, chat_stream and chat_compat: context, limiter, length.
Chat(c, s, ready, fits) ==
  IF ~ready THEN TurnAway(c, s, "chat", "unavailable")
  ELSE AskLimiter(c, s, "chat", IF fits THEN "handled" ELSE "too_long")

\* Mutant: the limiter is asked before the length is checked.
LegacyLimiterFirst(c, s, trusted, ready, text) ==
  IF ~trusted THEN TurnAway(c, s, "legacy", "unauthorized")
  ELSE IF text = "empty" THEN TurnAway(c, s, "legacy", "empty")
  ELSE IF ~ready THEN TurnAway(c, s, "legacy", "unavailable")
  ELSE AskLimiter(c, s, "legacy", IF text = "long" THEN "too_long" ELSE "handled")

\* ask and query_v1: the secret, if one is configured; then, in _execute, text,
\* context, length, limiter.
Legacy(c, s, trusted, ready, text) ==
  IF ~trusted THEN TurnAway(c, s, "legacy", "unauthorized")
  ELSE IF text = "empty" THEN TurnAway(c, s, "legacy", "empty")
  ELSE IF ~ready THEN TurnAway(c, s, "legacy", "unavailable")
  ELSE IF text = "long" THEN TurnAway(c, s, "legacy", "too_long")
  ELSE AskLimiter(c, s, "legacy", "handled")

GateNext ==
  \/ Tick /\ UNCHANGED <<last, charged>>
  \/ \E c \in Company, s \in Session, ready \in BOOLEAN :
       \/ \E fits \in BOOLEAN : Chat(c, s, ready, fits)
       \/ \E trusted \in BOOLEAN, text \in {"empty", "ok", "long"} :
            Legacy(c, s, trusted, ready, text)

GateSpec == GateInit /\ [][GateNext]_gateVars

-----------------------------------------------------------------------------
(* Properties *)

GateTypeOK ==
  /\ LimiterTypeOK
  /\ charged \in [Caller -> Seq(Nat)]
  /\ last.code \in {"none", "unauthorized", "empty", "unavailable", "too_long",
                   "rate_limited", "handled"}

RecentCharges(p) == {i \in DOMAIN charged[p] : now - charged[p][i] <= Window}

\* "One company's traffic can't exhaust another's quota" (main.py:38), and no
\* request that was turned away counts: a session of a company is limited only
\* when that very session has spent Max slots within the window.
DenialsAreEarned ==
  [][now' = now /\ last'.code = "rate_limited" =>
       Cardinality(RecentCharges(<<last'.company, last'.session>>)) >= Max]_gateVars

\* A slot is spent by a request whose company was ready; the legacy endpoint
\* spends one only on a question it then answers, the chat endpoints also on
\* one they find too long.
SlotsAreWellSpent ==
  [][charged' # charged =>
       \/ last'.code = "handled"
       \/ last'.endpoint = "chat" /\ last'.code = "too_long"]_gateVars
=============================================================================
