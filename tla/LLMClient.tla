------------------------------ MODULE LLMClient ------------------------------
(***************************************************************************)
(* app/llm/anthropic_client.py: call with its retries, stream without any,  *)
(* and structured_call with its one corrective retry.                       *)
(*                                                                         *)
(* An action is the code from one await to the next.  elapsed is how long   *)
(* the caller's turn has been running: an await takes some time of          *)
(* Duration, and the deadline of the turn (Orchestrator.handle's wait_for)  *)
(* cancels the await it falls into.  The service is the environment.        *)
(***************************************************************************)
EXTENDS Naturals

CONSTANTS
  Caller,       \* turns that may be in a call
  MaxRetries,   \* llm_max_retries
  CallTimeout,  \* llm_timeout_s, in ticks: a limit per read, and a reply is one
  Duration,     \* how long a request may take, CallTimeout among them
  Deadline,     \* request_deadline_s, in ticks
  Cost,         \* tokens of one reply, by caller: its prompt is short or long
  MaxChunks     \* bound: pieces of a streamed text

ASSUME ClientAssumption ==
  /\ MaxRetries \in Nat
  /\ CallTimeout \in Nat \ {0}
  /\ Duration \subseteq 1..CallTimeout /\ CallTimeout \in Duration
  /\ Deadline \in Nat
  /\ Cost \in [Caller -> SUBSET Nat]
  /\ \A c \in Caller : \E most \in Cost[c] : \A tokens \in Cost[c] : tokens <= most
  /\ MaxChunks \in Nat

VARIABLES
  at,          \* where each caller's call is
  kind,        \* the method called
  attempt,     \* the for loop's attempt
  corrective,  \* structured_call is at its second call
  shown,       \* chunks yielded
  sent,        \* requests sent
  usage,       \* tokens of the last reply
  elapsed,     \* time since the caller's turn began
  billed,      \* history: tokens of all replies in the caller's turn
  wasted       \* history: those of replies structured_call threw away

callVars == <<at, kind, attempt, corrective, shown, sent>>
moneyVars == <<usage, billed, wasted>>
clientVars == <<callVars, moneyVars, elapsed>>

Awaiting == {"sent", "backoff", "streaming"}
Ended == {"answer", "error", "cancelled"}

ClientInit ==
  /\ at = [c \in Caller |-> "idle"]
  /\ kind = [c \in Caller |-> "call"]
  /\ attempt = [c \in Caller |-> 0]
  /\ corrective = [c \in Caller |-> FALSE]
  /\ shown = [c \in Caller |-> 0]
  /\ sent = [c \in Caller |-> 0]
  /\ usage = [c \in Caller |-> 0]
  /\ elapsed = [c \in Caller |-> 0]
  /\ billed = [c \in Caller |-> 0]
  /\ wasted = [c \in Caller |-> 0]

Goto(c, place) == at' = [at EXCEPT ![c] = place]

\* The method is called; it runs to its first await.
BeginCall(c, method) ==
  /\ at' = [at EXCEPT ![c] = IF method = "stream" THEN "streaming" ELSE "sent"]
  /\ kind' = [kind EXCEPT ![c] = method]
  /\ attempt' = [attempt EXCEPT ![c] = 0]
  /\ corrective' = [corrective EXCEPT ![c] = FALSE]
  /\ shown' = [shown EXCEPT ![c] = 0]
  /\ sent' = [sent EXCEPT ![c] = 1]

\* The caller is done with its calls: their locals are gone.
Leave(c) ==
  /\ Goto(c, "idle")
  /\ attempt' = [attempt EXCEPT ![c] = 0]
  /\ corrective' = [corrective EXCEPT ![c] = FALSE]
  /\ shown' = [shown EXCEPT ![c] = 0]
  /\ sent' = [sent EXCEPT ![c] = 0]
  /\ usage' = [usage EXCEPT ![c] = 0]
  /\ elapsed' = [elapsed EXCEPT ![c] = 0]
  /\ UNCHANGED <<kind, billed, wasted>>

\* An await that takes d ends before the deadline.
Await(c, d) ==
  /\ elapsed[c] + d < Deadline
  /\ elapsed' = [elapsed EXCEPT ![c] = @ + d]

Pay(c, tokens) ==
  /\ usage' = [usage EXCEPT ![c] = tokens]
  /\ billed' = [billed EXCEPT ![c] = @ + tokens]

\* messages.create returns.  structured_call parses the text: JSON that
\* validates, or not.
Reply(c, d, tokens, valid) ==
  /\ at[c] = "sent"
  /\ valid \/ kind[c] = "structured"
  /\ Await(c, d)
  /\ Pay(c, tokens)
  /\ IF valid THEN /\ Goto(c, "answer")
                   /\ UNCHANGED <<attempt, corrective, sent, wasted>>
     ELSE IF corrective[c] THEN /\ Goto(c, "error")
                                /\ UNCHANGED <<attempt, corrective, sent, wasted>>
     ELSE /\ Goto(c, "sent")
          /\ corrective' = [corrective EXCEPT ![c] = TRUE]
          /\ attempt' = [attempt EXCEPT ![c] = 0]
          /\ sent' = [sent EXCEPT ![c] = @ + 1]
          /\ wasted' = [wasted EXCEPT ![c] = @ + tokens]
  /\ UNCHANGED <<kind, shown>>

\* An APIStatusError that is not in _RETRYABLE_STATUS.
Refused(c, d) ==
  /\ at[c] = "sent"
  /\ Await(c, d)
  /\ Goto(c, "error")
  /\ UNCHANGED <<kind, attempt, corrective, shown, sent, moneyVars>>

\* Mutant: an attempt too many.
OneMoreAttempt(c) == attempt[c] <= MaxRetries

\* if attempt < attempts - 1
AttemptsLeft(c) == attempt[c] < MaxRetries

\* A retryable status, a connection error or a timeout: sleep, or give up.
Fails(c, d) ==
  /\ at[c] = "sent"
  /\ Await(c, d)
  /\ Goto(c, IF AttemptsLeft(c) THEN "backoff" ELSE "error")
  /\ UNCHANGED <<kind, attempt, corrective, shown, sent, moneyVars>>

\* asyncio.sleep(0.5 * 2 ** attempt) is over; it is less than a tick or so.
Wake(c, d) ==
  /\ at[c] = "backoff"
  /\ d <= 1
  /\ Await(c, d)
  /\ Goto(c, "sent")
  /\ attempt' = [attempt EXCEPT ![c] = @ + 1]
  /\ sent' = [sent EXCEPT ![c] = @ + 1]
  /\ UNCHANGED <<kind, corrective, shown, moneyVars>>

Chunk(c, d) ==
  /\ at[c] = "streaming"
  /\ shown[c] < MaxChunks
  /\ Await(c, d)
  /\ shown' = [shown EXCEPT ![c] = @ + 1]
  /\ UNCHANGED <<at, kind, attempt, corrective, sent, moneyVars>>

StreamEnds(c, d, tokens) ==
  /\ at[c] = "streaming"
  /\ Await(c, d)
  /\ Pay(c, tokens)
  /\ Goto(c, "answer")
  /\ UNCHANGED <<kind, attempt, corrective, shown, sent, wasted>>

\* Mutant: a stream that breaks off is begun again.
StreamRetried(c, d) ==
  /\ at[c] = "streaming"
  /\ Await(c, d)
  /\ attempt[c] < MaxRetries
  /\ attempt' = [attempt EXCEPT ![c] = @ + 1]
  /\ sent' = [sent EXCEPT ![c] = @ + 1]
  /\ UNCHANGED <<at, kind, corrective, shown, moneyVars>>

\* No retry: what was shown cannot be taken back.
StreamBreaks(c, d) ==
  /\ at[c] = "streaming"
  /\ Await(c, d)
  /\ Goto(c, "error")
  /\ UNCHANGED <<kind, attempt, corrective, shown, sent, moneyVars>>

\* The longest the await under way can last.
Longest(c) == IF at[c] = "backoff" THEN 1 ELSE CallTimeout

\* Mutant: only a streamed call is under the deadline.
CancelStreams(c) ==
  /\ at[c] = "streaming"
  /\ elapsed[c] + Longest(c) >= Deadline
  /\ elapsed' = [elapsed EXCEPT ![c] = Deadline]
  /\ Goto(c, "cancelled")
  /\ UNCHANGED <<kind, attempt, corrective, shown, sent, moneyVars>>

\* The turn's deadline falls into the await: CancelledError.
Cancel(c) ==
  /\ at[c] \in Awaiting
  /\ elapsed[c] + Longest(c) >= Deadline
  /\ elapsed' = [elapsed EXCEPT ![c] = Deadline]
  /\ Goto(c, "cancelled")
  /\ UNCHANGED <<kind, attempt, corrective, shown, sent, moneyVars>>

CallStep(c) ==
  \/ \E d \in Duration :
       \/ \E tokens \in Cost[c] :
            \/ \E valid \in BOOLEAN : Reply(c, d, tokens, valid)
            \/ StreamEnds(c, d, tokens)
       \/ Refused(c, d)
       \/ Fails(c, d)
       \/ Chunk(c, d)
       \/ StreamBreaks(c, d)
  \/ \E d \in {0, 1} : Wake(c, d)
  \/ Cancel(c)

-----------------------------------------------------------------------------
(* Properties *)

ClientTypeOK ==
  /\ at \in [Caller -> {"idle"} \cup Awaiting \cup Ended]
  /\ kind \in [Caller -> {"call", "structured", "stream"}]
  /\ attempt \in [Caller -> 0..MaxRetries]
  /\ corrective \in [Caller -> BOOLEAN]
  /\ shown \in [Caller -> 0..MaxChunks]
  /\ sent \in [Caller -> Nat]
  /\ usage \in [Caller -> Nat]
  /\ elapsed \in [Caller -> 0..Deadline]
  /\ billed \in [Caller -> Nat] /\ wasted \in [Caller -> Nat]

\* The client keeps the contract of LLMCall: six requests at most, the retries
\* of two calls, and none after the user has seen a piece of the answer.
Contract == INSTANCE LLMCall WITH
  MaxRequests <- 2 * (MaxRetries + 1),
  state <- [c \in Caller |-> IF at[c] \in Awaiting THEN "pending" ELSE at[c]],
  requests <- sent

KeepsContract == Contract!Spec
=============================================================================
