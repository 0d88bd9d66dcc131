------------------------------- MODULE ChatTurns -------------------------------
(***************************************************************************)
(* The turns of one company's Orchestrator (app/orchestrator/              *)
(* orchestrator.py: handle, _handle, stream, the path methods), with the    *)
(* conversation store (conversation.py) and the two chat endpoints          *)
(* (app/api/v1/chat.py).                                                   *)
(*                                                                         *)
(* All turns run on one event loop, so a turn is interrupted only where it  *)
(* awaits an LLM call.  Between two awaits it has the loop to itself:       *)
(* "loop" is the turn that is running, and every other action of the model  *)
(* needs it to be free.  What a turn leaves on the orchestrator object      *)
(* (_last_result, ...) is shared by all of them.                            *)
(*                                                                         *)
(* A result, a generated statement, a cache hit, a verification report and  *)
(* an outcome are named by the turn that made them; "shown" is the set of   *)
(* the turns whose work a response, its audit record or its count in the    *)
(* metrics shows.  Text is a sequence of tokens: the chunks of a narration, *)
(* a fixed message, the message of a missed deadline, the caveat of the     *)
(* verification.  Stage events are left out.                                *)
(***************************************************************************)
EXTENDS Naturals, FiniteSets, Sequences, SequencesExt

CONSTANTS
  Turn,            \* one request each
  Session,         \* session_ids
  NoTurn,          \* None
  HistorySize,     \* settings.history_size, counted in messages
  WorkingSetSize,  \* results a session keeps
  AgentEnabled,    \* settings.agent_enabled
  AuditEnabled,    \* an AuditTrail is given and settings.audit_enabled
  VerificationStrict, \* settings.verification_strict
  MaxChunks        \* bound: chunks of one narration

ASSUME TurnAssumption == NoTurn \notin Turn
ASSUME StoreAssumption == HistorySize \in Nat \ {0} /\ WorkingSetSize \in Nat \ {0}
ASSUME AgentAssumption == AgentEnabled \in BOOLEAN /\ MaxChunks \in Nat \ {0}
ASSUME AuditAssumption == AuditEnabled \in BOOLEAN
ASSUME VerificationAssumption == VerificationStrict \in BOOLEAN

VARIABLES
  turn,      \* each turn's place, request, local variables and outcome
  loop,      \* the turn the event loop is running, or NoTurn
  last,      \* the _last_* fields of the orchestrator
  store,     \* the conversation store: history and working set per session
  written,   \* turns that were under way when the session was last written
  audit,     \* the entries the audit log has made, and whether each was written
  log        \* history: the turns each session's history stands for, in order

vars == <<turn, loop, last, store, written, audit, log>>

Prefixed == {"scan", "external", "investigate"}
Narrated == {"use_view", "needs_sql", "refine", "run_playbook"}
Instant == {"greeting", "clarify", "out_of_scope"}
Decision == Instant \cup Narrated \cup {"investigate"}

\* Mutant: the deadline covers the routing call only.
AwaitingRouting == {"routing"}

Awaiting == {"routing", "sqlgen", "sqlretry", "answering", "agent"}
Active == {"dispatch", "path", "finish"}

Message == <<"message">>
Late == <<"late">>
Caveat == <<"caveat">>

Ready(s, streamed) ==
  [at |-> "ready", session |-> s, streamed |-> streamed,
   decision |-> "none", refinable |-> FALSE, prefixed |-> FALSE, rows |-> FALSE,
   text |-> <<>>, answer |-> <<>>, ending |-> "none",
   shown |-> {}, overlapped |-> FALSE]

Empty == [history |-> <<>>, results |-> <<>>]
Forgotten ==
  [result |-> NoTurn, rows |-> FALSE, sql |-> NoTurn, hit |-> NoTurn, verified |-> NoTurn,
   outcome |-> NoTurn]

Running == {t \in Turn : turn[t].at \notin {"ready", "ended"}}

Init ==
  /\ turn \in [Turn -> {Ready(s, streamed) : s \in Session, streamed \in BOOLEAN}]
  /\ loop = NoTurn
  /\ last = Forgotten
  /\ store = [s \in Session |-> Empty]
  /\ written = [s \in Session |-> {}]
  /\ audit = <<>>
  /\ log = [s \in Session |-> <<>>]

\* Turn t goes on with the fields of record.
Becomes(t, record) == turn' = [turn EXCEPT ![t] = record]

\* The routing decision has done its work; the local variables are gone.
Routed(record) == [record EXCEPT !.decision = "none", !.refinable = FALSE]
Over(record) == [Routed(record) EXCEPT !.rows = FALSE]

\* The loop comes back to a turn that awaited, or is given back by one.
Resumes(t, place) == loop = NoTurn /\ turn[t].at = place
Runs(t, place) == loop = t /\ turn[t].at = place

\* Mutant: a deque without maxlen.
Unbounded(size, seq) == seq

\* What a deque with maxlen keeps.
Bounded(size, seq) ==
  IF Len(seq) <= size THEN seq ELSE SubSeq(seq, Len(seq) - size + 1, Len(seq))

-----------------------------------------------------------------------------
(* The start of a turn, up to its first await                                *)

\* A session that was written since a turn under way began is younger than the
\* deadline, and the deadline is shorter than ttl_min.
Expirable(s) == written[s] \cap Running = {}

\* Mutant: _last_result is not reset.
ResetButResult(fields) == [fields EXCEPT !.sql = NoTurn, !.hit = NoTurn, !.verified = NoTurn]

Reset(fields) == [Forgotten EXCEPT !.outcome = fields.outcome]

\* _handle resets the shared fields, purges the store and reads the history.
Start(t, expired) ==
  /\ loop = NoTurn
  /\ turn[t].at = "ready"
  /\ \A x \in expired : store[x] # Empty /\ Expirable(x)
  /\ loop' = t
  /\ turn' = [u \in Turn |->
       CASE u = t -> [turn[u] EXCEPT !.at = "dispatch", !.overlapped = Running # {}]
         [] u \in Running -> [turn[u] EXCEPT !.overlapped = TRUE]
         [] OTHER -> turn[u]]
  /\ last' = Reset(last)
  /\ store' = [x \in Session |-> IF x \in expired THEN Empty ELSE store[x]]
  /\ log' = [x \in Session |-> IF x \in expired THEN <<>> ELSE log[x]]
  /\ UNCHANGED <<written, audit>>

\* A prefix decides the turn before the routing call.  /scan, /search without a
\* question and a disabled /investigate are answered at once.
DispatchPrefixed(t) ==
  /\ Runs(t, "dispatch")
  /\ \/ \E d \in Prefixed :
          /\ d = "investigate" => ~AgentEnabled
          /\ Becomes(t, [turn[t] EXCEPT !.at = "finish", !.prefixed = TRUE, !.answer = Message])
          /\ UNCHANGED loop
     \/ /\ Becomes(t, [turn[t] EXCEPT !.at = "answering", !.prefixed = TRUE])
        /\ loop' = NoTurn
     \/ /\ AgentEnabled
        /\ Becomes(t, [turn[t] EXCEPT !.at = "agent", !.prefixed = TRUE])
        /\ loop' = NoTurn
  /\ UNCHANGED <<last, store, written, audit, log>>

\* The working set is read here; a refinement uses this copy after the await.
DispatchRouted(t) ==
  /\ Runs(t, "dispatch")
  /\ Becomes(t, [turn[t] EXCEPT !.at = "routing",
                                !.refinable = store[turn[t].session].results # <<>>])
  /\ loop' = NoTurn
  /\ UNCHANGED <<last, store, written, audit, log>>

RoutingAnswers(t, d) ==
  /\ Resumes(t, "routing")
  /\ loop' = t
  /\ Becomes(t, [turn[t] EXCEPT !.at = "path", !.decision = d])
  /\ UNCHANGED <<last, store, written, audit, log>>

-----------------------------------------------------------------------------
(* The path methods, up to their await                                       *)

\* A fixed text: an instant decision, a clarification, a missing working set,
\* or any EliaraError on the way (an unknown view, a query that failed).
PathEndsAtOnce(t) ==
  /\ Runs(t, "path")
  /\ Becomes(t, [Routed(turn[t]) EXCEPT !.at = "finish", !.answer = Message])
  /\ UNCHANGED <<loop, last, store, written, audit, log>>

\* run_playbook found nothing: primary_result is None.
PlaybookIsEmpty(t) ==
  /\ Runs(t, "path")
  /\ turn[t].decision = "run_playbook"
  /\ Becomes(t, [Routed(turn[t]) EXCEPT !.at = "finish", !.answer = Message])
  /\ last' = [last EXCEPT !.result = NoTurn]
  /\ UNCHANGED <<loop, store, written, audit, log>>

\* A result is in hand and its narration is requested.
PathQueries(t, hit, rows) ==
  /\ Runs(t, "path")
  /\ turn[t].decision \in {"use_view", "refine", "run_playbook"}
  /\ hit => turn[t].decision = "use_view"
  /\ turn[t].decision = "refine" => turn[t].refinable
  /\ turn[t].decision = "run_playbook" => rows
  /\ Becomes(t, [Routed(turn[t]) EXCEPT !.at = "answering", !.rows = rows])
  /\ last' = [last EXCEPT !.result = t, !.rows = rows, !.hit = IF hit THEN t ELSE @]
  /\ loop' = NoTurn
  /\ UNCHANGED <<store, written, audit, log>>

PathAwaits(t) ==
  /\ Runs(t, "path")
  /\ \/ /\ turn[t].decision = "needs_sql"
        /\ Becomes(t, [Routed(turn[t]) EXCEPT !.at = "sqlgen"])
     \/ /\ turn[t].decision = "investigate"
        /\ AgentEnabled
        /\ Becomes(t, [Routed(turn[t]) EXCEPT !.at = "agent"])
  /\ loop' = NoTurn
  /\ UNCHANGED <<last, store, written, audit, log>>

\* The validator rejects the statement: one more attempt, then a message.
SqlRejected(t) ==
  /\ \/ /\ Resumes(t, "sqlgen")
        /\ Becomes(t, [turn[t] EXCEPT !.at = "sqlretry"])
        /\ UNCHANGED loop
     \/ /\ Resumes(t, "sqlretry")
        /\ Becomes(t, [turn[t] EXCEPT !.at = "finish", !.answer = Message])
        /\ loop' = t
  /\ UNCHANGED <<last, store, written, audit, log>>

\* The statement is accepted and executed, or found in the cache.
SqlRuns(t, hit, rows) ==
  /\ loop = NoTurn
  /\ turn[t].at \in {"sqlgen", "sqlretry"}
  /\ Becomes(t, [turn[t] EXCEPT !.at = "answering", !.rows = rows])
  /\ last' = [last EXCEPT !.result = t, !.rows = rows, !.sql = t,
                          !.hit = IF hit THEN t ELSE @]
  /\ UNCHANGED <<loop, store, written, audit, log>>

SqlFails(t) ==
  /\ loop = NoTurn
  /\ turn[t].at \in {"sqlgen", "sqlretry"}
  /\ Becomes(t, [turn[t] EXCEPT !.at = "finish", !.answer = Message])
  /\ last' = [last EXCEPT !.sql = t]
  /\ loop' = t
  /\ UNCHANGED <<store, written, audit, log>>

-----------------------------------------------------------------------------
(* Narration                                                                 *)

\* One chunk of a streamed narration; the turn awaits the next.
AnswerChunk(t) ==
  /\ \/ Resumes(t, "answering")
     \/ Resumes(t, "agent")
  /\ turn[t].streamed
  /\ Len(turn[t].text) < MaxChunks
  /\ Becomes(t, [turn[t] EXCEPT !.text = Append(@, "chunk")])
  /\ UNCHANGED <<loop, last, store, written, audit, log>>

\* In strict mode a narration with a figure the result does not bear out gets a
\* caveat, after it was streamed.
Verified(narration, ungrounded) ==
  IF VerificationStrict /\ ungrounded THEN narration \o Caveat ELSE narration

\* The narration is complete and, on the pipeline's paths, verified against the
\* local result, if that has rows.
AnswerEnds(t, ungrounded) ==
  /\ Resumes(t, "answering")
  /\ ungrounded => VerificationStrict /\ turn[t].rows
  /\ Becomes(t, [Over(turn[t]) EXCEPT
                   !.at = "finish",
                   !.answer = Verified(IF turn[t].streamed THEN turn[t].text ELSE <<"chunk">>,
                                       ungrounded)])
  /\ last' = IF turn[t].prefixed THEN last ELSE [last EXCEPT !.verified = t]
  /\ loop' = t
  /\ UNCHANGED <<store, written, audit, log>>

\* The agent answers in one piece, or lands in a streamed narration; what it says
\* is verified against the results it has gathered.
AgentEnds(t, generated, ungrounded) ==
  /\ Resumes(t, "agent")
  /\ ungrounded => VerificationStrict
  /\ Becomes(t, [turn[t] EXCEPT
                   !.at = "finish",
                   !.answer = Verified(IF turn[t].text # <<>> THEN turn[t].text ELSE <<"chunk">>,
                                       ungrounded)])
  /\ last' = [last EXCEPT !.sql = IF generated THEN t ELSE NoTurn]
  /\ loop' = t
  /\ UNCHANGED <<store, written, audit, log>>

\* An LLM call of a routed path fails: the message of the error is the answer,
\* whatever was streamed before.
CallFails(t) ==
  /\ loop = NoTurn
  /\ turn[t].at \in {"sqlgen", "sqlretry", "answering", "agent"}
  /\ ~turn[t].prefixed
  /\ Becomes(t, [Over(turn[t]) EXCEPT !.at = "finish", !.answer = Message])
  /\ loop' = t
  /\ UNCHANGED <<last, store, written, audit, log>>

-----------------------------------------------------------------------------
(* The end of a turn                                                         *)

\* Mutant: no fallback token for an answer that was not streamed.
StreamedOnly(t) == turn[t].text

\* The text a stream has sent when the turn is over: an answer of which nothing
\* was streamed goes out as one token.
Delivered(t) ==
  IF turn[t].streamed /\ turn[t].text = <<>> THEN turn[t].answer ELSE turn[t].text

\* What the endpoint does with an outcome: a batch response carries the answer
\* and counts at once, a stream ends with the visual of _last_result and "done",
\* and counts later.
Deliver(t, reported, ending, text) ==
  Becomes(t, [Over(turn[t]) EXCEPT
                !.at = IF turn[t].streamed THEN "closing" ELSE "ended",
                !.ending = ending,
                !.text = text,
                !.answer = IF turn[t].streamed THEN @ ELSE <<>>,
                !.shown = {IF turn[t].streamed THEN last.result ELSE t, reported} \ {NoTurn}])

Told(s, t) ==
  /\ written' = [written EXCEPT ![s] = Running \ {t}]
  /\ log' = [log EXCEPT ![s] = Append(@, t)]

\* Mutant: the answer is appended before the question.
WithPairSwapped(history, t) ==
  Bounded(HistorySize, history \o <<[role |-> "assistant", of |-> t], [role |-> "user", of |-> t]>>)

WithPair(history, t) ==
  Bounded(HistorySize, history \o <<[role |-> "user", of |-> t], [role |-> "assistant", of |-> t]>>)

\* Mutant: an entry that cannot be written is tried a second time.
RecordedTwice(t, stored) ==
  IF stored THEN Append(audit, [of |-> t, shown |-> {last.sql, last.hit} \ {NoTurn}, stored |-> TRUE])
            ELSE audit \o [i \in 1..2 |-> [of |-> t, shown |-> {last.sql, last.hit} \ {NoTurn},
                                          stored |-> i = 2]]

\* AuditTrail.record: nothing if auditing is off; an entry whose write raises is
\* dropped, and the operational warning "audit_write_failed" is all that says so.
Recorded(t, stored) ==
  IF AuditEnabled
    THEN Append(audit, [of |-> t, shown |-> {last.sql, last.hit} \ {NoTurn}, stored |-> stored])
    ELSE audit

\* remember_result, unless there is none or it has no rows; both messages; the
\* outcome and its audit record, all read from the shared fields.
FinishRouted(t, stored) ==
  LET s == turn[t].session
      remembered ==
        IF last.result = NoTurn \/ ~last.rows
          THEN store[s].results
          ELSE Bounded(WorkingSetSize, Append(store[s].results,
                                              [label |-> t, result |-> last.result]))
  IN /\ Runs(t, "finish")
     /\ ~turn[t].prefixed
     /\ store' = [store EXCEPT ![s] = [history |-> WithPair(@.history, t),
                                       results |-> remembered]]
     /\ Told(s, t)
     /\ stored => AuditEnabled
     /\ audit' = Recorded(t, stored)
     /\ Deliver(t, last.verified, "answered", Delivered(t))
     /\ last' = [last EXCEPT !.outcome = t]
     /\ loop' = NoTurn

\* _bypass_outcome: the messages only, no result, no audit record.
FinishPrefixed(t) ==
  LET s == turn[t].session
  IN /\ Runs(t, "finish")
     /\ turn[t].prefixed
     /\ store' = [store EXCEPT ![s].history = WithPair(@, t)]
     /\ Told(s, t)
     /\ Deliver(t, NoTurn, "bypassed", Delivered(t))
     /\ last' = [last EXCEPT !.outcome = t]
     /\ loop' = NoTurn
     /\ UNCHANGED audit

\* Mutant: the audit record is written in a finally clause.
TimeoutAudited(t) ==
  /\ loop = NoTurn
  /\ turn[t].at \in Awaiting
  /\ Deliver(t, NoTurn, "timeout", turn[t].text \o Late)
  /\ last' = [last EXCEPT !.outcome = t]
  /\ audit' = Recorded(t, TRUE)
  /\ UNCHANGED <<loop, store, written, log>>

\* The deadline of handle(): the await is cancelled and nothing is recorded but
\* the outcome.  A stream gets the message as a token after those it had.
Timeout(t) ==
  /\ loop = NoTurn
  /\ turn[t].at \in Awaiting
  /\ Deliver(t, NoTurn, "timeout", IF turn[t].streamed THEN turn[t].text \o Late ELSE <<>>)
  /\ last' = [last EXCEPT !.outcome = t]
  /\ UNCHANGED <<loop, store, written, audit, log>>

\* The routing call, or a call of a prefixed path, fails: the exception leaves
\* handle().  A batch request fails, a stream ends with an error event.
Raises(t) ==
  /\ loop = NoTurn
  /\ \/ turn[t].at = "routing"
     \/ turn[t].at \in {"answering", "agent"} /\ turn[t].prefixed
  /\ Becomes(t, [Over(turn[t]) EXCEPT
                   !.at = IF turn[t].streamed THEN "closing" ELSE "ended",
                   !.ending = "raised"])
  /\ UNCHANGED <<loop, last, store, written, audit, log>>

\* event_source has sent the last event and counts the orchestrator's record of
\* "the turn it just finished".
CloseStream(t) ==
  /\ Resumes(t, "closing")
  /\ Becomes(t, [turn[t] EXCEPT !.at = "ended", !.shown = @ \cup ({last.outcome} \ {NoTurn})])
  /\ UNCHANGED <<loop, last, store, written, audit, log>>

\* The client of a stream goes away: the turn's task is cancelled.
ClientLeaves(t) ==
  /\ loop = NoTurn
  /\ turn[t].streamed
  /\ turn[t].at \in Awaiting \cup {"closing"}
  /\ Becomes(t, [Over(turn[t]) EXCEPT !.at = "ended",
                                      !.ending = IF turn[t].at = "closing" THEN @ ELSE "left"])
  /\ UNCHANGED <<loop, last, store, written, audit, log>>

-----------------------------------------------------------------------------
\* What the event loop does with a turn it is running.
LoopStep(t) ==
  \/ DispatchPrefixed(t)
  \/ DispatchRouted(t)
  \/ PathEndsAtOnce(t)
  \/ PlaybookIsEmpty(t)
  \/ \E hit, rows \in BOOLEAN : PathQueries(t, hit, rows)
  \/ PathAwaits(t)
  \/ \E stored \in BOOLEAN : FinishRouted(t, stored)
  \/ FinishPrefixed(t)

\* What the LLM's answers and failures do to a turn that awaits them.
LLMStep(t) ==
  \/ \E d \in Decision : RoutingAnswers(t, d)
  \/ SqlRejected(t)
  \/ \E hit, rows \in BOOLEAN : SqlRuns(t, hit, rows)
  \/ SqlFails(t)
  \/ AnswerChunk(t)
  \/ \E ungrounded \in BOOLEAN : AnswerEnds(t, ungrounded)
  \/ \E generated, ungrounded \in BOOLEAN : AgentEnds(t, generated, ungrounded)
  \/ CallFails(t)
  \/ Raises(t)

Next ==
  \E t \in Turn :
    \/ \E expired \in SUBSET Session : Start(t, expired)
    \/ LoopStep(t)
    \/ LLMStep(t)
    \/ Timeout(t)
    \/ CloseStream(t)
    \/ ClientLeaves(t)

Done == (\A t \in Turn : turn[t].at = "ended") /\ UNCHANGED vars

Spec == Init /\ [][Next \/ Done]_vars

\* The loop runs what is ready, the deadline's timer fires, and a stream is read
\* to its end.  Nothing is assumed of the LLM, and nobody has to ask.
Fairness ==
  \A t \in Turn : WF_vars(LoopStep(t)) /\ WF_vars(Timeout(t)) /\ WF_vars(CloseStream(t))

FairSpec == Spec /\ Fairness

-----------------------------------------------------------------------------
(* Properties *)

Endings == {"none", "answered", "bypassed", "timeout", "raised", "left"}

TypeOK ==
  /\ loop \in Turn \cup {NoTurn}
  /\ \A t \in Turn :
       /\ turn[t].at \in {"ready", "closing", "ended"} \cup Awaiting \cup Active
       /\ turn[t].at \in Active <=> loop = t
       /\ turn[t].ending \in Endings
       /\ turn[t].decision \in Decision \cup {"none"}
       /\ Len(turn[t].text) <= MaxChunks + 1
  /\ \A f \in {"result", "sql", "hit", "verified", "outcome"} : last[f] \in Turn \cup {NoTurn}
  /\ \A s \in Session :
       /\ Len(store[s].history) <= HistorySize
       /\ Len(store[s].results) <= WorkingSetSize

Messages(turns) ==
  [i \in 1..(2 * Len(turns)) |->
     IF i % 2 = 1 THEN [role |-> "user", of |-> turns[(i + 1) \div 2]]
                  ELSE [role |-> "assistant", of |-> turns[i \div 2]]]

\* Endings of a turn that gave its session an answer.
Conversed == {"answered", "bypassed"}

\* A session's history is the end of its conversation: question and answer of
\* each turn together, in the order the turns ended, nothing of another session
\* and nothing of a turn that gave no answer, however the turns interleaved.
HistoryIsTheConversation ==
  \A s \in Session :
    /\ store[s].history = Bounded(HistorySize, Messages(log[s]))
    /\ \A i \in DOMAIN log[s] :
         turn[log[s][i]].session = s /\ turn[log[s][i]].ending \in Conversed

\* What the audit trail says of a turn: an entry in the file, or the warning that
\* it could not be written.
Entries(t) == {i \in DOMAIN audit : audit[i].of = t /\ audit[i].stored}
Warnings(t) == {i \in DOMAIN audit : audit[i].of = t /\ ~audit[i].stored}

\* With auditing on, a routed turn that was answered is in the trail exactly once, as
\* an entry or, if the write failed, as a warning: never both, and the user has the
\* answer either way ("an audit failure must never break a user request", audit.py).
\* No other turn is, and none at all with auditing off.  Only an answered turn has
\* left something in a working set, whether or not its entry was written.
RecordedOrNot ==
  /\ \A t \in Turn :
       Cardinality(Entries(t)) + Cardinality(Warnings(t))
         = (IF AuditEnabled /\ turn[t].ending = "answered" THEN 1 ELSE 0)
  /\ \A s \in Session : \A i \in DOMAIN store[s].results :
       LET t == store[s].results[i].label
       IN turn[t].ending = "answered" /\ turn[t].session = s

\* A turn that no other turn overlapped leaves records of its own work only: what
\* the turns before it left on the orchestrator never shows.
SoloTurnIsItsOwn ==
  \A t \in {u \in Turn : ~turn[u].overlapped} :
    /\ \A s \in Session : \A i \in DOMAIN store[s].results :
         store[s].results[i].label = t => store[s].results[i].result = t
    /\ \A i \in DOMAIN audit :
         audit[i].of = t => audit[i].shown \subseteq {t}
    /\ turn[t].ending # "raised" => turn[t].shown \subseteq {t}

\* A stream that ends with "done" has sent the answer the conversation remembers,
\* in the same order and without repeats, but for the caveat of the verification,
\* unless a narration broke off and the answer is the error's message; after a
\* deadline the last it sent is the message of the deadline.
StreamSaysTheAnswer ==
  \A t \in Turn :
    turn[t].streamed =>
      /\ turn[t].ending = "answered" =>
           turn[t].answer \in {turn[t].text, turn[t].text \o Caveat, Message}
      /\ turn[t].ending = "bypassed" =>
           turn[t].answer \in {turn[t].text, turn[t].text \o Caveat}
      /\ turn[t].ending = "timeout" => IsSuffix(Late, turn[t].text)

\* Every turn comes to its end, even if the LLM never answers: there are finitely
\* many, and from some moment on none is under way.
TurnEnds == <>[](Running = {})

-----------------------------------------------------------------------------
(* What the documentation promises and the code does not keep                *)

\* "label: the question that produced this result": an entry of a working set
\* was made by the turn it is labelled with.
LabelIsTheQuestion ==
  \A s \in Session : \A i \in DOMAIN store[s].results :
    store[s].results[i].result = store[s].results[i].label
=============================================================================
