------------------------------ MODULE AgentLoop ------------------------------
(***************************************************************************)
(* app/orchestrator/agent.py: ReasoningAgent.run, its tools and its forced  *)
(* landing, as Orchestrator._run_investigate_path calls it, on top of the   *)
(* LLM client.                                                              *)
(*                                                                         *)
(* One agent serves all turns of a company.  It keeps the session's working *)
(* set, the results of the turn and the tokens of the SQL generator on      *)
(* itself, so an investigation that starts while another awaits the LLM     *)
(* replaces them.  Between two awaits a turn has the loop to itself.        *)
(*                                                                         *)
(* A result is named by the turn that can rightly cite it.                  *)
(***************************************************************************)
EXTENDS LLMClient, Sequences, FiniteSets

CONSTANTS
  MaxSteps,     \* agent_max_steps
  TimeBudget,   \* agent_time_budget_s, in ticks
  TokenBudget,  \* agent_token_budget
  NoTurn        \* no investigation has run yet

ASSUME LoopAssumption ==
  /\ MaxSteps \in Nat \ {0}
  /\ TimeBudget \in Nat /\ TimeBudget < Deadline
  /\ TokenBudget \in Nat
  /\ NoTurn \notin Caller

VARIABLES
  pc,           \* where each turn is in run
  step,         \* step_number
  tokens,       \* trace.input_tokens
  calls,        \* how many trace.calls has, and observations
  results,      \* the local results, which the answer is verified against
  workingSet,   \* self._working_set: whose session's
  turnResults,  \* self._turn_results
  sqlTokens,    \* self._sqlgen_tokens
  overlapped,   \* history: turns that were in run while another one was
  reason        \* trace.stopped_because

traceVars == <<step, tokens, calls, results, reason>>
agentVars == <<workingSet, turnResults, sqlTokens>>
loopVars == <<pc, traceVars, agentVars, overlapped>>
vars == <<clientVars, loopVars>>

Running(t) == pc[t] \in {"plan", "sql", "land"}
Finished(t) == pc[t] \in {"answered", "landed", "failed", "cancelled"}
To(t, place) == pc' = [pc EXCEPT ![t] = place]

LoopInit ==
  /\ ClientInit
  /\ pc = [t \in Caller |-> "idle"]
  /\ step = [t \in Caller |-> 0]
  /\ tokens = [t \in Caller |-> 0]
  /\ calls = [t \in Caller |-> 0]
  /\ results = [t \in Caller |-> <<>>]
  /\ workingSet = NoTurn
  /\ turnResults = <<>>
  /\ sqlTokens = 0
  /\ overlapped = {}
  /\ reason = [t \in Caller |-> "none"]

-----------------------------------------------------------------------------
(* The loop *)

\* Mutant: the fields of the last investigation are kept.
StartDirty(t) ==
  /\ workingSet' = t
  /\ UNCHANGED <<turnResults, sqlTokens>>

\* The assignments at the top of run.
StartFields(t) ==
  /\ workingSet' = t
  /\ turnResults' = <<>>
  /\ sqlTokens' = 0

\* The agent is entered and asks for its first step.
Start(t) ==
  /\ pc[t] = "idle"
  /\ To(t, "plan")
  /\ StartFields(t)
  /\ step' = [step EXCEPT ![t] = 1]
  /\ BeginCall(t, "structured")
  /\ overlapped' = IF \E u \in Caller : Running(u)
                     THEN overlapped \cup {t} \cup {u \in Caller : Running(u)}
                     ELSE overlapped
  /\ UNCHANGED <<tokens, calls, results, reason, elapsed, moneyVars>>

\* Mutant: the step budget is not looked at.
NoStepBudget(t) ==
  IF elapsed[t] > TimeBudget THEN "time_budget"
  ELSE IF tokens'[t] > TokenBudget THEN "token_budget"
  ELSE "none"

\* Why the loop does not take another step: the for loop is exhausted, or one
\* of the checks at its top.
Exhausted(t) ==
  IF step[t] = MaxSteps THEN "step_budget"
  ELSE IF elapsed[t] > TimeBudget THEN "time_budget"
  ELSE IF tokens'[t] > TokenBudget THEN "token_budget"
  ELSE "none"

\* The next iteration, or the forced landing over what was gathered.  (_land's
\* fixed text without observations needs a budget that binds before the first
\* step.)
Iterate(t) ==
  IF Exhausted(t) = "none"
    THEN /\ To(t, "plan")
         /\ step' = [step EXCEPT ![t] = @ + 1]
         /\ BeginCall(t, "structured")
         /\ UNCHANGED reason
    ELSE /\ To(t, "land")
         /\ reason' = [reason EXCEPT ![t] = Exhausted(t)]
         /\ \E method \in {"call", "stream"} : BeginCall(t, method)
         /\ UNCHANGED step

\* trace.calls, the observations and the two lists of results.
Observe(t, found) ==
  /\ calls' = [calls EXCEPT ![t] = @ + 1]
  /\ results' = [results EXCEPT ![t] = @ \o found]
  /\ turnResults' = turnResults \o found

\* Tokens of the planning call, counted as soon as it returns.
CountPlan(t) == tokens' = [tokens EXCEPT ![t] = @ + usage[t]]

Planned(t) == pc[t] = "plan" /\ at[t] = "answer"

\* search_catalogue, resolve_entity and glossary: text for the next prompt.
\* What a tool rejects or raises is an observation too (_execute).
Lookup(t) ==
  /\ Planned(t)
  /\ CountPlan(t)
  /\ Observe(t, <<>>)
  /\ Iterate(t)
  /\ UNCHANGED <<workingSet, sqlTokens, overlapped, moneyVars, elapsed>>

\* run_view, through the cache (ViewRows).
RunView(t) ==
  /\ Planned(t)
  /\ CountPlan(t)
  /\ Observe(t, <<t>>)
  /\ Iterate(t)
  /\ UNCHANGED <<workingSet, sqlTokens, overlapped, moneyVars, elapsed>>

\* use_previous_result: the turn's results come first, then the working set.
Pool == turnResults \o (IF workingSet = NoTurn THEN <<>> ELSE <<workingSet>>)

RefineResult(t, i) ==
  /\ Planned(t)
  /\ CountPlan(t)
  /\ Observe(t, <<Pool[i]>>)
  /\ Iterate(t)
  /\ UNCHANGED <<workingSet, sqlTokens, overlapped, moneyVars, elapsed>>

\* run_sql: the generator is asked for a statement.
AskSql(t) ==
  /\ Planned(t)
  /\ CountPlan(t)
  /\ To(t, "sql")
  /\ BeginCall(t, "call")
  /\ UNCHANGED <<step, calls, results, reason, agentVars,
                 overlapped, moneyVars, elapsed>>

\* The statement is there: its tokens are counted on the agent, then it is
\* validated and run, or not.
SqlAnswered(t, found) ==
  /\ pc[t] = "sql"
  /\ at[t] = "answer"
  /\ sqlTokens' = sqlTokens + usage[t]
  /\ UNCHANGED tokens
  /\ Observe(t, found)
  /\ Iterate(t)
  /\ UNCHANGED <<workingSet, overlapped, moneyVars, elapsed>>

\* Mutant: the exception of the tool is not caught.
SqlFailureKills(t) ==
  /\ pc[t] = "sql"
  /\ at[t] = "error"
  /\ To(t, "failed")
  /\ Leave(t)
  /\ UNCHANGED <<traceVars, agentVars, overlapped>>

\* The generator's call raised: a tool fault must not kill the turn.
SqlFailed(t) ==
  /\ pc[t] = "sql"
  /\ at[t] = "error"
  /\ UNCHANGED tokens
  /\ Observe(t, <<>>)
  /\ Iterate(t)
  /\ UNCHANGED <<workingSet, sqlTokens, overlapped, moneyVars, elapsed>>

\* action = "answer"
AnswerStep(t) ==
  /\ Planned(t)
  /\ To(t, "answered")
  /\ Leave(t)
  /\ tokens' = [tokens EXCEPT ![t] = @ + usage[t] + sqlTokens]
  /\ reason' = [reason EXCEPT ![t] = "answered"]
  /\ UNCHANGED <<step, calls, results, agentVars, overlapped>>

\* Mutant: the landing forgets the SQL generator's tokens.
LandedShort(t) ==
  /\ pc[t] = "land"
  /\ at[t] = "answer"
  /\ To(t, "landed")
  /\ Leave(t)
  /\ tokens' = [tokens EXCEPT ![t] = @ + usage[t]]
  /\ UNCHANGED <<step, calls, results, reason, agentVars, overlapped>>

\* _land has its text.
Landed(t) ==
  /\ pc[t] = "land"
  /\ at[t] = "answer"
  /\ To(t, "landed")
  /\ Leave(t)
  /\ tokens' = [tokens EXCEPT ![t] = @ + usage[t] + sqlTokens]
  /\ UNCHANGED <<step, calls, results, reason, agentVars, overlapped>>

\* What structured_call and the landing raise leaves run.
RunRaises(t) ==
  /\ pc[t] \in {"plan", "land"}
  /\ at[t] = "error"
  /\ To(t, "failed")
  /\ Leave(t)
  /\ UNCHANGED <<traceVars, agentVars, overlapped>>

\* The deadline passed in one of run's awaits; nothing of run catches it.
RunCancelled(t) ==
  /\ Running(t)
  /\ at[t] = "cancelled"
  /\ To(t, "cancelled")
  /\ Leave(t)
  /\ UNCHANGED <<traceVars, agentVars, overlapped>>

LlmStep(t) == CallStep(t) /\ UNCHANGED loopVars

RunStep(t) ==
  \/ LlmStep(t)
  \/ Lookup(t)
  \/ RunView(t)
  \/ \E i \in DOMAIN Pool : RefineResult(t, i)
  \/ AskSql(t)
  \/ \E found \in {<<>>, <<t>>} : SqlAnswered(t, found)
  \/ SqlFailed(t)
  \/ AnswerStep(t)
  \/ Landed(t)
  \/ RunRaises(t)
  \/ RunCancelled(t)

Next == \E t \in Caller : Start(t) \/ RunStep(t)

Fair == \A t \in Caller : WF_vars(RunStep(t))

Spec == LoopInit /\ [][Next]_vars /\ Fair

-----------------------------------------------------------------------------
(* Properties *)

AgentTypeOK ==
  /\ ClientTypeOK
  /\ pc \in [Caller -> {"idle", "plan", "sql", "land", "answered", "landed",
                        "failed", "cancelled"}]
  /\ step \in [Caller -> 0..MaxSteps]
  /\ tokens \in [Caller -> Nat]
  /\ calls \in [Caller -> 0..MaxSteps]
  /\ results \in [Caller -> Seq(Caller)]
  /\ workingSet \in Caller \cup {NoTurn}
  /\ turnResults \in Seq(Caller)
  /\ sqlTokens \in Nat
  /\ overlapped \subseteq Caller
  /\ reason \in [Caller -> {"none", "answered", "step_budget", "time_budget",
                            "token_budget"}]

\* An investigation that had the agent to itself cites results of its own
\* session only, whatever investigations came before it, and the positions its
\* use_previous_result counts are those of its own results.
SoloInvestigationIsItsOwn ==
  \A t \in Caller \ overlapped :
    /\ \A i \in DOMAIN results[t] : results[t][i] = t
    /\ Running(t) => turnResults = results[t] /\ workingSet = t

\* The tokens such an investigation reports are those of every reply it got, the
\* SQL generator's included, but for the replies structured_call threw away.
TokensAccounted ==
  \A t \in Caller \ overlapped :
    pc[t] \in {"answered", "landed"} => tokens[t] = billed[t] - wasted[t]

Dearest(t) == CHOOSE c \in Cost[t] : \A d \in Cost[t] : d <= c

\* No budget is exact, since each is looked at between two steps only, but all
\* of them bound the work: a tool call a step, and tokens beyond the budget for
\* no more than the last planning reply, the landing, and what the budget does
\* not count until the end, a discarded reply and an SQL reply a step.
WorkIsBounded ==
  \A t \in Caller :
    /\ calls[t] <= MaxSteps
    /\ billed[t] <= TokenBudget + (2 + 2 * MaxSteps) * Dearest(t)

\* An investigation fails only on a planning call or on the landing: a tool that
\* raises, the SQL generator's LLM call included, costs it a step.
ToolFaultIsNotFatal ==
  \A t \in Caller : pc[t] = "failed" => kind[t] = "structured" \/ reason[t] # "none"

\* An investigation ends, with an answer or without: every await ends by its
\* timeout, and the turn's deadline cancels what is left.
InvestigationEnds == \A t \in Caller : Running(t) ~> Finished(t)

\* "Whichever binds first, the loop stops and still produces an answer from what
\* it has": an investigation that gathered something is never cut off without
\* an answer.
GatheredIsAnswered ==
  \A t \in Caller : pc[t] = "cancelled" => calls[t] = 0
=============================================================================
